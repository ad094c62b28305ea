---------------------------- MODULE MCTargetCache ----------------------------
(* The TLC instance of TargetCache, whose constants are in TargetCache.cfg. *)
EXTENDS TargetCache
=============================================================================
