--------------------------- MODULE MCStatsRegistry ---------------------------
(* TLC instances of StatsRegistry.                                         *)
EXTENDS StatsRegistry
=============================================================================
