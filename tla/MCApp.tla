-------------------------------- MODULE MCApp --------------------------------
(* TLC instances of App.                                                   *)
EXTENDS App
=============================================================================
