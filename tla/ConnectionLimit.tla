--------------------------- MODULE ConnectionLimit ---------------------------
(***************************************************************************)
(* What --max-tcp-connections promises to its user: over all listen ports, *)
(* at most MaxConnections connections are in service at a time, and a      *)
(* connection is put into service once and taken out of it once.           *)
(***************************************************************************)
EXTENDS Naturals, FiniteSets

CONSTANTS Conns, MaxConnections

VARIABLES inService, ended

Init == inService = {} /\ ended = {}

Open(c) ==
  /\ c \in Conns \ (inService \cup ended)
  /\ Cardinality(inService) < MaxConnections
  /\ inService' = inService \cup {c}
  /\ UNCHANGED ended

Close(c) ==
  /\ c \in inService
  /\ inService' = inService \ {c}
  /\ ended' = ended \cup {c}

Next == \E c \in Conns : Open(c) \/ Close(c)

Spec == Init /\ [][Next]_<<inService, ended>>
=============================================================================
