----------------------------- MODULE PortNumbers -----------------------------
(* The port numbers the parsers and the runtime deal with: u16, with a     *)
(* smaller maximum in TLC's instances.                                     *)
EXTENDS Integers

CONSTANT MaxPort   \* u16::MAX

ASSUME PortsAssumption == MaxPort \in Nat \ {0}

Ports == 1 .. MaxPort
=============================================================================
