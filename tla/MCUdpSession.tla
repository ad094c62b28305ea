---------------------------- MODULE MCUdpSession ----------------------------
(* TLC instances of UdpSession, and the statements of the repository's own *)
(* documentation that the code does not keep.                              *)
EXTENDS UdpSession, TLC

\* The sources are interchangeable; used by the runs without liveness only.
Symmetry == Permutations(Sources)

\* README.md:102, "Idle sessions are evicted after --udp-idle-timeout", and
\* the comment at udp_session.rs:265-270, the timeout reclaims a session "if
\* traffic truly stops": when cleanup takes a session out of the table, its
\* last touch is a timeout ago.
EvictsOnlyIdle ==
  [][(cpc = "sweep" /\ cpc' = "retire") => IdleSeconds(ccur') >= TimeoutSeconds]_vars

\* tests/udp_forward.rs:82,132,210 read udp_active_flows as the number of
\* clients with a session: with no listing, removal or creation under way it
\* is the number of entries of the table.
GaugeMatchesTable ==
  (lpc = "select" /\ cpc = "wait" /\ \A s \in Ids : rpc[s] # "retire")
    => flows = Cardinality(Live)
=============================================================================
