---------------------------- MODULE MCTcpListener ----------------------------
(* TLC instances of TcpListener, and what the command line's help says of  *)
(* the cap.                                                                *)
EXTENDS TcpListener

\* cli.rs:69, "Maximum concurrent TCP connections across all listen ports; new
\* accepts block once reached": a connection in the backlog is accepted unless
\* the number of connections in service reaches the cap.
AcceptedBelowCap ==
  \A c \in Conns : StageOf(c) = "queued"
    ~> (StageOf(c) # "queued" \/ cancelled \/ Cardinality(InService) = MaxConnections)
=============================================================================
