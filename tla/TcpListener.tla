----------------------------- MODULE TcpListener -----------------------------
(***************************************************************************)
(* The TCP listeners of all ports (src/src/listener/tcp.rs), the proxy     *)
(* tasks they spawn (src/src/forward/tcp.rs) and the semaphore they share  *)
(* (src/src/runtime.rs).  A listener takes a permit before it accepts and  *)
(* hands it to the connection's proxy, which keeps it until it ends; each  *)
(* listener waits for its own proxies when the process shuts down.         *)
(*                                                                         *)
(* The semaphore is tokio's: fair, so a released permit goes to the first  *)
(* waiter if there is one.  Byte counts are left out.                      *)
(***************************************************************************)
EXTENDS Naturals, SequencesExt, FiniteSets

CONSTANTS
  Ports,           \* listen ports, one listener task each
  Conns,           \* bound: the connections clients ever open
  MaxConnections,  \* --max-tcp-connections
  NoConn           \* a listener's connection, a connection's port: none

ASSUME TcpAssumption ==
  /\ IsFiniteSet(Ports) /\ IsFiniteSet(Conns)
  /\ MaxConnections \in Nat \ {0}   \* RuntimeConfig::new rejects zero

VARIABLES
  cancelled,  \* the root CancellationToken
  semClosed,  \* tcp_semaphore.close() was called
  permits,    \* permits nobody holds
  waiters,    \* ports whose acquire_owned() is queued in the semaphore
  lpc,        \* listener: the point it has reached
  taken,      \* listener: the connection accept() just returned
  backlog,    \* the kernel's accept queue of each port
  conn,       \* the stage each connection has reached
  accepted,   \* PortStats.tcp_accepted
  active,     \* PortStats.tcp_active
  closed      \* PortStats.tcp_closed

semVars   == <<semClosed, permits, waiters>>
statVars  == <<accepted, active, closed>>
vars == <<cancelled, semVars, lpc, taken, backlog, conn, statVars>>

ListenerPoints ==
  {"acquire", "waiting", "granted", "accept", "count", "raise", "spawn", "join", "done"}
Stages == {"new", "queued", "taken", "forward", "lower", "countClose", "release", "ended"}

\* Where a listener holds a permit, where it also holds a connection, and where
\* a proxy task is alive.
HoldingPoints == {"granted", "accept", "count", "raise", "spawn"}
TakenPoints   == {"count", "raise", "spawn"}
ProxyStages   == {"forward", "lower", "countClose", "release"}

\* A connection's stage and the port it came in on.
StageOf(c) == conn[c].stage
PortOf(c)  == conn[c].port

TypeOK ==
  /\ cancelled \in BOOLEAN /\ semClosed \in BOOLEAN
  /\ permits \in 0 .. MaxConnections
  /\ waiters \in Seq(Ports)
  /\ lpc \in [Ports -> ListenerPoints]
  /\ taken \in [Ports -> Conns \cup {NoConn}]
  /\ backlog \in [Ports -> Seq(Conns)]
  /\ conn \in [Conns -> [stage : Stages, port : Ports \cup {NoConn}]]
  /\ \A g \in {accepted, active, closed} : g \in [Ports -> Nat]

Init ==
  /\ cancelled = FALSE /\ semClosed = FALSE
  /\ permits = MaxConnections /\ waiters = <<>>
  /\ lpc = [p \in Ports |-> "acquire"]
  /\ taken = [p \in Ports |-> NoConn]
  /\ backlog = [p \in Ports |-> <<>>]
  /\ conn = [c \in Conns |-> [stage |-> "new", port |-> NoConn]]
  /\ accepted = [p \in Ports |-> 0]
  /\ active = accepted /\ closed = accepted

Stage(c, s) == conn' = [conn EXCEPT ![c].stage = s]
Bump(g, p) == [g EXCEPT ![p] = @ + 1]

-----------------------------------------------------------------------------
(* The semaphore.  Release(f) gives one permit back while the releasing    *)
(* listener, if any, moves on as f says: to the first waiter, or to the    *)
(* free permits.                                                           *)

Release(f) ==
  IF waiters # <<>>
  THEN /\ lpc' = [f EXCEPT ![Head(waiters)] = "granted"]
       /\ waiters' = Tail(waiters)
       /\ UNCHANGED permits
  ELSE /\ permits' = permits + 1
       /\ lpc' = f
       /\ UNCHANGED waiters

-----------------------------------------------------------------------------
(* The listener of port p: take a permit, accept, count, spawn the proxy.  *)

At(p, point) == [lpc EXCEPT ![p] = point]

AcquireNow(p) ==
  /\ lpc[p] = "acquire"
  /\ ~semClosed /\ permits > 0
  /\ permits' = permits - 1
  /\ lpc' = At(p, "accept")
  /\ UNCHANGED <<cancelled, semClosed, waiters, taken, backlog, conn, statVars>>

AcquireWait(p) ==
  /\ lpc[p] = "acquire"
  /\ ~semClosed /\ permits = 0
  /\ waiters' = Append(waiters, p)
  /\ lpc' = At(p, "waiting")
  /\ UNCHANGED <<cancelled, semClosed, permits, taken, backlog, conn, statVars>>

AcquireWake(p) ==
  /\ lpc[p] = "granted"
  /\ ~semClosed
  /\ lpc' = At(p, "accept")
  /\ UNCHANGED <<cancelled, semVars, taken, backlog, conn, statVars>>

LeaveQueue(p) ==
  \/ \E k \in 1 .. Len(waiters) : waiters[k] = p /\ waiters' = RemoveAt(waiters, k)
  \/ (\A k \in 1 .. Len(waiters) : waiters[k] # p) /\ UNCHANGED waiters

\* The token's branch is taken, or acquire_owned() fails because the semaphore
\* is closed; dropping its future leaves the queue, or returns the permit that
\* was already assigned.
AcquireEnd(p) ==
  /\ cancelled \/ semClosed
  /\ \/ lpc[p] = "acquire" /\ lpc' = At(p, "join") /\ UNCHANGED <<permits, waiters>>
     \/ lpc[p] = "waiting" /\ lpc' = At(p, "join") /\ LeaveQueue(p) /\ UNCHANGED permits
     \/ lpc[p] = "granted" /\ Release(At(p, "join"))
  /\ UNCHANGED <<cancelled, semClosed, taken, backlog, conn, statVars>>

Accept(p) ==
  /\ lpc[p] = "accept"
  /\ backlog[p] # <<>>
  /\ taken' = [taken EXCEPT ![p] = Head(backlog[p])]
  /\ Stage(Head(backlog[p]), "taken")
  /\ backlog' = [backlog EXCEPT ![p] = Tail(@)]
  /\ lpc' = At(p, "count")
  /\ UNCHANGED <<cancelled, semVars, statVars>>

\* Mutant of AcceptFail: the permit is not dropped.
AcceptFailKeep(p) ==
  /\ lpc[p] = "accept"
  /\ lpc' = At(p, "acquire")
  /\ UNCHANGED <<cancelled, semVars, taken, backlog, conn, statVars>>

\* accept() fails (for example for want of file descriptors).
AcceptFail(p) ==
  /\ lpc[p] = "accept"
  /\ Release(At(p, "acquire"))
  /\ UNCHANGED <<cancelled, semClosed, taken, backlog, conn, statVars>>

AcceptEnd(p) ==
  /\ lpc[p] = "accept"
  /\ cancelled
  /\ Release(At(p, "join"))
  /\ UNCHANGED <<cancelled, semClosed, taken, backlog, conn, statVars>>

\* record_tcp_accept, one counter at a time.
CountAccept(p) ==
  /\ lpc[p] = "count"
  /\ accepted' = Bump(accepted, p)
  /\ lpc' = At(p, "raise")
  /\ UNCHANGED <<cancelled, semVars, taken, backlog, conn, active, closed>>

RaiseActive(p) ==
  /\ lpc[p] = "raise"
  /\ active' = Bump(active, p)
  /\ lpc' = At(p, "spawn")
  /\ UNCHANGED <<cancelled, semVars, taken, backlog, conn, accepted, closed>>

\* Mutant of Spawn: the permit is dropped by the listener, not moved into the task.
SpawnDropsPermit(p) ==
  /\ lpc[p] = "spawn"
  /\ Stage(taken[p], "forward")
  /\ taken' = [taken EXCEPT ![p] = NoConn]
  /\ Release(At(p, "acquire"))
  /\ UNCHANGED <<cancelled, semClosed, backlog, statVars>>

Spawn(p) ==
  /\ lpc[p] = "spawn"
  /\ Stage(taken[p], "forward")
  /\ taken' = [taken EXCEPT ![p] = NoConn]
  /\ lpc' = At(p, "acquire")
  /\ UNCHANGED <<cancelled, semVars, backlog, statVars>>

\* Mutant of JoinConnections: the JoinSet is dropped, not joined.
JoinNothing(p) ==
  /\ lpc[p] = "join"
  /\ lpc' = At(p, "done")
  /\ UNCHANGED <<cancelled, semVars, taken, backlog, conn, statVars>>

Spawned(p) == {c \in Conns : PortOf(c) = p /\ StageOf(c) \in ProxyStages}

\* join_next() until the JoinSet is empty.
JoinConnections(p) ==
  /\ lpc[p] = "join"
  /\ Spawned(p) = {}
  /\ lpc' = At(p, "done")
  /\ UNCHANGED <<cancelled, semVars, taken, backlog, conn, statVars>>

-----------------------------------------------------------------------------
(* The proxy of connection c: connect and copy, or stop at the token; then *)
(* record_tcp_close, and at last the permit is dropped with the task.      *)

ForwardingEnds(c) ==
  /\ StageOf(c) = "forward"
  /\ Stage(c, "lower")
  /\ UNCHANGED <<cancelled, semVars, lpc, taken, backlog, statVars>>

\* Mutant of ForwardingStops: proxy does not watch the token.
ForwardingStopsNever(c) == FALSE /\ UNCHANGED vars

ForwardingStops(c) ==
  /\ StageOf(c) = "forward"
  /\ cancelled
  /\ Stage(c, "lower")
  /\ UNCHANGED <<cancelled, semVars, lpc, taken, backlog, statVars>>

\* Mutant of LowerActive: the close is recorded only when forwarding succeeded.
LowerActiveMissing(c) ==
  /\ StageOf(c) = "lower"
  /\ Stage(c, "countClose")
  /\ UNCHANGED <<cancelled, semVars, lpc, taken, backlog, statVars>>

LowerActive(c) ==
  /\ StageOf(c) = "lower"
  /\ active' = [active EXCEPT ![PortOf(c)] = IF @ > 0 THEN @ - 1 ELSE 0]
  /\ Stage(c, "countClose")
  /\ UNCHANGED <<cancelled, semVars, lpc, taken, backlog, accepted, closed>>

CountClose(c) ==
  /\ StageOf(c) = "countClose"
  /\ closed' = Bump(closed, PortOf(c))
  /\ Stage(c, "release")
  /\ UNCHANGED <<cancelled, semVars, lpc, taken, backlog, accepted, active>>

\* Mutant of ReleasePermit: the permit is forgotten, not dropped.
ReleasePermitForgotten(c) ==
  /\ StageOf(c) = "release"
  /\ Stage(c, "ended")
  /\ UNCHANGED <<cancelled, semVars, lpc, taken, backlog, statVars>>

ReleasePermit(c) ==
  /\ StageOf(c) = "release"
  /\ Release(lpc)
  /\ Stage(c, "ended")
  /\ UNCHANGED <<cancelled, semClosed, taken, backlog, statVars>>

-----------------------------------------------------------------------------
(* Clients, and the two steps of RunningApp::shutdown that listeners see.  *)

ClientConnects(c, p) ==
  /\ StageOf(c) = "new"
  /\ lpc[p] # "done"
  /\ conn' = [conn EXCEPT ![c] = [stage |-> "queued", port |-> p]]
  /\ backlog' = [backlog EXCEPT ![p] = Append(@, c)]
  /\ UNCHANGED <<cancelled, semVars, lpc, taken, statVars>>

Cancel ==
  /\ ~cancelled
  /\ cancelled' = TRUE
  /\ UNCHANGED <<semVars, lpc, taken, backlog, conn, statVars>>

\* close() also empties the queue: every waiter is woken with an error.
CloseSemaphore ==
  /\ cancelled /\ ~semClosed
  /\ semClosed' = TRUE
  /\ waiters' = <<>>
  /\ UNCHANGED <<cancelled, permits, lpc, taken, backlog, conn, statVars>>

Finished == semClosed /\ \A p \in Ports : lpc[p] = "done"

\* The listeners' tasks have returned.
Terminated == Finished /\ UNCHANGED vars

-----------------------------------------------------------------------------
Acquiring(p) == AcquireNow(p) \/ AcquireWait(p) \/ AcquireWake(p)
Recording(p) == CountAccept(p) \/ RaiseActive(p) \/ Spawn(p)
ListenerEnd(p) == AcquireEnd(p) \/ AcceptEnd(p)
ProxyClose(c) == LowerActive(c) \/ CountClose(c) \/ ReleasePermit(c)

Next ==
  \/ \E p \in Ports : \/ Acquiring(p) \/ Accept(p) \/ AcceptFail(p) \/ Recording(p)
                      \/ ListenerEnd(p) \/ JoinConnections(p)
                      \/ \E c \in Conns : ClientConnects(c, p)
  \/ \E c \in Conns : ForwardingEnds(c) \/ ForwardingStops(c) \/ ProxyClose(c)
  \/ Cancel \/ CloseSemaphore \/ Terminated

Spec == Init /\ [][Next]_vars

(***************************************************************************)
(* The tasks keep running, and a select! whose token stays cancelled takes *)
(* that branch sooner or later.                                            *)
(***************************************************************************)
Fairness ==
  /\ \A p \in Ports : /\ WF_vars(Acquiring(p) \/ Recording(p))
                      /\ SF_vars(ListenerEnd(p))
                      /\ WF_vars(JoinConnections(p))
  /\ \A c \in Conns : WF_vars(ForwardingStops(c)) /\ WF_vars(ProxyClose(c))
  /\ WF_vars(CloseSemaphore)

FairSpec == Spec /\ Fairness

\* What clients and the kernel must do for every client to get its turn:
\* connections end, and accept() does not fail for ever.
EndingClients ==
  /\ \A c \in Conns : WF_vars(ForwardingEnds(c))
  /\ \A p \in Ports : SF_vars(Accept(p))

EndingSpec == FairSpec /\ EndingClients

-----------------------------------------------------------------------------
(* Properties.                                                             *)

ListenersHolding == {p \in Ports : lpc[p] \in HoldingPoints}
ProxiesHolding == {c \in Conns : StageOf(c) \in ProxyStages}

\* A permit is free, with a listener on its way to a connection, or with one
\* proxy; none is lost in a failed accept, an abandoned acquire or a shutdown,
\* and none is duplicated.
PermitsConserved ==
  permits + Cardinality(ListenersHolding) + Cardinality(ProxiesHolding) = MaxConnections

\* tcp_active counts exactly the connections between their accept and their
\* close: no decrement is lost to saturation and none is missing, whatever way
\* the connection ended.
ActiveIsExact ==
  \A p \in Ports :
    active[p] = Cardinality({c \in Conns : PortOf(c) = p /\ StageOf(c) \in {"forward", "lower"}})
                + (IF lpc[p] = "spawn" THEN 1 ELSE 0)

\* A listener does not return while one of its connections is still running,
\* so the process cannot exit in the middle of a proxy's last steps.
ListenerOutlivesProxies == \A p \in Ports : lpc[p] = "done" => Spawned(p) = {}

\* The cap of --max-tcp-connections, as its user sees it.
InService == {c \in Conns : StageOf(c) \in ProxyStages \cup {"taken"}}
Ended == {c \in Conns : StageOf(c) = "ended"}
Limit == INSTANCE ConnectionLimit WITH inService <- InService, ended <- Ended
ImplementsLimit == Limit!Spec

\* After the signal every listener returns, with connections open, waiting
\* listeners and failing accepts or not.
ShutdownCompletes == cancelled ~> Finished

\* With clients that end, a connection in the backlog is accepted in the end:
\* whichever ports are busy, every listener gets a permit again.
BacklogAccepted ==
  EndingClients =>
    \A c \in Conns : StageOf(c) = "queued" ~> (StageOf(c) # "queued" \/ cancelled)

-----------------------------------------------------------------------------
(* The inductive invariant behind PermitsConserved and ImplementsLimit.    *)

\* Who queues for a permit waits for it, once.
WaitersInv ==
  /\ \A i \in 1 .. Len(waiters) : lpc[waiters[i]] = "waiting"
  /\ \A i, j \in 1 .. Len(waiters) : waiters[i] = waiters[j] => i = j

\* A connection in a backlog is in that one, once.
BacklogInv ==
  \A p \in Ports :
    /\ \A i \in 1 .. Len(backlog[p]) : conn[backlog[p][i]] = [stage |-> "queued", port |-> p]
    /\ \A i, j \in 1 .. Len(backlog[p]) : backlog[p][i] = backlog[p][j] => i = j

\* A listener that holds a connection is the only one to do so.
TakenInv ==
  /\ \A p \in Ports : lpc[p] \in TakenPoints =>
       taken[p] \in Conns /\ conn[taken[p]] = [stage |-> "taken", port |-> p]
  /\ \A c \in Conns : StageOf(c) = "taken" =>
       PortOf(c) \in Ports /\ lpc[PortOf(c)] \in TakenPoints /\ taken[PortOf(c)] = c

IInv ==
  /\ TypeOK /\ WaitersInv /\ BacklogInv /\ TakenInv
  /\ PermitsConserved /\ ListenerOutlivesProxies
=============================================================================
