--------------------------------- MODULE App ---------------------------------
(***************************************************************************)
(* The running process: the life cycle of Runtime composed with the TCP    *)
(* listeners of TcpListener.  They share the root token and the semaphore  *)
(* (runtime.rs:26,33); a listener's task returns when the listener has     *)
(* come to the end of its run(), and nothing runs after the process exits. *)
(* The panic of a TCP listener, which aborts its proxies, is left out.     *)
(***************************************************************************)
EXTENDS Runtime

CONSTANTS
  Conns,          \* bound: the connections clients ever open
  MaxConnections, \* --max-tcp-connections
  NoConn          \* no connection, no port

ASSUME AppAssumption ==
  /\ IsFiniteSet(Conns)
  /\ MaxConnections \in Nat \ {0}   \* RuntimeConfig::new rejects zero

VARIABLES permits, waiters, lpc, taken, backlog, conn, accepted, active, closed

tcpVars == <<permits, waiters, lpc, taken, backlog, conn, accepted, active, closed>>
appVars == <<runtimeVars, tcpVars>>

Tcp == INSTANCE TcpListener WITH cancelled <- token

AppInit == RuntimeInit /\ Tcp!Init

\* Steps of the life cycle that the listeners neither take nor see.
Lifecycle ==
  /\ \/ Configure \/ ConfigFails \/ Starting \/ BindFails \/ SignalReceived \/ SignalFails \/ Joining
     \/ \E t \in Planned \ TcpTasks : TaskReturns(t) \/ TaskFails(t) \/ OrphanCloses(t)
     \/ Serving \/ Exited
  /\ UNCHANGED tcpVars

\* Mutant of TellListeners: the token is forgotten, and a listener that waits in
\* accept() waits on.
TellListenersSilent ==
  /\ \/ /\ phase = "cancel" /\ phase' = "close" /\ UNCHANGED <<semClosed, waiters>>
     \/ /\ phase = "close" /\ phase' = "join" /\ semClosed' = TRUE /\ waiters' = <<>>
  /\ UNCHANGED <<token, config, outcome, joined, firstError, bound, task, request,
                 permits, lpc, taken, backlog, conn, accepted, active, closed>>

\* What shutdown() tells the listeners.
TellListeners == (Cancel /\ Tcp!Cancel) \/ (CloseSemaphore /\ Tcp!CloseSemaphore)

\* The part of the life cycle a listener does not change.
OwnStep == UNCHANGED runtimeVars

ListenerStep(p) ==
  /\ Runs(TcpTask(p))
  /\ \/ Tcp!Acquiring(p) \/ Tcp!Accept(p) \/ Tcp!AcceptFail(p) \/ Tcp!Recording(p)
     \/ Tcp!ListenerEnd(p) \/ Tcp!JoinConnections(p)
  /\ OwnStep

ProxyStep(c) ==
  /\ phase # "exited"
  /\ Tcp!ForwardingEnds(c) \/ Tcp!ForwardingStops(c) \/ Tcp!ProxyClose(c)
  /\ OwnStep

\* The kernel completes a connection from the moment the socket is bound.
ClientStep(c, p) ==
  /\ TcpTask(p) \in bound
  /\ Tcp!ClientConnects(c, p)
  /\ OwnStep

\* Mutant of ListenerReturns: run() does not wait for its proxies.
ListenerReturnsEarly(p) ==
  /\ lpc[p] \in {"join", "done"}
  /\ TaskReturns(TcpTask(p))
  /\ UNCHANGED tcpVars

\* The listener's run() has come to its end.
ListenerReturns(p) ==
  /\ lpc[p] = "done"
  /\ TaskReturns(TcpTask(p))
  /\ UNCHANGED tcpVars

AppNext ==
  \/ Lifecycle \/ TellListeners
  \/ \E p \in Ports : ListenerStep(p) \/ ListenerReturns(p) \/ \E c \in Conns : ClientStep(c, p)
  \/ \E c \in Conns : ProxyStep(c)

AppSpec == AppInit /\ [][AppNext]_appVars

(***************************************************************************)
(* main() and the tasks keep running; a listener's token is noticed sooner *)
(* or later.  Nothing is assumed of clients, of the signal, or of faults.  *)
(***************************************************************************)
TaskFairness ==
  /\ \A t \in Tasks \ TcpTasks : 
     WF_appVars(t \in Planned /\ (TaskReturns(t) \/ OrphanCloses(t)) /\ UNCHANGED tcpVars)
  /\ WF_appVars((HttpDrains \/ HttpReturns) /\ UNCHANGED tcpVars)

ListenerFairness(p) ==
  /\ WF_appVars(Runs(TcpTask(p)) /\ (Tcp!Acquiring(p) \/ Tcp!Recording(p)) /\ OwnStep)
  /\ SF_appVars(Runs(TcpTask(p)) /\ Tcp!ListenerEnd(p) /\ OwnStep)
  /\ WF_appVars(Runs(TcpTask(p)) /\ Tcp!JoinConnections(p) /\ OwnStep)
  /\ WF_appVars(ListenerReturns(p))

ProxyFairness(c) ==
  WF_appVars(phase # "exited" /\ (Tcp!ForwardingStops(c) \/ Tcp!ProxyClose(c)) /\ OwnStep)

AppFairSpec ==
  /\ AppSpec
  /\ WF_appVars((Starting \/ Joining) /\ UNCHANGED tcpVars)
  /\ WF_appVars(TellListeners)
  /\ TaskFairness
  /\ \A p \in Ports : ListenerFairness(p)
  /\ \A c \in Conns : ProxyFairness(c)

-----------------------------------------------------------------------------
(* Properties.                                                             *)

\* The composition only ever does what TcpListener's own specification allows,
\* so everything checked and proved about the listeners holds in the process.
\* Their own steps are TcpListener's by definition; what has to be shown is that
\* the life cycle cancels the token before it closes the semaphore and joins.
ImplementsTcpListener == Tcp!Spec

\* When shutdown() has returned no connection is being forwarded, no listener
\* holds a permit or a connection, every permit is back and every connection is
\* off its gauge: the exit cuts no proxy off in the middle of its last steps.
CleanExit ==
  outcome \in {"ok", "taskError"} =>
    /\ permits = MaxConnections
    /\ \A p \in config.ports : lpc[p] = "done"
    /\ \A c \in Conns : conn[c].stage \in {"new", "queued", "ended"}
    /\ \A p \in Ports : active[p] = 0

\* After ctrl-c every socket that forwards is closed, whatever the clients of
\* the statistics endpoint do.
Signalled == phase \in {"cancel", "close", "join"}
ForwardingCloses == Signalled ~> bound \subseteq {Http}

\* After ctrl-c the process exits, unless an HTTP client keeps a request open.
RequestsEnd == \A r \in Requests : WF_appVars(RequestEnds(r) /\ UNCHANGED tcpVars)
ShutdownEnds == RequestsEnd => (Signalled ~> phase = "exited")
=============================================================================
