---------------------------- MODULE RuntimeProofs ----------------------------
(***************************************************************************)
(* Proofs of the safety properties of Runtime, for every number of ports   *)
(* and every set of HTTP requests.                                         *)
(***************************************************************************)
EXTENDS Runtime, TLAPS

\* What join_next() has seen: shutdown() keeps an error exactly when a task it
\* has joined failed, and returns only with every task joined.
JoinInv ==
  /\ \A t \in joined : Ended(t) /\ (task[t] = "failed" => firstError # NoTask)
  /\ firstError # NoTask => task[firstError] = "failed"
  /\ phase # "exited" => outcome = "none"
  /\ outcome \in {"ok", "taskError"} => joined = Planned
  /\ outcome = "ok" => firstError = NoTask
  /\ outcome = "taskError" => firstError # NoTask

\* Only the tasks of the configuration ever exist.
PlanInv ==
  /\ phase = "config" => config = NoConfig
  /\ \A t \in Tasks \ Planned : task[t] = "none"

RuntimeIInv == RuntimeTypeOK /\ SocketsOfTasks /\ JoinInv /\ PlanInv

-----------------------------------------------------------------------------
(* Task numbers.                                                           *)

LEMMA TaskNumbers ==
  /\ \A p \in Ports : TcpTask(p) \in 1 .. 2 * MaxPort /\ UdpTask(p) \in 1 .. 2 * MaxPort
  /\ Rollup \in Tasks /\ Summary \in Tasks /\ Http \in Tasks
  /\ NoTask \notin Tasks
  /\ Http \notin UdpTasks /\ Http \notin TcpTasks
BY PortsAssumption DEF Ports, TcpTask, UdpTask, Rollup, Summary, Http, Tasks, NoTask, TcpTasks, UdpTasks

LEMMA PlannedTasks ==
  ASSUME config \in Configs \cup {NoConfig}
  PROVE  Sockets \subseteq Planned /\ Planned \subseteq Tasks /\ NoTask \notin Planned
<1>1. config.ports \subseteq Ports
  BY DEF Configs, NoConfig
<1>2. 1 .. 2 * MaxPort \subseteq Tasks
  BY PortsAssumption DEF Tasks, Rollup
<1>3. Sockets \subseteq Tasks
  BY <1>1, <1>2, TaskNumbers DEF Sockets
<1> QED BY <1>3, TaskNumbers DEF Planned

-----------------------------------------------------------------------------
LEMMA RuntimeInitInv == RuntimeInit => RuntimeIInv
<1> SUFFICES ASSUME RuntimeInit PROVE RuntimeIInv
  OBVIOUS
<1>1. RuntimeTypeOK
  BY DEF RuntimeInit, RuntimeTypeOK, Phases, Outcomes, TaskStates
<1>2. SocketsOfTasks
  BY DEF RuntimeInit, SocketsOfTasks
<1>3. JoinInv
  BY DEF RuntimeInit, JoinInv
<1>4. PlanInv
  BY DEF RuntimeInit, PlanInv
<1> QED BY <1>1, <1>2, <1>3, <1>4 DEF RuntimeIInv

\* A task that does not exist yet, or runs, may change: what is joined stays.
LEMMA TaskMoves ==
  ASSUME RuntimeIInv, NEW t \in Planned, NEW state \in TaskStates,
         task[t] \in {"running", "draining"} \/ task[t] = "none",
         Becomes(t, state), phase' \in Phases \ {"config", "exited"}, phase # "exited",
         UNCHANGED <<config, outcome, joined, firstError>>
  PROVE  task' \in [Tasks -> TaskStates] /\ JoinInv' /\ PlanInv'
<1> USE DEF RuntimeIInv
<1>1. t \in Tasks /\ task \in [Tasks -> TaskStates] /\ joined \subseteq Tasks
  BY PlannedTasks DEF RuntimeTypeOK
<1>2. task' \in [Tasks -> TaskStates]
  BY <1>1 DEF Becomes
<1>3. \A j \in Tasks : j # t => task'[j] = task[j]
  BY <1>1 DEF Becomes
<1>4. t \notin joined /\ firstError # t
  <2>1. t # NoTask
    BY PlannedTasks DEF RuntimeTypeOK
  <2> QED BY <2>1 DEF JoinInv, Ended
<1>5. firstError # NoTask => firstError \in Tasks
  BY PlannedTasks DEF RuntimeTypeOK
<1>6. outcome = "none"
  BY DEF JoinInv
<1>7. JoinInv'
  BY <1>1, <1>2, <1>3, <1>4, <1>5, <1>6 DEF JoinInv, Ended
<1>8. PlanInv'
  BY <1>1, <1>3 DEF PlanInv, Planned, Sockets
<1> QED BY <1>2, <1>7, <1>8

LEMMA RuntimeStepInv == RuntimeIInv /\ [RuntimeNext]_runtimeVars => RuntimeIInv'
<1> SUFFICES ASSUME RuntimeIInv, [RuntimeNext]_runtimeVars PROVE RuntimeIInv'
  OBVIOUS
<1>p. Sockets \subseteq Planned /\ Planned \subseteq Tasks /\ NoTask \notin Planned
  BY PlannedTasks DEF RuntimeIInv, RuntimeTypeOK
<1>s. config' = config => Sockets' = Sockets /\ Planned' = Planned
  BY DEF Sockets, Planned
<1> USE DEF RuntimeIInv
<1>1. CASE Configure
  <2>1. UNCHANGED <<outcome, joined, firstError, token, semClosed, bound, task, request>>
    BY <1>1 DEF Configure, flagVars
  <2>2. phase = "config" /\ phase' = "bind" /\ config' \in Configs
    BY <1>1 DEF Configure
  <2>3. config = NoConfig /\ outcome = "none" /\ \A t \in Tasks : task[t] = "none"
    BY <2>2 DEF PlanInv, JoinInv, SocketsOfTasks
  <2>4. Sockets = {} /\ Planned = {Rollup}
    BY <2>3 DEF Sockets, Planned, NoConfig
  <2>5. RuntimeTypeOK'
    <3>1. Planned \subseteq Planned'
      BY <2>4 DEF Planned
    <3> QED BY <2>1, <2>2, <2>4, <3>1 DEF RuntimeTypeOK, Phases
  <2>6. SocketsOfTasks'
    BY <2>1, <2>2, <2>3 DEF SocketsOfTasks
  <2>7. JoinInv'
    BY <2>1, <2>2, <2>3 DEF JoinInv, Ended
  <2>8. PlanInv'
    BY <2>1, <2>2, <2>3 DEF PlanInv
  <2> QED BY <2>5, <2>6, <2>7, <2>8
<1>2. CASE ConfigFails \/ BindFails \/ SignalFails \/ ShutdownReturns
  <2>1. UNCHANGED <<config, joined, firstError, token, semClosed, task, request>>
    BY <1>2 DEF ConfigFails, BindFails, SignalFails, ShutdownReturns, flagVars
  <2>2. phase' = "exited" /\ bound' = {} /\ phase # "exited"
    BY <1>2 DEF ConfigFails, BindFails, SignalFails, ShutdownReturns, Exits
  <2>3. \/ outcome' \in {"configError", "startError", "signalError"}
        \/ joined = Planned /\ outcome' = IF firstError = NoTask THEN "ok" ELSE "taskError"
    BY <1>2 DEF ConfigFails, BindFails, SignalFails, ShutdownReturns, Exits
  <2>4. RuntimeTypeOK'
    BY <1>s, <2>1, <2>2, <2>3 DEF RuntimeTypeOK, Phases, Outcomes
  <2>5. SocketsOfTasks'
    BY <2>2 DEF SocketsOfTasks
  <2>6. JoinInv'
    BY <1>s, <2>1, <2>2, <2>3 DEF JoinInv, Ended
  <2>7. PlanInv'
    BY <1>s, <2>1, <2>2 DEF PlanInv
  <2> QED BY <2>4, <2>5, <2>6, <2>7
<1>3. ASSUME NEW s \in Sockets, Bind(s) PROVE RuntimeIInv'
  <2>1. UNCHANGED <<config, outcome, joined, firstError, token, semClosed, task, request>>
    BY <1>3 DEF Bind, flagVars
  <2>2. /\ phase = "bind" /\ bound' = bound \cup {s}
        /\ phase' = IF bound' = Sockets THEN "spawn" ELSE "bind"
    BY <1>3 DEF Bind
  <2>4. RuntimeTypeOK'
    BY <1>s, <2>1, <2>2 DEF RuntimeTypeOK, Phases
  <2>5. SocketsOfTasks'
    BY <1>p, <1>s, <2>1, <2>2 DEF SocketsOfTasks
  <2>6. JoinInv'
    BY <1>s, <2>1, <2>2 DEF JoinInv, Ended
  <2>7. PlanInv'
    BY <1>s, <2>1, <2>2 DEF PlanInv
  <2> QED BY <2>4, <2>5, <2>6, <2>7
<1>4. ASSUME NEW t \in Planned, Spawn(t) PROVE RuntimeIInv'
  <2>1. UNCHANGED <<config, outcome, joined, firstError, token, semClosed, bound, request>>
    BY <1>4 DEF Spawn, flagVars
  <2>2. phase = "spawn" /\ phase' \in {"spawn", "up"} /\ task[t] = "none" /\ Becomes(t, "running")
    BY <1>4 DEF Spawn, First, NotSpawned
  <2>3. task' \in [Tasks -> TaskStates] /\ JoinInv' /\ PlanInv'
    BY <2>1, <2>2, TaskMoves DEF Phases, TaskStates
  <2>4. RuntimeTypeOK'
    BY <1>s, <2>1, <2>2, <2>3 DEF RuntimeTypeOK, Phases
  <2>5. SocketsOfTasks'
    BY <1>p, <1>s, <2>1, <2>2 DEF SocketsOfTasks, Becomes, RuntimeTypeOK
  <2> QED BY <2>3, <2>4, <2>5
<1>5. CASE SignalReceived \/ Cancel \/ CloseSemaphore
  <2>1. UNCHANGED <<config, outcome, joined, firstError, bound, task, request>>
    BY <1>5 DEF SignalReceived, Cancel, CloseSemaphore
  <2>2. /\ phase \in {"up", "cancel", "close"} /\ phase' \in {"cancel", "close", "join"}
        /\ token' \in BOOLEAN /\ semClosed' \in BOOLEAN
    BY <1>5 DEF SignalReceived, Cancel, CloseSemaphore, flagVars, RuntimeTypeOK
  <2>4. RuntimeTypeOK'
    BY <1>s, <2>1, <2>2 DEF RuntimeTypeOK, Phases
  <2>5. SocketsOfTasks'
    BY <1>s, <2>1, <2>2 DEF SocketsOfTasks
  <2>6. JoinInv'
    BY <1>s, <2>1, <2>2 DEF JoinInv, Ended
  <2>7. PlanInv'
    BY <1>s, <2>1, <2>2 DEF PlanInv
  <2> QED BY <2>4, <2>5, <2>6, <2>7
<1>6. ASSUME NEW t \in Planned, Join(t) PROVE RuntimeIInv'
  <2>1. UNCHANGED <<config, phase, outcome, token, semClosed, bound, task, request>>
    BY <1>6 DEF Join, flagVars
  <2>2. /\ phase = "join" /\ Ended(t) /\ joined' = joined \cup {t}
        /\ firstError' = IF firstError = NoTask /\ task[t] = "failed" THEN t ELSE firstError
    BY <1>6 DEF Join, KeepFirst
  <2>4. RuntimeTypeOK'
    BY <1>s, <2>1, <2>2 DEF RuntimeTypeOK
  <2>5. SocketsOfTasks'
    BY <1>s, <2>1 DEF SocketsOfTasks
  <2>6. JoinInv'
    BY <1>p, <1>s, <2>1, <2>2 DEF JoinInv, Ended
  <2>7. PlanInv'
    BY <1>s, <2>1, <2>2 DEF PlanInv
  <2> QED BY <2>4, <2>5, <2>6, <2>7
<1>7. ASSUME NEW t \in Planned, TaskReturns(t) \/ TaskFails(t) PROVE RuntimeIInv'
  <2>1. UNCHANGED <<config, phase, outcome, joined, firstError, token, semClosed, request>>
    BY <1>7 DEF TaskReturns, TaskFails, mainVars, flagVars
  <2>2. PICK state \in {"returned", "failed"} :
          /\ phase # "exited" /\ task[t] \in {"running", "draining"} /\ Becomes(t, state)
          /\ bound' = bound \ {t} \/ (t \in UdpTasks /\ bound' = bound)
    BY <1>7 DEF TaskReturns, TaskFails, Runs
  <2>3. task' \in [Tasks -> TaskStates] /\ JoinInv' /\ PlanInv'
    <3>1. phase # "config"
      BY <1>p, <2>2 DEF SocketsOfTasks
    <3> QED BY <2>1, <2>2, <3>1, TaskMoves DEF RuntimeTypeOK, TaskStates
  <2>4. RuntimeTypeOK'
    BY <1>s, <2>1, <2>2, <2>3 DEF RuntimeTypeOK
  <2>5. SocketsOfTasks'
    BY <1>p, <1>s, <2>1, <2>2 DEF SocketsOfTasks, Becomes, RuntimeTypeOK
  <2> QED BY <2>3, <2>4, <2>5
<1>8. ASSUME NEW t \in Planned, OrphanCloses(t) PROVE RuntimeIInv'
  <2>1. UNCHANGED <<config, phase, outcome, joined, firstError, token, semClosed, task, request>>
    BY <1>8 DEF OrphanCloses, mainVars, flagVars
  <2>2. bound' = bound \ {t} /\ task[t] = "failed"
    BY <1>8 DEF OrphanCloses
  <2>4. RuntimeTypeOK'
    BY <1>s, <2>1, <2>2 DEF RuntimeTypeOK
  <2>5. SocketsOfTasks'
    BY <1>s, <2>1, <2>2 DEF SocketsOfTasks
  <2>6. JoinInv'
    BY <1>s, <2>1 DEF JoinInv, Ended
  <2>7. PlanInv'
    BY <1>s, <2>1, <2>2 DEF PlanInv
  <2> QED BY <2>4, <2>5, <2>6, <2>7
<1>9. CASE HttpDrains \/ HttpReturns
  <2>1. UNCHANGED <<config, phase, outcome, joined, firstError, token, semClosed, request>>
    BY <1>9 DEF HttpDrains, HttpReturns, mainVars, flagVars
  <2>2. /\ phase # "exited" /\ task[Http] \in {"running", "draining"}
        /\ \/ Becomes(Http, "draining") /\ bound' = bound \ {Http}
           \/ task[Http] = "draining" /\ Becomes(Http, "returned") /\ bound' = bound
    BY <1>9 DEF HttpDrains, HttpReturns, Runs
  <2>3. Http \in Planned
    BY <2>2, TaskNumbers DEF PlanInv
  <2>4. phase # "config"
    BY <2>2, TaskNumbers DEF SocketsOfTasks
  <2>5. task' \in [Tasks -> TaskStates] /\ JoinInv' /\ PlanInv'
    <3>1. PICK state \in TaskStates : Becomes(Http, state)
      BY <2>2 DEF TaskStates
    <3> QED BY <2>1, <2>2, <2>3, <2>4, <3>1, TaskMoves DEF RuntimeTypeOK
  <2>6. RuntimeTypeOK'
    BY <1>s, <2>1, <2>2, <2>5 DEF RuntimeTypeOK
  <2>7. SocketsOfTasks'
    BY <1>p, <1>s, <2>1, <2>2, TaskNumbers DEF SocketsOfTasks, Becomes, RuntimeTypeOK
  <2> QED BY <2>5, <2>6, <2>7
<1>11. ASSUME NEW r \in Requests, RequestBegins(r) \/ RequestEnds(r) PROVE RuntimeIInv'
  <2>1. UNCHANGED <<config, phase, outcome, joined, firstError, token, semClosed, bound, task>>
    BY <1>11 DEF RequestBegins, RequestEnds, mainVars, flagVars
  <2>2. request' \in [Requests -> {"none", "open", "done"}]
    BY <1>11 DEF RequestBegins, RequestEnds, RuntimeTypeOK
  <2>4. RuntimeTypeOK'
    BY <1>s, <2>1, <2>2 DEF RuntimeTypeOK
  <2>5. SocketsOfTasks'
    BY <1>s, <2>1 DEF SocketsOfTasks
  <2>6. JoinInv'
    BY <1>s, <2>1 DEF JoinInv, Ended
  <2>7. PlanInv'
    BY <1>s, <2>1 DEF PlanInv
  <2> QED BY <2>4, <2>5, <2>6, <2>7
<1>10. CASE Exited \/ UNCHANGED runtimeVars
  <2>1. UNCHANGED <<config, phase, outcome, joined, firstError, token, semClosed, bound, task, request>>
    BY <1>10 DEF Exited, runtimeVars, mainVars, flagVars
  <2>4. RuntimeTypeOK'
    BY <1>s, <2>1 DEF RuntimeTypeOK
  <2>5. SocketsOfTasks'
    BY <1>s, <2>1 DEF SocketsOfTasks
  <2>6. JoinInv'
    BY <1>s, <2>1 DEF JoinInv, Ended
  <2>7. PlanInv'
    BY <1>s, <2>1 DEF PlanInv
  <2> QED BY <2>4, <2>5, <2>6, <2>7
<1> QED
  BY <1>1, <1>2, <1>3, <1>4, <1>5, <1>6, <1>7, <1>8, <1>9, <1>10, <1>11
     DEF RuntimeNext, Starting, Joining, Serving

THEOREM RuntimeInvariant == RuntimeSpec => []RuntimeIInv
BY RuntimeInitInv, RuntimeStepInv, PTL DEF RuntimeSpec

\* Every variable of the process's life cycle keeps its type.
THEOREM RuntimeTyped == RuntimeSpec => []RuntimeTypeOK
<1>1. RuntimeIInv => RuntimeTypeOK
  BY DEF RuntimeIInv
<1> QED BY <1>1, RuntimeInvariant, PTL

\* start() binds every socket before it spawns a task, and a socket is bound
\* for as long as its task runs, whatever the number of ports.
THEOREM SocketsHaveTasks == RuntimeSpec => []SocketsOfTasks
<1>1. RuntimeIInv => SocketsOfTasks
  BY DEF RuntimeIInv
<1> QED BY <1>1, RuntimeInvariant, PTL

\* shutdown() returns only when every task has ended, in whatever order they
\* end and however many of them fail.
THEOREM JoinsEveryTask == RuntimeSpec => []ExitAfterTasks
<1>1. RuntimeIInv => ExitAfterTasks
  BY DEF RuntimeIInv, JoinInv, ExitAfterTasks
<1> QED BY <1>1, RuntimeInvariant, PTL

\* The process reports success exactly when no task failed.
THEOREM ReportsFailure == RuntimeSpec => []FailureReported
<1>1. RuntimeIInv => FailureReported
  BY DEF RuntimeIInv, JoinInv, FailureReported
<1> QED BY <1>1, RuntimeInvariant, PTL
=============================================================================
