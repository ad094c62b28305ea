------------------------------ MODULE AppProofs ------------------------------
(***************************************************************************)
(* The process of App does what Runtime and TcpListener each say, for      *)
(* every number of ports, connections and permits; from the theorems about *)
(* these two follows that its exit is clean.                               *)
(***************************************************************************)
EXTENDS App, Sequences, RuntimeProofs, FiniteSetTheorems

\* The theorems about the listeners, in the process's own variables.
TcpProved == INSTANCE TcpListenerProofs WITH cancelled <- token

LEMMA StepIsRuntimeStep == RuntimeIInv /\ [AppNext]_appVars => [RuntimeNext]_runtimeVars
<1> SUFFICES ASSUME RuntimeIInv, [AppNext]_appVars PROVE [RuntimeNext]_runtimeVars
  OBVIOUS
<1>1. CASE Lifecycle
  BY <1>1 DEF Lifecycle, RuntimeNext
<1>2. CASE TellListeners
  BY <1>2 DEF TellListeners, RuntimeNext
<1>3. ASSUME NEW p \in Ports, ListenerStep(p) \/ \E c \in Conns : ClientStep(c, p)
      PROVE  UNCHANGED runtimeVars
  BY <1>3 DEF ListenerStep, ClientStep, OwnStep
<1>4. ASSUME NEW p \in Ports, ListenerReturns(p) PROVE RuntimeNext \/ UNCHANGED runtimeVars
  <2>1. TaskReturns(TcpTask(p))
    BY <1>4 DEF ListenerReturns
  <2>2. task[TcpTask(p)] # "none"
    BY <2>1 DEF TaskReturns, Runs
  <2>3. TcpTask(p) \in Tasks
    BY TaskNumbers, PortsAssumption DEF Tasks, Rollup
  <2>4. TcpTask(p) \in Planned
    BY <2>2, <2>3 DEF RuntimeIInv, PlanInv
  <2> QED BY <2>1, <2>4 DEF RuntimeNext
<1>5. ASSUME NEW c \in Conns, ProxyStep(c) PROVE UNCHANGED runtimeVars
  BY <1>5 DEF ProxyStep, OwnStep
<1> QED
  BY <1>1, <1>2, <1>3, <1>4, <1>5 DEF AppNext, appVars

LEMMA StepIsTcpStep == [AppNext]_appVars => [Tcp!Next]_(Tcp!vars)
<1> SUFFICES ASSUME [AppNext]_appVars PROVE [Tcp!Next]_(Tcp!vars)
  OBVIOUS
<1>1. CASE Lifecycle
  BY <1>1
     DEF Lifecycle, Configure, ConfigFails, Starting, Bind, Spawn, BindFails, SignalReceived,
         SignalFails, Joining, Join, ShutdownReturns, TaskReturns, TaskFails, OrphanCloses,
         Serving, HttpDrains, HttpReturns, RequestBegins, RequestEnds, Exited, flagVars,
         runtimeVars, tcpVars, Tcp!vars, Tcp!semVars, Tcp!statVars
<1>2. CASE TellListeners
  BY <1>2 DEF TellListeners, Tcp!Next
<1>3. ASSUME NEW p \in Ports, ListenerStep(p) \/ \E c \in Conns : ClientStep(c, p) PROVE Tcp!Next
  BY <1>3 DEF ListenerStep, ClientStep, Tcp!Next
<1>4. ASSUME NEW p \in Ports, ListenerReturns(p) PROVE UNCHANGED Tcp!vars
  BY <1>4 DEF ListenerReturns, TaskReturns, flagVars, tcpVars, Tcp!vars, Tcp!semVars, Tcp!statVars
<1>5. ASSUME NEW c \in Conns, ProxyStep(c) PROVE Tcp!Next
  BY <1>5 DEF ProxyStep, Tcp!Next
<1>6. CASE UNCHANGED appVars
  BY <1>6 DEF appVars, tcpVars, runtimeVars, flagVars, Tcp!vars, Tcp!semVars, Tcp!statVars
<1> QED
  BY <1>1, <1>2, <1>3, <1>4, <1>5, <1>6 DEF AppNext

\* The process goes through the life cycle of Runtime, whatever its listeners do.
THEOREM AppImplementsRuntime == AppSpec => RuntimeSpec
<1>1. AppInit => RuntimeInit
  BY DEF AppInit
<1> QED BY <1>1, StepIsRuntimeStep, RuntimeInitInv, RuntimeStepInv, PTL DEF AppSpec, RuntimeSpec

\* The process's listeners do only what TcpListener allows.
THEOREM AppImplementsTcpListener == AppSpec => ImplementsTcpListener
<1>1. AppInit => Tcp!Init
  BY DEF AppInit
<1> QED BY <1>1, StepIsTcpStep, PTL DEF AppSpec, ImplementsTcpListener, Tcp!Spec

-----------------------------------------------------------------------------
(* What is proved of the listeners holds of them in the process.           *)

LEMMA SameSpec == Tcp!Spec => TcpProved!Spec
<1>1. Tcp!Init => TcpProved!Init
  BY DEF Tcp!Init, TcpProved!Init
<1>2. [Tcp!Next]_(Tcp!vars) => [TcpProved!Next]_(TcpProved!vars)
  BY
     DEF Tcp!Next, TcpProved!Next, Tcp!vars, TcpProved!vars, Tcp!semVars, TcpProved!semVars,
         Tcp!statVars, TcpProved!statVars, Tcp!Acquiring, TcpProved!Acquiring, Tcp!AcquireNow,
         TcpProved!AcquireNow, Tcp!AcquireWait, TcpProved!AcquireWait, Tcp!AcquireWake,
         TcpProved!AcquireWake, Tcp!Accept, TcpProved!Accept, Tcp!AcceptFail,
         TcpProved!AcceptFail, Tcp!Recording, TcpProved!Recording, Tcp!CountAccept,
         TcpProved!CountAccept, Tcp!RaiseActive, TcpProved!RaiseActive, Tcp!Spawn,
         TcpProved!Spawn, Tcp!ListenerEnd, TcpProved!ListenerEnd, Tcp!AcquireEnd,
         TcpProved!AcquireEnd, Tcp!AcceptEnd, TcpProved!AcceptEnd, Tcp!JoinConnections,
         TcpProved!JoinConnections, Tcp!ClientConnects, TcpProved!ClientConnects,
         Tcp!ForwardingEnds, TcpProved!ForwardingEnds, Tcp!ForwardingStops,
         TcpProved!ForwardingStops, Tcp!ProxyClose, TcpProved!ProxyClose, Tcp!LowerActive,
         TcpProved!LowerActive, Tcp!CountClose, TcpProved!CountClose, Tcp!ReleasePermit,
         TcpProved!ReleasePermit, Tcp!Cancel, TcpProved!Cancel, Tcp!CloseSemaphore,
         TcpProved!CloseSemaphore, Tcp!Terminated, TcpProved!Terminated, Tcp!Finished,
         TcpProved!Finished, Tcp!At, TcpProved!At, Tcp!Stage, TcpProved!Stage, Tcp!StageOf,
         TcpProved!StageOf, Tcp!PortOf, TcpProved!PortOf, Tcp!Bump, TcpProved!Bump, Tcp!Release,
         TcpProved!Release, Tcp!RemoveAt, TcpProved!RemoveAt, Tcp!LeaveQueue,
         TcpProved!LeaveQueue, Tcp!Spawned, TcpProved!Spawned, Tcp!ProxyStages,
         TcpProved!ProxyStages
<1> QED BY <1>1, <1>2, PTL DEF Tcp!Spec, TcpProved!Spec

LEMMA ListenersAssume ==
  TcpProved!IsFiniteSet(Ports) /\ TcpProved!IsFiniteSet(Conns) /\ MaxConnections \in Nat \ {0}
<1>1. IsFiniteSet(Ports)
  BY PortsAssumption, FS_Interval DEF Ports
<1> QED BY <1>1, AppAssumption DEF IsFiniteSet, TcpProved!IsFiniteSet

LEMMA ListenersInvariant == AppSpec => []TcpProved!IInv
BY ListenersAssume, AppImplementsTcpListener, SameSpec, TcpProved!Invariance, PTL
   DEF ImplementsTcpListener

LEMMA GaugesInvariant == AppSpec => []TcpProved!ActiveIsExact
BY ListenersAssume, AppImplementsTcpListener, SameSpec, TcpProved!ActiveConnectionsAreCounted, PTL
   DEF ImplementsTcpListener

\* What TcpListener promises of permits, gauges and proxies is so in the
\* process, next to its other tasks and their failures.
THEOREM ListenersKeepTheirPromises ==
  AppSpec => [](Tcp!PermitsConserved /\ Tcp!ActiveIsExact /\ Tcp!ListenerOutlivesProxies)
<1>1. TcpProved!IInv => Tcp!PermitsConserved
  BY DEF TcpProved!IInv, Tcp!PermitsConserved, TcpProved!PermitsConserved,
         Tcp!ListenersHolding, TcpProved!ListenersHolding, Tcp!HoldingPoints,
         TcpProved!HoldingPoints, Tcp!ProxiesHolding, TcpProved!ProxiesHolding,
         Tcp!ProxyStages, TcpProved!ProxyStages, Tcp!StageOf, TcpProved!StageOf,
         Tcp!Cardinality, TcpProved!Cardinality
<1>2. TcpProved!IInv => Tcp!ListenerOutlivesProxies
  BY DEF TcpProved!IInv, Tcp!ListenerOutlivesProxies, TcpProved!ListenerOutlivesProxies,
         Tcp!Spawned, TcpProved!Spawned, Tcp!ProxyStages, TcpProved!ProxyStages,
         Tcp!StageOf, TcpProved!StageOf, Tcp!PortOf, TcpProved!PortOf
<1>3. TcpProved!ActiveIsExact => Tcp!ActiveIsExact
  BY DEF Tcp!ActiveIsExact, TcpProved!ActiveIsExact, Tcp!StageOf, TcpProved!StageOf,
         Tcp!PortOf, TcpProved!PortOf, Tcp!Cardinality, TcpProved!Cardinality
<1> QED BY <1>1, <1>2, <1>3, ListenersInvariant, GaugesInvariant, PTL

-----------------------------------------------------------------------------
(* The exit.                                                               *)

\* A listener's task exists before its first step and ends after its last, and
\* clients reach configured ports only.
ListenerTasks ==
  \A p \in Ports :
    /\ task[TcpTask(p)] \in {"none", "running", "returned"}
    /\ task[TcpTask(p)] = "none" => lpc[p] = "acquire"
    /\ task[TcpTask(p)] = "returned" => lpc[p] = "done"
ConnsOfPorts ==
  \A c \in Conns : conn[c].stage # "new" => phase # "config" /\ conn[c].port \in config.ports

\* A port whose listener has not begun, or has ended, is not in the semaphore's
\* queue: no other task's step moves its listener.
LEMMA ReleaseElsewhere ==
  ASSUME TcpProved!TypeOK, TcpProved!WaitersInv, NEW q \in Ports, lpc[q] \in {"acquire", "done"},
         NEW f \in [Ports -> Tcp!ListenerPoints], f[q] = lpc[q], Tcp!Release(f)
  PROVE  lpc'[q] = lpc[q]
<1>1. CASE waiters = <<>>
  BY <1>1 DEF Tcp!Release
<1>2. CASE waiters # <<>>
  <2>1. waiters \in Seq(Ports)
    BY DEF TcpProved!TypeOK
  <2>2. 1 \in 1 .. Len(waiters) /\ Head(waiters) = waiters[1]
    BY <1>2, <2>1
  <2>3. Head(waiters) # q
    BY <2>2 DEF TcpProved!WaitersInv
  <2> QED BY <1>2, <2>3 DEF Tcp!Release
<1> QED BY <1>1, <1>2

LEMMA ListenerElsewhere ==
  ASSUME TcpProved!TypeOK, TcpProved!WaitersInv, NEW p \in Ports, NEW q \in Ports, p # q,
         lpc[q] \in {"acquire", "done"}, ListenerStep(p)
  PROVE  lpc'[q] = lpc[q]
<1> DEFINE moved(point) == [lpc EXCEPT ![p] = point]
<1>1. lpc \in [Ports -> Tcp!ListenerPoints]
  BY DEF TcpProved!TypeOK, TcpProved!ListenerPoints, Tcp!ListenerPoints
<1>2. \A point \in Tcp!ListenerPoints :
        moved(point) \in [Ports -> Tcp!ListenerPoints] /\ moved(point)[q] = lpc[q]
  BY <1>1
<1>3. \A point \in {"acquire", "join"} : Tcp!Release(moved(point)) => lpc'[q] = lpc[q]
  BY <1>2, ReleaseElsewhere DEF Tcp!ListenerPoints
<1>4. ASSUME NEW point, lpc' = moved(point) PROVE lpc'[q] = lpc[q]
  BY <1>1, <1>4
<1> QED
  BY <1>3, <1>4
     DEF ListenerStep, Tcp!Acquiring, Tcp!AcquireNow, Tcp!AcquireWait, Tcp!AcquireWake, Tcp!Accept,
         Tcp!AcceptFail, Tcp!Recording, Tcp!CountAccept, Tcp!RaiseActive, Tcp!Spawn,
         Tcp!ListenerEnd, Tcp!AcquireEnd, Tcp!AcceptEnd, Tcp!JoinConnections, Tcp!At

LEMMA ProxyElsewhere ==
  ASSUME TcpProved!TypeOK, TcpProved!WaitersInv, NEW c \in Conns, NEW q \in Ports,
         lpc[q] \in {"acquire", "done"}, ProxyStep(c)
  PROVE  lpc'[q] = lpc[q]
<1>1. lpc \in [Ports -> Tcp!ListenerPoints]
  BY DEF TcpProved!TypeOK, TcpProved!ListenerPoints, Tcp!ListenerPoints
<1>2. Tcp!Release(lpc) => lpc'[q] = lpc[q]
  BY <1>1, ReleaseElsewhere
<1> QED
  BY <1>2
     DEF ProxyStep, Tcp!ForwardingEnds, Tcp!ForwardingStops, Tcp!ProxyClose, Tcp!LowerActive,
         Tcp!CountClose, Tcp!ReleasePermit

\* A connection that is moved on was there before, on the same port.
SamePort ==
  \A c \in Conns : /\ conn'[c].port = conn[c].port
                   /\ conn[c].stage = "new" => conn'[c].stage = "new"

LEMMA StageKeepsPort ==
  ASSUME TcpProved!TypeOK, NEW c \in Conns, NEW state, conn[c].stage # "new", Tcp!Stage(c, state)
  PROVE  SamePort
<1>1. conn \in [Conns -> [stage : TcpProved!Stages, port : Ports \cup {NoConn}]]
  BY DEF TcpProved!TypeOK
<1>2. conn' = [conn EXCEPT ![c].stage = state]
  BY DEF Tcp!Stage
<1> QED BY <1>1, <1>2 DEF SamePort

LEMMA ListenerKeepsPorts ==
  ASSUME TcpProved!IInv, NEW p \in Ports, ListenerStep(p)
  PROVE  SamePort
<1>1. CASE Tcp!Accept(p)
  <2>1. backlog[p] \in Seq(Conns) /\ backlog[p] # <<>>
    BY <1>1 DEF TcpProved!IInv, TcpProved!TypeOK, Tcp!Accept
  <2>2. 1 \in 1 .. Len(backlog[p]) /\ Head(backlog[p]) = backlog[p][1] /\ Head(backlog[p]) \in Conns
    BY <2>1
  <2>3. conn[Head(backlog[p])] = [stage |-> "queued", port |-> p]
    BY <2>2 DEF TcpProved!IInv, TcpProved!BacklogInv
  <2>4. conn[Head(backlog[p])].stage = "queued"
    BY <2>3
  <2> QED BY <1>1, <2>2, <2>4, StageKeepsPort DEF Tcp!Accept, TcpProved!IInv
<1>2. CASE Tcp!Spawn(p)
  <2>1. taken[p] \in Conns /\ conn[taken[p]] = [stage |-> "taken", port |-> p]
    BY <1>2 DEF Tcp!Spawn, TcpProved!IInv, TcpProved!TakenInv, TcpProved!TakenPoints
  <2>2. conn[taken[p]].stage = "taken"
    BY <2>1
  <2> QED BY <1>2, <2>1, <2>2, StageKeepsPort DEF Tcp!Spawn, TcpProved!IInv
<1>3. ASSUME conn' = conn PROVE SamePort
  BY <1>3 DEF SamePort
<1> QED
  BY <1>1, <1>2, <1>3
     DEF ListenerStep, Tcp!Acquiring, Tcp!AcquireNow, Tcp!AcquireWait, Tcp!AcquireWake,
         Tcp!AcceptFail, Tcp!Recording, Tcp!CountAccept, Tcp!RaiseActive, Tcp!ListenerEnd,
         Tcp!AcquireEnd, Tcp!AcceptEnd, Tcp!JoinConnections

LEMMA ProxyKeepsPorts ==
  ASSUME TcpProved!IInv, NEW c \in Conns, ProxyStep(c)
  PROVE  SamePort
BY StageKeepsPort
   DEF TcpProved!IInv, ProxyStep, Tcp!ForwardingEnds, Tcp!ForwardingStops, Tcp!ProxyClose,
       Tcp!LowerActive, Tcp!CountClose, Tcp!ReleasePermit, Tcp!StageOf

LEMMA PortOfTask ==
  ASSUME config \in Configs \cup {NoConfig}, NEW p \in Ports
  PROVE  /\ TcpTask(p) \in Planned <=> p \in config.ports
         /\ TcpTask(p) \in Sockets => p \in config.ports
         /\ TcpTask(p) \in Tasks
         /\ \A q \in Ports : TcpTask(p) = TcpTask(q) => p = q
<1>1. config.ports \subseteq Ports
  BY DEF Configs, NoConfig
<1> QED
  BY <1>1, PortsAssumption
     DEF Ports, TcpTask, UdpTask, Sockets, Planned, Http, Rollup, Summary, Tasks

AppIInv == ListenerTasks /\ ConnsOfPorts

LEMMA AppStepInv ==
  RuntimeIInv /\ TcpProved!IInv /\ AppIInv /\ [AppNext]_appVars => AppIInv'
<1> SUFFICES ASSUME RuntimeIInv, TcpProved!IInv, AppIInv, [AppNext]_appVars PROVE AppIInv'
  OBVIOUS
<1> USE DEF AppIInv
<1>c. config \in Configs \cup {NoConfig} /\ task \in [Tasks -> TaskStates] /\ bound \subseteq Sockets
  BY DEF RuntimeIInv, RuntimeTypeOK
<1>t. Planned \subseteq Tasks /\ \A p \in Ports : TcpTask(p) \in TcpTasks /\ TcpTask(p) \in Tasks
  BY <1>c, PlannedTasks, PortOfTask DEF TcpTasks
<1>1. CASE Lifecycle
  <2>1. UNCHANGED <<lpc, conn>>
    BY <1>1 DEF Lifecycle, tcpVars
  <2>2. ConnsOfPorts'
    <3>1. phase # "config" => phase' # "config" /\ config' = config
      BY <1>1
         DEF Lifecycle, Configure, ConfigFails, Starting, Bind, Spawn, BindFails, SignalReceived,
             SignalFails, Joining, Join, ShutdownReturns, TaskReturns, TaskFails, OrphanCloses,
             Serving, HttpDrains, HttpReturns, RequestBegins, RequestEnds, Exited, Exits, mainVars,
             runtimeVars
    <3> QED BY <2>1, <3>1 DEF ConnsOfPorts
  <2>3. \A p \in Ports : \/ task'[TcpTask(p)] = task[TcpTask(p)]
                         \/ task'[TcpTask(p)] = "running"
    <3>1. ASSUME NEW t \in Planned, Spawn(t), NEW p \in Ports
          PROVE  task'[TcpTask(p)] \in {task[TcpTask(p)], "running"}
      BY <1>c, <1>t, <3>1 DEF Spawn, Becomes
    <3>2. ASSUME NEW t \in Planned \ TcpTasks, TaskReturns(t) \/ TaskFails(t) \/ OrphanCloses(t),
                 NEW p \in Ports
          PROVE  task'[TcpTask(p)] = task[TcpTask(p)]
      BY <1>c, <1>t, <3>2 DEF TaskReturns, TaskFails, OrphanCloses, Becomes
    <3>3. ASSUME Serving, NEW p \in Ports PROVE task'[TcpTask(p)] = task[TcpTask(p)]
      BY <1>c, <1>t, <3>3, TaskNumbers
         DEF Serving, HttpDrains, HttpReturns, RequestBegins, RequestEnds, Becomes
    <3>4. CASE \/ Configure \/ ConfigFails \/ (\E s \in Sockets : Bind(s)) \/ BindFails
               \/ SignalReceived \/ SignalFails \/ Joining \/ Exited
      BY <3>4
         DEF Configure, ConfigFails, Bind, BindFails, SignalReceived, SignalFails, Joining, Join,
             ShutdownReturns, Exited, runtimeVars
    <3> QED BY <1>1, <3>1, <3>2, <3>3, <3>4 DEF Lifecycle, Starting
  <2>4. ListenerTasks'
    BY <2>1, <2>3 DEF ListenerTasks
  <2> QED BY <2>2, <2>4
<1>2. CASE TellListeners
  <2>1. UNCHANGED <<task, lpc, conn, config>> /\ phase' # "config"
    BY <1>2 DEF TellListeners, Cancel, CloseSemaphore, Tcp!Cancel, Tcp!CloseSemaphore
  <2>2. \A c \in Conns : conn[c].stage # "new" => phase' # "config"
    BY <2>1
  <2> QED BY <2>1, <2>2 DEF ListenerTasks, ConnsOfPorts
<1>3. ASSUME NEW p \in Ports, ListenerStep(p) PROVE AppIInv'
  <2>1. UNCHANGED <<task, phase, config>> /\ task[TcpTask(p)] \in {"running", "draining"}
    BY <1>3 DEF ListenerStep, OwnStep, runtimeVars, mainVars, Runs
  <2>2. \A q \in Ports : p # q /\ lpc[q] \in {"acquire", "done"} => lpc'[q] = lpc[q]
    BY <1>3, ListenerElsewhere DEF TcpProved!IInv
  <2>3. SamePort
    BY <1>3, ListenerKeepsPorts
  <2>4. ListenerTasks'
    BY <2>1, <2>2 DEF ListenerTasks
  <2>5. ConnsOfPorts'
    BY <2>1, <2>3 DEF ConnsOfPorts, SamePort
  <2> QED BY <2>4, <2>5
<1>4. ASSUME NEW p \in Ports, ListenerReturns(p) PROVE AppIInv'
  <2>1. UNCHANGED <<phase, config, conn, lpc>> /\ lpc[p] = "done" /\ Becomes(TcpTask(p), "returned")
    BY <1>4 DEF ListenerReturns, TaskReturns, tcpVars, mainVars
  <2>2. \A q \in Ports : q # p => task'[TcpTask(q)] = task[TcpTask(q)]
    BY <1>c, <1>t, <2>1, PortOfTask DEF Becomes
  <2>3. task'[TcpTask(p)] = "returned"
    BY <1>c, <1>t, <2>1 DEF Becomes
  <2>4. ListenerTasks'
    BY <2>1, <2>2, <2>3 DEF ListenerTasks
  <2>5. ConnsOfPorts'
    BY <2>1 DEF ConnsOfPorts
  <2> QED BY <2>4, <2>5
<1>5. ASSUME NEW c \in Conns, ProxyStep(c) PROVE AppIInv'
  <2>1. UNCHANGED <<task, phase, config>>
    BY <1>5 DEF ProxyStep, OwnStep, runtimeVars, mainVars
  <2>2. \A q \in Ports : lpc[q] \in {"acquire", "done"} => lpc'[q] = lpc[q]
    BY <1>5, ProxyElsewhere DEF TcpProved!IInv
  <2>3. SamePort
    BY <1>5, ProxyKeepsPorts
  <2>4. ListenerTasks'
    BY <2>1, <2>2 DEF ListenerTasks
  <2>5. ConnsOfPorts'
    BY <2>1, <2>3 DEF ConnsOfPorts, SamePort
  <2> QED BY <2>4, <2>5
<1>6. ASSUME NEW p \in Ports, NEW c \in Conns, ClientStep(c, p) PROVE AppIInv'
  <2>1. UNCHANGED <<task, phase, config, lpc>>
    BY <1>6 DEF ClientStep, OwnStep, runtimeVars, mainVars, Tcp!ClientConnects
  <2>2. p \in config.ports
    BY <1>c, <1>6, PortOfTask DEF ClientStep
  <2>3. phase # "config"
    BY <2>2 DEF RuntimeIInv, PlanInv, NoConfig
  <2>4. \A d \in Conns : conn'[d] = IF d = c THEN [stage |-> "queued", port |-> p] ELSE conn[d]
    BY <1>6 DEF ClientStep, Tcp!ClientConnects, TcpProved!IInv, TcpProved!TypeOK
  <2>5. ListenerTasks'
    BY <2>1 DEF ListenerTasks
  <2>6. ConnsOfPorts'
    BY <2>1, <2>2, <2>3, <2>4 DEF ConnsOfPorts
  <2> QED BY <2>5, <2>6
<1>7. CASE UNCHANGED appVars
  <2>1. UNCHANGED <<task, phase, config, lpc, conn>>
    BY <1>7 DEF appVars, runtimeVars, mainVars, tcpVars
  <2> QED BY <2>1 DEF ListenerTasks, ConnsOfPorts
<1> QED
  BY <1>1, <1>2, <1>3, <1>4, <1>5, <1>6, <1>7 DEF AppNext

\* In every state of the process in which shutdown() has returned.
LEMMA ExitIsClean ==
  RuntimeIInv /\ TcpProved!IInv /\ TcpProved!ActiveIsExact /\ AppIInv => CleanExit
<1> SUFFICES ASSUME RuntimeIInv, TcpProved!IInv, TcpProved!ActiveIsExact, AppIInv,
                    outcome \in {"ok", "taskError"}
             PROVE  /\ permits = MaxConnections
                    /\ \A p \in config.ports : lpc[p] = "done"
                    /\ \A c \in Conns : conn[c].stage \in {"new", "queued", "ended"}
                    /\ \A p \in Ports : active[p] = 0
  BY DEF CleanExit
<1>c. config \in Configs \cup {NoConfig}
  BY DEF RuntimeIInv, RuntimeTypeOK
<1>p. config.ports \subseteq Ports
  BY <1>c DEF Configs, NoConfig
<1>1. ASSUME NEW p \in config.ports PROVE lpc[p] = "done"
  <2>1. TcpTask(p) \in joined
    BY <1>c, <1>p, PortOfTask DEF RuntimeIInv, JoinInv
  <2>2. task[TcpTask(p)] = "returned"
    BY <1>p, <2>1 DEF RuntimeIInv, JoinInv, Ended, AppIInv, ListenerTasks
  <2> QED BY <1>p, <2>2 DEF AppIInv, ListenerTasks
<1>2. ASSUME NEW p \in Ports, p \notin config.ports PROVE lpc[p] = "acquire"
  <2>1. task[TcpTask(p)] = "none"
    BY <1>c, <1>2, PortOfTask DEF RuntimeIInv, PlanInv
  <2> QED BY <2>1 DEF AppIInv, ListenerTasks
<1>3. ASSUME NEW c \in Conns PROVE conn[c].stage \in {"new", "queued", "ended"}
  <2>1. conn[c].stage \in TcpProved!Stages
    BY DEF TcpProved!IInv, TcpProved!TypeOK
  <2>2. conn[c].stage # "taken"
    BY <1>1, <1>2
       DEF TcpProved!IInv, TcpProved!TakenInv, TcpProved!TakenPoints, TcpProved!StageOf,
           TcpProved!PortOf
  <2>3. ASSUME conn[c].stage \in TcpProved!ProxyStages PROVE FALSE
    <3>1. conn[c].port \in config.ports
      BY <2>3 DEF AppIInv, ConnsOfPorts, TcpProved!ProxyStages
    <3>2. TcpProved!Spawned(conn[c].port) = {}
      BY <1>1, <1>p, <3>1 DEF TcpProved!IInv, TcpProved!ListenerOutlivesProxies
    <3> QED BY <2>3, <3>2 DEF TcpProved!Spawned, TcpProved!StageOf, TcpProved!PortOf
  <2> QED BY <2>1, <2>2, <2>3 DEF TcpProved!Stages, TcpProved!ProxyStages
<1>4. TcpProved!ListenersHolding = {}
  BY <1>1, <1>2 DEF TcpProved!ListenersHolding, TcpProved!HoldingPoints
<1>5. TcpProved!ProxiesHolding = {}
  BY <1>3 DEF TcpProved!ProxiesHolding, TcpProved!ProxyStages, TcpProved!StageOf
<1>e. TcpProved!Cardinality({}) = 0
  <2>1. TcpProved!Cardinality({}) = Cardinality({})
    BY DEF TcpProved!Cardinality, Cardinality
  <2> QED BY <2>1, FS_EmptySet
<1>6. permits = MaxConnections
  <2>1. permits \in Int
    BY AppAssumption DEF TcpProved!IInv, TcpProved!TypeOK
  <2> QED BY <1>4, <1>5, <1>e, <2>1 DEF TcpProved!IInv, TcpProved!PermitsConserved
<1>7. ASSUME NEW p \in Ports PROVE active[p] = 0
  <2>1. {c \in Conns : TcpProved!PortOf(c) = p /\ TcpProved!StageOf(c) \in {"forward", "lower"}} = {}
    BY <1>3 DEF TcpProved!StageOf
  <2>2. lpc[p] # "spawn"
    BY <1>1, <1>2, <1>7
  <2> QED BY <1>7, <1>e, <2>1, <2>2 DEF TcpProved!ActiveIsExact
<1> QED BY <1>1, <1>3, <1>6, <1>7

\* When shutdown() has returned no connection is being forwarded or counted and
\* every permit is back, for any number of ports, connections and permits.
THEOREM ExitsCleanly == AppSpec => []CleanExit
<1>1. AppInit => AppIInv
  <2>1. \A p \in Ports : TcpTask(p) \in Tasks
    BY PortsAssumption DEF Ports, TcpTask, Tasks, Rollup
  <2> QED
    BY <2>1 DEF AppInit, RuntimeInit, Tcp!Init, AppIInv, ListenerTasks, ConnsOfPorts
<1>2. AppSpec => []RuntimeIInv
  BY AppImplementsRuntime, RuntimeInvariant, PTL
<1> QED
  BY <1>1, <1>2, ListenersInvariant, GaugesInvariant, AppStepInv, ExitIsClean, PTL DEF AppSpec
=============================================================================
