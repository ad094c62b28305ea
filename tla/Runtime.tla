------------------------------- MODULE Runtime -------------------------------
(***************************************************************************)
(* The life of the process (src/src/main.rs, src/src/runtime.rs and the    *)
(* graceful shutdown of src/src/http.rs): the command line becomes a       *)
(* RuntimeConfig, start() binds every socket and then spawns every task,   *)
(* the process waits for ctrl-c, and shutdown() cancels the token, closes  *)
(* the semaphore and joins the tasks in whatever order they end.           *)
(*                                                                         *)
(* A task is named by a number, and the one that owns a socket by the same *)
(* number as the socket, in the order start() treats them.  What the tasks *)
(* do while they run is the subject of the other modules; here they only   *)
(* return after the token, fail at any time, or wait for HTTP requests.    *)
(***************************************************************************)
EXTENDS Integers, FiniteSets, PortNumbers

CONSTANT
  Requests   \* bound: the HTTP requests clients ever send

Rollup == -2
Summary == -1
Http == 0
TcpTask(p) == 2 * p - 1
UdpTask(p) == 2 * p
TcpTasks == {TcpTask(p) : p \in Ports}
UdpTasks == {UdpTask(p) : p \in Ports}
Tasks == Rollup .. 2 * MaxPort
NoTask == 2 * MaxPort + 1

VARIABLES
  config,      \* RuntimeConfig: listen ports, a stats endpoint or not, a summary or not
  phase,       \* how far main() has come
  outcome,     \* what main() returned
  bound,       \* sockets that are bound
  token,       \* the root CancellationToken
  semClosed,   \* tcp_semaphore.close() was called
  task,        \* what has become of each task
  joined,      \* tasks join_next() has returned
  firstError,  \* the task first_error is about, or NoTask
  request      \* HTTP requests

mainVars == <<phase, outcome, joined, firstError>>
flagVars == <<token, semClosed>>
runtimeVars == <<config, mainVars, flagVars, bound, task, request>>

Configs == [ports : SUBSET Ports \ {{}}, stats : BOOLEAN, summary : BOOLEAN]
NoConfig == [ports |-> {}, stats |-> FALSE, summary |-> FALSE]
Phases == {"config", "bind", "spawn", "up", "cancel", "close", "join", "exited"}
Outcomes == {"none", "configError", "startError", "signalError", "taskError", "ok"}
TaskStates == {"none", "running", "draining", "returned", "failed"}

\* The sockets start() binds, and the tasks it spawns.
Sockets ==
  {TcpTask(p) : p \in config.ports} \cup {UdpTask(p) : p \in config.ports}
    \cup (IF config.stats THEN {Http} ELSE {})
Planned == Sockets \cup {Rollup} \cup (IF config.summary THEN {Summary} ELSE {})

RuntimeTypeOK ==
  /\ config \in Configs \cup {NoConfig}
  /\ phase \in Phases /\ outcome \in Outcomes
  /\ bound \subseteq Sockets
  /\ token \in BOOLEAN /\ semClosed \in BOOLEAN
  /\ task \in [Tasks -> TaskStates]
  /\ joined \subseteq Planned
  /\ firstError \in Planned \cup {NoTask}
  /\ request \in [Requests -> {"none", "open", "done"}]

RuntimeInit ==
  /\ config = NoConfig
  /\ phase = "config" /\ outcome = "none"
  /\ bound = {}
  /\ token = FALSE /\ semClosed = FALSE
  /\ task = [t \in Tasks |-> "none"]
  /\ joined = {} /\ firstError = NoTask
  /\ request = [r \in Requests |-> "none"]

First(s, S) == s \in S /\ \A r \in S : s <= r
Becomes(t, state) == task' = [task EXCEPT ![t] = state]

\* main() returns: what is left of the runtime goes with the process.
Exits(result) ==
  /\ phase' = "exited" /\ outcome' = result
  /\ bound' = {}

-----------------------------------------------------------------------------
(* RuntimeConfig::from_cli, as its caller sees it.                         *)

Configure ==
  /\ phase = "config"
  /\ config' \in Configs
  /\ phase' = "bind"
  /\ UNCHANGED <<outcome, joined, firstError, flagVars, bound, task, request>>

ConfigFails ==
  /\ phase = "config"
  /\ Exits("configError")
  /\ UNCHANGED <<config, joined, firstError, flagVars, task, request>>

-----------------------------------------------------------------------------
(* start(): the stats socket first, then TCP and UDP port by port; the     *)
(* first failure drops what was bound.  Then the tasks, which begin to run *)
(* as they are spawned.                                                    *)

\* Mutant of Bind: a port's tasks are spawned before the other ports are bound.
BindEarly(s) ==
  /\ phase = "bind" /\ First(s, Sockets \ bound)
  /\ bound' = bound \cup {s}
  /\ phase' = IF s \in UdpTasks THEN "spawn" ELSE "bind"
  /\ UNCHANGED <<config, outcome, joined, firstError, flagVars, task, request>>

Bind(s) ==
  /\ phase = "bind" /\ First(s, Sockets \ bound)
  /\ bound' = bound \cup {s}
  /\ phase' = IF bound' = Sockets THEN "spawn" ELSE "bind"
  /\ UNCHANGED <<config, outcome, joined, firstError, flagVars, task, request>>

BindFails ==
  /\ phase = "bind"
  /\ Exits("startError")
  /\ UNCHANGED <<config, joined, firstError, flagVars, task, request>>

NotSpawned == {t \in Planned : task[t] = "none"}

Spawn(t) ==
  /\ phase = "spawn" /\ First(t, NotSpawned)
  /\ Becomes(t, "running")
  /\ phase' = IF NotSpawned = {t} THEN "up" ELSE "spawn"
  /\ UNCHANGED <<config, outcome, joined, firstError, flagVars, bound, request>>

-----------------------------------------------------------------------------
(* main() waits for ctrl-c; RunningApp::shutdown.                          *)

SignalReceived ==
  /\ phase = "up"
  /\ phase' = "cancel"
  /\ UNCHANGED <<config, outcome, joined, firstError, flagVars, bound, task, request>>

SignalFails ==
  /\ phase = "up"
  /\ Exits("signalError")
  /\ UNCHANGED <<config, joined, firstError, flagVars, task, request>>

Cancel ==
  /\ phase = "cancel"
  /\ token' = TRUE
  /\ phase' = "close"
  /\ UNCHANGED <<config, outcome, joined, firstError, semClosed, bound, task, request>>

CloseSemaphore ==
  /\ phase = "close"
  /\ semClosed' = TRUE
  /\ phase' = "join"
  /\ UNCHANGED <<config, outcome, joined, firstError, token, bound, task, request>>

Ended(t) == task[t] \in {"returned", "failed"}

\* Mutant of KeepFirst: errors are only logged.
KeepNone(t) == firstError

KeepFirst(t) == IF firstError = NoTask /\ task[t] = "failed" THEN t ELSE firstError

\* One turn of the join_next() loop: any task that has ended may be next.
Join(t) ==
  /\ phase = "join" /\ t \in Planned \ joined /\ Ended(t)
  /\ joined' = joined \cup {t}
  /\ firstError' = KeepFirst(t)
  /\ UNCHANGED <<config, phase, outcome, flagVars, bound, task, request>>

\* Mutant of ShutdownReturns: the loop ends at the first error.
ShutdownReturnsEarly ==
  /\ phase = "join" /\ (joined = Planned \/ firstError # NoTask)
  /\ Exits(IF firstError = NoTask THEN "ok" ELSE "taskError")
  /\ UNCHANGED <<config, joined, firstError, flagVars, task, request>>

ShutdownReturns ==
  /\ phase = "join" /\ joined = Planned
  /\ Exits(IF firstError = NoTask THEN "ok" ELSE "taskError")
  /\ UNCHANGED <<config, joined, firstError, flagVars, task, request>>

-----------------------------------------------------------------------------
(* The tasks.  A task takes its socket with it, unless it is a UDP         *)
(* listener that panics: its cleanup task lives on and keeps the session   *)
(* table, the reply sender and so the socket alive until the token.        *)

Runs(t) == phase # "exited" /\ task[t] \in {"running", "draining"}

TaskReturns(t) ==
  /\ Runs(t) /\ t # Http /\ token
  /\ Becomes(t, "returned")
  /\ bound' = bound \ {t}
  /\ UNCHANGED <<config, mainVars, flagVars, request>>

\* A panic, or an error of the HTTP server.
TaskFails(t) ==
  /\ Runs(t)
  /\ Becomes(t, "failed")
  /\ bound' = IF t \in UdpTasks THEN bound ELSE bound \ {t}
  /\ UNCHANGED <<config, mainVars, flagVars, request>>

\* Mutant of OrphanCloses: the cleanup task does not watch the token.
OrphanClosesNever(t) == FALSE /\ UNCHANGED runtimeVars

OrphanCloses(t) ==
  /\ phase # "exited" /\ token
  /\ t \in UdpTasks \cap bound /\ task[t] = "failed"
  /\ bound' = bound \ {t}
  /\ UNCHANGED <<config, mainVars, flagVars, task, request>>

\* axum stops listening at the token, and returns when no request is left.
HttpDrains ==
  /\ Runs(Http) /\ task[Http] = "running" /\ token
  /\ Becomes(Http, "draining")
  /\ bound' = bound \ {Http}
  /\ UNCHANGED <<config, mainVars, flagVars, request>>

\* Mutant of HttpReturns: the server is not told about the shutdown.
HttpReturnsNever == FALSE /\ UNCHANGED runtimeVars

HttpReturns ==
  /\ Runs(Http) /\ task[Http] = "draining"
  /\ \A r \in Requests : request[r] # "open"
  /\ Becomes(Http, "returned")
  /\ UNCHANGED <<config, mainVars, flagVars, bound, request>>

RequestBegins(r) ==
  /\ Runs(Http) /\ task[Http] = "running" /\ request[r] = "none"
  /\ request' = [request EXCEPT ![r] = "open"]
  /\ UNCHANGED <<config, mainVars, flagVars, bound, task>>

RequestEnds(r) ==
  /\ phase # "exited" /\ request[r] = "open"
  /\ request' = [request EXCEPT ![r] = "done"]
  /\ UNCHANGED <<config, mainVars, flagVars, bound, task>>

Exited == phase = "exited" /\ UNCHANGED runtimeVars

-----------------------------------------------------------------------------
Starting == (\E s \in Sockets : Bind(s)) \/ (\E t \in Planned : Spawn(t))
Joining == (\E t \in Planned : Join(t)) \/ ShutdownReturns
Serving == HttpDrains \/ HttpReturns \/ \E r \in Requests : RequestBegins(r) \/ RequestEnds(r)

RuntimeNext ==
  \/ Configure \/ ConfigFails \/ Starting \/ BindFails
  \/ SignalReceived \/ SignalFails \/ Cancel \/ CloseSemaphore \/ Joining
  \/ \E t \in Planned : TaskReturns(t) \/ TaskFails(t) \/ OrphanCloses(t)
  \/ Serving \/ Exited

RuntimeSpec == RuntimeInit /\ [][RuntimeNext]_runtimeVars

-----------------------------------------------------------------------------
(* Properties.                                                             *)

\* All or nothing: no task runs before every socket of the configuration is
\* bound, so a port in use stops the start before a client is served on any
\* other; from then on each port has its TCP and its UDP socket until the task
\* that owns it has ended, and a TCP or HTTP socket never outlives its task.
SocketsOfTasks ==
  /\ phase \in {"config", "bind"} => \A t \in Tasks : task[t] = "none"
  /\ phase \notin {"config", "bind", "exited"} =>
       \A s \in Sockets :
         /\ task[s] \in {"none", "running"} => s \in bound
         /\ s \in bound => task[s] \in {"none", "running"} \/ s \in UdpTasks

\* shutdown() joins every task, whatever the others returned: a failed task
\* does not cut the others off in the middle of their last steps.
ExitAfterTasks ==
  outcome \in {"ok", "taskError"} => \A t \in Planned : t \in joined /\ Ended(t)

\* The process reports success only when no task failed, whenever and in
\* whatever order they did, and otherwise the error of a task that failed.
FailureReported ==
  /\ outcome = "ok" => \A t \in Planned : task[t] # "failed"
  /\ outcome = "taskError" => firstError # NoTask /\ task[firstError] = "failed"
=============================================================================
