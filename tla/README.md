# range-porter: TLA+ specifications and proofs

range-porter forwards TCP connections and UDP datagrams from a set of listen
ports to one target. This directory holds TLA+ modules of its concurrent parts,
TLC configurations that check them on small instances, and TLAPS proofs that
hold for every value of the constants. Paths below are relative to `src/src/`.

    tlc -workers 2 -config TcpListener.cfg MCTcpListener.tla     # a run
    tlapm TcpListenerProofs.tla                                  # a proof module

## 1. Inventory

| component | source | state | operations | what makes it correct |
|---|---|---|---|---|
| UDP session table | `udp_session.rs`, `listener/udp.rs`, `forward/udp.rs` | `DashMap` of sessions, id counter; per session: last activity, cancel token, closed flag; flow gauge | `get_or_create`, `forward_client_packet`, `cleanup_loop`, `reply_loop`, `remove_session`, `shutdown_all` | every session in the table is served; each session is retired once, for a cause; idle ones go; shutdown leaves nothing behind |
| reply sender | `listener/udp_send.rs`, `listener/udp_batch.rs` | bounded queue, the batch being flushed | `try_send`, `recv_many`, `flush`, `send_batch` | order kept, nothing sent twice, what the kernel took is counted, nobody blocks on it |
| TCP listeners and proxies | `listener/tcp.rs`, `forward/tcp.rs` | one semaphore for all ports; one `JoinSet` per port; gauges | acquire, accept, proxy, shutdown | the cap holds, no permit is lost, every connection is counted and joined |
| target address | `target.rs` | cached address with a deadline, refresh flag | `bind`, `current`, `try_spawn_refresh`, refresh task | one refresh at a time, a failed one keeps the address, an expired one is replaced, no step back to an older answer |
| statistics | `stats/*.rs` | atomic counters, ring of minute buckets, previous totals | `record_*`, `snapshot`, `rollup` | no delta lost or counted twice, however unlocked the readers are |
| runtime | `runtime.rs`, `http.rs`, `main.rs` | bound sockets, task set, root token, semaphore | `main`, `start`, `shutdown`, `serve` | nothing runs before everything is bound; a socket goes with its task; all tasks joined, the first error reported; the exit cuts nothing off |
| port sets and configuration | `portset.rs`, `config.rs`, `split_host_port` of `target.rs` | none | `parse_portset`, `RuntimeConfig::from_cli` and `new`, `TargetAddr::bind` | what is accepted is what was written, everything else is refused |
| command line and sockets | `cli.rs`, `socket.rs` | none | option declarations, socket options | no control of their own |
| packaging | `scripts/`, workflows | none | install, release | nothing at run time |

How they interact:

- `runtime.rs` binds all ports, then starts one TCP and one UDP task per port, the
  rollup task, the optional summary and HTTP tasks. They share the root
  `CancellationToken` (each port gets a child), the target, the per-port statistics
  and, for TCP, one semaphore. `shutdown()` cancels the token, closes the
  semaphore and joins the tasks.
- The UDP listener of a port owns the session table. The table is in an `Arc` that
  the cleanup task and each detached reply task hold as well, and it owns the
  `Sender` of the reply queue whose `Receiver` the sender task has.
- Reply tasks never wait for the queue: `try_send` queues, drops and counts, or
  finds the queue closed and ends the task.
- Everything asks the target cache for an address when it opens a connection or a
  session; only the refresh task writes it.
- Everything writes the statistics; the rollup task, the summary and HTTP read
  them counter by counter without a lock.

What is hard: three kinds of tasks change the session table and hold `Arc`s of
sessions taken out of it; idle sessions are listed first and removed later; the
gauges saturate at zero; permits are held across `accept()`; a batch of replies is
sent in part; counters are loaded while they change; and the shutdown arrives at
any of these points; tasks fail by themselves, at any moment of the life of the process.
`PROJECT.json` lists 38 such hazards by line, with the property that covers each, or
why none does.

## 2. Modules

| module | models | state | actions |
|---|---|---|---|
| `UdpSession` | the table of one port and its tasks | `sessions` is the `DashMap`; `owner`, `lastActive`, `cancelled`, `closed` are the fields of `UdpSession`; `now` is the wall clock, `cnow` cleanup's reading of it; `lpc`/`cpc`/`rpc` the points the listener, the cleanup task and the reply tasks have reached; `batch`, `todo`, `stale` what they work through | one per access to shared state: `LookupHit` .. `SpawnReply` (`get_or_create`), `SendOk`, `SendErr`, `TouchSent` (`forward_client_packet`), `DrainRemove`.. (`shutdown_all`), `CleanupTick`, `ListIdle`, `SweepRemove`.. (`cleanup_loop`), `ReplyRecv` .. `ReplyRetire` (`reply_loop`); `ClockMoves` sets the clock |
| `ConnectionLimit` | what `--max-tcp-connections` promises | connections in service, connections ended | `Open`, `Close` |
| `TcpListener` | all listeners, their proxies, the semaphore | `permits`, `waiters` and `semClosed` are the semaphore (fair, as tokio's is: a released permit goes to the first waiter); `lpc`, `taken` each listener; `backlog` the kernel's queue; `conn` the stage of each connection; three counters | `AcquireNow`, `AcquireWait`, `AcquireWake`, `AcquireEnd`, `Accept`, `AcceptFail`, `AcceptEnd`, `CountAccept`, `RaiseActive`, `Spawn`, `JoinConnections`, and the proxy's `ForwardingEnds` .. `ReleasePermit` |
| `ReplyPipe` | the reply path as its users see it: a bounded pipe that may lose, never repeats or reorders | what is in it, what came out | `Enter`, `Deliver`, `Lose`, `Shut` |
| `ReplySender` | the queue, the sender task, batches, the end of both | `queue`, `rxOpen`, `batch`, `start`, `sent`; `delivered` and `lost` are histories | one per await or `sendmmsg` result |
| `TargetCache` | `current()` and the refresh task | `cache`, `inflight`; `copy`/`cpc` each caller, `next`/`rpc` each refresh task | `Read`, `CheckExpiry`, `SpawnRefresh`, `LeaveRefresh`, `ResolveOk`, `ResolveFails`, `KeepStale`, `Store`, `ClearFlag` |
| `StatsRegistry` | counters, snapshots, rollup, ring | `accepted` the ports' counters; `pc`, `loaded`, `total` each loader (the rollup task and the readers); `minute` and the rollup's `stamp`; `ring`, `previous`; `since`, `evicted` and `cutoff` are histories | one per counter access, one per locked section |
| `PortNumbers` | the ports there are, 1 to `u16::MAX` (a small maximum in TLC's instances) | | |
| `Runtime` | the life of the process: configure, bind, spawn, wait for ctrl-c, cancel, close, join, exit | `config`; `phase` and `outcome` are how far `main` is and what it returned; `bound` the sockets; `token`, `semClosed`; `task`, `joined`, `firstError` the `JoinSet` and its errors; `request` HTTP requests in flight | `Configure`, `ConfigFails`, `Bind`, `BindFails`, `Spawn`, `SignalReceived`, `SignalFails`, `Cancel`, `CloseSemaphore`, `Join`, `ShutdownReturns`; `TaskReturns`, `TaskFails`, `OrphanCloses`; `HttpDrains`, `HttpReturns`, `RequestBegins`, `RequestEnds` |
| `App` | `Runtime` and `TcpListener` composed over the root token and the semaphore | both modules' | a listener's steps need its task to run, its task returns when the listener's `run()` has, clients connect once the socket is bound, `Cancel` and `CloseSemaphore` are steps of both |
| `Config` | `from_cli`: the port set segment by segment, the target, the checks of `new` | `stage`, `arg`, `pos`, `ports`, `target` | `ReadSegment`, `RejectPorts`, `PortsDone`, `TakeTarget`, `RejectTarget`, `BindStatic`, `BindDynamic`, `Resolve`, `New` |
| `Process` | `Config`, then `Runtime` on the ports it has read: `main()` from its arguments to its exit | both modules' | `ReadCommandLine`, `ConfigReady`, `ConfigRejected`, `LifeCycle` |
| `MC...` | instances for TLC, and statements of the repository's documentation the code does not keep | | |
| `...Proofs` | theorems and their proofs | | |

A step is one access to shared state (one `DashMap` shard operation, one atomic, one
lock) or one await. tokio's runtime is multi-threaded, so the steps of different
tasks interleave freely. An argument of the command line is a sequence of tokens: a
number for its digits, a code for each character a parser looks at, one for a host
name and one for an IPv4 literal. The mistakes parsers make with separators, signs,
brackets and bounds are all expressible; the digits of a number are not. Of the IPv6
literals `::` and `::n` are told from names: a longer one is taken for a name, which
changes the kind of the target and neither its host nor its port. Payloads, byte counts, logging and formatting are left out,
except that a reply counts as one byte in `ReplySender`, where the question is
whether `udp_out_bytes` counts what the kernel took.

Definitions commented "Mutant of" are not part of any specification: each is a
plausible mistake in the action it follows (a guard dropped, a step forgotten) and
documents what a property would catch.

## 3. Runs

| run | question | bounds and why they are enough |
|---|---|---|
| `session_safety` | Is every session in the table served, removed for a cause, and gone after the drain? Is `get_or_create`'s second look at the table always vacant? Does the gauge cover the table? | Two clients and two sessions: one client comes back after an eviction while the old session's reply task still ends, or two clients have a session each in one sweep. Batches of two datagrams, a timeout of one second, and a clock over three instants that is set forwards and back at any time, between cleanup's reading of it and its reading of the sessions too. `ListedAreIdle`: cleanup lists nothing because of the clock. Clients are interchangeable: symmetry, safety only. Any number of clients and sessions is covered by the proofs. |
| `session_liveness` | Does the shutdown complete, does an orphaned reply task end, is an idle session evicted? | One client, two sessions, half-second ticks, so that truncation to seconds happens; the clock only goes forwards (set back, it makes a session look active until it has caught up). |
| `session_revived` (violated) | Is an evicted session idle? | See finding 1. |
| `session_gauge` (violated) | Is the flow gauge the size of the table? | See finding 2. |
| `tcp_listeners` | Are permits conserved, is the gauge exact, is the cap kept, are proxies joined, do all listeners return? Is every connection in a backlog accepted? | Two ports, three connections, two permits: a permit can be free, or both held, or one port waiting while the other's connection ends; accept fails any number of times; connections need not end. As many permits as ports, and `BacklogAccepted` has the clients' good behaviour as its hypothesis (`EndingClients`). |
| `tcp_starved` (violated) | The last one with fewer permits than ports. | See finding 3. |
| `reply_sender` | Is no reply repeated, reordered or unaccounted for; is the sender a bounded lossy pipe (`ReplyPipe`) that keeps moving; does the listener return? | Two tasks with two replies each, a queue of two and batches of two: the queue fills, a batch holds replies of both tasks, a send takes half a batch. |
| `reply_drain` (violated) | Does the sender drain its queue before it ends? | See finding 4. |
| `target_cache` | One refresh at a time, no entry good for longer than the upper bound, never back to an older answer, expired entries replaced? | Two callers, room for two refresh tasks (so that a second one would be seen), TTLs below, between and above the two bounds, failures at any lookup. |
| `stats` | Are the deltas conserved, does the last rollup catch what came before the signal, does the ring keep its window, is an unlocked snapshot between the true totals at its start and its end, does every connection reach a bucket? | Two ports (a snapshot that is not atomic), a ring of two over three minutes (it wraps), a clock that jumps both ways, one reader next to the rollup task. |
| `process` | Do `parse_portset` and `split_host_port` accept what the arguments write down and nothing else? Is everything bound before anything runs, is every task joined, is a failure reported? | All port lists of up to five tokens over the numbers 0 to 3 with a largest port of 2 (so 3 does not parse): two segments and a range, empty segments, blanks, signs, reversed ranges, a range up to the largest port. All targets of up to five chunks. What a text writes down is stated by positions (the segments between commas, the forms of a number in them), not by a second parser. Then every set of ports those give, with and without the statistics endpoint and the summary, and a failure at every step. |
| `app` | Does the life cycle tell the listeners of the shutdown as `TcpListener` takes it, the token first? (Their own steps are `TcpListener`'s by definition.) Is the exit clean, with no permit out and no gauge up? Does the process end after ctrl-c? | One port, one connection, one permit, one HTTP request, any task but the TCP listener failing at any time. Several ports and connections are covered by the proofs, which reduce the composition to `TcpListener`, checked with two ports and three connections. |

### Findings

1. **A session that becomes active while cleanup works is evicted** (`session_revived`,
   `udp_session.rs:181`). Cleanup lists idle sessions, then removes them by source and
   id; a touch in between is not seen.
2. **The flow gauge can stay one too high** (`session_gauge`, `udp_session.rs:131`). The
   session is published before `record_udp_flow_open`; a removal in between is lost in
   the saturating decrement. It takes a second boundary between two adjacent
   statements, so it is rare, but nothing corrects it afterwards. What the code does
   guarantee, `GaugeCoversTable`, is proved.
3. **Idle listeners use up the cap** (`tcp_starved`, `listener/tcp.rs:33`). A listener
   takes its permit before `accept()`, so with fewer permits than ports some ports never
   accept, although no connection is open. With as many permits as ports `BacklogAccepted`
   holds (`tcp_listeners`).
4. **The reply queue is not drained at shutdown** (`reply_drain`, `listener/udp_send.rs:46`).
   The comment at `listener/udp.rs:78` expects it; the sender ends at the token.

Noticed while modelling, without a run of their own:

- Both the last activity and the current time are truncated to seconds
  (`udp_session.rs:176`), so a session can be evicted up to a second before its timeout
  has passed.
- The README gives 60 s as the default of `--udp-idle-timeout`, `cli.rs` 120 s.
- In `target.rs` the flag is cleared after the store, so a caller whose copy is from
  before the store can start a redundant refresh after the flag was cleared, and one
  that tries between store and clear does not start the refresh it might need; the next
  call does. `ExpiredRenewed` is stated for traffic that goes on.
- The rest of a batch that failed to send is not counted in `udp_dropped`.
- `tcp_active_peak` adds up gauges of different moments over all ports.
- A TCP port whose listener task has failed is dead, and nothing is said of it, until the
  shutdown joins the task (`runtime.rs:132`).
- A UDP listener that panics leaves its cleanup task behind, which owns the session table,
  the table the `Sender`, and so on down to the socket: the port stays bound, unserved,
  until the token (`OrphanCloses`).
- `[]:80` is accepted with an empty host (the plain form refuses one) and fails at its
  first lookup; `::1:9000` without brackets is taken as host `::1`; `+80` is a port, as
  Rust's `u16` parser takes a sign. `TargetAsWritten` is stated with these readings.
- Finished proxies stay in their port's `JoinSet` until the shutdown, so it grows with every
  connection ever accepted (`listener/tcp.rs:43`), and an `accept()` that fails for want of
  descriptors is tried again without a pause (`listener/tcp.rs:48`).
- A session may be evicted between `get_or_create` and the send on it: that datagram's
  answer has nobody to receive it.
- `rollup_now` is public and could run next to the rollup task; nothing else in the
  repository calls it, so the model has one rollup at a time.

## 4. Fairness

- A task that can take a step other than a branch of a `select!` takes it sooner or
  later: weak fairness per task. tokio's scheduler justifies it where the step is the
  task's own. Two of these steps wait for the kernel as well, the send to the target in
  `forward_client_packet` and the wait for a writable socket in `flush`: of them it is
  assumed that the kernel takes or refuses a datagram in the end.
- A `select!` polls its branches in random order, and the token stays cancelled: strong
  fairness for the branch that watches it, also when another branch is ready each time.
- `main()` and the runtime's tasks keep running, and a task that runs notices the token
  (`App`): weak fairness of each task's return, of binding, spawning and joining; strong
  fairness of a listener's token branch, as above. `ShutdownEnds` has `RequestsEnd`, that
  HTTP clients end their requests, as its hypothesis; `ForwardingCloses` needs no such thing.
- Nothing is assumed of the outside in the shutdown properties: connections need not
  end, accept may fail or block for ever, the target may send or be silent. (The kernel's part
  in a send is in the first item.)
- `BacklogAccepted` is about what clients and the kernel must do for everybody to get a
  turn: connections end, and an accept that is tried again and again succeeds in the
  end (`EndingClients`). `ExpiredRenewed` needs callers that keep calling.

## 5. Proofs

All proofs are checked by TLAPS without further assumptions than the named `ASSUME`s on
the constants (finite sets where sets are counted, positive capacities,
`MinTtl <= FailureRefresh <= MaxTtl`); TLC evaluates these in every run.

**`UdpSessionProofs`** proves `TypeOK`, `SessionServed`, `InsertFindsVacant`,
`DrainedStaysEmpty`, `GaugeCoversTable`, `RemovedForCause` and `ListedAreIdle`, the last
for any clock, set back or not. None of them is inductive. The invariant `IInv` adds, in
`TableInv`, what each task holds at each of its points, that an id not handed out yet names nothing (`FreshInv`), that the session being
built belongs to nobody else and its source stays vacant meanwhile (`NewSessionInv`,
true because only the listener inserts), that no session in the table is closed
(`EntryInv`), and that one taken out is out for good (`TakenInv`). `DrainInv` says that
during the drain everything in the table is on the listener's list; `GaugeInv` that the
gauge, together with the one decrement that may be lost between publication and count,
is at least the number of sessions counted in and not yet closed. `RemovedForCause` is
an action property that follows from the same invariant.

**`TcpListenerProofs`** proves `TypeOK`, `PermitsConserved`, `ActiveIsExact`,
`ListenerOutlivesProxies` and the refinement `ImplementsLimit`, for any number of ports, connections and permits.
The count of permits is a sum of two cardinalities; a released permit may move a
*different* listener, the first waiter, from one side to the other. So `IInv` has
`WaitersInv` (who is queued is waiting, and is queued once) besides `BacklogInv` and
`TakenInv` (a connection in a backlog is in that one, once, and a listener that holds
a connection is the only one to do so). Two counting lemmas, `ListenerMoves` and
`ConnMoves`, say what a single move does to the sums; `ReleaseKeeps` uses them for the
semaphore. The refinement rests on `RoomForOne`: a listener about to accept holds a
permit that belongs to no connection in service, so the connections in service are
fewer than the cap; the connections in listeners' hands are counted through the
injection of each into its listener. `ActiveIsExact` counts differently: a port's gauge
is the number of its connections being forwarded or about to be lowered, and one more while
its listener is between the increment and the spawn (`Forwarding`, `Raised`); the decrement
never meets a zero, so its saturation never hides anything.

**`ReplySenderProofs`** proves `TypeOK`, `EachReplyAccounted`, `DeliveredInOrder` and the
refinement of `ReplyPipe`, for any number of tasks and replies, queues and batches of any
size. The order is seen on one sequence, `Upcoming`: what was delivered, the rest of the
batch, the queue. Each task's replies increase along it wherever the borders are, so a send
that takes half a batch, or a batch of several tasks' replies, cannot reorder.
`NumbersInv` makes the next reply new: no reply anywhere is ahead of its task. With it and
`LostInv`, that nothing lost is still on its way, each reply is in one place only, and the
count of `EachReplyAccounted` follows move by move. `SenderInv` ties the sender's point to
its batch and says that a queue without a `Receiver` is empty. For the refinement, every
step of the queue and the sender is one of the pipe's (`Enter`, `Deliver`, `Lose`, `Shut`)
or invisible to it; the pipe's bound is the queue's capacity and one batch.

**`StatsRegistryProofs`** proves `TypeOK`, `DeltasConserved`, `ShutdownReported`,
`SnapshotRegular` and `WindowKept`, for any number of ports and readers, a ring of any size
and a clock that jumps. A loader that reads counter after counter while they move is between
two bounds (`LoadersInv`): it has at most what the ports it has passed count by now, and with
what the others count now at least what all counted when it began. Loading a port moves its
counter from the second part to the first (`NextPort`); an increment at a port already passed
or not yet reached can only leave the bounds or widen them. `PreviousInv` makes two rollups
in a row monotone, so a delta is never negative and `saturating_sub` never cuts one off; then
a rollup adds its delta to one bucket, and what that bucket held before either stays in it or
moves to `evicted` (`CommitIs`). `WindowKept` rests on `RingInv` (a bucket is in the
slot of its minute) and on `SameSlotIsFar`: different minutes in one slot are at least
the ring apart. Sums over ports and over the ring are defined as cardinalities of sets of pairs, which
is what lets lemmas say how one change moves them (`SumGrows`, `SumReplaces`).

**`TargetCacheProofs`** proves `SingleFlight`, `NeverOlder` and `DeadlineBounded`. With
at most one refresh task alive nobody else stores, so the entry it is about to store is
at least as new as the cached one (`AnswersInv`), and every entry on its way to the
cache keeps to the upper bound (`DeadlineInv`).

**`RuntimeProofs`** proves `RuntimeTypeOK`, `SocketsOfTasks`, `ExitAfterTasks` and
`FailureReported` for any number of ports, whatever fails. `RuntimeIInv` adds to them
`JoinInv` (what was joined has ended, `firstError` is set as soon as a failed task is
joined and is about one that failed, and the outcome says so) and `PlanInv` (only tasks
the configuration plans are ever spawned).

**`ProcessProofs`** proves `PortsValid` and that `ProcessSpec` implements `RuntimeSpec`:
the parser hands over a non-empty set of valid ports, which is all `Runtime` assumes.
So what is proved of `Runtime` holds for whatever the command line says, `SocketsOfTasks`,
`ExitAfterTasks` and `FailureReported` among it (`LifeCycleIsKept`). It also proves
`PortsAsWritten` and `TargetAsWritten`, for arguments of any length and any largest port:
the parsers accept exactly the texts that write something down, and take from them what they
write. For the target, `SplitIsExact` says that `split_host_port` returns a host and a port
if and only if the argument writes those two, so each text has at most one reading; the first and the
last position of a character, which the parser looks for, exist because positions are
numbers, and have a least and a greatest (`FirstIs`, `LastIs`). For the ports,
`PortsInv` is the loop's invariant: the set is that of the segments before its position
(`Read`), the position is at the start of a segment, and one turn reads the next one
(`NextSegment`, `SegmentIs`).

**`AppProofs`** proves that `AppSpec` implements `RuntimeSpec` and that it implements
`TcpListener`'s specification (`ImplementsTcpListener`), so the theorems of both modules
hold in the composition. `CleanExit` needs both: the exit is after the join of every
task (`ExitAfterTasks`), a TCP task that has returned was at the end of its listener's
`run()` (`ListenerTasks`), a listener at its end has no proxy left
(`ListenerOutlivesProxies`, from `TcpListenerProofs`), a connection is only ever at a
configured port (`ConnsOfPorts`), and then `PermitsConserved` says that every permit is
back and `ActiveIsExact` that every gauge is at zero. `ListenersKeepTheirPromises` states
these, and `ListenerOutlivesProxies`, of the process in all its states. With a failed task the process still exits in order; the composition leaves out
the panic of a TCP listener itself, which aborts its proxies where they are.

The refinements form two chains, `Process` => `Runtime`, and `App` => `Runtime`,
`App` => `TcpListener` => `ConnectionLimit`; `ReplySender` => `ReplyPipe` stands by itself.

The inductive invariants were themselves checked by TLC on the instances above.

A type invariant, or another invariant, that is proved and not a question of its own is
mostly not repeated in the runs.

Every safety property of a passing run is proved. Model-checked only are the eleven liveness
properties (the prover has no support for `ENABLED`, which fairness is defined by) and the
findings, which are counterexamples. The number a token stands for is part of the
model, so nothing is proved about the digits of a number.

## 6. Not modelled

- `cli.rs` and `socket.rs`: option declarations (clap and humantime parse them) and
  socket options. They decide nothing at run time; the values that do are the constants
  and inputs of the modules.
- Packaging.
- The panic of a TCP listener in `App` (it is in `Runtime`); panics of proxies, reply and
  refresh tasks, which the code nowhere looks at.
- ctrl-c before `main()` waits for it: no handler is installed yet and the signal ends the
  process as it ends any other.
- The HTTP server beyond its graceful shutdown, and the summary task beyond its end: both
  only read snapshots, which are in `StatsRegistry` as `Readers`.
- Byte counts, encodings of addresses for `sendmmsg`, JSON, log lines; the memory finished
  proxies take in a `JoinSet`. Seven of the statistics' growing counters are one in
  `StatsRegistry`, and the sum of the gauges a rollup sees is an arbitrary number.

## 7. Plan

Written, in this order: `UdpSession` with its proofs, `TcpListener` with
`ConnectionLimit` and its proofs, `ReplySender` with `ReplyPipe`, `TargetCache` with its
proofs, `StatsRegistry`, `Runtime` with its proofs, `App`, `Config` and `Process` with
theirs, the clock set back in `UdpSession`, the gauge in `TcpListenerProofs`, the proofs of
`ReplySender`, of `StatsRegistry` and of what the arguments write down, and the listeners'
theorems as theorems of the process.

Next:

1. The UDP listeners in `App`: `UdpSession` and `ReplySender` composed over the queue, as
   the TCP listeners are.
2. What a connection that fails adds to the byte counters (`forward/tcp.rs:36`).

The whole set of runs is kept to a dozen that finish within a few minutes each: new
instances replace the ones they subsume.
