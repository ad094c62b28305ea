----------------------------- MODULE UdpSession -----------------------------
(***************************************************************************)
(* The UDP session table of one listen port (src/src/udp_session.rs) and   *)
(* the tasks that share it:                                                *)
(*                                                                         *)
(*   - the listener (src/src/listener/udp.rs), which looks a session up or *)
(*     creates it for every client datagram, forwards the datagram, and on *)
(*     shutdown removes every session;                                     *)
(*   - the cleanup task, which collects the idle sessions and then removes *)
(*     them one by one;                                                    *)
(*   - one detached reply task per session, which passes the target's      *)
(*     answers on and removes its own session when it ends.                *)
(*                                                                         *)
(* They run on tokio's multi-threaded runtime: a step of the model is one  *)
(* access to shared state (one DashMap shard operation, one atomic) or one *)
(* await, and the steps of different tasks interleave freely.  Payloads    *)
(* and byte counters are left out; the reply queue appears only as the     *)
(* three outcomes of try_send.                                             *)
(***************************************************************************)
EXTENDS Integers, Sequences, FiniteSets

CONSTANTS
  Sources,         \* client addresses, the keys of the table
  NoSource,        \* the owner of an id not handed out yet
  MaxSessions,     \* bound: how many sessions the model ever creates
  MaxNow,          \* bound: the last clock tick of the model
  ClockBack,       \* bound: whether the model sets the clock back
  TicksPerSecond,  \* resolution of the clock below the second the code reads
  IdleTimeout,     \* --udp-idle-timeout, in ticks
  ListenerBatch,   \* LISTENER_BATCH_SIZE
  SessionBatch     \* SESSION_BATCH_SIZE

ASSUME ConstantsAssumption ==
  /\ NoSource \notin Sources
  /\ MaxSessions \in Nat \ {0}
  /\ MaxNow \in Nat /\ ClockBack \in BOOLEAN
  /\ TicksPerSecond \in Nat \ {0}
  /\ IdleTimeout \in Nat \ {0}       \* RuntimeConfig::new rejects zero
  /\ ListenerBatch \in Nat \ {0}
  /\ SessionBatch \in Nat \ {0}

Ids == 1 .. MaxSessions
NoSession == 0

VARIABLES
  now,         \* the wall clock, in ticks
  shutdown,    \* the port's CancellationToken
  senderGone,  \* the reply sender task has dropped its Receiver
  sessions,    \* the DashMap: source -> id of its session, or NoSession
  nextId,      \* next_session_id
  owner,       \* UdpSession.source of each id
  lastActive,  \* the tick of the last touch; the code keeps only its second
  cancelled,   \* UdpSession.shutdown
  closed,      \* UdpSession.closed
  flows,       \* PortStats.udp_active_flows
  lpc,         \* listener: the point it has reached
  batch,       \* listener: sources of the datagrams still to handle
  cur,         \* listener: the session get_or_create is building or returned
  todo,        \* listener: (source, id) pairs shutdown_all still removes
  cpc,         \* cleanup task: the point it has reached
  cnow,        \* cleanup task: the second it read before it lists the idle sessions
  stale,       \* cleanup task: (source, id) pairs it still removes
  ccur,        \* cleanup task: the session it has taken out of the table
  rpc,         \* reply tasks: the point each has reached
  inbox        \* reply tasks: datagrams left of the received batch

tableVars    == <<sessions, nextId>>
objectVars   == <<owner, lastActive, cancelled, closed>>
listenerVars == <<lpc, batch, cur, todo>>
cleanupVars  == <<cpc, cnow, stale, ccur>>
replyVars    == <<rpc, inbox>>
envVars      == <<now, shutdown, senderGone>>
vars == <<tableVars, objectVars, flows, listenerVars, cleanupVars, replyVars, envVars>>

ListenerPoints ==
  {"select", "lookup", "touch", "connect", "insert", "open", "spawn", "send",
   "sent", "drain", "retire", "join", "waitSender", "done"}
CleanupPoints == {"wait", "list", "sweep", "retire", "done"}
ReplyPoints   == {"none", "recv", "deliver", "remove", "retire", "done"}

EnvTypes == now \in 0 .. MaxNow /\ shutdown \in BOOLEAN /\ senderGone \in BOOLEAN
TableTypes == sessions \in [Sources -> Ids \cup {NoSession}] /\ nextId \in 1 .. MaxSessions + 1
ObjectTypes ==
  /\ owner \in [Ids -> Sources \cup {NoSource}]
  /\ lastActive \in [Ids -> 0 .. MaxNow]
  /\ cancelled \in [Ids -> BOOLEAN]
  /\ closed \in [Ids -> BOOLEAN]
ListenerTypes ==
  /\ lpc \in ListenerPoints
  /\ batch \in Seq(Sources)
  /\ cur \in Ids \cup {NoSession}
  /\ todo \subseteq Sources \X Ids
CleanupTypes ==
  /\ cpc \in CleanupPoints /\ cnow \in 0 .. MaxNow
  /\ stale \subseteq Sources \X Ids
  /\ ccur \in Ids \cup {NoSession}
ReplyTypes == rpc \in [Ids -> ReplyPoints] /\ inbox \in [Ids -> 0 .. SessionBatch]

TypeOK ==
  EnvTypes /\ TableTypes /\ ObjectTypes /\ flows \in Nat
  /\ ListenerTypes /\ CleanupTypes /\ ReplyTypes

Init ==
  /\ now = 0 /\ shutdown = FALSE /\ senderGone = FALSE
  /\ sessions = [c \in Sources |-> NoSession]
  /\ nextId = 1
  /\ owner = [s \in Ids |-> NoSource]
  /\ lastActive = [s \in Ids |-> 0]
  /\ cancelled = [s \in Ids |-> FALSE]
  /\ closed = [s \in Ids |-> FALSE]
  /\ flows = 0
  /\ lpc = "select" /\ batch = <<>> /\ cur = NoSession /\ todo = {}
  /\ cpc = "wait" /\ cnow = 0 /\ stale = {} /\ ccur = NoSession
  /\ rpc = [s \in Ids |-> "none"]
  /\ inbox = [s \in Ids |-> 0]

-----------------------------------------------------------------------------
(* Helpers.                                                                *)

Entries == {<<c, sessions[c]>> : c \in {d \in Sources : sessions[d] # NoSession}}

\* unix_timestamp_now() is whole seconds.
Epoch(t) == t \div TicksPerSecond

\* Mutant of SaturatingSub: a subtraction that wraps to a huge number.
WrappingSub(a, b) == IF a >= b THEN a - b ELSE 2^30 + a - b

SaturatingSub(a, b) == IF a >= b THEN a - b ELSE 0

\* How long session s has been idle at second t.
IdleAt(s, t) == SaturatingSub(t, Epoch(lastActive[s]))
IdleSeconds(s) == IdleAt(s, Epoch(now))
TimeoutSeconds == LET whole == Epoch(IdleTimeout) IN IF whole > 1 THEN whole ELSE 1

Touch(s) == lastActive' = [lastActive EXCEPT ![s] = now]

\* Mutant of Matches: remove_session removes by source alone.
MatchesSource(c, id) == sessions[c] # NoSession

\* The predicate remove_session hands to remove_if: still the session the
\* caller saw, not a later one under the same source.
Matches(c, id) == sessions[c] = id

\* DashMap::remove_if, atomic under the shard's lock.
RemoveIf(c, id) ==
  sessions' = IF Matches(c, id) THEN [sessions EXCEPT ![c] = NoSession] ELSE sessions

\* Mutant of Retire: remove_session forgets to cancel the token.
RetireNoCancel(s) ==
  /\ closed' = [closed EXCEPT ![s] = TRUE]
  /\ flows' = IF closed[s] THEN flows ELSE SaturatingSub(flows, 1)
  /\ UNCHANGED cancelled

\* What remove_session does with a session it took out of the table: cancel
\* its token, and count the flow's end once (saturating decrement).
Retire(s) ==
  /\ cancelled' = [cancelled EXCEPT ![s] = TRUE]
  /\ closed' = [closed EXCEPT ![s] = TRUE]
  /\ flows' = IF closed[s] THEN flows ELSE SaturatingSub(flows, 1)

-----------------------------------------------------------------------------
(* The listener: recv_batch, then get_or_create and forward_client_packet  *)
(* for each datagram.  Datagrams without an address or a payload are       *)
(* skipped without effect, so a batch holds the others.                    *)

Client == Head(batch)

NextDatagram ==
  /\ batch' = Tail(batch)
  /\ lpc' = IF Tail(batch) = <<>> THEN "select" ELSE "lookup"
  /\ cur' = NoSession

ListenerRecv ==
  /\ lpc = "select"
  /\ \E n \in 1 .. ListenerBatch : batch' \in [1 .. n -> Sources]
  /\ lpc' = "lookup"
  /\ UNCHANGED <<cur, todo, tableVars, objectVars, flows, cleanupVars, replyVars, envVars>>

LookupHit ==
  /\ lpc = "lookup"
  /\ sessions[Client] # NoSession
  /\ cur' = sessions[Client]
  /\ lpc' = "touch"
  /\ UNCHANGED <<batch, todo, tableVars, objectVars, flows, cleanupVars, replyVars, envVars>>

\* Mutant of LookupMiss: the lookup result is kept from before the batch.
LookupMissStale ==
  /\ lpc = "lookup"
  /\ lpc' = "connect"
  /\ UNCHANGED <<batch, cur, todo, tableVars, objectVars, flows, cleanupVars, replyVars, envVars>>

LookupMiss ==
  /\ lpc = "lookup"
  /\ sessions[Client] = NoSession
  /\ lpc' = "connect"
  /\ UNCHANGED <<batch, cur, todo, tableVars, objectVars, flows, cleanupVars, replyVars, envVars>>

TouchFound ==
  /\ lpc = "touch"
  /\ Touch(cur)
  /\ lpc' = "send"
  /\ UNCHANGED <<batch, cur, todo, tableVars, owner, cancelled, closed, flows, cleanupVars,
                 replyVars, envVars>>

\* new_connected_udp_socket succeeded: a new UdpSession under a fresh id.
Connect ==
  /\ lpc = "connect"
  /\ nextId <= MaxSessions
  /\ cur' = nextId
  /\ nextId' = nextId + 1
  /\ owner' = [owner EXCEPT ![nextId] = Client]
  /\ Touch(nextId)
  /\ lpc' = "insert"
  /\ UNCHANGED <<batch, todo, sessions, cancelled, closed, flows, cleanupVars, replyVars, envVars>>

ConnectFail ==
  /\ lpc = "connect"
  /\ NextDatagram
  /\ UNCHANGED <<todo, tableVars, objectVars, flows, cleanupVars, replyVars, envVars>>

\* sessions.entry(source): Occupied returns the session found there and drops
\* the new one, Vacant publishes the new one.
Insert ==
  /\ lpc = "insert"
  /\ LET existing == sessions[Client] IN
       IF existing = NoSession
       THEN /\ sessions' = [sessions EXCEPT ![Client] = cur]
            /\ lpc' = "open"
            /\ UNCHANGED <<cur, lastActive>>
       ELSE /\ cur' = existing
            /\ Touch(existing)
            /\ lpc' = "send"
            /\ UNCHANGED sessions
  /\ UNCHANGED <<batch, todo, nextId, owner, cancelled, closed, flows, cleanupVars, replyVars,
                 envVars>>

\* Mutant of RecordOpen: the flow's start is not recorded.
RecordOpenMissing ==
  /\ lpc = "open"
  /\ lpc' = "spawn"
  /\ UNCHANGED <<flows, batch, cur, todo, tableVars, objectVars, cleanupVars, replyVars, envVars>>

\* record_udp_flow_open, after the entry's lock is released.
RecordOpen ==
  /\ lpc = "open"
  /\ flows' = flows + 1
  /\ lpc' = "spawn"
  /\ UNCHANGED <<batch, cur, todo, tableVars, objectVars, cleanupVars, replyVars, envVars>>

SpawnReply ==
  /\ lpc = "spawn"
  /\ rpc' = [rpc EXCEPT ![cur] = "recv"]
  /\ lpc' = "send"
  /\ UNCHANGED <<batch, cur, todo, tableVars, objectVars, flows, cleanupVars, inbox, envVars>>

\* upstream.send(payload).await, then touch; an error leaves the session be.
SendOk ==
  /\ lpc = "send"
  /\ lpc' = "sent"
  /\ UNCHANGED <<batch, cur, todo, tableVars, objectVars, flows, cleanupVars, replyVars, envVars>>

SendErr ==
  /\ lpc = "send"
  /\ NextDatagram
  /\ UNCHANGED <<todo, tableVars, objectVars, flows, cleanupVars, replyVars, envVars>>

TouchSent ==
  /\ lpc = "sent"
  /\ Touch(cur)
  /\ NextDatagram
  /\ UNCHANGED <<todo, tableVars, owner, cancelled, closed, flows, cleanupVars, replyVars, envVars>>

-----------------------------------------------------------------------------
(* The listener's shutdown: shutdown_all, then join the cleanup task, drop *)
(* the table and join the reply sender.  Reply tasks are not joined.       *)

\* Mutant of ListenerShutdown: run() leaves the loop without shutdown_all.
ListenerShutdownNoDrain ==
  /\ lpc = "select"
  /\ shutdown
  /\ lpc' = "drain"
  /\ UNCHANGED <<batch, cur, todo, tableVars, objectVars, flows, cleanupVars, replyVars, envVars>>

ListenerShutdown ==
  /\ lpc = "select"
  /\ shutdown
  /\ todo' = Entries
  /\ lpc' = "drain"
  /\ UNCHANGED <<batch, cur, tableVars, objectVars, flows, cleanupVars, replyVars, envVars>>

DrainRemove(c, id) ==
  /\ lpc = "drain"
  /\ <<c, id>> \in todo
  /\ todo' = todo \ {<<c, id>>}
  /\ RemoveIf(c, id)
  /\ IF Matches(c, id)
     THEN lpc' = "retire" /\ cur' = sessions[c]
     ELSE UNCHANGED <<lpc, cur>>
  /\ UNCHANGED <<batch, nextId, objectVars, flows, cleanupVars, replyVars, envVars>>

DrainRetire ==
  /\ lpc = "retire"
  /\ Retire(cur)
  /\ cur' = NoSession
  /\ lpc' = "drain"
  /\ UNCHANGED <<batch, todo, tableVars, owner, lastActive, cleanupVars, replyVars, envVars>>

DrainDone ==
  /\ lpc = "drain"
  /\ todo = {}
  /\ lpc' = "join"
  /\ UNCHANGED <<batch, cur, todo, tableVars, objectVars, flows, cleanupVars, replyVars, envVars>>

JoinCleanup ==
  /\ lpc = "join"
  /\ cpc = "done"
  /\ lpc' = "waitSender"
  /\ UNCHANGED <<batch, cur, todo, tableVars, objectVars, flows, cleanupVars, replyVars, envVars>>

JoinSender ==
  /\ lpc = "waitSender"
  /\ senderGone
  /\ lpc' = "done"
  /\ UNCHANGED <<batch, cur, todo, tableVars, objectVars, flows, cleanupVars, replyVars, envVars>>

-----------------------------------------------------------------------------
(* cleanup_loop: read the clock, list the idle sessions, remove them one   *)
(* by one.  The pass over the table is one step of the model: its entries  *)
(* are compared with one second, and each is looked at again, by its id,   *)
(* before it is removed.                                                   *)

CleanupTick ==
  /\ cpc = "wait"
  /\ cnow' = Epoch(now)
  /\ cpc' = "list"
  /\ UNCHANGED <<stale, ccur, tableVars, objectVars, flows, listenerVars, replyVars, envVars>>

\* Mutant of ListIdle: > for >=, a session idle for just the timeout stays.
ListIdleStrict ==
  /\ cpc = "list"
  /\ stale' = {e \in Entries : IdleAt(e[2], cnow) > TimeoutSeconds}
  /\ cpc' = "sweep" /\ cnow' = 0
  /\ UNCHANGED <<ccur, tableVars, objectVars, flows, listenerVars, replyVars, envVars>>

ListIdle ==
  /\ cpc = "list"
  /\ stale' = {e \in Entries : IdleAt(e[2], cnow) >= TimeoutSeconds}
  /\ cpc' = "sweep" /\ cnow' = 0
  /\ UNCHANGED <<ccur, tableVars, objectVars, flows, listenerVars, replyVars, envVars>>

SweepRemove(c, id) ==
  /\ cpc = "sweep"
  /\ <<c, id>> \in stale
  /\ stale' = stale \ {<<c, id>>}
  /\ RemoveIf(c, id)
  /\ IF Matches(c, id)
     THEN cpc' = "retire" /\ ccur' = sessions[c]
     ELSE UNCHANGED <<cpc, ccur>>
  /\ UNCHANGED <<cnow, nextId, objectVars, flows, listenerVars, replyVars, envVars>>

SweepRetire ==
  /\ cpc = "retire"
  /\ Retire(ccur)
  /\ ccur' = NoSession
  /\ cpc' = "sweep"
  /\ UNCHANGED <<cnow, stale, tableVars, owner, lastActive, listenerVars, replyVars, envVars>>

SweepDone ==
  /\ cpc = "sweep"
  /\ stale = {}
  /\ cpc' = "wait"
  /\ UNCHANGED <<cnow, stale, ccur, tableVars, objectVars, flows, listenerVars, replyVars, envVars>>

\* Mutant of CleanupShutdown: the loop stops only while sessions are left.
CleanupShutdownIfBusy ==
  /\ cpc = "wait"
  /\ shutdown /\ Entries # {}
  /\ cpc' = "done"
  /\ UNCHANGED <<cnow, stale, ccur, tableVars, objectVars, flows, listenerVars, replyVars, envVars>>

CleanupShutdown ==
  /\ cpc = "wait"
  /\ shutdown
  /\ cpc' = "done"
  /\ UNCHANGED <<cnow, stale, ccur, tableVars, objectVars, flows, listenerVars, replyVars, envVars>>

-----------------------------------------------------------------------------
(* reply_loop of session s.  Transient receive errors and empty datagrams  *)
(* change nothing.                                                         *)

ReplyRecv(s) ==
  /\ rpc[s] = "recv"
  /\ \E n \in 1 .. SessionBatch : inbox' = [inbox EXCEPT ![s] = n]
  /\ rpc' = [rpc EXCEPT ![s] = "deliver"]
  /\ UNCHANGED <<tableVars, objectVars, flows, listenerVars, cleanupVars, envVars>>

NextReply(s) ==
  /\ inbox' = [inbox EXCEPT ![s] = @ - 1]
  /\ rpc' = [rpc EXCEPT ![s] = IF inbox[s] = 1 THEN "recv" ELSE "deliver"]

\* try_send: queued (and the session touched), or dropped because it is full.
ReplyQueued(s) ==
  /\ rpc[s] = "deliver"
  /\ ~senderGone
  /\ Touch(s)
  /\ NextReply(s)
  /\ UNCHANGED <<tableVars, owner, cancelled, closed, flows, listenerVars, cleanupVars, envVars>>

ReplyDropped(s) ==
  /\ rpc[s] = "deliver"
  /\ ~senderGone
  /\ NextReply(s)
  /\ UNCHANGED <<tableVars, objectVars, flows, listenerVars, cleanupVars, envVars>>

ReplyEnd(s) ==
  /\ rpc' = [rpc EXCEPT ![s] = "remove"]
  /\ inbox' = [inbox EXCEPT ![s] = 0]
  /\ UNCHANGED <<tableVars, objectVars, flows, listenerVars, cleanupVars, envVars>>

\* try_send found the Receiver gone.
ReplyClosed(s) == rpc[s] = "deliver" /\ senderGone /\ ReplyEnd(s)

\* A receive error other than an ICMP echo of an earlier send.
ReplyFail(s) == rpc[s] = "recv" /\ ReplyEnd(s)

ReplyShutdown(s) == rpc[s] = "recv" /\ shutdown /\ ReplyEnd(s)

ReplyCancelled(s) == rpc[s] = "recv" /\ cancelled[s] /\ ReplyEnd(s)

\* Mutant of ReplyRemove: the loop returns without remove_session.
ReplyRemoveMissing(s) ==
  /\ rpc[s] = "remove"
  /\ rpc' = [rpc EXCEPT ![s] = "done"]
  /\ UNCHANGED <<sessions, nextId, objectVars, flows, listenerVars, cleanupVars, inbox, envVars>>

\* remove_session(session.source(), session.id()) after the loop.
ReplyRemove(s) ==
  /\ rpc[s] = "remove"
  /\ RemoveIf(owner[s], s)
  /\ rpc' = [rpc EXCEPT ![s] = IF Matches(owner[s], s) THEN "retire" ELSE "done"]
  /\ UNCHANGED <<nextId, objectVars, flows, listenerVars, cleanupVars, inbox, envVars>>

ReplyRetire(s) ==
  /\ rpc[s] = "retire"
  /\ Retire(s)
  /\ rpc' = [rpc EXCEPT ![s] = "done"]
  /\ UNCHANGED <<tableVars, owner, lastActive, listenerVars, cleanupVars, inbox, envVars>>

-----------------------------------------------------------------------------
(* Environment: the clock, the shutdown signal, the reply sender's exit.   *)

\* SystemTime: the wall clock may be set, forwards and backwards.
ClockMoves ==
  /\ now' \in 0 .. MaxNow
  /\ now' = now + 1 \/ (ClockBack /\ now' < now)
  /\ UNCHANGED <<shutdown, senderGone, tableVars, objectVars, flows, listenerVars, cleanupVars,
                 replyVars>>

Shutdown ==
  /\ ~shutdown
  /\ shutdown' = TRUE
  /\ UNCHANGED <<now, senderGone, tableVars, objectVars, flows, listenerVars, cleanupVars,
                 replyVars>>

SenderExit ==
  /\ shutdown
  /\ ~senderGone
  /\ senderGone' = TRUE
  /\ UNCHANGED <<now, shutdown, tableVars, objectVars, flows, listenerVars, cleanupVars, replyVars>>

\* The port's task has returned and its detached tasks have ended.
Finished == lpc = "done" /\ cpc = "done" /\ \A s \in Ids : rpc[s] \in {"none", "done"}

\* The process may stop here, and nowhere else.
Terminated == Finished /\ UNCHANGED vars

-----------------------------------------------------------------------------
GetOrCreate == LookupHit \/ TouchFound \/ LookupMiss \/ Connect \/ ConnectFail \/ Insert
               \/ RecordOpen \/ SpawnReply
ForwardClientPacket == SendOk \/ SendErr \/ TouchSent
Drain == (\E e \in todo : DrainRemove(e[1], e[2])) \/ DrainRetire \/ DrainDone
         \/ JoinCleanup \/ JoinSender
Cleanup ==
  \/ CleanupTick \/ ListIdle \/ SweepRetire \/ SweepDone
  \/ \E e \in stale : SweepRemove(e[1], e[2])
Deliver(s) == ReplyQueued(s) \/ ReplyDropped(s) \/ ReplyClosed(s)
ReplyExit(s) == ReplyRemove(s) \/ ReplyRetire(s)

Next ==
  \/ ListenerRecv \/ GetOrCreate \/ ForwardClientPacket \/ ListenerShutdown \/ Drain
  \/ Cleanup \/ CleanupShutdown
  \/ \E s \in Ids : \/ ReplyRecv(s) \/ Deliver(s) \/ ReplyFail(s)
                    \/ ReplyShutdown(s) \/ ReplyCancelled(s) \/ ReplyExit(s)
  \/ ClockMoves \/ Shutdown \/ SenderExit \/ Terminated

Spec == Init /\ [][Next]_vars

(***************************************************************************)
(* Every task keeps running (weak fairness of its own steps).  select!     *)
(* polls its ready branches in random order, so a token that stays         *)
(* cancelled is noticed sooner or later however busy the other branch is:  *)
(* strong fairness of the branches that watch a token.  Nothing is assumed *)
(* of the clients, the target, the clock or the shutdown signal.           *)
(***************************************************************************)
Fairness ==
  /\ WF_vars(GetOrCreate \/ ForwardClientPacket \/ Drain)
  /\ SF_vars(ListenerShutdown)
  /\ WF_vars(Cleanup)
  /\ SF_vars(CleanupShutdown)
  /\ \A s \in Ids : /\ WF_vars(Deliver(s) \/ ReplyExit(s))
                    /\ SF_vars(ReplyShutdown(s))
                    /\ SF_vars(ReplyCancelled(s))
  /\ WF_vars(SenderExit)

FairSpec == Spec /\ Fairness

-----------------------------------------------------------------------------
(* Properties.                                                             *)

Live == {c \in Sources : sessions[c] # NoSession}

\* A session clients can still be routed to (it is in the table) belongs to
\* that source, is not cancelled, and has a reply task that will either keep
\* passing answers back or take the session out; the only exception is the
\* window between get_or_create's insert and its spawn_reply_task.  A session
\* without a reply task would swallow every answer for as long as the client
\* keeps it from idling out.
SessionServed ==
  \A c \in Live : LET s == sessions[c] IN
    /\ owner[s] = c
    /\ ~cancelled[s]
    /\ \/ rpc[s] \in {"recv", "deliver", "remove"}
       \/ rpc[s] = "none" /\ cur = s /\ lpc \in {"open", "spawn"}

\* udp_active_flows never shows fewer flows than the table holds, whatever
\* order the removals' saturating decrements and the insertion's increment
\* come in (between insert and record_udp_flow_open it lags by the new one).
GaugeCoversTable == lpc # "open" => flows >= Cardinality(Live)

\* get_or_create's second look at the table (the entry API) always finds it
\* vacant: with one listener per port nobody else inserts, so its Occupied
\* arm is only a safeguard.
InsertFindsVacant == lpc = "insert" => sessions[Client] = NoSession

\* Once run() has gone through shutdown_all, no session is or comes back in
\* the table, although reply tasks and the cleanup task are still running.
DrainedStaysEmpty == lpc \in {"join", "waitSender", "done"} => Live = {}

\* A session leaves the table only because cleanup saw that very session
\* idle, shutdown_all listed it, or its own reply task ended: a late removal
\* never hits the next session of the same source.
HasCause ==
  \A c \in Live : LET s == sessions[c] IN
    sessions'[c] # s => \/ <<c, s>> \in stale
                        \/ <<c, s>> \in todo
                        \/ rpc[s] = "remove"
RemovedForCause == [][HasCause]_vars

\* Cleanup lists a session only when the clock has moved on by the timeout from
\* its last touch to the listing's own reading: a clock that was set back, or a
\* touch in a later second than the one cleanup holds, never makes it look idle.
ListedAreIdle ==
  [][cpc = "list" /\ cpc' = "sweep" =>
       \A e \in stale' : Epoch(lastActive[e[2]]) + TimeoutSeconds <= cnow]_<<cpc, stale>>

\* After the shutdown signal the port's task and every task it left behind
\* come to an end.
ShutdownCompletes == shutdown ~> Finished

\* The reply task of a session that is no longer in the table ends, and with
\* it the session's upstream socket, even if the target never stops sending.
OrphanEnds ==
  \A s \in Ids : (rpc[s] # "none" /\ sessions[owner[s]] # s) ~> rpc[s] = "done"

\* A session that is idle for the timeout is evicted, unless traffic revives it
\* or the wall clock is set back.
StaleIsEvicted ==
  \A c \in Sources, s \in Ids :
    (sessions[c] = s /\ IdleSeconds(s) >= TimeoutSeconds)
      ~> (sessions[c] # s \/ IdleSeconds(s) < TimeoutSeconds)

-----------------------------------------------------------------------------
(* The inductive invariant behind the safety properties, part by part.     *)

InTable(s) == \E c \in Sources : sessions[c] = s

\* Each task holds what its next step reads.
PointsInv ==
  /\ lpc \in {"lookup", "touch", "connect", "insert", "open", "spawn", "send", "sent"}
       => batch # <<>>
  /\ lpc \in {"touch", "insert", "open", "spawn", "send", "sent", "retire"}
       => cur \in Ids /\ cur < nextId
  /\ cpc = "retire" => ccur \in Ids /\ ccur < nextId

\* A reply task delivers only while it has something to deliver.
InboxInv == \A s \in Ids : rpc[s] = "deliver" => inbox[s] > 0

\* Ids not handed out yet name nothing.
FreshInv ==
  \A s \in Ids : s >= nextId => /\ ~InTable(s)
                               /\ rpc[s] = "none"
                               /\ ~cancelled[s] /\ ~closed[s]

\* The session get_or_create is building is nobody else's yet, and the source
\* it is for stays out of the table until it is inserted.
NewSessionInv ==
  /\ lpc \in {"connect", "insert"} => sessions[Client] = NoSession
  /\ lpc = "insert" => /\ owner[cur] = Client
                       /\ ~InTable(cur)
                       /\ rpc[cur] = "none"
                       /\ ~cancelled[cur] /\ ~closed[cur]
                       /\ cpc = "retire" => ccur # cur
  /\ lpc \in {"open", "spawn"} => rpc[cur] = "none"

EntryInv ==
  \A c \in Live : LET s == sessions[c] IN
    /\ s < nextId
    /\ ~closed[s]

\* The task is running, or its session is published and it is about to start.
Published(s) == rpc[s] # "none" \/ (lpc \in {"open", "spawn"} /\ cur = s)

\* A session somebody took out of the table is out of it for good.
TakenInv ==
  /\ cpc = "retire" => ~InTable(ccur) /\ Published(ccur)
  /\ lpc = "retire" => ~InTable(cur) /\ rpc[cur] # "none"
  /\ \A s \in Ids : rpc[s] \in {"retire", "done"} => ~InTable(s)

\* What shutdown_all has not removed yet is on its list.
DrainInv == lpc \in {"drain", "retire"} => Entries \subseteq todo

\* The flows that have been counted in and not out, and the decrement that
\* found the gauge not raised yet.
Counted == {s \in Ids : ~closed[s] /\ (rpc[s] # "none" \/ (lpc = "spawn" /\ cur = s))}
LostDecrement == IF lpc = "open" /\ closed[cur] THEN 1 ELSE 0
GaugeInv == flows + LostDecrement >= Cardinality(Counted)

TableInv ==
  PointsInv /\ FreshInv /\ NewSessionInv /\ SessionServed /\ EntryInv /\ TakenInv
IInv == TypeOK /\ InboxInv /\ TableInv /\ DrainInv /\ DrainedStaysEmpty /\ GaugeInv
=============================================================================
