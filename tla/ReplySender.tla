----------------------------- MODULE ReplySender -----------------------------
(***************************************************************************)
(* The reply path of one listen port: the reply tasks of its UDP sessions  *)
(* (src/src/udp_session.rs) put the target's answers into a bounded queue  *)
(* without ever waiting, and one task (src/src/listener/udp_send.rs) takes *)
(* them out in batches and sends each batch with as many sendmmsg calls as *)
(* it needs (src/src/listener/udp_batch.rs).                               *)
(*                                                                         *)
(* The queue closes on either side: when the sender task ends, and when    *)
(* the last holder of the session table, which owns the Sender, drops it.  *)
(* A reply is its task and its number there; its bytes are counted as one. *)
(* Interrupted and WouldBlock leave every variable as it was: a send that  *)
(* the kernel does not take is a send that has not happened yet.           *)
(***************************************************************************)
EXTENDS Naturals, Sequences, FiniteSets

CONSTANTS
  Tasks,       \* the reply tasks, one per session
  MaxReplies,  \* bound: the replies the target sends to each session
  Capacity,    \* REPLY_QUEUE_CAPACITY
  BatchSize    \* SEND_BATCH_SIZE

ASSUME ReplyAssumption ==
  /\ IsFiniteSet(Tasks)
  /\ MaxReplies \in Nat
  /\ Capacity \in Nat \ {0}
  /\ BatchSize \in Nat \ {0}

Replies == [by : Tasks, n : 1 .. MaxReplies]

VARIABLES
  shutdown,   \* the port's CancellationToken
  listener,   \* "running", "joining" the sender, or "returned"
  task,       \* "new", "running" or "ended": a running task holds the table
  produced,   \* replies each task has offered
  dropped,    \* PortStats.udp_dropped
  queue,      \* the mpsc channel
  rxOpen,     \* the Receiver is alive
  spc,        \* sender: the point it has reached
  batch,      \* sender: Vec<ReplyPacket>
  start,      \* sender: replies of the batch already sent and counted
  sent,       \* sender: replies the kernel took and flush has still to count
  out,        \* PortStats.udp_out_bytes
  delivered,  \* history: what the kernel took, in order
  lost,       \* history: queued replies thrown away
  refused     \* history: replies offered to a closed queue

taskVars   == <<task, produced>>
queueVars  == <<queue, rxOpen>>
senderVars == <<spc, batch, start, sent>>
history    == <<delivered, lost, refused>>
vars == <<shutdown, listener, taskVars, dropped, queueVars, senderVars, out, history>>

TypeOK ==
  /\ shutdown \in BOOLEAN /\ rxOpen \in BOOLEAN
  /\ listener \in {"running", "joining", "returned"}
  /\ task \in [Tasks -> {"new", "running", "ended"}]
  /\ produced \in [Tasks -> 0 .. MaxReplies]
  /\ dropped \in Nat /\ out \in Nat
  /\ queue \in Seq(Replies) /\ Len(queue) <= Capacity
  /\ spc \in {"recv", "flush", "count", "done"}
  /\ batch \in Seq(Replies) /\ Len(batch) <= BatchSize
  /\ start \in 0 .. Len(batch) /\ sent \in 0 .. Len(batch) - start
  /\ delivered \in Seq(Replies)
  /\ lost \subseteq Replies /\ refused \subseteq Replies

Init ==
  /\ shutdown = FALSE /\ listener = "running"
  /\ task = [t \in Tasks |-> "new"]
  /\ produced = [t \in Tasks |-> 0]
  /\ dropped = 0 /\ out = 0
  /\ queue = <<>> /\ rxOpen = TRUE
  /\ spc = "recv" /\ batch = <<>> /\ start = 0 /\ sent = 0
  /\ delivered = <<>> /\ lost = {} /\ refused = {}

SetOf(s) == {s[i] : i \in DOMAIN s}

-----------------------------------------------------------------------------
(* The reply tasks: a batch received from the target is offered one reply  *)
(* at a time with try_send.                                                *)

SpawnTask(t) ==
  /\ listener = "running" /\ task[t] = "new"
  /\ task' = [task EXCEPT ![t] = "running"]
  /\ UNCHANGED <<shutdown, listener, produced, dropped, queueVars, senderVars, out, history>>

\* The target's next reply to t.
NextReply(t) == [by |-> t, n |-> produced[t] + 1]

Produce(t) ==
  /\ task[t] = "running" /\ produced[t] < MaxReplies
  /\ produced' = [produced EXCEPT ![t] = @ + 1]

OfferQueued(t) ==
  /\ Produce(t)
  /\ rxOpen /\ Len(queue) < Capacity
  /\ queue' = Append(queue, NextReply(t))
  /\ UNCHANGED <<shutdown, listener, task, dropped, rxOpen, senderVars, out, history>>

\* Mutant of OfferFull: the reply is given up without record_udp_drop.
OfferFullUncounted(t) ==
  /\ Produce(t)
  /\ rxOpen /\ Len(queue) = Capacity
  /\ UNCHANGED <<shutdown, listener, task, dropped, queueVars, senderVars, out, history>>

OfferFull(t) ==
  /\ Produce(t)
  /\ rxOpen /\ Len(queue) = Capacity
  /\ dropped' = dropped + 1
  /\ UNCHANGED <<shutdown, listener, task, queueVars, senderVars, out, history>>

\* The sender task has ended: so does the reply task.
OfferClosed(t) ==
  /\ Produce(t)
  /\ ~rxOpen
  /\ task' = [task EXCEPT ![t] = "ended"]
  /\ refused' = refused \cup {NextReply(t)}
  /\ UNCHANGED <<shutdown, listener, dropped, queueVars, senderVars, out, delivered, lost>>

\* The session is removed, its socket fails, or the port shuts down.
TaskEnds(t) ==
  /\ task[t] = "running"
  /\ task' = [task EXCEPT ![t] = "ended"]
  /\ UNCHANGED <<shutdown, listener, produced, dropped, queueVars, senderVars, out, history>>

-----------------------------------------------------------------------------
(* The sender task.                                                        *)

TakeN == IF Len(queue) < BatchSize THEN Len(queue) ELSE BatchSize

\* Mutant of Receive: the batch is not cleared, and recv_many appends to it.
ReceiveAppends ==
  /\ spc = "recv" /\ queue # <<>>
  /\ batch' = batch \o SubSeq(queue, 1, TakeN)
  /\ queue' = SubSeq(queue, TakeN + 1, Len(queue))
  /\ start' = 0
  /\ spc' = "flush"
  /\ UNCHANGED <<shutdown, listener, taskVars, dropped, rxOpen, sent, out, history>>

\* batch.clear(), then recv_many.
Receive ==
  /\ spc = "recv" /\ queue # <<>>
  /\ batch' = SubSeq(queue, 1, TakeN)
  /\ queue' = SubSeq(queue, TakeN + 1, Len(queue))
  /\ start' = 0
  /\ spc' = "flush"
  /\ UNCHANGED <<shutdown, listener, taskVars, dropped, rxOpen, sent, out, history>>

\* The kernel takes some of what is left of the batch.
Send ==
  /\ spc = "flush" /\ start < Len(batch)
  /\ sent' \in 1 .. Len(batch) - start
  /\ delivered' = delivered \o SubSeq(batch, start + 1, start + sent')
  /\ spc' = "count"
  /\ UNCHANGED <<shutdown, listener, taskVars, dropped, queueVars, batch, start, out, lost, refused>>

\* Mutant of CountSent: only the first reply of a sendmmsg call is counted as
\* sent, so flush offers the others to the kernel again.
CountSentOne ==
  /\ spc = "count"
  /\ out' = out + 1
  /\ start' = start + 1 /\ sent' = 0
  /\ spc' = "flush"
  /\ UNCHANGED <<shutdown, listener, taskVars, dropped, queueVars, batch, history>>

\* add_udp_out for one reply after the other, then start += sent.
CountSent ==
  /\ spc = "count"
  /\ out' = out + 1
  /\ start' = start + 1 /\ sent' = sent - 1
  /\ spc' = IF sent = 1 THEN "flush" ELSE "count"
  /\ UNCHANGED <<shutdown, listener, taskVars, dropped, queueVars, batch, history>>

\* The first reply of the rest cannot be sent; flush gives the rest up.
SendFails ==
  /\ spc = "flush" /\ start < Len(batch)
  /\ lost' = lost \cup SetOf(SubSeq(batch, start + 1, Len(batch)))
  /\ start' = Len(batch)
  /\ spc' = "recv"
  /\ UNCHANGED <<shutdown, listener, taskVars, dropped, queueVars, batch, sent, out, delivered, refused>>

\* Mutant of FlushEnds: the loop ends one reply early.
FlushEndsEarly ==
  /\ spc = "flush" /\ start + 1 >= Len(batch)
  /\ spc' = "recv"
  /\ UNCHANGED <<shutdown, listener, taskVars, dropped, queueVars, batch, start, sent, out, history>>

FlushEnds ==
  /\ spc = "flush" /\ start = Len(batch)
  /\ spc' = "recv"
  /\ UNCHANGED <<shutdown, listener, taskVars, dropped, queueVars, batch, start, sent, out, history>>

TableHeld == listener = "running" \/ \E t \in Tasks : task[t] = "running"

\* Mutant of SenderStops: the sender waits for the last Sender to be dropped
\* and does not watch the token.
SenderStopsUnsignalled ==
  /\ spc = "recv"
  /\ queue = <<>> /\ ~TableHeld
  /\ spc' = "done" /\ rxOpen' = FALSE
  /\ UNCHANGED <<shutdown, listener, taskVars, dropped, queue, batch, start, sent, out, history>>

\* The token is cancelled, or recv_many returns 0: the loop breaks and the
\* Receiver is dropped with what the queue still holds.
SenderStops ==
  /\ spc = "recv"
  /\ shutdown \/ (queue = <<>> /\ ~TableHeld)
  /\ spc' = "done" /\ rxOpen' = FALSE
  /\ lost' = lost \cup SetOf(queue)
  /\ queue' = <<>>
  /\ UNCHANGED <<shutdown, listener, taskVars, dropped, batch, start, sent, out, delivered, refused>>

-----------------------------------------------------------------------------
(* The end of listener/udp.rs::run: drop the table, await the sender.      *)

Shutdown ==
  /\ ~shutdown
  /\ shutdown' = TRUE
  /\ UNCHANGED <<listener, taskVars, dropped, queueVars, senderVars, out, history>>

DropTable ==
  /\ shutdown /\ listener = "running"
  /\ listener' = "joining"
  /\ UNCHANGED <<shutdown, taskVars, dropped, queueVars, senderVars, out, history>>

JoinSender ==
  /\ listener = "joining" /\ spc = "done"
  /\ listener' = "returned"
  /\ UNCHANGED <<shutdown, taskVars, dropped, queueVars, senderVars, out, history>>

Terminated ==
  /\ listener = "returned" /\ \A t \in Tasks : task[t] # "running"
  /\ UNCHANGED vars

-----------------------------------------------------------------------------
Offer(t) == OfferQueued(t) \/ OfferFull(t) \/ OfferClosed(t)
Flush == Send \/ SendFails \/ FlushEnds \/ CountSent

Next ==
  \/ \E t \in Tasks : SpawnTask(t) \/ Offer(t) \/ TaskEnds(t)
  \/ Receive \/ Flush \/ SenderStops
  \/ Shutdown \/ DropTable \/ JoinSender \/ Terminated

Spec == Init /\ [][Next]_vars

(***************************************************************************)
(* The sender keeps running and the kernel answers its sends; a select!    *)
(* whose token stays cancelled takes that branch sooner or later.  Nothing *)
(* is asked of the reply tasks, which nobody waits for.                    *)
(***************************************************************************)
Fairness ==
  /\ WF_vars(Receive \/ SenderStops) /\ WF_vars(Flush) /\ SF_vars(SenderStops)
  /\ WF_vars(DropTable) /\ WF_vars(JoinSender)

FairSpec == Spec /\ Fairness

-----------------------------------------------------------------------------
(* Properties.                                                             *)

\* What is left of the batch, and then the queue.
Pending == SubSeq(batch, start + sent + 1, Len(batch)) \o queue

\* Every reply a task ever took from the target is in one place: with the
\* kernel, on its way there, thrown away by the sender, counted in udp_dropped,
\* or turned away because the sender has ended.  What the kernel took is in
\* udp_out_bytes, but for the send that is about to be counted.
EachReplyAccounted ==
  /\ Len(delivered) + Len(Pending) + Cardinality(lost) + dropped + Cardinality(refused)
       = Cardinality({r \in Replies : r.n <= produced[r.by]})
  /\ out + sent = Len(delivered) /\ (spc # "count" => sent = 0)

\* A client gets the replies of one session in the order they came from the
\* target, with gaps but without repetitions, over batches and partial sends.
DeliveredInOrder ==
  \A i, j \in DOMAIN delivered :
    i < j /\ delivered[i].by = delivered[j].by => delivered[i].n < delivered[j].n

\* The bounded, ordered, lossy pipe that the reply tasks and clients see.
Pipe == INSTANCE ReplyPipe WITH
          pending <- Pending, open <- rxOpen, Bound <- Capacity + BatchSize
ImplementsPipe == Pipe!Spec

\* A queued reply does not stay queued for ever, shutdown or not.
QueueMoves == \A r \in Replies : (r \in SetOf(Pending)) ~> (r \notin SetOf(Pending))

\* After the signal the listener returns although reply tasks are still alive
\* and still offering replies.
ListenerReturns == shutdown ~> (listener = "returned")

-----------------------------------------------------------------------------
(* The inductive invariant behind the properties above.                    *)

\* What clients have got, and after it what they may still get.
Upcoming == delivered \o Pending

Increasing(s) == \A i, j \in 1 .. Len(s) : i < j /\ s[i].by = s[j].by => s[i].n < s[j].n

\* Where the sender is tells how much of the batch it has dealt with, and a
\* queue without a Receiver is empty.
SenderInv ==
  /\ spc = "count" <=> sent > 0
  /\ spc \in {"recv", "done"} => start = Len(batch)
  /\ spc = "done" <=> ~rxOpen
  /\ ~rxOpen => queue = <<>>

\* No reply is ahead of its task, so the next one is new wherever it goes.
NumbersInv ==
  /\ \A i \in 1 .. Len(Upcoming) : Upcoming[i].n <= produced[Upcoming[i].by]
  /\ \A r \in lost \cup refused : r.n <= produced[r.by]

LostInv == \A i \in 1 .. Len(Pending) : Pending[i] \notin lost

IInv ==
  /\ TypeOK /\ SenderInv /\ Increasing(Upcoming) /\ NumbersInv /\ LostInv
  /\ EachReplyAccounted
=============================================================================
