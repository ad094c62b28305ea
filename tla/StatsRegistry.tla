---------------------------- MODULE StatsRegistry ----------------------------
(***************************************************************************)
(* The statistics: the atomic counters of each port                        *)
(* (src/src/stats/port.rs), the registry that adds them up                 *)
(* (src/src/stats/mod.rs) and the ring of minute buckets                   *)
(* (src/src/stats/bucket.rs).  Listeners and proxies write the counters;   *)
(* the rollup task and the readers (the HTTP endpoint and the log summary) *)
(* load them one at a time, without a lock, while they change.             *)
(*                                                                         *)
(* tcp_accepted stands for the counters that only grow, whose deltas go    *)
(* into the buckets.  The gauges, whose peak does, move up and down while  *)
(* they are loaded, so their sum is any number: what the gauges themselves *)
(* promise is a subject of TcpListener and UdpSession.  The wall clock may *)
(* jump in either direction.                                               *)
(***************************************************************************)
EXTENDS Naturals, FiniteSets

CONSTANTS
  NPorts,     \* listen ports, in the order of the BTreeMap
  Window,     \* --stats-window
  MaxMinute,  \* bound: minutes of the wall clock, counted from 1
  MaxAccepts, \* bound: connections each port accepts
  MaxActive,  \* bound: the largest sum of the gauges
  Readers     \* tasks that call snapshot(): HTTP requests, the summary

ASSUME StatsAssumption ==
  /\ NPorts \in Nat \ {0}
  /\ Window \in Nat
  /\ MaxMinute \in Nat \ {0} /\ MaxAccepts \in Nat /\ MaxActive \in Nat

Ports == 1 .. NPorts
Rollup == "rollup"
Loaders == Readers \cup {Rollup}

VARIABLES
  minute,     \* unix_timestamp_now() / 60
  shutdown,   \* the rollup task's CancellationToken
  accepted,   \* PortStats.tcp_accepted
  pc,         \* loader: the point it has reached
  loaded,     \* loader: how many ports it has loaded
  total,      \* loader: AggregateTotals.tcp_accepted so far
  stamp,      \* rollup: the minute it read before it loaded
  ring,       \* BucketRing.buckets
  previous,   \* previous_totals.tcp_accepted
  since,      \* history: connections accepted when the loader began
  evicted,    \* history: new connections of the buckets overwritten so far
  cutoff      \* history: connections accepted at the shutdown

loaderVars == <<pc, loaded, total, stamp, since>>
ringVars   == <<ring, previous, evicted>>
clockVars  == <<minute, shutdown, cutoff>>
vars == <<accepted, loaderVars, ringVars, clockVars>>

NBuckets == IF Window > 1 THEN Window ELSE 1
Slots == 0 .. NBuckets - 1
Bucket == [minute : 0 .. MaxMinute, newConn : Nat, activePeak : 0 .. MaxActive]
EmptyBucket(m) == [minute |-> m, newConn |-> 0, activePeak |-> 0]
NoMinute == 0

TypeOK ==
  /\ minute \in 1 .. MaxMinute /\ shutdown \in BOOLEAN
  /\ accepted \in [Ports -> 0 .. MaxAccepts]
  /\ pc \in [Loaders -> {"wait", "load", "final", "done"}]
  /\ loaded \in [Loaders -> 0 .. NPorts]
  /\ total \in [Loaders -> Nat]
  /\ stamp \in NoMinute .. MaxMinute
  /\ ring \in [Slots -> Bucket] /\ previous \in Nat
  /\ since \in [Loaders -> Nat] /\ evicted \in Nat /\ cutoff \in Nat

Init ==
  /\ minute \in 1 .. MaxMinute /\ shutdown = FALSE
  /\ accepted = [p \in Ports |-> 0]
  /\ pc = [r \in Loaders |-> "wait"]
  /\ loaded = [r \in Loaders |-> 0]
  /\ total = loaded /\ since = loaded
  /\ stamp = NoMinute
  /\ ring = [i \in Slots |-> EmptyBucket(NoMinute)]
  /\ previous = 0 /\ evicted = 0 /\ cutoff = 0

\* The sum of the values of f, as the number of things it counts: the k-th of x
\* is one of them for k up to f[x].  (A sum by recursion could not be proved about.)
Counted(f) == UNION {{x} \X (1 .. f[x]) : x \in DOMAIN f}
SumOf(f) == Cardinality(Counted(f))

\* Mutant of Larger: the gauges of a minute are added up.
LargerAdded(a, b) == a + b

Larger(a, b) == IF a > b THEN a ELSE b
SaturatingSub(a, b) == IF a > b THEN a - b ELSE 0

-----------------------------------------------------------------------------
(* The writers, the clock and the signal.                                  *)

CountAccept(p) ==
  /\ accepted[p] < MaxAccepts
  /\ accepted' = [accepted EXCEPT ![p] = @ + 1]
  /\ UNCHANGED <<loaderVars, ringVars, clockVars>>

ClockMoves ==
  /\ minute' \in 1 .. MaxMinute \ {minute}
  /\ UNCHANGED <<shutdown, cutoff, accepted, loaderVars, ringVars>>

Shutdown ==
  /\ ~shutdown
  /\ shutdown' = TRUE
  /\ cutoff' = SumOf(accepted)
  /\ UNCHANGED <<minute, accepted, loaderVars, ringVars>>

-----------------------------------------------------------------------------
(* Loading, port after port.                                               *)

Begin(r, point) ==
  /\ pc' = [pc EXCEPT ![r] = point]
  /\ since' = [since EXCEPT ![r] = SumOf(accepted)]
  /\ UNCHANGED <<loaded, total>>

\* Mutant of End: the totals of the last time are added to.
EndKeeping(r, point) ==
  /\ pc' = [pc EXCEPT ![r] = point]
  /\ loaded' = [loaded EXCEPT ![r] = 0]
  /\ since' = [since EXCEPT ![r] = 0]
  /\ UNCHANGED total

\* The snapshots and their totals are dropped: the next ones begin at zero.
End(r, point) ==
  /\ pc' = [pc EXCEPT ![r] = point]
  /\ loaded' = [loaded EXCEPT ![r] = 0]
  /\ total' = [total EXCEPT ![r] = 0]
  /\ since' = [since EXCEPT ![r] = 0]

\* PortStats::snapshot of the next port, added up by aggregate_from_snapshots.
Load(r) ==
  /\ pc[r] \in {"load", "final"} /\ loaded[r] < NPorts
  /\ total' = [total EXCEPT ![r] = @ + accepted[loaded[r] + 1]]
  /\ loaded' = [loaded EXCEPT ![r] = @ + 1]
  /\ UNCHANGED <<pc, stamp, since, accepted, ringVars, clockVars>>

LoadedAll(r) == pc[r] \in {"load", "final"} /\ loaded[r] = NPorts

-----------------------------------------------------------------------------
(* The rollup task: once a second, and once more after the signal.         *)

\* Mutant of RollupTick: the task only rolls up when it is told to end.
RollupTickAtEnd ==
  /\ pc[Rollup] = "wait" /\ shutdown
  /\ stamp' = minute
  /\ Begin(Rollup, "load")
  /\ UNCHANGED <<accepted, ringVars, clockVars>>

\* rollup_now reads the clock before rollup_at_epoch loads the counters.
RollupTick ==
  /\ pc[Rollup] = "wait"
  /\ stamp' = minute
  /\ Begin(Rollup, "load")
  /\ UNCHANGED <<accepted, ringVars, clockVars>>

\* Mutant of RollupFinal: the loop ends without a last rollup.
RollupFinalSkipped ==
  /\ pc[Rollup] = "wait" /\ shutdown
  /\ pc' = [pc EXCEPT ![Rollup] = "done"]
  /\ UNCHANGED <<loaded, total, stamp, since, accepted, ringVars, clockVars>>

RollupFinal ==
  /\ pc[Rollup] = "wait" /\ shutdown
  /\ stamp' = minute
  /\ Begin(Rollup, "final")
  /\ UNCHANGED <<accepted, ringVars, clockVars>>

\* Mutant of IndexOf: one bucket too few is used.
IndexOfShort(m) == IF NBuckets = 1 THEN 0 ELSE m % (NBuckets - 1)

IndexOf(m) == m % NBuckets

\* The bucket of a minute: the one in the ring, or a new one over an old one.
BucketFor(m) == IF ring[IndexOf(m)].minute = m THEN ring[IndexOf(m)] ELSE EmptyBucket(m)

\* Mutant of NextPrevious: previous_totals is left as it was.
NextPreviousKept(t) == previous

\* *previous_totals = totals.clone()
NextPrevious(t) == t

\* BucketRing::rollup, under both locks.
CommitRollup ==
  /\ LoadedAll(Rollup)
  /\ LET i == IndexOf(stamp)
         b == BucketFor(stamp)
         t == total[Rollup]
     IN  /\ \E tcp_active \in 0 .. MaxActive :
              ring' = [ring EXCEPT ![i] =
                [minute |-> b.minute,
                 newConn |-> b.newConn + SaturatingSub(t, previous),
                 activePeak |-> Larger(b.activePeak, tcp_active)]]
         /\ evicted' = IF b.minute = ring[i].minute THEN evicted ELSE evicted + ring[i].newConn
         /\ previous' = NextPrevious(t)
  /\ End(Rollup, IF pc[Rollup] = "final" THEN "done" ELSE "wait")
  /\ stamp' = NoMinute
  /\ UNCHANGED <<accepted, clockVars>>

-----------------------------------------------------------------------------
(* snapshot(), called by the HTTP endpoint and the summary: the totals,    *)
(* and then the buckets under their lock.  What it reads of the buckets is  *)
(* a copy at one moment and is left out.                                   *)

SnapshotBegins(r) ==
  /\ pc[r] = "wait"
  /\ Begin(r, "load")
  /\ UNCHANGED <<stamp, accepted, ringVars, clockVars>>

SnapshotEnds(r) ==
  /\ LoadedAll(r)
  /\ End(r, "wait")
  /\ UNCHANGED <<stamp, accepted, ringVars, clockVars>>

-----------------------------------------------------------------------------
RollupStep == RollupTick \/ RollupFinal \/ Load(Rollup) \/ CommitRollup

Next ==
  \/ \E p \in Ports : CountAccept(p)
  \/ ClockMoves \/ Shutdown
  \/ RollupStep
  \/ \E r \in Readers : SnapshotBegins(r) \/ Load(r) \/ SnapshotEnds(r)

Spec == Init /\ [][Next]_vars

\* The rollup task runs, and its timer ticks; a token that stays cancelled is
\* seen sooner or later.
FairSpec == Spec /\ WF_vars(RollupStep) /\ SF_vars(RollupFinal)

-----------------------------------------------------------------------------
(* Properties.                                                             *)

\* Every connection counted so far by a rollup is in exactly one bucket, one
\* of the ring or one overwritten since: none is lost or counted twice at the
\* turn of a minute, at the ring's end or when the clock jumps, and no rollup
\* sees fewer connections than the one before.
DeltasConserved ==
  SumOf([i \in Slots |-> ring[i].newConn]) + evicted = previous

\* The loads are not atomic together, but their sum lies between what the
\* counters were when they began and what they are when they end.
SnapshotRegular ==
  \A r \in Loaders : LoadedAll(r) => total[r] \in since[r] .. SumOf(accepted)

\* A bucket is overwritten only by a minute that is at least the window away,
\* so while the clock does not jump the last Window minutes are all there; and
\* until then its count and its peak only grow, however often the clock leaves
\* its minute and comes back.
Distance(a, b) == SaturatingSub(a, b) + SaturatingSub(b, a)
Kept(old, new) ==
  IF new.minute = old.minute
  THEN new.newConn >= old.newConn /\ new.activePeak >= old.activePeak
  ELSE old.minute = NoMinute \/ Distance(old.minute, new.minute) >= Window
WindowKept == [][\A i \in Slots : Kept(ring[i], ring'[i])]_ring

\* When the rollup task has ended the buckets hold every connection accepted
\* before the signal.
ShutdownReported == pc[Rollup] = "done" => previous >= cutoff

\* Every accepted connection reaches a bucket, unless it came after the signal.
AcceptReported ==
  \A n \in 1 .. NPorts * MaxAccepts :
    SumOf(accepted) >= n ~> (previous >= n \/ shutdown)

-----------------------------------------------------------------------------
(* The inductive invariant behind the properties above.                    *)

\* Counters f of the first k ports, and of the others.
Before(f, k) == [p \in Ports |-> IF p <= k THEN f[p] ELSE 0]
After(f, k)  == [p \in Ports |-> IF p > k THEN f[p] ELSE 0]

Loading(r) == pc[r] \in {"load", "final"}

\* A loader has at most what its ports have counted by now, and with what is
\* still to load at least what all had counted when it began.
LoadersInv ==
  \A r \in Loaders :
    /\ total[r] <= SumOf(Before(accepted, loaded[r]))
    /\ Loading(r) => total[r] + SumOf(After(accepted, loaded[r])) >= since[r]
    /\ ~Loading(r) => loaded[r] = 0 /\ total[r] = 0

\* The last rollup saw no more than there is, nor than the next one will.
PreviousInv ==
  /\ previous <= SumOf(accepted)
  /\ Loading(Rollup) => previous <= since[Rollup]

\* The last rollup begins after the signal.
ShutdownInv ==
  /\ shutdown => cutoff <= SumOf(accepted)
  /\ pc[Rollup] = "final" => shutdown /\ cutoff <= since[Rollup]
  /\ pc[Rollup] = "done" => shutdown

\* A bucket is in the slot of its minute.
RingInv == \A i \in Slots : ring[i].minute # NoMinute => IndexOf(ring[i].minute) = i

IInv ==
  /\ TypeOK /\ LoadersInv /\ PreviousInv /\ ShutdownInv /\ RingInv
  /\ DeltasConserved /\ ShutdownReported
=============================================================================
