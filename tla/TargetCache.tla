----------------------------- MODULE TargetCache -----------------------------
(***************************************************************************)
(* The address of a target given by name (src/src/target.rs).  Every new   *)
(* connection and session asks current(): it answers at once from the      *)
(* cache, however old the entry is, and when the entry has expired starts  *)
(* a background task that looks the name up again.                         *)
(*                                                                         *)
(* The callers are the tasks of all listeners, on several threads; a step  *)
(* is one access to the lock, to the flag or to the clock.  An address is  *)
(* the number of the DNS answer it came with, so a larger one is newer.    *)
(***************************************************************************)
EXTENDS Naturals

CONSTANTS
  Callers,         \* tasks that call current()
  Slots,           \* bound: refresh tasks alive at a time
  MaxNow,          \* bound: the last second of the model
  MaxAnswers,      \* bound: DNS answers; lookups after the last one fail
  MinTtl, MaxTtl,  \* DNS_POSITIVE_MIN_TTL, DNS_POSITIVE_MAX_TTL
  FailureRefresh,  \* DNS_FAILURE_REFRESH
  MaxRawTtl        \* bound: the TTL of a DNS answer

ASSUME TargetAssumption ==
  /\ MaxNow \in Nat /\ MaxAnswers \in Nat \ {0} /\ MaxRawTtl \in Nat
  /\ MinTtl \in Nat \ {0} /\ MaxTtl \in Nat /\ MinTtl <= MaxTtl
  /\ FailureRefresh \in MinTtl .. MaxTtl

VARIABLES
  now,       \* the monotonic clock, in seconds
  answers,   \* DNS answers so far
  cache,     \* DynamicTarget.current
  inflight,  \* DynamicTarget.refresh_inflight
  cpc,       \* caller: the point in current() it has reached
  copy,      \* caller: the entry it read
  rpc,       \* refresh task: the point it has reached
  next       \* refresh task: the entry it is going to store

envVars     == <<now, answers>>
callerVars  == <<cpc, copy>>
refreshVars == <<rpc, next>>
vars == <<envVars, cache, inflight, callerVars, refreshVars>>

Resolved == [answer : 1 .. MaxAnswers, validUntil : Nat]

TypeOK ==
  /\ now \in 0 .. MaxNow /\ answers \in 1 .. MaxAnswers
  /\ cache \in Resolved /\ inflight \in BOOLEAN
  /\ cpc \in [Callers -> {"idle", "check", "try"}]
  /\ copy \in [Callers -> Resolved]
  /\ rpc \in [Slots -> {"none", "resolve", "failed", "store", "clear"}]
  /\ next \in [Slots -> Resolved]

\* Mutant of Clamp: no upper bound.
ClampLow(ttl) == IF ttl < MinTtl THEN MinTtl ELSE ttl

\* The clamp of the TTL that is left when the answer arrives.
Clamp(ttl) == IF ttl < MinTtl THEN MinTtl ELSE IF ttl > MaxTtl THEN MaxTtl ELSE ttl

\* bind() resolves the name once before anything is forwarded.
Init ==
  /\ now = 0 /\ answers = 1
  /\ \E ttl \in 0 .. MaxRawTtl : cache = [answer |-> 1, validUntil |-> now + Clamp(ttl)]
  /\ inflight = FALSE
  /\ cpc = [c \in Callers |-> "idle"]
  /\ copy = [c \in Callers |-> cache]
  /\ rpc = [r \in Slots |-> "none"]
  /\ next = [r \in Slots |-> cache]

Tick ==
  /\ now < MaxNow
  /\ now' = now + 1
  /\ UNCHANGED <<answers, cache, inflight, callerVars, refreshVars>>

-----------------------------------------------------------------------------
(* current() and try_spawn_refresh(), called by c.                         *)

Read(c) ==
  /\ cpc[c] = "idle"
  /\ copy' = [copy EXCEPT ![c] = cache]
  /\ cpc' = [cpc EXCEPT ![c] = "check"]
  /\ UNCHANGED <<envVars, cache, inflight, refreshVars>>

CheckExpiry(c) ==
  /\ cpc[c] = "check"
  /\ cpc' = [cpc EXCEPT ![c] = IF now >= copy[c].validUntil THEN "try" ELSE "idle"]
  /\ UNCHANGED <<envVars, cache, inflight, copy, refreshVars>>

\* Mutant of SpawnRefresh: the flag is stored, not compared and exchanged.
SpawnAnyway(c) ==
  /\ cpc[c] = "try"
  /\ inflight' = TRUE
  /\ \E r \in Slots : rpc[r] = "none" /\ rpc' = [rpc EXCEPT ![r] = "resolve"]
  /\ cpc' = [cpc EXCEPT ![c] = "idle"]
  /\ UNCHANGED <<envVars, cache, copy, next>>

\* compare_exchange(false, true) succeeds and a refresh task is spawned.
SpawnRefresh(c) ==
  /\ cpc[c] = "try" /\ ~inflight
  /\ inflight' = TRUE
  /\ \E r \in Slots : rpc[r] = "none" /\ rpc' = [rpc EXCEPT ![r] = "resolve"]
  /\ cpc' = [cpc EXCEPT ![c] = "idle"]
  /\ UNCHANGED <<envVars, cache, copy, next>>

LeaveRefresh(c) ==
  /\ cpc[c] = "try" /\ inflight
  /\ cpc' = [cpc EXCEPT ![c] = "idle"]
  /\ UNCHANGED <<envVars, cache, inflight, copy, refreshVars>>

-----------------------------------------------------------------------------
(* The refresh task r.                                                     *)

\* resolve_once succeeds; the deadline counts from the arrival of the answer.
ResolveOk(r) ==
  /\ rpc[r] = "resolve"
  /\ answers < MaxAnswers
  /\ answers' = answers + 1
  /\ \E ttl \in 0 .. MaxRawTtl :
       next' = [next EXCEPT ![r] = [answer |-> answers + 1, validUntil |-> now + Clamp(ttl)]]
  /\ rpc' = [rpc EXCEPT ![r] = "store"]
  /\ UNCHANGED <<now, cache, inflight, callerVars>>

\* Mutant of ResolveFails: the task returns at once, the flag still set.
ResolveFailsReturns(r) ==
  /\ rpc[r] = "resolve"
  /\ rpc' = [rpc EXCEPT ![r] = "none"]
  /\ UNCHANGED <<envVars, cache, inflight, callerVars, next>>

\* The lookup fails, times out or returns no record.
ResolveFails(r) ==
  /\ rpc[r] = "resolve"
  /\ rpc' = [rpc EXCEPT ![r] = "failed"]
  /\ UNCHANGED <<envVars, cache, inflight, callerVars, next>>

\* The cached address is kept, with a new deadline.
KeepStale(r) ==
  /\ rpc[r] = "failed"
  /\ next' = [next EXCEPT ![r] = [answer |-> cache.answer, validUntil |-> now + FailureRefresh]]
  /\ rpc' = [rpc EXCEPT ![r] = "store"]
  /\ UNCHANGED <<envVars, cache, inflight, callerVars>>

Store(r) ==
  /\ rpc[r] = "store"
  /\ cache' = next[r]
  /\ rpc' = [rpc EXCEPT ![r] = "clear"]
  /\ UNCHANGED <<envVars, inflight, callerVars, next>>

ClearFlag(r) ==
  /\ rpc[r] = "clear"
  /\ inflight' = FALSE
  /\ rpc' = [rpc EXCEPT ![r] = "none"]
  /\ UNCHANGED <<envVars, cache, callerVars, next>>

-----------------------------------------------------------------------------
Call(c) == Read(c) \/ CheckExpiry(c) \/ SpawnRefresh(c) \/ LeaveRefresh(c)
Refresh(r) == ResolveOk(r) \/ ResolveFails(r) \/ KeepStale(r) \/ Store(r) \/ ClearFlag(r)

Next == Tick \/ (\E c \in Callers : Call(c)) \/ (\E r \in Slots : Refresh(r))

Spec == Init /\ [][Next]_vars

(***************************************************************************)
(* Tasks run, the resolver answers or times out, and there is traffic: the *)
(* callers call again and again.                                           *)
(***************************************************************************)
Fairness ==
  /\ \A c \in Callers : WF_vars(Call(c))
  /\ \A r \in Slots : WF_vars(Refresh(r))

FairSpec == Spec /\ Fairness

-----------------------------------------------------------------------------
(* Properties.                                                             *)

Busy(r) == rpc[r] # "none"

\* At most one refresh task is alive, whatever the callers saw before they
\* tried, and the flag is set exactly while there is one: it is never left
\* behind, which would end all refreshing.
SingleFlight ==
  /\ \A r, s \in Slots : Busy(r) /\ Busy(s) => r = s
  /\ inflight <=> \E r \in Slots : Busy(r)

\* The cached address never goes back to an older DNS answer, whichever mix of
\* failed and successful refreshes ran, and callers that hold an old entry
\* started them.
NeverOlder == [][cache'.answer >= cache.answer]_vars

\* No entry is good for longer than the upper bound from now on: after that time
\* the name is looked up again, also when the last lookup failed.  (The resolver
\* may answer from a cache of its own.)
DeadlineBounded == cache.validUntil <= now + MaxTtl

\* As long as there is traffic an expired entry is replaced: no order of
\* expiry, failure and flag leaves the cache expired for ever.
ExpiredRenewed == (now >= cache.validUntil) ~> (now < cache.validUntil)

-----------------------------------------------------------------------------
(* The inductive invariant behind SingleFlight and NeverOlder: no entry in *)
(* the cache or on its way there is newer than the last answer, and the    *)
(* entry about to be stored is at least as new as the one it replaces.     *)

AnswersInv ==
  /\ cache.answer <= answers
  /\ \A r \in Slots : next[r].answer <= answers
  /\ \A r \in Slots : rpc[r] = "store" => cache.answer <= next[r].answer

IInv == TypeOK /\ SingleFlight /\ AnswersInv
=============================================================================
