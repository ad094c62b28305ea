-------------------------- MODULE TargetCacheProofs --------------------------
(***************************************************************************)
(* Proofs about TargetCache, for any number of callers and refresh slots,  *)
(* any TTLs and any bounds.  The work is in one inductive invariant: with  *)
(* a single refresh task alive nobody else stores, so the entry it holds   *)
(* stays at least as new as the cached one.                                *)
(***************************************************************************)
EXTENDS TargetCache, TLAPS

\* Every entry on its way to the cache keeps to the upper bound too.
DeadlineInv == DeadlineBounded /\ \A r \in Slots : next[r].validUntil <= now + MaxTtl

LEMMA ClampRange ==
  ASSUME NEW ttl \in Nat
  PROVE  Clamp(ttl) \in Nat /\ Clamp(ttl) <= MaxTtl
BY TargetAssumption DEF Clamp

LEMMA InitEstablishes == Init => IInv /\ DeadlineInv
<1> SUFFICES ASSUME Init PROVE IInv /\ DeadlineInv
  OBVIOUS
<1>1. PICK ttl \in 0 .. MaxRawTtl : cache = [answer |-> 1, validUntil |-> now + Clamp(ttl)]
  BY DEF Init
<1>2. Clamp(ttl) \in Nat /\ Clamp(ttl) <= MaxTtl
  BY ClampRange, TargetAssumption
<1>3. cache \in Resolved /\ cache.answer = 1 /\ cache.validUntil <= now + MaxTtl
  BY <1>1, <1>2, TargetAssumption DEF Init, Resolved
<1>4. TypeOK
  <2>1. inflight \in BOOLEAN
    BY DEF Init
  <2>2. /\ now \in 0 .. MaxNow /\ answers \in 1 .. MaxAnswers
        /\ cpc \in [Callers -> {"idle", "check", "try"}]
        /\ copy \in [Callers -> Resolved]
        /\ rpc \in [Slots -> {"none", "resolve", "failed", "store", "clear"}]
        /\ next \in [Slots -> Resolved]
    BY <1>3, TargetAssumption DEF Init
  <2>3. QED BY <1>3, <2>1, <2>2 DEF TypeOK
<1>5. SingleFlight /\ AnswersInv /\ DeadlineInv
  BY <1>3 DEF Init, SingleFlight, AnswersInv, Busy, DeadlineInv, DeadlineBounded
<1>6. QED BY <1>4, <1>5 DEF IInv

\* A step that touches neither the refresh tasks nor what they work on.
LEMMA CallersDisturbNothing ==
  ASSUME IInv, DeadlineInv,
         NEW c \in Callers, Read(c) \/ CheckExpiry(c) \/ LeaveRefresh(c)
  PROVE  IInv' /\ DeadlineInv'
BY DEF IInv, TypeOK, SingleFlight, AnswersInv, Busy, DeadlineInv, DeadlineBounded,
       Read, CheckExpiry, LeaveRefresh, envVars, refreshVars

LEMMA SpawnKeeps ==
  ASSUME IInv, DeadlineInv, NEW c \in Callers, SpawnRefresh(c)
  PROVE  IInv' /\ DeadlineInv'
<1>1. PICK r \in Slots : rpc[r] = "none" /\ rpc' = [rpc EXCEPT ![r] = "resolve"]
  BY DEF SpawnRefresh
<1>2. \A s \in Slots : ~Busy(s)
  BY DEF IInv, SingleFlight, SpawnRefresh
<1>3. UNCHANGED <<now, answers, cache, copy, next>>
  BY DEF SpawnRefresh, envVars
<1>4. TypeOK'
  BY <1>1, <1>3 DEF IInv, TypeOK, SpawnRefresh
<1>5. SingleFlight'
  BY <1>1, <1>2 DEF IInv, TypeOK, SingleFlight, Busy, SpawnRefresh
<1>6. AnswersInv' /\ DeadlineInv'
  BY <1>1, <1>3 DEF IInv, TypeOK, AnswersInv, DeadlineInv, DeadlineBounded
<1>7. QED BY <1>4, <1>5, <1>6 DEF IInv

LEMMA ResolveOkKeeps ==
  ASSUME IInv, DeadlineInv, NEW r \in Slots, ResolveOk(r)
  PROVE  IInv' /\ DeadlineInv'
<1>1. PICK ttl \in 0 .. MaxRawTtl :
        next' = [next EXCEPT ![r] = [answer |-> answers + 1, validUntil |-> now + Clamp(ttl)]]
  BY DEF ResolveOk
<1>2. Clamp(ttl) \in Nat /\ Clamp(ttl) <= MaxTtl
  BY ClampRange, TargetAssumption
<1>3. /\ rpc[r] = "resolve" /\ answers < MaxAnswers /\ answers' = answers + 1
      /\ rpc' = [rpc EXCEPT ![r] = "store"]
      /\ UNCHANGED <<now, cache, inflight, cpc, copy>>
  BY DEF ResolveOk, callerVars
<1>4. TypeOK'
  BY <1>1, <1>2, <1>3, TargetAssumption DEF IInv, TypeOK, Resolved
<1>5. SingleFlight'
  BY <1>3 DEF IInv, TypeOK, SingleFlight, Busy
<1>6. AnswersInv'
  BY <1>1, <1>3, TargetAssumption DEF IInv, TypeOK, AnswersInv, Resolved
<1>7. DeadlineInv'
  BY <1>1, <1>2, <1>3, TargetAssumption DEF IInv, TypeOK, DeadlineInv, DeadlineBounded, Resolved
<1>8. QED BY <1>4, <1>5, <1>6, <1>7 DEF IInv

LEMMA RefreshKeeps ==
  ASSUME IInv, DeadlineInv, NEW r \in Slots,
         ResolveFails(r) \/ KeepStale(r) \/ Store(r) \/ ClearFlag(r)
  PROVE  IInv' /\ DeadlineInv'
<1>1. CASE ResolveFails(r)
  BY <1>1 DEF IInv, TypeOK, SingleFlight, AnswersInv, Busy, DeadlineInv, DeadlineBounded,
              ResolveFails, envVars, callerVars
<1>2. CASE KeepStale(r)
  <2>1. /\ rpc[r] = "failed" /\ rpc' = [rpc EXCEPT ![r] = "store"]
        /\ next' = [next EXCEPT ![r] = [answer |-> cache.answer, validUntil |-> now + FailureRefresh]]
        /\ UNCHANGED <<now, answers, cache, inflight, cpc, copy>>
    BY <1>2 DEF KeepStale, envVars, callerVars
  <2>2. TypeOK'
    BY <2>1, TargetAssumption DEF IInv, TypeOK, Resolved
  <2>3. SingleFlight' /\ AnswersInv'
    BY <2>1 DEF IInv, TypeOK, SingleFlight, AnswersInv, Busy, Resolved
  <2>4. DeadlineInv'
    BY <2>1, TargetAssumption DEF IInv, TypeOK, DeadlineInv, DeadlineBounded, Resolved
  <2>5. QED BY <2>2, <2>3, <2>4 DEF IInv
\* Nobody else is about to store, so nobody's entry has become too old.
<1>3. CASE Store(r)
  <2>1. /\ rpc[r] = "store" /\ rpc' = [rpc EXCEPT ![r] = "clear"] /\ cache' = next[r]
        /\ UNCHANGED <<now, answers, inflight, cpc, copy, next>>
    BY <1>3 DEF Store, envVars, callerVars
  <2>2. \A s \in Slots : rpc'[s] # "store"
    BY <2>1 DEF IInv, TypeOK, SingleFlight, Busy
  <2>3. QED
    BY <2>1, <2>2 DEF IInv, TypeOK, SingleFlight, AnswersInv, Busy, DeadlineInv, DeadlineBounded
<1>4. CASE ClearFlag(r)
  <2>1. /\ rpc[r] = "clear" /\ rpc' = [rpc EXCEPT ![r] = "none"] /\ inflight' = FALSE
        /\ UNCHANGED <<now, answers, cache, cpc, copy, next>>
    BY <1>4 DEF ClearFlag, envVars, callerVars
  <2>2. \A s \in Slots : rpc'[s] = "none"
    BY <2>1 DEF IInv, TypeOK, SingleFlight, Busy
  <2>3. QED
    BY <2>1, <2>2 DEF IInv, TypeOK, SingleFlight, AnswersInv, Busy, DeadlineInv, DeadlineBounded
<1>5. QED BY <1>1, <1>2, <1>3, <1>4

LEMMA TickKeeps == IInv /\ DeadlineInv /\ Tick => IInv' /\ DeadlineInv'
<1> SUFFICES ASSUME IInv, DeadlineInv, Tick PROVE IInv' /\ DeadlineInv'
  OBVIOUS
<1>1. now' = now + 1 /\ UNCHANGED <<answers, cache, inflight, cpc, copy, rpc, next>>
  BY DEF Tick, callerVars, refreshVars
<1>2. IInv'
  BY <1>1, TargetAssumption DEF IInv, TypeOK, SingleFlight, AnswersInv, Busy, Tick
<1>3. DeadlineInv'
  BY <1>1, TargetAssumption DEF DeadlineInv, DeadlineBounded, IInv, TypeOK, Resolved
<1>4. QED BY <1>2, <1>3

LEMMA StepKeeps == IInv /\ DeadlineInv /\ [Next]_vars => IInv' /\ DeadlineInv'
<1> SUFFICES ASSUME IInv, DeadlineInv, [Next]_vars PROVE IInv' /\ DeadlineInv'
  OBVIOUS
<1>1. CASE Tick BY <1>1, TickKeeps
<1>2. ASSUME NEW c \in Callers, Call(c) PROVE IInv' /\ DeadlineInv'
  BY <1>2, CallersDisturbNothing, SpawnKeeps DEF Call
<1>3. ASSUME NEW r \in Slots, Refresh(r) PROVE IInv' /\ DeadlineInv'
  BY <1>3, ResolveOkKeeps, RefreshKeeps DEF Refresh
<1>4. CASE UNCHANGED vars
  BY <1>4 DEF vars, envVars, callerVars, refreshVars, IInv, TypeOK, SingleFlight, AnswersInv,
              Busy, DeadlineInv, DeadlineBounded
<1>5. QED BY <1>1, <1>2, <1>3, <1>4 DEF Next

LEMMA Inductive == Spec => [](IInv /\ DeadlineInv)
BY InitEstablishes, StepKeeps, PTL DEF Spec

\* One refresh at a time, however many callers found the entry expired, and a
\* flag that is set exactly while it runs: the compare_exchange is never undone
\* too early and never left behind.
THEOREM OneRefresh == Spec => []SingleFlight
<1>1. IInv => SingleFlight BY DEF IInv
<1>2. QED BY <1>1, Inductive, PTL

\* No entry is good for longer than the upper bound of the clamp.
THEOREM DeadlineIsBounded == Spec => []DeadlineBounded
<1>1. DeadlineInv => DeadlineBounded BY DEF DeadlineInv
<1>2. QED BY <1>1, Inductive, PTL

\* The cached address never goes back to an older DNS answer, a failed refresh
\* that writes the old one back included.
THEOREM AddressMovesForward == Spec => NeverOlder
<1>1. IInv /\ [Next]_vars => [cache'.answer >= cache.answer]_vars
  <2> SUFFICES ASSUME IInv, Next PROVE cache'.answer >= cache.answer
    OBVIOUS
  <2>1. cache.answer \in Nat /\ cache.answer >= cache.answer
    BY TargetAssumption DEF IInv, TypeOK, Resolved
  <2>2. ASSUME NEW r \in Slots, Store(r) PROVE cache'.answer >= cache.answer
    BY <2>2, TargetAssumption DEF Store, IInv, TypeOK, AnswersInv, Resolved
  <2>3. CASE cache' = cache BY <2>1, <2>3
  <2>4. cache' = cache \/ \E r \in Slots : Store(r)
    BY DEF Next, Tick, Call, Read, CheckExpiry, SpawnRefresh, LeaveRefresh, Refresh, ResolveOk,
           ResolveFails, KeepStale, ClearFlag, envVars
  <2>5. QED BY <2>2, <2>3, <2>4
<1>2. QED BY <1>1, Inductive, PTL DEF Spec, NeverOlder
=============================================================================
