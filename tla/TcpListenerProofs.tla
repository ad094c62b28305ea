-------------------------- MODULE TcpListenerProofs --------------------------
(***************************************************************************)
(* Proofs about TcpListener, for any number of ports and connections and   *)
(* any cap.  The permits are counted by three summands, one of them the    *)
(* listeners that hold one: a released permit may jump to a waiting        *)
(* listener, so the count needs to know that the queue names waiting       *)
(* listeners only, each once.                                              *)
(***************************************************************************)
EXTENDS TcpListener, FiniteSetTheorems, SequenceTheorems, TLAPS

\* ListenersHolding and ProxiesHolding, for any state of the tasks.
Holding(f) == {p \in Ports : f[p] \in HoldingPoints}
Serving(g) == {c \in Conns : g[c].stage \in ProxyStages}

LEMMA HoldingFinite ==
  ASSUME NEW f
  PROVE  IsFiniteSet(Holding(f)) /\ Cardinality(Holding(f)) \in Nat
<1>1. Holding(f) \in SUBSET Ports
  BY DEF Holding
<1>2. QED BY <1>1, FS_Subset, FS_CardinalityType, TcpAssumption

LEMMA ServingFinite ==
  ASSUME NEW g
  PROVE  IsFiniteSet(Serving(g)) /\ Cardinality(Serving(g)) \in Nat
<1>1. Serving(g) \in SUBSET Conns
  BY DEF Serving
<1>2. QED BY <1>1, FS_Subset, FS_CardinalityType, TcpAssumption

\* What one listener's move does to the number of permits listeners hold.
LEMMA ListenerMoves ==
  ASSUME NEW f \in [Ports -> ListenerPoints], NEW p \in Ports, NEW x \in ListenerPoints
  PROVE  LET g == [f EXCEPT ![p] = x] IN
         /\ x \in HoldingPoints /\ f[p] \notin HoldingPoints
              => Cardinality(Holding(g)) = Cardinality(Holding(f)) + 1
         /\ x \notin HoldingPoints /\ f[p] \in HoldingPoints
              => Cardinality(Holding(g)) = Cardinality(Holding(f)) - 1
         /\ (x \in HoldingPoints <=> f[p] \in HoldingPoints) => Holding(g) = Holding(f)
<1> DEFINE g == [f EXCEPT ![p] = x]
<1>1. ASSUME x \in HoldingPoints, f[p] \notin HoldingPoints
      PROVE  Cardinality(Holding(g)) = Cardinality(Holding(f)) + 1
  <2>1. Holding(g) = Holding(f) \cup {p} /\ p \notin Holding(f)
    BY <1>1 DEF Holding
  <2>2. QED BY <2>1, HoldingFinite, FS_AddElement
<1>2. ASSUME x \notin HoldingPoints, f[p] \in HoldingPoints
      PROVE  Cardinality(Holding(g)) = Cardinality(Holding(f)) - 1
  <2>1. Holding(g) = Holding(f) \ {p} /\ p \in Holding(f)
    BY <1>2 DEF Holding
  <2>2. QED BY <2>1, HoldingFinite, FS_RemoveElement
<1>3. ASSUME x \in HoldingPoints <=> f[p] \in HoldingPoints
      PROVE  Holding(g) = Holding(f)
  BY <1>3 DEF Holding
<1>4. QED BY <1>1, <1>2, <1>3

\* The same for a connection and its proxy.
LEMMA ConnMoves ==
  ASSUME NEW f \in [Conns -> [stage : Stages, port : Ports \cup {NoConn}]],
         NEW c \in Conns, NEW r \in [stage : Stages, port : Ports \cup {NoConn}]
  PROVE  LET g == [f EXCEPT ![c] = r] IN
         /\ r.stage \in ProxyStages /\ f[c].stage \notin ProxyStages
              => Cardinality(Serving(g)) = Cardinality(Serving(f)) + 1
         /\ r.stage \notin ProxyStages /\ f[c].stage \in ProxyStages
              => Cardinality(Serving(g)) = Cardinality(Serving(f)) - 1
         /\ (r.stage \in ProxyStages <=> f[c].stage \in ProxyStages) => Serving(g) = Serving(f)
<1> DEFINE g == [f EXCEPT ![c] = r]
<1>1. ASSUME r.stage \in ProxyStages, f[c].stage \notin ProxyStages
      PROVE  Cardinality(Serving(g)) = Cardinality(Serving(f)) + 1
  <2>1. Serving(g) = Serving(f) \cup {c} /\ c \notin Serving(f)
    BY <1>1 DEF Serving
  <2>2. QED BY <2>1, ServingFinite, FS_AddElement
<1>2. ASSUME r.stage \notin ProxyStages, f[c].stage \in ProxyStages
      PROVE  Cardinality(Serving(g)) = Cardinality(Serving(f)) - 1
  <2>1. Serving(g) = Serving(f) \ {c} /\ c \in Serving(f)
    BY <1>2 DEF Serving
  <2>2. QED BY <2>1, ServingFinite, FS_RemoveElement
<1>3. ASSUME r.stage \in ProxyStages <=> f[c].stage \in ProxyStages
      PROVE  Serving(g) = Serving(f)
  BY <1>3 DEF Serving
<1>4. QED BY <1>1, <1>2, <1>3

LEMMA PermitsAre ==
  PermitsConserved <=> permits + Cardinality(Holding(lpc)) + Cardinality(Serving(conn)) = MaxConnections
BY DEF PermitsConserved, ListenersHolding, ProxiesHolding, Holding, Serving, StageOf

-----------------------------------------------------------------------------
(* The semaphore's queue.                                                  *)

\* RemoveAt, element by element.
LEMMA RemoveAtIs ==
  ASSUME NEW S, NEW s \in Seq(S), NEW k \in 1 .. Len(s)
  PROVE  /\ RemoveAt(s, k) \in Seq(S)
         /\ Len(RemoveAt(s, k)) = Len(s) - 1
         /\ \A i \in 1 .. Len(s) - 1 : RemoveAt(s, k)[i] = IF i < k THEN s[i] ELSE s[i + 1]
<1> DEFINE a == SubSeq(s, 1, k - 1)
           b == SubSeq(s, k + 1, Len(s))
<1>1. a \in Seq(S) /\ Len(a) = k - 1 /\ \A i \in 1 .. k - 1 : a[i] = s[i]
  OBVIOUS
<1>2. b \in Seq(S) /\ Len(b) = Len(s) - k /\ \A i \in 1 .. Len(s) - k : b[i] = s[k + i]
  OBVIOUS
<1>3. RemoveAt(s, k) = a \o b
  BY DEF RemoveAt
<1> HIDE DEF a, b
<1>4. Len(s) \in Nat /\ k \in Nat
  OBVIOUS
<1>5. /\ a \o b \in Seq(S) /\ Len(a \o b) = Len(s) - 1
      /\ \A i \in 1 .. Len(a) + Len(b) : (a \o b)[i] = IF i <= Len(a) THEN a[i] ELSE b[i - Len(a)]
  <2>1. a \in Seq(S) /\ b \in Seq(S)
    BY <1>1, <1>2
  <2>2. Len(a) + Len(b) = Len(s) - 1
    BY <1>1, <1>2, <1>4
  <2>3. QED BY ONLY <2>1, <2>2, ConcatProperties
<1>6. ASSUME NEW i \in 1 .. Len(s) - 1
      PROVE  (a \o b)[i] = IF i < k THEN s[i] ELSE s[i + 1]
  <2>1. CASE i < k
    <3>1. i <= Len(a) /\ i \in 1 .. Len(a) + Len(b) /\ i \in 1 .. k - 1
      BY <1>1, <1>2, <1>4, <2>1
    <3>2. QED BY <1>1, <1>5, <2>1, <3>1
  <2>2. CASE ~(i < k)
    <3>1. /\ i - Len(a) \in 1 .. Len(s) - k /\ k + (i - Len(a)) = i + 1
          /\ ~(i <= Len(a)) /\ i \in 1 .. Len(a) + Len(b)
      BY <1>1, <1>2, <1>4, <2>2
    <3>2. b[i - Len(a)] = s[i + 1]
      BY <1>2, <3>1
    <3>3. QED BY <1>5, <3>1, <3>2, <2>2
  <2>3. QED BY <2>1, <2>2
<1>7. QED BY <1>3, <1>5, <1>6

\* A listener that leaves the queue leaves the others in it, once each.
LEMMA LeaveQueueKeeps ==
  ASSUME IInv, NEW p \in Ports, LeaveQueue(p), lpc[p] = "waiting", lpc' = At(p, "join")
  PROVE  waiters' \in Seq(Ports) /\ WaitersInv'
<1>0. waiters \in Seq(Ports) /\ lpc \in [Ports -> ListenerPoints] /\ Len(waiters) \in Nat
  BY DEF IInv, TypeOK
<1>1. CASE \E k \in 1 .. Len(waiters) : waiters[k] = p /\ waiters' = RemoveAt(waiters, k)
  <2>1. PICK k \in 1 .. Len(waiters) : waiters[k] = p /\ waiters' = RemoveAt(waiters, k)
    BY <1>1
  <2>2. /\ waiters' \in Seq(Ports) /\ Len(waiters') = Len(waiters) - 1
        /\ \A i \in 1 .. Len(waiters) - 1 :
             waiters'[i] = IF i < k THEN waiters[i] ELSE waiters[i + 1]
    BY <1>0, <2>1, RemoveAtIs
  <2> DEFINE old(i) == IF i < k THEN i ELSE i + 1
  <2>3. \A i \in 1 .. Len(waiters') :
          /\ old(i) \in 1 .. Len(waiters) /\ old(i) # k
          /\ waiters'[i] = waiters[old(i)]
    BY <1>0, <2>1, <2>2
  <2>4. \A i, j \in 1 .. Len(waiters') : old(i) = old(j) => i = j
    BY <1>0, <2>1, <2>2
  <2> HIDE DEF old
  <2>5. \A i \in 1 .. Len(waiters') : lpc'[waiters'[i]] = "waiting"
    <3> TAKE i \in 1 .. Len(waiters')
    <3>1. waiters[old(i)] # waiters[k]
      BY <2>1, <2>3 DEF IInv, WaitersInv
    <3>2. QED BY <1>0, <2>1, <2>3, <3>1 DEF IInv, WaitersInv, At
  <2>6. \A i, j \in 1 .. Len(waiters') : waiters'[i] = waiters'[j] => i = j
    <3> SUFFICES ASSUME NEW i \in 1 .. Len(waiters'), NEW j \in 1 .. Len(waiters'),
                        waiters'[i] = waiters'[j]
                 PROVE  i = j
      OBVIOUS
    <3>1. waiters[old(i)] = waiters[old(j)]
      BY <2>3
    <3>2. old(i) = old(j)
      BY <2>3, <3>1 DEF IInv, WaitersInv
    <3>3. QED BY <2>4, <3>2
  <2>7. QED BY <2>2, <2>5, <2>6 DEF WaitersInv
<1>2. CASE (\A k \in 1 .. Len(waiters) : waiters[k] # p) /\ UNCHANGED waiters
  BY <1>0, <1>2 DEF IInv, WaitersInv, At
<1>3. QED BY <1>1, <1>2 DEF LeaveQueue

\* A permit given back, by a proxy (f is lpc) or by a listener that moves on as
\* f says, is held by one listener more or is free.
LEMMA ReleaseKeeps ==
  ASSUME IInv, NEW f \in [Ports -> ListenerPoints],
         \A q \in Ports : lpc[q] = "waiting" => f[q] = "waiting",
         permits + Cardinality(Holding(f)) + 1 <= MaxConnections,
         Release(f)
  PROVE  /\ permits' \in 0 .. MaxConnections
         /\ waiters' \in Seq(Ports) /\ WaitersInv'
         /\ lpc' \in [Ports -> ListenerPoints]
         /\ permits' + Cardinality(Holding(lpc')) = permits + Cardinality(Holding(f)) + 1
         /\ \A q \in Ports : lpc'[q] = f[q] \/ (f[q] = "waiting" /\ lpc'[q] = "granted")
<1>1. /\ waiters \in Seq(Ports) /\ Len(waiters) \in Nat
      /\ permits \in Nat /\ MaxConnections \in Nat
      /\ \A i \in 1 .. Len(waiters) : waiters[i] \in Ports
  BY TcpAssumption DEF IInv, TypeOK
<1>2. Cardinality(Holding(f)) \in Nat
  BY HoldingFinite
<1>3. CASE waiters = <<>>
  BY <1>1, <1>2, <1>3 DEF Release, IInv, WaitersInv
<1>4. CASE waiters # <<>>
  <2> DEFINE q == Head(waiters)
  <2>1. /\ lpc' = [f EXCEPT ![q] = "granted"] /\ waiters' = Tail(waiters) /\ permits' = permits
    BY <1>4 DEF Release
  <2>2. /\ q \in Ports /\ q = waiters[1] /\ 1 \in 1 .. Len(waiters)
        /\ waiters' \in Seq(Ports) /\ Len(waiters') = Len(waiters) - 1
        /\ \A i \in 1 .. Len(waiters') : waiters'[i] = waiters[i + 1]
    BY <1>1, <1>4, <2>1
  <2> HIDE DEF q
  <2>3. f[q] = "waiting"
    BY <2>2 DEF IInv, WaitersInv
  <2>4. lpc' \in [Ports -> ListenerPoints] /\ \A x \in Ports : x # q => lpc'[x] = f[x]
    BY <2>1, <2>2 DEF ListenerPoints
  <2>5. Cardinality(Holding(lpc')) = Cardinality(Holding(f)) + 1
    BY <2>1, <2>2, <2>3, ListenerMoves DEF HoldingPoints, ListenerPoints
  <2>6. \A i \in 1 .. Len(waiters') :
          i + 1 \in 1 .. Len(waiters) /\ i + 1 # 1
    BY <1>1, <2>2
  <2>7. \A i \in 1 .. Len(waiters') : lpc'[waiters'[i]] = "waiting"
    <3> TAKE i \in 1 .. Len(waiters')
    <3>1. waiters[i + 1] # q /\ waiters[i + 1] \in Ports /\ lpc[waiters[i + 1]] = "waiting"
      BY <1>1, <2>2, <2>6 DEF IInv, WaitersInv
    <3>2. QED BY <2>2, <2>4, <3>1
  <2>8. \A i, j \in 1 .. Len(waiters') : waiters'[i] = waiters'[j] => i = j
    <3> SUFFICES ASSUME NEW i \in 1 .. Len(waiters'), NEW j \in 1 .. Len(waiters'),
                        waiters'[i] = waiters'[j]
                 PROVE  i = j
      OBVIOUS
    <3>1. waiters[i + 1] = waiters[j + 1]
      BY <2>2
    <3>2. i + 1 = j + 1
      BY <2>6, <3>1 DEF IInv, WaitersInv
    <3>3. QED BY <1>1, <2>2, <3>2
  <2>9. QED
    BY <1>1, <1>2, <2>1, <2>2, <2>3, <2>4, <2>5, <2>7, <2>8 DEF WaitersInv
<1>5. QED BY <1>3, <1>4

-----------------------------------------------------------------------------
(* Connections in a backlog, and in a listener's hands.                    *)

ConnType == [stage : Stages, port : Ports \cup {NoConn}]

LEMMA StageChanges ==
  ASSUME NEW g \in [Conns -> ConnType], NEW c \in Conns, NEW s \in Stages
  PROVE  /\ [g EXCEPT ![c].stage = s] \in [Conns -> ConnType]
         /\ [g EXCEPT ![c].stage = s] = [g EXCEPT ![c] = [stage |-> s, port |-> g[c].port]]
<1>1. g[c] \in ConnType
  OBVIOUS
<1>2. [g[c] EXCEPT !.stage = s] = [stage |-> s, port |-> g[c].port]
  BY <1>1 DEF ConnType
<1>3. [stage |-> s, port |-> g[c].port] \in ConnType
  BY <1>1 DEF ConnType
<1>4. QED BY <1>2, <1>3

LEMMA QueuedAre ==
  ASSUME IInv, NEW q \in Ports, NEW i \in 1 .. Len(backlog[q])
  PROVE  backlog[q][i] \in Conns /\ StageOf(backlog[q][i]) = "queued" /\ PortOf(backlog[q][i]) = q
<1>1. backlog[q] \in Seq(Conns)
  BY DEF IInv, TypeOK
<1>2. conn[backlog[q][i]] = [stage |-> "queued", port |-> q]
  BY DEF IInv, BacklogInv
<1>3. QED BY <1>1, <1>2 DEF StageOf, PortOf

LEMMA TakenAre ==
  ASSUME IInv, NEW q \in Ports, lpc[q] \in TakenPoints
  PROVE  taken[q] \in Conns /\ StageOf(taken[q]) = "taken" /\ PortOf(taken[q]) = q
<1>1. taken[q] \in Conns /\ conn[taken[q]] = [stage |-> "taken", port |-> q]
  BY DEF IInv, TakenInv
<1>2. QED BY <1>1 DEF StageOf, PortOf

\* A step that changes a connection that is not queued disturbs no backlog.
LEMMA BacklogsKeep ==
  ASSUME IInv, NEW c \in Conns, StageOf(c) # "queued", NEW r \in ConnType,
         conn' = [conn EXCEPT ![c] = r], UNCHANGED backlog
  PROVE  BacklogInv'
<1>1. \A q \in Ports : \A i \in 1 .. Len(backlog[q]) :
        backlog[q][i] # c /\ backlog[q][i] \in Conns
  BY QueuedAre
<1>2. \A q \in Ports : \A i \in 1 .. Len(backlog[q]) : conn'[backlog[q][i]] = conn[backlog[q][i]]
  BY <1>1 DEF IInv, TypeOK
<1>3. QED BY <1>2 DEF IInv, BacklogInv

-----------------------------------------------------------------------------
(* The invariant: its base, and one lemma per group of actions.            *)

LEMMA InitEstablishes == Init => IInv
<1> SUFFICES ASSUME Init PROVE IInv
  OBVIOUS
<1>1. TypeOK
  <2>1. permits \in 0 .. MaxConnections
    BY TcpAssumption DEF Init
  <2>2. waiters \in Seq(Ports) /\ backlog \in [Ports -> Seq(Conns)]
    BY DEF Init
  <2>3. \A g \in {accepted, active, closed} : g \in [Ports -> Nat]
    BY DEF Init
  <2>4. QED BY <2>1, <2>2, <2>3 DEF Init, TypeOK, ListenerPoints, Stages
<1>2. WaitersInv /\ BacklogInv /\ TakenInv /\ ListenerOutlivesProxies
  BY DEF Init, WaitersInv, BacklogInv, TakenInv, ListenerOutlivesProxies, StageOf, TakenPoints
<1>3. Holding(lpc) = {} /\ Serving(conn) = {}
  BY DEF Init, Holding, Serving, HoldingPoints, ProxyStages
<1>4. PermitsConserved
  <2>1. Cardinality(Holding(lpc)) = 0 /\ Cardinality(Serving(conn)) = 0
    BY <1>3, FS_EmptySet
  <2>2. QED BY <2>1, PermitsAre, TcpAssumption DEF Init
<1>5. QED BY <1>1, <1>2, <1>4 DEF IInv

\* A listener that does not wait is not in the queue.
LEMMA WaitersElsewhere ==
  ASSUME IInv, NEW p \in Ports, lpc[p] # "waiting"
  PROVE  \A i \in 1 .. Len(waiters) : waiters[i] \in Ports /\ waiters[i] # p
<1>1. waiters \in Seq(Ports)
  BY DEF IInv, TypeOK
<1>2. QED BY <1>1 DEF IInv, WaitersInv

\* A listener that moves between two points at which it holds a permit, or
\* between two at which it holds none, with no other change but to counters.
LEMMA ListenerSteps ==
  ASSUME IInv, NEW p \in Ports, NEW x \in ListenerPoints,
         lpc' = At(p, x), lpc[p] # "waiting", x # "done",
         x \in HoldingPoints <=> lpc[p] \in HoldingPoints,
         x \in TakenPoints <=> lpc[p] \in TakenPoints,
         UNCHANGED <<cancelled, semVars, taken, backlog, conn>>,
         accepted' \in [Ports -> Nat], active' \in [Ports -> Nat], closed' \in [Ports -> Nat]
  PROVE  IInv'
<1>1. TypeOK'
  BY DEF IInv, TypeOK, At, semVars
<1>2. WaitersInv'
  BY WaitersElsewhere DEF IInv, TypeOK, WaitersInv, At, semVars
<1>3. BacklogInv' /\ TakenInv'
  BY DEF IInv, TypeOK, BacklogInv, TakenInv, At, StageOf, PortOf
<1>4. PermitsConserved'
  <2>1. Holding(lpc') = Holding(lpc)
    BY ListenerMoves DEF IInv, TypeOK, At
  <2>2. permits' = permits /\ conn' = conn
    BY DEF semVars
  <2>3. QED BY <2>1, <2>2, PermitsAre DEF IInv, PermitsConserved, ListenersHolding, ProxiesHolding, Holding, Serving, StageOf
<1>5. ListenerOutlivesProxies'
  BY DEF IInv, TypeOK, ListenerOutlivesProxies, Spawned, StageOf, PortOf, At
<1>6. QED BY <1>1, <1>2, <1>3, <1>4, <1>5 DEF IInv

LEMMA AcquireKeeps ==
  ASSUME IInv, NEW p \in Ports, Acquiring(p)
  PROVE  IInv'
<1>0. /\ lpc \in [Ports -> ListenerPoints] /\ waiters \in Seq(Ports)
      /\ permits \in Nat /\ Cardinality(Holding(lpc)) \in Nat /\ Cardinality(Serving(conn)) \in Nat
  BY HoldingFinite, ServingFinite DEF IInv, TypeOK
<1>1. CASE AcquireNow(p)
  <2>1. /\ lpc[p] = "acquire" /\ lpc' = At(p, "accept") /\ permits > 0 /\ permits' = permits - 1
        /\ UNCHANGED <<cancelled, semClosed, waiters, taken, backlog, conn, accepted, active, closed>>
    BY <1>1 DEF AcquireNow, statVars
  <2>2. TypeOK'
    BY <2>1, TcpAssumption DEF IInv, TypeOK, At, ListenerPoints
  <2>3. WaitersInv' /\ BacklogInv'
    BY <2>1, WaitersElsewhere DEF IInv, TypeOK, WaitersInv, BacklogInv, At
  <2>4. TakenInv' /\ ListenerOutlivesProxies'
    BY <2>1 DEF IInv, TypeOK, TakenInv, ListenerOutlivesProxies, Spawned, StageOf, PortOf, At, TakenPoints
  <2>5. Cardinality(Holding(lpc')) = Cardinality(Holding(lpc)) + 1
    BY <1>0, <2>1, ListenerMoves DEF At, HoldingPoints, ListenerPoints
  <2>6. PermitsConserved'
    BY <1>0, <2>1, <2>5, PermitsAre
       DEF IInv, PermitsConserved, ListenersHolding, ProxiesHolding, Holding, Serving, StageOf
  <2>7. QED BY <2>2, <2>3, <2>4, <2>6 DEF IInv
<1>2. CASE AcquireWait(p)
  <2>1. /\ lpc[p] = "acquire" /\ lpc' = At(p, "waiting") /\ waiters' = Append(waiters, p)
        /\ UNCHANGED <<cancelled, semClosed, permits, taken, backlog, conn, accepted, active, closed>>
    BY <1>2 DEF AcquireWait, statVars
  <2>2. TypeOK'
    BY <2>1 DEF IInv, TypeOK, At, ListenerPoints
  <2>3. WaitersInv'
    <3>1. \A i \in 1 .. Len(waiters) : waiters[i] \in Ports /\ lpc[waiters[i]] = "waiting" /\ waiters[i] # p
      BY <1>0, <2>1 DEF IInv, WaitersInv
    <3>2. /\ Len(waiters') = Len(waiters) + 1 /\ Len(waiters) \in Nat /\ waiters'[Len(waiters) + 1] = p
          /\ \A i \in 1 .. Len(waiters) : waiters'[i] = waiters[i]
      BY <1>0, <2>1
    <3>3. \A i \in 1 .. Len(waiters') : i \in 1 .. Len(waiters) \/ i = Len(waiters) + 1
      BY <3>2
    <3>4. \A i \in 1 .. Len(waiters') : lpc'[waiters'[i]] = "waiting"
      BY <1>0, <2>1, <3>1, <3>2, <3>3 DEF At
    <3>5. \A i, j \in 1 .. Len(waiters') : waiters'[i] = waiters'[j] => i = j
      BY <3>1, <3>2, <3>3 DEF IInv, WaitersInv
    <3>6. QED BY <3>4, <3>5 DEF WaitersInv
  <2>4. BacklogInv' /\ TakenInv' /\ ListenerOutlivesProxies'
    BY <2>1 DEF IInv, TypeOK, BacklogInv, TakenInv, ListenerOutlivesProxies, Spawned, StageOf, PortOf, At, TakenPoints
  <2>5. Holding(lpc') = Holding(lpc)
    BY <1>0, <2>1, ListenerMoves DEF At, HoldingPoints, ListenerPoints
  <2>6. PermitsConserved'
    BY <2>1, <2>5, PermitsAre
       DEF IInv, PermitsConserved, ListenersHolding, ProxiesHolding, Holding, Serving, StageOf
  <2>7. QED BY <2>2, <2>3, <2>4, <2>6 DEF IInv
<1>3. CASE AcquireWake(p)
  BY <1>3, ListenerSteps
     DEF AcquireWake, statVars, IInv, TypeOK, ListenerPoints, HoldingPoints, TakenPoints
<1>4. QED BY <1>1, <1>2, <1>3 DEF Acquiring

\* A listener gives its permit back and moves on.
LEMMA ListenerReleases ==
  ASSUME IInv, NEW p \in Ports, NEW x \in {"acquire", "join"},
         lpc[p] \in {"granted", "accept"}, Release(At(p, x)),
         UNCHANGED <<cancelled, semClosed, taken, backlog, conn, statVars>>
  PROVE  IInv'
<1> DEFINE f == At(p, x)
<1>0. /\ lpc \in [Ports -> ListenerPoints] /\ permits \in Nat /\ MaxConnections \in Nat
      /\ Cardinality(Holding(lpc)) \in Nat /\ Cardinality(Serving(conn)) \in Nat
  BY HoldingFinite, ServingFinite, TcpAssumption DEF IInv, TypeOK
<1>1. f \in [Ports -> ListenerPoints] /\ \A q \in Ports : lpc[q] = "waiting" => f[q] = "waiting"
  BY <1>0 DEF At, ListenerPoints
<1>2. Cardinality(Holding(f)) = Cardinality(Holding(lpc)) - 1
  BY <1>0, ListenerMoves DEF At, HoldingPoints, ListenerPoints
<1>3. /\ permits' \in 0 .. MaxConnections /\ waiters' \in Seq(Ports) /\ WaitersInv'
      /\ lpc' \in [Ports -> ListenerPoints]
      /\ permits' + Cardinality(Holding(lpc')) = permits + Cardinality(Holding(lpc))
      /\ \A q \in Ports : lpc'[q] = f[q] \/ (f[q] = "waiting" /\ lpc'[q] = "granted")
  <2>1. permits + Cardinality(Holding(f)) + 1 <= MaxConnections
    BY <1>0, <1>2, PermitsAre DEF IInv
  <2>2. permits + Cardinality(Holding(f)) + 1 = permits + Cardinality(Holding(lpc))
    BY <1>0, <1>2
  <2> HIDE DEF f
  <2>3. Release(f)
    BY DEF f
  <2>4. QED BY <1>1, <2>1, <2>2, <2>3, ReleaseKeeps
<1>4. \A q \in Ports : /\ lpc'[q] \in TakenPoints <=> lpc[q] \in TakenPoints
                       /\ lpc'[q] = "done" => lpc[q] = "done"
                       /\ lpc'[q] \in TakenPoints => lpc'[q] = lpc[q]
  BY <1>0, <1>3 DEF At, TakenPoints
<1>5. TypeOK'
  BY <1>3 DEF IInv, TypeOK, statVars
<1>6. BacklogInv' /\ TakenInv' /\ ListenerOutlivesProxies'
  BY <1>4 DEF IInv, TypeOK, BacklogInv, TakenInv, ListenerOutlivesProxies, Spawned, StageOf, PortOf
<1>7. PermitsConserved'
  BY <1>0, <1>3, PermitsAre
     DEF IInv, PermitsConserved, ListenersHolding, ProxiesHolding, Holding, Serving, StageOf
<1>8. QED BY <1>3, <1>5, <1>6, <1>7 DEF IInv

LEMMA AcquireEndKeeps ==
  ASSUME IInv, NEW p \in Ports, AcquireEnd(p)
  PROVE  IInv'
<1>1. CASE lpc[p] = "acquire" /\ lpc' = At(p, "join") /\ UNCHANGED <<permits, waiters>>
  BY <1>1, ListenerSteps
     DEF AcquireEnd, semVars, statVars, IInv, TypeOK, ListenerPoints, HoldingPoints, TakenPoints
<1>2. CASE lpc[p] = "waiting" /\ lpc' = At(p, "join") /\ LeaveQueue(p) /\ UNCHANGED permits
  <2>1. UNCHANGED <<cancelled, semClosed, permits, taken, backlog, conn, accepted, active, closed>>
    BY <1>2 DEF AcquireEnd, statVars
  <2>2. waiters' \in Seq(Ports) /\ WaitersInv'
    BY <1>2, LeaveQueueKeeps
  <2>3. TypeOK'
    BY <1>2, <2>1, <2>2 DEF IInv, TypeOK, At, ListenerPoints
  <2>4. BacklogInv' /\ TakenInv' /\ ListenerOutlivesProxies'
    BY <1>2, <2>1 DEF IInv, TypeOK, BacklogInv, TakenInv, ListenerOutlivesProxies, Spawned,
                      StageOf, PortOf, At, TakenPoints
  <2>5. Holding(lpc') = Holding(lpc)
    BY <1>2, ListenerMoves DEF IInv, TypeOK, At, HoldingPoints, ListenerPoints
  <2>6. PermitsConserved'
    BY <2>1, <2>5, PermitsAre
       DEF IInv, PermitsConserved, ListenersHolding, ProxiesHolding, Holding, Serving, StageOf
  <2>7. QED BY <2>2, <2>3, <2>4, <2>6 DEF IInv
<1>3. CASE lpc[p] = "granted" /\ Release(At(p, "join"))
  BY <1>3, ListenerReleases DEF AcquireEnd
<1>4. QED BY <1>1, <1>2, <1>3 DEF AcquireEnd

LEMMA AcceptKeeps ==
  ASSUME IInv, NEW p \in Ports, Accept(p)
  PROVE  IInv'
<1> DEFINE c == Head(backlog[p])
<1>1. /\ lpc[p] = "accept" /\ lpc' = At(p, "count")
      /\ taken' = [taken EXCEPT ![p] = c] /\ conn' = [conn EXCEPT ![c].stage = "taken"]
      /\ backlog' = [backlog EXCEPT ![p] = Tail(@)] /\ backlog[p] # <<>>
      /\ UNCHANGED <<cancelled, semClosed, permits, waiters, accepted, active, closed>>
  BY DEF Accept, Stage, semVars, statVars
<1>2. /\ backlog[p] \in Seq(Conns) /\ c \in Conns /\ c = backlog[p][1]
      /\ Len(backlog[p]) \in Nat \ {0}
      /\ Tail(backlog[p]) \in Seq(Conns) /\ Len(Tail(backlog[p])) = Len(backlog[p]) - 1
      /\ \A i \in 1 .. Len(Tail(backlog[p])) : Tail(backlog[p])[i] = backlog[p][i + 1]
  BY <1>1 DEF IInv, TypeOK
<1> HIDE DEF c
<1>3. conn[c] = [stage |-> "queued", port |-> p]
  BY <1>2 DEF IInv, BacklogInv
<1>4. TypeOK'
  <2>1. conn' \in [Conns -> ConnType]
    BY <1>1, <1>2, StageChanges DEF IInv, TypeOK, ConnType, Stages
  <2>2. backlog' \in [Ports -> Seq(Conns)]
    BY <1>1, <1>2 DEF IInv, TypeOK
  <2>3. QED BY <1>1, <1>2, <2>1, <2>2 DEF IInv, TypeOK, At, ListenerPoints, ConnType
<1>5. WaitersInv'
  BY <1>1, WaitersElsewhere DEF IInv, TypeOK, WaitersInv, At
<1>6. BacklogInv'
  <2> SUFFICES ASSUME NEW q \in Ports
               PROVE  /\ \A i \in 1 .. Len(backlog'[q]) :
                           conn'[backlog'[q][i]] = [stage |-> "queued", port |-> q]
                      /\ \A i, j \in 1 .. Len(backlog'[q]) :
                           backlog'[q][i] = backlog'[q][j] => i = j
    BY DEF BacklogInv
  <2>0. backlog[q] \in Seq(Conns) /\ \A i \in 1 .. Len(backlog[q]) : backlog[q][i] \in Conns
    BY DEF IInv, TypeOK
  <2>1. CASE q = p
    <3>1. backlog'[q] = Tail(backlog[p])
      BY <1>1, <2>1 DEF IInv, TypeOK
    <3>2. \A i \in 1 .. Len(backlog'[q]) :
            /\ i + 1 \in 1 .. Len(backlog[p]) /\ i + 1 # 1 /\ 1 \in 1 .. Len(backlog[p])
            /\ backlog'[q][i] = backlog[p][i + 1]
      BY <1>2, <3>1
    <3>3. ASSUME NEW i \in 1 .. Len(backlog'[q])
          PROVE  conn'[backlog'[q][i]] = [stage |-> "queued", port |-> q]
      <4>1. backlog[p][i + 1] # c /\ backlog[p][i + 1] \in Conns
        BY <1>2, <2>0, <2>1, <3>2 DEF IInv, BacklogInv
      <4>2. conn[backlog[p][i + 1]] = [stage |-> "queued", port |-> p]
        BY <3>2 DEF IInv, BacklogInv
      <4>3. QED BY <1>1, <2>1, <3>2, <4>1, <4>2 DEF IInv, TypeOK
    <3>4. ASSUME NEW i \in 1 .. Len(backlog'[q]), NEW j \in 1 .. Len(backlog'[q]),
                 backlog'[q][i] = backlog'[q][j]
          PROVE  i = j
      <4>1. backlog[p][i + 1] = backlog[p][j + 1]
        BY <3>2, <3>4
      <4>2. i + 1 = j + 1
        BY <3>2, <4>1 DEF IInv, BacklogInv
      <4>3. QED BY <1>2, <3>1, <4>2
    <3>5. QED BY <3>3, <3>4
  <2>2. CASE q # p
    <3>1. backlog'[q] = backlog[q]
      BY <1>1, <2>2 DEF IInv, TypeOK
    <3>2. \A i \in 1 .. Len(backlog[q]) : backlog[q][i] # c /\ backlog[q][i] \in Conns
      BY <1>3, <2>2, QueuedAre DEF PortOf
    <3>3. \A i \in 1 .. Len(backlog[q]) : conn'[backlog[q][i]] = conn[backlog[q][i]]
      BY <1>1, <3>2 DEF IInv, TypeOK
    <3>4. QED BY <3>1, <3>3 DEF IInv, BacklogInv
  <2>3. QED BY <2>1, <2>2
<1>7. TakenInv'
  BY <1>1, <1>2, <1>3 DEF IInv, TypeOK, TakenInv, StageOf, PortOf, At, TakenPoints
<1>8. PermitsConserved'
  <2>1. Holding(lpc') = Holding(lpc)
    BY <1>1, ListenerMoves DEF IInv, TypeOK, At, HoldingPoints, ListenerPoints
  <2>2. Serving(conn') = Serving(conn)
    BY <1>1, <1>2, <1>3 DEF IInv, TypeOK, Serving, ProxyStages
  <2>3. QED BY <1>1, <2>1, <2>2, PermitsAre
            DEF IInv, PermitsConserved, ListenersHolding, ProxiesHolding, Holding, Serving, StageOf
<1>9. ListenerOutlivesProxies'
  BY <1>1, <1>2 DEF IInv, TypeOK, ListenerOutlivesProxies, Spawned, StageOf, PortOf, At, ProxyStages
<1>10. QED BY <1>4, <1>5, <1>6, <1>7, <1>8, <1>9 DEF IInv

\* The permit goes from the listener to the proxy it spawns.
LEMMA SpawnKeeps ==
  ASSUME IInv, NEW p \in Ports, Spawn(p)
  PROVE  IInv'
<1> DEFINE c == taken[p]
<1>1. /\ lpc[p] = "spawn" /\ lpc' = At(p, "acquire")
      /\ taken' = [taken EXCEPT ![p] = NoConn] /\ conn' = [conn EXCEPT ![c].stage = "forward"]
      /\ UNCHANGED <<cancelled, semClosed, permits, waiters, backlog, accepted, active, closed>>
  BY DEF Spawn, Stage, semVars, statVars
<1>2. c \in Conns /\ conn[c] = [stage |-> "taken", port |-> p]
  BY <1>1 DEF IInv, TakenInv, TakenPoints
<1>3. /\ lpc \in [Ports -> ListenerPoints] /\ permits \in Nat
      /\ conn \in [Conns -> [stage : Stages, port : Ports \cup {NoConn}]]
      /\ Cardinality(Holding(lpc)) \in Nat /\ Cardinality(Serving(conn)) \in Nat
  BY HoldingFinite, ServingFinite DEF IInv, TypeOK
<1> HIDE DEF c
<1> DEFINE r == [stage |-> "forward", port |-> p]
<1>4. conn' = [conn EXCEPT ![c] = r] /\ r \in ConnType
  <2>1. "forward" \in Stages /\ conn \in [Conns -> ConnType]
    BY <1>3 DEF Stages, ConnType
  <2>2. conn[c].port = p
    BY <1>2
  <2>3. conn' = [conn EXCEPT ![c] = r]
    <3>1. [conn EXCEPT ![c].stage = "forward"]
            = [conn EXCEPT ![c] = [stage |-> "forward", port |-> conn[c].port]]
      BY ONLY <1>2, <2>1, StageChanges
    <3>2. QED BY <1>1, <2>2, <3>1
  <2>4. r \in ConnType
    BY <2>1 DEF ConnType
  <2>5. QED BY <2>3, <2>4
<1> HIDE DEF r
<1>5. TypeOK'
  <2>1. conn' \in [Conns -> ConnType]
    BY <1>2, <1>3, <1>4 DEF ConnType
  <2>2. lpc' \in [Ports -> ListenerPoints]
    BY <1>1, <1>3 DEF At, ListenerPoints
  <2>3. taken' \in [Ports -> Conns \cup {NoConn}]
    BY <1>1 DEF IInv, TypeOK
  <2>4. QED BY <1>1, <2>1, <2>2, <2>3 DEF IInv, TypeOK, ConnType
<1>6. WaitersInv'
  BY <1>1, WaitersElsewhere DEF IInv, TypeOK, WaitersInv, At
<1>7. BacklogInv'
  <2>1. StageOf(c) # "queued"
    BY <1>2 DEF StageOf
  <2>2. QED BY <1>1, <1>2, <1>4, <2>1, BacklogsKeep
<1>8. TakenInv'
  <2>1. \A q \in Ports : q # p /\ lpc[q] \in TakenPoints => taken[q] # c
    BY <1>2, TakenAre DEF PortOf
  <2>2. QED BY <1>1, <1>2, <2>1 DEF IInv, TypeOK, TakenInv, StageOf, PortOf, At, TakenPoints, r
<1>9. PermitsConserved'
  <2>1. Cardinality(Holding(lpc')) = Cardinality(Holding(lpc)) - 1
    BY <1>1, <1>3, ListenerMoves DEF At, HoldingPoints, ListenerPoints
  <2>2. Cardinality(Serving(conn')) = Cardinality(Serving(conn)) + 1
    <3>1. r.stage \in ProxyStages /\ conn[c].stage \notin ProxyStages
      BY <1>2 DEF ProxyStages, r
    <3>2. QED BY <1>2, <1>3, <1>4, <3>1, ConnMoves DEF ConnType
  <2>3. QED BY <1>1, <1>3, <2>1, <2>2, PermitsAre
            DEF IInv, PermitsConserved, ListenersHolding, ProxiesHolding, Holding, Serving, StageOf
<1>10. ListenerOutlivesProxies'
  BY <1>1, <1>2 DEF IInv, TypeOK, ListenerOutlivesProxies, Spawned, StageOf, PortOf, At, ProxyStages, r
<1>11. QED BY <1>5, <1>6, <1>7, <1>8, <1>9, <1>10 DEF IInv

LEMMA JoinKeeps ==
  ASSUME IInv, NEW p \in Ports, JoinConnections(p)
  PROVE  IInv'
<1>1. /\ lpc[p] = "join" /\ lpc' = At(p, "done") /\ Spawned(p) = {}
      /\ UNCHANGED <<cancelled, semClosed, permits, waiters, taken, backlog, conn, accepted, active, closed>>
  BY DEF JoinConnections, semVars, statVars
<1>2. TypeOK'
  BY <1>1 DEF IInv, TypeOK, At, ListenerPoints
<1>3. WaitersInv'
  BY <1>1, WaitersElsewhere DEF IInv, TypeOK, WaitersInv, At
<1>4. BacklogInv' /\ TakenInv' /\ ListenerOutlivesProxies'
  BY <1>1 DEF IInv, TypeOK, BacklogInv, TakenInv, ListenerOutlivesProxies, Spawned,
              StageOf, PortOf, At, TakenPoints
<1>5. Holding(lpc') = Holding(lpc)
  BY <1>1, ListenerMoves DEF IInv, TypeOK, At, HoldingPoints, ListenerPoints
<1>6. PermitsConserved'
  BY <1>1, <1>5, PermitsAre
     DEF IInv, PermitsConserved, ListenersHolding, ProxiesHolding, Holding, Serving, StageOf
<1>7. QED BY <1>2, <1>3, <1>4, <1>6 DEF IInv

LEMMA CountersStay ==
  ASSUME NEW g \in [Ports -> Nat], NEW p, NEW n, p \in Ports => n \in Nat
  PROVE  [g EXCEPT ![p] = n] \in [Ports -> Nat]
<1>1. CASE p \in Ports
  BY <1>1
<1>2. CASE p \notin Ports
  BY <1>2
<1>3. QED BY <1>1, <1>2

\* What a step of connection c's proxy leaves of the facts about connections.
LEMMA ProxyMoves ==
  ASSUME IInv, NEW c \in Conns, StageOf(c) \in ProxyStages,
         NEW s \in ProxyStages \cup {"ended"}, Stage(c, s),
         UNCHANGED <<taken, backlog>>,
         lpc' \in [Ports -> ListenerPoints],
         \A q \in Ports : /\ lpc'[q] \in TakenPoints <=> lpc[q] \in TakenPoints
                          /\ lpc'[q] = "done" => lpc[q] = "done"
  PROVE  /\ conn' \in [Conns -> ConnType]
         /\ conn' = [conn EXCEPT ![c] = [stage |-> s, port |-> PortOf(c)]]
         /\ BacklogInv' /\ TakenInv' /\ ListenerOutlivesProxies'
<1> DEFINE r == [stage |-> s, port |-> PortOf(c)]
<1>1. conn \in [Conns -> ConnType] /\ s \in Stages
  BY DEF IInv, TypeOK, ConnType, ProxyStages, Stages
<1>2. conn' = [conn EXCEPT ![c] = r] /\ conn' \in [Conns -> ConnType]
  <2>1. /\ [conn EXCEPT ![c].stage = s] = [conn EXCEPT ![c] = [stage |-> s, port |-> conn[c].port]]
        /\ [conn EXCEPT ![c].stage = s] \in [Conns -> ConnType]
    BY ONLY <1>1, StageChanges
  <2>2. QED BY <2>1 DEF Stage, PortOf
<1>3. r \in ConnType
  BY <1>1 DEF PortOf, ConnType
<1>4. BacklogInv'
  <2>1. StageOf(c) # "queued"
    BY DEF ProxyStages
  <2> HIDE DEF r
  <2>2. QED BY <1>2, <1>3, <2>1, BacklogsKeep
<1>5. TakenInv'
  <2>1. \A d \in Conns : StageOf(d)' = "taken" <=> StageOf(d) = "taken"
    BY <1>1, <1>2 DEF StageOf, ProxyStages
  <2>2. \A d \in Conns : StageOf(d) = "taken" => conn'[d] = conn[d]
    BY <1>1, <1>2 DEF StageOf, ProxyStages
  <2>3. QED BY <2>1, <2>2 DEF IInv, TakenInv, StageOf, PortOf
<1>6. ListenerOutlivesProxies'
  <2>1. \A q \in Ports : Spawned(q)' \subseteq Spawned(q)
    BY <1>1, <1>2 DEF Spawned, StageOf, PortOf
  <2>2. QED BY <2>1 DEF IInv, ListenerOutlivesProxies
<1>7. QED BY <1>2, <1>4, <1>5, <1>6

\* A proxy that goes on, with no other change but to counters.
LEMMA ProxySteps ==
  ASSUME IInv, NEW c \in Conns, StageOf(c) \in ProxyStages,
         NEW s \in ProxyStages, Stage(c, s),
         UNCHANGED <<cancelled, semVars, lpc, taken, backlog>>,
         accepted' \in [Ports -> Nat], active' \in [Ports -> Nat], closed' \in [Ports -> Nat]
  PROVE  IInv'
<1>1. /\ conn' \in [Conns -> ConnType]
      /\ conn' = [conn EXCEPT ![c] = [stage |-> s, port |-> PortOf(c)]]
      /\ BacklogInv' /\ TakenInv' /\ ListenerOutlivesProxies'
  BY ProxyMoves DEF IInv, TypeOK
<1>2. TypeOK' /\ WaitersInv'
  BY <1>1 DEF IInv, TypeOK, WaitersInv, ConnType, semVars
<1>3. Serving(conn') = Serving(conn)
  BY <1>1 DEF IInv, TypeOK, Serving, StageOf
<1>4. PermitsConserved'
  BY <1>3, PermitsAre
     DEF IInv, PermitsConserved, ListenersHolding, ProxiesHolding, Holding, Serving, StageOf, semVars
<1>5. QED BY <1>1, <1>2, <1>4 DEF IInv

LEMMA ReleasePermitKeeps ==
  ASSUME IInv, NEW c \in Conns, ReleasePermit(c)
  PROVE  IInv'
<1>0. /\ lpc \in [Ports -> ListenerPoints] /\ permits \in Nat /\ MaxConnections \in Nat
      /\ conn \in [Conns -> ConnType]
      /\ Cardinality(Holding(lpc)) \in Nat /\ Cardinality(Serving(conn)) \in Nat
  BY HoldingFinite, ServingFinite, TcpAssumption DEF IInv, TypeOK, ConnType
<1>1. /\ StageOf(c) = "release" /\ Stage(c, "ended") /\ Release(lpc)
      /\ UNCHANGED <<cancelled, semClosed, taken, backlog, accepted, active, closed>>
  BY DEF ReleasePermit, statVars
<1>2. Cardinality(Serving(conn)) >= 1
  <2>1. c \in Serving(conn)
    BY <1>1 DEF Serving, StageOf, ProxyStages
  <2>2. QED BY <1>0, <2>1, ServingFinite, FS_EmptySet
<1>3. /\ permits' \in 0 .. MaxConnections /\ waiters' \in Seq(Ports) /\ WaitersInv'
      /\ lpc' \in [Ports -> ListenerPoints]
      /\ permits' + Cardinality(Holding(lpc')) = permits + Cardinality(Holding(lpc)) + 1
      /\ \A q \in Ports : lpc'[q] = lpc[q] \/ (lpc[q] = "waiting" /\ lpc'[q] = "granted")
  <2>1. permits + Cardinality(Holding(lpc)) + 1 <= MaxConnections
    BY <1>0, <1>2, PermitsAre DEF IInv
  <2>2. QED BY <1>0, <1>1, <2>1, ReleaseKeeps
<1>4. /\ conn' \in [Conns -> ConnType]
      /\ conn' = [conn EXCEPT ![c] = [stage |-> "ended", port |-> PortOf(c)]]
      /\ BacklogInv' /\ TakenInv' /\ ListenerOutlivesProxies'
  <2>1. StageOf(c) \in ProxyStages
    BY <1>1 DEF ProxyStages
  <2>2. \A q \in Ports : /\ lpc'[q] \in TakenPoints <=> lpc[q] \in TakenPoints
                         /\ lpc'[q] = "done" => lpc[q] = "done"
    BY <1>3 DEF TakenPoints
  <2>3. QED BY <1>1, <1>3, <2>1, <2>2, ProxyMoves
<1>5. TypeOK'
  BY <1>1, <1>3, <1>4 DEF IInv, TypeOK, ConnType
<1>6. PermitsConserved'
  <2>1. Cardinality(Serving(conn')) = Cardinality(Serving(conn)) - 1
    <3>1. Serving(conn') = Serving(conn) \ {c} /\ c \in Serving(conn)
      BY <1>0, <1>1, <1>4 DEF Serving, StageOf, ProxyStages
    <3>2. QED BY <3>1, ServingFinite, FS_RemoveElement
  <2>2. QED BY <1>0, <1>3, <2>1, PermitsAre
            DEF IInv, PermitsConserved, ListenersHolding, ProxiesHolding, Holding, Serving, StageOf
<1>7. QED BY <1>3, <1>4, <1>5, <1>6 DEF IInv

LEMMA ProxyKeeps ==
  ASSUME IInv, NEW c \in Conns, ForwardingEnds(c) \/ ForwardingStops(c) \/ ProxyClose(c)
  PROVE  IInv'
<1>0. accepted \in [Ports -> Nat] /\ active \in [Ports -> Nat] /\ closed \in [Ports -> Nat]
  BY DEF IInv, TypeOK
<1>1. CASE ForwardingEnds(c) \/ ForwardingStops(c)
  BY <1>0, <1>1, ProxySteps DEF ForwardingEnds, ForwardingStops, statVars, ProxyStages
<1>2. CASE LowerActive(c)
  <2>1. active' \in [Ports -> Nat]
    <3> DEFINE p == PortOf(c)
    <3>1. active' = [active EXCEPT ![p] = IF active[p] > 0 THEN active[p] - 1 ELSE 0]
      BY <1>2 DEF LowerActive
    <3> HIDE DEF p
    <3>2. QED BY <1>0, <3>1, CountersStay
  <2>2. QED BY <1>0, <1>2, <2>1, ProxySteps DEF LowerActive, ProxyStages
<1>3. CASE CountClose(c)
  <2>1. closed' \in [Ports -> Nat]
    <3> DEFINE p == PortOf(c)
    <3>1. closed' = [closed EXCEPT ![p] = closed[p] + 1]
      BY <1>3 DEF CountClose, Bump
    <3> HIDE DEF p
    <3>2. QED BY <1>0, <3>1, CountersStay
  <2>2. QED BY <1>0, <1>3, <2>1, ProxySteps DEF CountClose, ProxyStages
<1>4. CASE ReleasePermit(c)
  BY <1>4, ReleasePermitKeeps
<1>5. QED BY <1>1, <1>2, <1>3, <1>4 DEF ProxyClose

LEMMA ClientConnectsKeeps ==
  ASSUME IInv, NEW c \in Conns, NEW p \in Ports, ClientConnects(c, p)
  PROVE  IInv'
<1> DEFINE r == [stage |-> "queued", port |-> p]
<1>1. /\ StageOf(c) = "new" /\ conn' = [conn EXCEPT ![c] = r]
      /\ backlog' = [backlog EXCEPT ![p] = Append(@, c)]
      /\ UNCHANGED <<cancelled, semClosed, permits, waiters, lpc, taken, accepted, active, closed>>
  BY DEF ClientConnects, semVars, statVars
<1>2. /\ conn \in [Conns -> ConnType] /\ r \in ConnType
      /\ \A q \in Ports : backlog[q] \in Seq(Conns)
  BY DEF IInv, TypeOK, ConnType, Stages
<1>3. /\ backlog'[p] = Append(backlog[p], c)
      /\ \A q \in Ports : q # p => backlog'[q] = backlog[q]
      /\ backlog' \in [Ports -> Seq(Conns)]
  BY <1>1 DEF IInv, TypeOK
<1>4. TypeOK'
  BY <1>1, <1>2, <1>3 DEF IInv, TypeOK, ConnType
<1>5. WaitersInv'
  BY <1>1 DEF IInv, WaitersInv
<1>6. \A q \in Ports : \A i \in 1 .. Len(backlog[q]) :
        backlog[q][i] # c /\ conn'[backlog[q][i]] = [stage |-> "queued", port |-> q]
  <2> TAKE q \in Ports
  <2> TAKE i \in 1 .. Len(backlog[q])
  <2>1. backlog[q][i] # c /\ backlog[q][i] \in Conns
    BY <1>1, QueuedAre
  <2>2. conn[backlog[q][i]] = [stage |-> "queued", port |-> q]
    BY DEF IInv, BacklogInv
  <2>3. QED BY <1>1, <1>2, <2>1, <2>2
<1>7. BacklogInv'
  <2> SUFFICES ASSUME NEW q \in Ports
               PROVE  /\ \A i \in 1 .. Len(backlog'[q]) :
                           conn'[backlog'[q][i]] = [stage |-> "queued", port |-> q]
                      /\ \A i, j \in 1 .. Len(backlog'[q]) :
                           backlog'[q][i] = backlog'[q][j] => i = j
    BY DEF BacklogInv
  <2>1. CASE q # p
    <3>1. backlog'[q] = backlog[q]
      BY <1>3, <2>1
    <3>2. QED BY <1>6, <3>1 DEF IInv, BacklogInv
  <2>2. CASE q = p
    <3>1. /\ Len(backlog'[q]) = Len(backlog[q]) + 1 /\ Len(backlog[q]) \in Nat
          /\ backlog'[q][Len(backlog[q]) + 1] = c
          /\ \A i \in 1 .. Len(backlog[q]) : backlog'[q][i] = backlog[q][i]
      BY <1>2, <1>3, <2>2, AppendProperties
    <3>2. \A i \in 1 .. Len(backlog'[q]) : i \in 1 .. Len(backlog[q]) \/ i = Len(backlog[q]) + 1
      BY <3>1
    <3>3. conn'[c] = r
      BY <1>1, <1>2
    <3>4. \A i \in 1 .. Len(backlog'[q]) : conn'[backlog'[q][i]] = [stage |-> "queued", port |-> q]
      BY <1>6, <2>2, <3>1, <3>2, <3>3
    <3>5. \A i, j \in 1 .. Len(backlog'[q]) : backlog'[q][i] = backlog'[q][j] => i = j
      <4>1. \A i, j \in 1 .. Len(backlog[q]) : backlog[q][i] = backlog[q][j] => i = j
        BY DEF IInv, BacklogInv
      <4>2. \A i \in 1 .. Len(backlog[q]) : backlog'[q][i] # c
        <5> TAKE i \in 1 .. Len(backlog[q])
        <5>1. backlog[q][i] # c
          BY <1>6
        <5>2. QED BY <3>1, <5>1
      <4>3. QED BY <3>1, <3>2, <4>1, <4>2
    <3>6. QED BY <3>4, <3>5
  <2>3. QED BY <2>1, <2>2
<1>8. \A d \in Conns : d = c \/ conn'[d] = conn[d]
  BY <1>1, <1>2
<1>9. conn'[c] = r /\ conn[c].stage = "new"
  BY <1>1, <1>2 DEF StageOf
<1>10. TakenInv'
  <2>1. \A q \in Ports : lpc[q] \in TakenPoints => taken[q] # c
    BY <1>9, TakenAre DEF StageOf
  <2>2. QED BY <1>1, <1>8, <1>9, <2>1 DEF IInv, TakenInv, StageOf, PortOf
<1>11. Serving(conn') = Serving(conn)
  BY <1>8, <1>9 DEF Serving, ProxyStages
<1>12. PermitsConserved'
  BY <1>1, <1>11, PermitsAre
     DEF IInv, PermitsConserved, ListenersHolding, ProxiesHolding, Holding, Serving, StageOf
<1>13. ListenerOutlivesProxies'
  <2>1. \A q \in Ports : Spawned(q)' = Spawned(q)
    BY <1>8, <1>9 DEF Spawned, StageOf, PortOf, ProxyStages
  <2>2. QED BY <1>1, <2>1 DEF IInv, ListenerOutlivesProxies
<1>14. QED BY <1>4, <1>5, <1>7, <1>10, <1>12, <1>13 DEF IInv

LEMMA StepKeeps == IInv /\ [Next]_vars => IInv'
<1> SUFFICES ASSUME IInv, [Next]_vars PROVE IInv'
  OBVIOUS
<1>0. /\ lpc \in [Ports -> ListenerPoints] /\ accepted \in [Ports -> Nat]
      /\ active \in [Ports -> Nat] /\ closed \in [Ports -> Nat]
  BY DEF IInv, TypeOK
<1>1. ASSUME NEW p \in Ports, Acquiring(p) PROVE IInv'
  BY <1>1, AcquireKeeps
<1>2. ASSUME NEW p \in Ports, Accept(p) PROVE IInv'
  BY <1>2, AcceptKeeps
<1>3. ASSUME NEW p \in Ports, AcceptFail(p) PROVE IInv'
  BY <1>3, ListenerReleases DEF AcceptFail
<1>4. ASSUME NEW p \in Ports, Recording(p) PROVE IInv'
  <2>1. CASE CountAccept(p)
    <3>1. accepted' \in [Ports -> Nat]
      BY <1>0, <2>1 DEF CountAccept, Bump
    <3>2. QED BY <1>0, <2>1, <3>1, ListenerSteps
              DEF CountAccept, ListenerPoints, HoldingPoints, TakenPoints
  <2>2. CASE RaiseActive(p)
    <3>1. active' \in [Ports -> Nat]
      BY <1>0, <2>2 DEF RaiseActive, Bump
    <3>2. QED BY <1>0, <2>2, <3>1, ListenerSteps
              DEF RaiseActive, ListenerPoints, HoldingPoints, TakenPoints
  <2>3. CASE Spawn(p)
    BY <2>3, SpawnKeeps
  <2>4. QED BY <1>4, <2>1, <2>2, <2>3 DEF Recording
<1>5. ASSUME NEW p \in Ports, ListenerEnd(p) PROVE IInv'
  <2>1. CASE AcquireEnd(p)
    BY <2>1, AcquireEndKeeps
  <2>2. CASE AcceptEnd(p)
    BY <2>2, ListenerReleases DEF AcceptEnd
  <2>3. QED BY <1>5, <2>1, <2>2 DEF ListenerEnd
<1>6. ASSUME NEW p \in Ports, JoinConnections(p) PROVE IInv'
  BY <1>6, JoinKeeps
<1>7. ASSUME NEW p \in Ports, NEW c \in Conns, ClientConnects(c, p) PROVE IInv'
  BY <1>7, ClientConnectsKeeps
<1>8. ASSUME NEW c \in Conns, ForwardingEnds(c) \/ ForwardingStops(c) \/ ProxyClose(c) PROVE IInv'
  BY <1>8, ProxyKeeps
\* The rest touches neither the listeners, nor the connections, nor the permits.
<1>9. CASE Cancel \/ CloseSemaphore \/ Terminated \/ UNCHANGED vars
  <2>1. /\ UNCHANGED <<permits, lpc, taken, backlog, conn, accepted, active, closed>>
        /\ cancelled' \in BOOLEAN /\ semClosed' \in BOOLEAN
        /\ waiters' = waiters \/ waiters' = <<>>
    BY <1>9 DEF Cancel, CloseSemaphore, Terminated, vars, semVars, statVars, IInv, TypeOK
  <2>2. TypeOK'
    <3>1. waiters' \in Seq(Ports)
      <4>1. waiters \in Seq(Ports)
        BY DEF IInv, TypeOK
      <4>2. <<>> \in Seq(Ports)
        OBVIOUS
      <4>3. QED BY <2>1, <4>1, <4>2
    <3>2. \A g \in {accepted', active', closed'} : g \in [Ports -> Nat]
      BY <1>0, <2>1
    <3>3. QED BY <2>1, <3>1, <3>2, Zenon DEF IInv, TypeOK
  <2>3. WaitersInv'
    <3>1. CASE waiters' = waiters
      BY <2>1, <3>1 DEF IInv, WaitersInv
    <3>2. CASE waiters' = <<>>
      BY <3>2 DEF WaitersInv
    <3>3. QED BY <2>1, <3>1, <3>2
  <2>4. BacklogInv' /\ TakenInv' /\ ListenerOutlivesProxies'
    BY <2>1 DEF IInv, BacklogInv, TakenInv, ListenerOutlivesProxies, Spawned, StageOf, PortOf
  <2>5. PermitsConserved'
    BY <2>1 DEF IInv, PermitsConserved, ListenersHolding, ProxiesHolding, StageOf
  <2>6. QED BY <2>2, <2>3, <2>4, <2>5 DEF IInv
<1>10. QED BY <1>1, <1>2, <1>3, <1>4, <1>5, <1>6, <1>7, <1>8, <1>9 DEF Next

\* The invariant holds, for any ports, connections and cap.
THEOREM Invariance == Spec => []IInv
<1>1. QED BY InitEstablishes, StepKeeps, PTL DEF Spec

\* The state has its type: the free permits never exceed the cap and never
\* fall below zero, whatever the order of accepts, failures and shutdown.
THEOREM TypeIsKept == Spec => []TypeOK
<1>1. IInv => TypeOK
  BY DEF IInv
<1>2. QED BY <1>1, Invariance, PTL

\* No permit of tcp_semaphore is lost or duplicated.
THEOREM PermitsAreConserved == Spec => []PermitsConserved
<1>1. IInv => PermitsConserved
  BY DEF IInv
<1>2. QED BY <1>1, Invariance, PTL

\* A listener's task never returns before the proxies it spawned.
THEOREM ProxiesAreJoined == Spec => []ListenerOutlivesProxies
<1>1. IInv => ListenerOutlivesProxies
  BY DEF IInv
<1>2. QED BY <1>1, Invariance, PTL

-----------------------------------------------------------------------------
(* The cap.                                                                *)

\* A listener about to accept holds a permit no connection in service uses.
LEMMA RoomForOne ==
  ASSUME IInv, NEW p \in Ports, lpc[p] = "accept"
  PROVE  IsFiniteSet(InService) /\ Cardinality(InService) < MaxConnections
<1> DEFINE T  == {c \in Conns : StageOf(c) = "taken"}
           TP == {q \in Ports : lpc[q] \in TakenPoints}
<1>1. Cardinality(T) <= Cardinality(TP) /\ IsFiniteSet(T) /\ IsFiniteSet(TP)
  <2> DEFINE f == [c \in T |-> PortOf(c)]
  <2>1. \A c \in T : PortOf(c) \in TP /\ taken[PortOf(c)] = c
    BY DEF IInv, TakenInv
  <2>2. f \in Injection(T, TP)
    <3>1. f \in [T -> TP]
      BY <2>1
    <3>2. \A a, b \in T : f[a] = f[b] => a = b
      BY <2>1
    <3> HIDE DEF f, T, TP
    <3>3. QED BY <3>1, <3>2 DEF Injection, IsInjective
  <2>3. IsFiniteSet(TP)
    BY FS_Subset, TcpAssumption
  <2> HIDE DEF f, T, TP
  <2>4. QED BY <2>2, <2>3, FS_Injection
<1>2. Cardinality(TP) + 1 <= Cardinality(Holding(lpc))
  <2>1. p \in Holding(lpc) /\ p \notin TP /\ TP \in SUBSET (Holding(lpc) \ {p})
    BY DEF Holding, HoldingPoints, TakenPoints
  <2>2. /\ IsFiniteSet(Holding(lpc) \ {p})
        /\ Cardinality(Holding(lpc) \ {p}) = Cardinality(Holding(lpc)) - 1
    BY <2>1, HoldingFinite, FS_RemoveElement
  <2> HIDE DEF TP
  <2>3. Cardinality(TP) <= Cardinality(Holding(lpc) \ {p}) /\ Cardinality(TP) \in Nat
    BY <1>1, <2>1, <2>2, FS_Subset, FS_CardinalityType
  <2>4. QED BY <2>2, <2>3, HoldingFinite
<1>3. IsFiniteSet(InService) /\ Cardinality(InService) <= Cardinality(Serving(conn)) + Cardinality(T)
  <2>1. InService = Serving(conn) \cup T
    BY DEF InService, Serving, StageOf
  <2> HIDE DEF T
  <2>2. Cardinality(Serving(conn) \cap T) \in Nat
    <3>1. Serving(conn) \cap T \in SUBSET T
      OBVIOUS
    <3>2. QED BY <1>1, <3>1, FS_Subset, FS_CardinalityType
  <2>3. /\ IsFiniteSet(Serving(conn) \cup T)
        /\ Cardinality(Serving(conn) \cup T)
             = Cardinality(Serving(conn)) + Cardinality(T) - Cardinality(Serving(conn) \cap T)
    BY <1>1, ServingFinite, FS_Union
  <2>4. Cardinality(Serving(conn)) \in Nat /\ Cardinality(T) \in Nat
    BY <1>1, ServingFinite, FS_CardinalityType
  <2>5. QED BY <2>1, <2>2, <2>3, <2>4
<1>4. permits + Cardinality(Holding(lpc)) + Cardinality(Serving(conn)) = MaxConnections
  BY PermitsAre DEF IInv
<1> HIDE DEF T, TP
<1>5. /\ permits \in Nat /\ MaxConnections \in Nat
      /\ Cardinality(T) \in Nat /\ Cardinality(TP) \in Nat
      /\ Cardinality(InService) \in Nat
      /\ Cardinality(Holding(lpc)) \in Nat /\ Cardinality(Serving(conn)) \in Nat
  BY <1>1, <1>3, HoldingFinite, ServingFinite, FS_CardinalityType, TcpAssumption DEF IInv, TypeOK
<1>6. QED BY <1>1, <1>2, <1>3, <1>4, <1>5

\* A step that leaves every connection in service there, and lets none in.
LEMMA SameService ==
  ASSUME \A c \in Conns : /\ StageOf(c)' \in ProxyStages \cup {"taken"}
                               <=> StageOf(c) \in ProxyStages \cup {"taken"}
                          /\ StageOf(c)' = "ended" <=> StageOf(c) = "ended"
  PROVE  UNCHANGED <<InService, Ended>>
BY DEF InService, Ended

\* One connection changes its stage.
LEMMA OneStage ==
  ASSUME IInv, NEW c \in Conns, NEW s, Stage(c, s)
  PROVE  StageOf(c)' = s /\ \A d \in Conns \ {c} : StageOf(d)' = StageOf(d)
BY DEF IInv, TypeOK, Stage, StageOf

LEMMA StepImplements ==
  ASSUME IInv, [Next]_vars
  PROVE  [Limit!Next]_<<InService, Ended>>
<1>1. ASSUME NEW p \in Ports, Accept(p) PROVE Limit!Next
  <2> DEFINE c == Head(backlog[p])
  <2>1. lpc[p] = "accept" /\ Stage(c, "taken") /\ c \in Conns /\ StageOf(c) = "queued"
    <3>1. lpc[p] = "accept" /\ backlog[p] # <<>> /\ Stage(c, "taken") /\ backlog[p] \in Seq(Conns)
      BY <1>1 DEF Accept, IInv, TypeOK
    <3>2. 1 \in 1 .. Len(backlog[p]) /\ c = backlog[p][1]
      BY <3>1
    <3>3. QED BY <3>1, <3>2, QueuedAre
  <2> HIDE DEF c
  <2>2. Cardinality(InService) < MaxConnections
    BY <2>1, RoomForOne
  <2>3. InService' = InService \cup {c} /\ Ended' = Ended /\ c \notin InService /\ c \notin Ended
    BY <2>1, OneStage DEF InService, Ended, ProxyStages
  <2>4. Limit!Open(c)
    <3>1. c \in Conns \ (InService \cup Ended)
      BY <2>1, <2>3
    <3>2. UNCHANGED Ended
      BY <2>3
    <3>3. Limit!Cardinality(InService) = Cardinality(InService)
      BY DEF Limit!Cardinality, Cardinality
    <3>4. QED BY <2>2, <2>3, <3>1, <3>2, <3>3 DEF Limit!Open
  <2>5. QED BY <2>1, <2>4 DEF Limit!Next
<1>2. ASSUME NEW c \in Conns, ReleasePermit(c) PROVE Limit!Next
  <2>1. StageOf(c) = "release" /\ Stage(c, "ended")
    BY <1>2 DEF ReleasePermit
  <2>2. InService' = InService \ {c} /\ Ended' = Ended \cup {c} /\ c \in InService
    BY <2>1, OneStage DEF InService, Ended, ProxyStages
  <2>3. QED BY <2>2 DEF Limit!Next, Limit!Close
<1>3. ASSUME NEW p \in Ports, Spawn(p) PROVE UNCHANGED <<InService, Ended>>
  <2> DEFINE c == taken[p]
  <2>1. c \in Conns /\ StageOf(c) = "taken" /\ Stage(c, "forward")
    BY <1>3, TakenAre DEF Spawn, TakenPoints
  <2> HIDE DEF c
  <2>2. QED BY <2>1, OneStage, SameService DEF ProxyStages
<1>4. ASSUME NEW c \in Conns,
             ForwardingEnds(c) \/ ForwardingStops(c) \/ LowerActive(c) \/ CountClose(c)
      PROVE  UNCHANGED <<InService, Ended>>
  <2>1. PICK s \in ProxyStages : StageOf(c) \in ProxyStages /\ Stage(c, s)
    BY <1>4 DEF ForwardingEnds, ForwardingStops, LowerActive, CountClose, ProxyStages
  <2>2. QED BY <2>1, OneStage, SameService DEF ProxyStages
<1>5. ASSUME NEW c \in Conns, NEW p \in Ports, ClientConnects(c, p)
      PROVE  UNCHANGED <<InService, Ended>>
  <2>1. StageOf(c) = "new" /\ StageOf(c)' = "queued" /\ \A d \in Conns \ {c} : StageOf(d)' = StageOf(d)
    BY <1>5 DEF ClientConnects, IInv, TypeOK, StageOf
  <2>2. QED BY <2>1, SameService DEF ProxyStages
<1>6. ASSUME UNCHANGED conn PROVE UNCHANGED <<InService, Ended>>
  BY <1>6 DEF InService, Ended, StageOf
<1>7. ASSUME NEW p \in Ports,
             \/ Acquiring(p) \/ AcceptFail(p) \/ CountAccept(p) \/ RaiseActive(p)
             \/ ListenerEnd(p) \/ JoinConnections(p)
      PROVE  UNCHANGED conn
  BY <1>7 DEF Acquiring, AcquireNow, AcquireWait, AcquireWake, AcceptFail, CountAccept,
              RaiseActive, ListenerEnd, AcquireEnd, AcceptEnd, JoinConnections
<1>8. ASSUME Cancel \/ CloseSemaphore \/ Terminated \/ UNCHANGED vars PROVE UNCHANGED conn
  BY <1>8 DEF Cancel, CloseSemaphore, Terminated, vars
<1>9. QED
  BY <1>1, <1>2, <1>3, <1>4, <1>5, <1>6, <1>7, <1>8 DEF Next, Recording, ProxyClose

\* At most MaxConnections connections are in service over all ports, each of
\* them once: the listeners and their semaphore implement ConnectionLimit.
THEOREM CapIsKept == Spec => ImplementsLimit
<1>1. Init => Limit!Init
  BY DEF Init, Limit!Init, InService, Ended, StageOf, ProxyStages
<1>2. IInv /\ [Next]_vars => [Limit!Next]_<<InService, Ended>>
  BY StepImplements
<1>3. QED BY <1>1, <1>2, Invariance, PTL DEF Spec, ImplementsLimit, Limit!Spec

-----------------------------------------------------------------------------
(* The gauge of active connections.                                        *)

\* The connections ActiveIsExact counts, for any state of the proxies.
Forwarding(g, p) == {c \in Conns : g[c].port = p /\ g[c].stage \in {"forward", "lower"}}

\* The connection its listener has counted and not yet handed to a proxy.
Raised(f, p) == IF f[p] = "spawn" THEN 1 ELSE 0

LEMMA ForwardingFinite ==
  ASSUME NEW g, NEW p
  PROVE  IsFiniteSet(Forwarding(g, p)) /\ Cardinality(Forwarding(g, p)) \in Nat
<1>1. Forwarding(g, p) \in SUBSET Conns
  BY DEF Forwarding
<1>2. QED BY <1>1, FS_Subset, FS_CardinalityType, TcpAssumption

LEMMA ActiveIs ==
  ActiveIsExact <=>
    \A p \in Ports : active[p] = Cardinality(Forwarding(conn, p)) + Raised(lpc, p)
BY DEF ActiveIsExact, Forwarding, Raised, StageOf, PortOf

\* A step that moves no connection into or out of these stages, and no listener
\* to or from spawning, must leave the gauges alone.
LEMMA ActiveStays ==
  ASSUME IInv, ActiveIsExact, UNCHANGED active,
         \A p \in Ports : lpc'[p] = "spawn" <=> lpc[p] = "spawn",
         \A p \in Ports : Forwarding(conn', p) = Forwarding(conn, p)
  PROVE  ActiveIsExact'
<1>1. \A p \in Ports : Raised(lpc', p) = Raised(lpc, p)
  BY DEF Raised
<1>2. \A p \in Ports : active'[p] = Cardinality(Forwarding(conn', p)) + Raised(lpc', p)
  BY <1>1, ActiveIs
<1>3. QED BY <1>2 DEF ActiveIsExact, Forwarding, Raised, StageOf, PortOf

\* A released permit wakes a waiting listener, never one that is spawning.
LEMMA ReleaseSpares ==
  ASSUME IInv, NEW f \in [Ports -> ListenerPoints], Release(f),
         \A q \in Ports : lpc[q] = "waiting" => f[q] = "waiting"
  PROVE  \A q \in Ports : lpc'[q] = "spawn" <=> f[q] = "spawn"
<1>1. CASE waiters = <<>>
  BY <1>1 DEF Release
<1>2. CASE waiters # <<>>
  <2>1. waiters \in Seq(Ports)
    BY DEF IInv, TypeOK
  <2>2. Head(waiters) \in Ports /\ Head(waiters) = waiters[1] /\ 1 \in 1 .. Len(waiters)
    BY <1>2, <2>1
  <2>3. f[Head(waiters)] = "waiting"
    BY <2>2 DEF IInv, WaitersInv
  <2>4. QED BY <1>2, <2>2, <2>3 DEF Release
<1>3. QED BY <1>1, <1>2

\* A connection changes its stage only, between two stages that are both
\* counted or both not.
LEMMA SameForwarding ==
  ASSUME IInv, NEW c \in Conns, NEW s, Stage(c, s),
         s \in {"forward", "lower"} <=> StageOf(c) \in {"forward", "lower"}
  PROVE  \A p : Forwarding(conn', p) = Forwarding(conn, p)
<1>1. conn \in [Conns -> ConnType] /\ conn' = [conn EXCEPT ![c].stage = s]
  BY DEF IInv, TypeOK, ConnType, Stage
<1>2. \A d \in Conns : conn'[d].port = conn[d].port
  BY <1>1 DEF ConnType
<1>3. \A d \in Conns : d # c => conn'[d].stage = conn[d].stage
  BY <1>1 DEF ConnType
<1>4. conn'[c].stage = s
  BY <1>1 DEF ConnType
<1>5. QED BY <1>2, <1>3, <1>4 DEF Forwarding, StageOf

LEMMA StepKeepsActive ==
  ASSUME IInv, ActiveIsExact, [Next]_vars
  PROVE  ActiveIsExact'
<1>0. /\ lpc \in [Ports -> ListenerPoints] /\ conn \in [Conns -> ConnType]
      /\ active \in [Ports -> Nat]
  BY DEF IInv, TypeOK, ConnType
<1> DEFINE Listeners == \A q \in Ports : lpc'[q] = "spawn" <=> lpc[q] = "spawn"
           Same == \A q \in Ports : Forwarding(conn', q) = Forwarding(conn, q)
<1>1. ASSUME UNCHANGED <<conn, active>>, Listeners PROVE ActiveIsExact'
  BY <1>1, ActiveStays
<1>2. ASSUME NEW p \in Ports, Acquiring(p) \/ CountAccept(p) \/ JoinConnections(p)
      PROVE  UNCHANGED <<conn, active>> /\ Listeners
  BY <1>0, <1>2 DEF Acquiring, AcquireNow, AcquireWait, AcquireWake, CountAccept, JoinConnections,
                    At, statVars
<1>3. ASSUME NEW p \in Ports, AcceptFail(p) \/ ListenerEnd(p)
      PROVE  UNCHANGED <<conn, active>> /\ Listeners
  <2>1. UNCHANGED <<conn, active>>
    BY <1>3 DEF AcceptFail, ListenerEnd, AcquireEnd, AcceptEnd, statVars
  <2>2. CASE \E x \in {"acquire", "join"} :
                lpc[p] \in {"accept", "granted"} /\ Release(At(p, x))
    <3>1. PICK x \in {"acquire", "join"} : lpc[p] \in {"accept", "granted"} /\ Release(At(p, x))
      BY <2>2
    <3>2. At(p, x) \in [Ports -> ListenerPoints]
      BY <1>0 DEF At, ListenerPoints
    <3>3. \A q \in Ports : /\ lpc[q] = "waiting" => At(p, x)[q] = "waiting"
                           /\ At(p, x)[q] = "spawn" <=> lpc[q] = "spawn"
      BY <1>0, <3>1 DEF At
    <3>4. \A q \in Ports : lpc'[q] = "spawn" <=> At(p, x)[q] = "spawn"
      BY <3>1, <3>2, <3>3, ReleaseSpares
    <3>5. QED BY <2>1, <3>3, <3>4
  <2>3. CASE lpc[p] \in {"acquire", "waiting"} /\ lpc' = At(p, "join")
    BY <1>0, <2>1, <2>3 DEF At
  <2>4. QED BY <1>3, <2>2, <2>3 DEF AcceptFail, ListenerEnd, AcquireEnd, AcceptEnd
<1>4. ASSUME NEW p \in Ports, Accept(p) PROVE ActiveIsExact'
  <2> DEFINE c == Head(backlog[p])
  <2>1. /\ lpc[p] = "accept" /\ backlog[p] # <<>> /\ Stage(c, "taken")
        /\ lpc' = At(p, "count") /\ UNCHANGED active
    BY <1>4 DEF Accept, statVars
  <2>2. backlog[p] \in Seq(Conns)
    BY DEF IInv, TypeOK
  <2>3. 1 \in 1 .. Len(backlog[p]) /\ c = backlog[p][1]
    BY <2>1, <2>2
  <2>4. c \in Conns /\ StageOf(c) = "queued"
    BY <2>3, QueuedAre
  <2> HIDE DEF c
  <2>5. Same
    BY <2>1, <2>4, SameForwarding
  <2>6. Listeners
    BY <1>0, <2>1 DEF At
  <2>7. QED BY <2>1, <2>5, <2>6, ActiveStays
<1>5. ASSUME NEW p \in Ports, RaiseActive(p) PROVE ActiveIsExact'
  <2>1. /\ lpc[p] = "raise" /\ lpc' = [lpc EXCEPT ![p] = "spawn"]
        /\ active' = [active EXCEPT ![p] = active[p] + 1] /\ conn' = conn
    BY <1>5 DEF RaiseActive, At, Bump
  <2>2. \A q \in Ports : active'[q] = Cardinality(Forwarding(conn', q)) + Raised(lpc', q)
    <3> TAKE q \in Ports
    <3>1. active[q] = Cardinality(Forwarding(conn, q)) + Raised(lpc, q)
      BY ActiveIs
    <3>2. Cardinality(Forwarding(conn, q)) \in Nat
      BY ForwardingFinite
    <3>3. QED BY <1>0, <2>1, <3>1, <3>2 DEF Raised
  <2>3. QED BY <2>2 DEF ActiveIsExact, Forwarding, Raised, StageOf, PortOf
<1>6. ASSUME NEW p \in Ports, Spawn(p) PROVE ActiveIsExact'
  <2> DEFINE c == taken[p]
  <2>1. /\ lpc[p] = "spawn" /\ lpc' = [lpc EXCEPT ![p] = "acquire"]
        /\ conn' = [conn EXCEPT ![c].stage = "forward"] /\ active' = active
    BY <1>6 DEF Spawn, At, Stage, statVars
  <2>2. c \in Conns /\ conn[c].stage = "taken" /\ conn[c].port = p
    BY <2>1, TakenAre DEF TakenPoints, StageOf, PortOf
  <2> HIDE DEF c
  <2>3. \A d \in Conns : /\ conn'[d].port = conn[d].port
                         /\ conn'[d].stage = IF d = c THEN "forward" ELSE conn[d].stage
    BY <1>0, <2>1, <2>2 DEF ConnType
  <2>4. /\ Forwarding(conn', p) = Forwarding(conn, p) \cup {c} /\ c \notin Forwarding(conn, p)
        /\ \A q \in Ports : q # p => Forwarding(conn', q) = Forwarding(conn, q)
    BY <2>2, <2>3 DEF Forwarding
  <2>5. Cardinality(Forwarding(conn', p)) = Cardinality(Forwarding(conn, p)) + 1
    BY <2>4, ForwardingFinite, FS_AddElement
  <2>6. \A q \in Ports : active'[q] = Cardinality(Forwarding(conn', q)) + Raised(lpc', q)
    <3> TAKE q \in Ports
    <3>1. active[q] = Cardinality(Forwarding(conn, q)) + Raised(lpc, q)
      BY ActiveIs
    <3>2. Cardinality(Forwarding(conn, q)) \in Nat
      BY ForwardingFinite
    <3>3. CASE q = p
      BY <1>0, <2>1, <2>5, <3>1, <3>2, <3>3 DEF Raised
    <3>4. CASE q # p
      <4>1. Forwarding(conn', q) = Forwarding(conn, q)
        BY <2>4, <3>4
      <4>2. QED BY <1>0, <2>1, <3>1, <3>4, <4>1 DEF Raised
    <3>5. QED BY <3>3, <3>4
  <2>7. QED BY <2>6 DEF ActiveIsExact, Forwarding, Raised, StageOf, PortOf
<1>7. ASSUME NEW c \in Conns, LowerActive(c) PROVE ActiveIsExact'
  <2> DEFINE p == PortOf(c)
  <2>1. /\ conn[c].stage = "lower" /\ conn[c].port = p
        /\ active' = [active EXCEPT ![p] = IF active[p] > 0 THEN active[p] - 1 ELSE 0]
        /\ conn' = [conn EXCEPT ![c].stage = "countClose"] /\ lpc' = lpc
    BY <1>7 DEF LowerActive, StageOf, PortOf, Stage
  <2> HIDE DEF p
  <2>2. \A d \in Conns : /\ conn'[d].port = conn[d].port
                         /\ conn'[d].stage = IF d = c THEN "countClose" ELSE conn[d].stage
    BY <1>0, <2>1 DEF ConnType
  <2>3. /\ Forwarding(conn', p) = Forwarding(conn, p) \ {c} /\ c \in Forwarding(conn, p)
        /\ \A q \in Ports : q # p => Forwarding(conn', q) = Forwarding(conn, q)
    BY <2>1, <2>2 DEF Forwarding
  <2>4. Cardinality(Forwarding(conn', p)) = Cardinality(Forwarding(conn, p)) - 1
    BY <2>3, ForwardingFinite, FS_RemoveElement
  <2>5. \A q \in Ports : active'[q] = Cardinality(Forwarding(conn', q)) + Raised(lpc', q)
    <3> TAKE q \in Ports
    <3>1. active[q] = Cardinality(Forwarding(conn, q)) + Raised(lpc, q) /\ Raised(lpc, q) \in Nat
      BY ActiveIs DEF Raised
    <3>2. Cardinality(Forwarding(conn, q)) \in Nat /\ Cardinality(Forwarding(conn', q)) \in Nat
      BY ForwardingFinite
    <3>3. CASE q = p
      <4>1. active[q] > 0 /\ active'[q] = active[q] - 1
        BY <1>0, <2>1, <2>4, <3>1, <3>2, <3>3
      <4>2. QED BY <2>1, <2>4, <3>1, <3>2, <3>3, <4>1
    <3>4. CASE q # p
      BY <1>0, <2>1, <2>3, <3>1, <3>4
    <3>5. QED BY <3>3, <3>4
  <2>6. QED BY <2>5 DEF ActiveIsExact, Forwarding, Raised, StageOf, PortOf
<1>8. ASSUME NEW c \in Conns, ForwardingEnds(c) \/ ForwardingStops(c) \/ CountClose(c)
      PROVE  ActiveIsExact'
  <2>1. PICK s : /\ Stage(c, s) /\ lpc' = lpc /\ active' = active
                 /\ s \in {"forward", "lower"} <=> StageOf(c) \in {"forward", "lower"}
    BY <1>8 DEF ForwardingEnds, ForwardingStops, CountClose, statVars
  <2>2. Same
    BY <2>1, SameForwarding
  <2>3. QED BY <2>1, <2>2, ActiveStays
<1>9. ASSUME NEW c \in Conns, ReleasePermit(c) PROVE ActiveIsExact'
  <2>1. StageOf(c) = "release" /\ Release(lpc) /\ Stage(c, "ended") /\ active' = active
    BY <1>9 DEF ReleasePermit, statVars
  <2>2. Same
    BY <2>1, SameForwarding
  <2>3. Listeners
    BY <1>0, <2>1, ReleaseSpares
  <2>4. QED BY <2>1, <2>2, <2>3, ActiveStays
<1>10. ASSUME NEW c \in Conns, NEW p \in Ports, ClientConnects(c, p) PROVE ActiveIsExact'
  <2>1. /\ conn[c].stage = "new" /\ lpc' = lpc /\ active' = active
        /\ conn' = [conn EXCEPT ![c] = [stage |-> "queued", port |-> p]]
    BY <1>10 DEF ClientConnects, StageOf, statVars
  <2>2. \A d \in Conns : d # c => conn'[d] = conn[d]
    BY <1>0, <2>1
  <2>3. conn'[c].stage = "queued"
    BY <1>0, <2>1
  <2>4. Same
    BY <2>1, <2>2, <2>3 DEF Forwarding
  <2>5. QED BY <2>1, <2>4, ActiveStays
<1>11. ASSUME Cancel \/ CloseSemaphore \/ Terminated \/ UNCHANGED vars
       PROVE  UNCHANGED <<conn, active>> /\ Listeners
  BY <1>11 DEF Cancel, CloseSemaphore, Terminated, vars, statVars
<1>12. QED
  BY <1>1, <1>2, <1>3, <1>4, <1>5, <1>6, <1>7, <1>8, <1>9, <1>10, <1>11
     DEF Next, Recording, ProxyClose

\* tcp_active counts the connections between their accept and their close, on
\* every port and whichever way a connection ends: record_tcp_close never meets
\* a gauge that is already zero.
THEOREM ActiveConnectionsAreCounted == Spec => []ActiveIsExact
<1>1. Init => ActiveIsExact
  <2> SUFFICES ASSUME Init, NEW p \in Ports
               PROVE  active[p] = Cardinality(Forwarding(conn, p)) + Raised(lpc, p)
    BY ActiveIs
  <2>1. Forwarding(conn, p) = {} /\ Raised(lpc, p) = 0 /\ active[p] = 0
    BY DEF Init, Forwarding, Raised
  <2>2. QED BY <2>1, FS_EmptySet
<1>2. IInv /\ ActiveIsExact /\ [Next]_vars => ActiveIsExact'
  BY StepKeepsActive
<1>3. QED BY <1>1, <1>2, Invariance, PTL DEF Spec
=============================================================================
