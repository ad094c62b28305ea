------------------------- MODULE StatsRegistryProofs -------------------------
(***************************************************************************)
(* Proofs about StatsRegistry, for any number of ports, any window and any *)
(* clock.  The loads of a loader are not atomic, so what it has so far is  *)
(* bounded from both sides: by what the ports it has loaded count by now,  *)
(* and, with what the others count by now, by what all counted at first.   *)
(* The first part is about sums.                                           *)
(***************************************************************************)
EXTENDS StatsRegistry, FiniteSetTheorems, TLAPS

-----------------------------------------------------------------------------
(* Sums.                                                                   *)

LEMMA CountedIs ==
  ASSUME NEW S, NEW f \in [S -> Nat], NEW x, NEW k
  PROVE  <<x, k>> \in Counted(f) <=> x \in S /\ k \in 1 .. f[x]
BY DEF Counted

LEMMA CountedPairs ==
  ASSUME NEW S, NEW f \in [S -> Nat], NEW c \in Counted(f)
  PROVE  \E x \in S, k \in Nat : k \in 1 .. f[x] /\ c = <<x, k>>
BY DEF Counted

LEMMA SumIsNat ==
  ASSUME NEW S, IsFiniteSet(S), NEW f \in [S -> Nat]
  PROVE  IsFiniteSet(Counted(f)) /\ SumOf(f) \in Nat
<1> DEFINE g == [x \in S |-> {x} \X (1 .. f[x])]
           R == {g[x] : x \in S}
<1>1. Counted(f) = UNION R
  BY DEF Counted
<1>2. \A x \in S : IsFiniteSet(g[x])
  <2> TAKE x \in S
  <2>1. IsFiniteSet({x})
    BY FS_Singleton
  <2>2. IsFiniteSet(1 .. f[x])
    BY FS_Interval
  <2>3. QED BY <2>1, <2>2, FS_Product
<1>3. IsFiniteSet(R)
  <2>1. g \in Surjection(S, R)
    <3>1. DOMAIN g = S
      OBVIOUS
    <3>2. g = [x \in S |-> g[x]]
      OBVIOUS
    <3> HIDE DEF g
    <3>3. QED BY <3>2 DEF Surjection
  <2> HIDE DEF g, R
  <2>2. QED BY <2>1, FS_Surjection
<1>4. \A T \in R : IsFiniteSet(T)
  BY <1>2
<1> HIDE DEF R
<1>5. IsFiniteSet(UNION R)
  BY <1>3, <1>4, FS_UNION
<1>6. QED BY <1>1, <1>5, FS_CardinalityType DEF SumOf

LEMMA SumIsMonotone ==
  ASSUME NEW S, IsFiniteSet(S), NEW f \in [S -> Nat], NEW g \in [S -> Nat],
         \A x \in S : f[x] <= g[x]
  PROVE  SumOf(f) <= SumOf(g)
<1>1. Counted(f) \in SUBSET Counted(g)
  <2> SUFFICES ASSUME NEW c \in Counted(f) PROVE c \in Counted(g)
    OBVIOUS
  <2>1. PICK x \in S, k \in Nat : k \in 1 .. f[x] /\ c = <<x, k>>
    BY CountedPairs
  <2>2. k \in 1 .. g[x]
    <3>1. f[x] \in Nat /\ g[x] \in Nat /\ f[x] <= g[x]
      OBVIOUS
    <3>2. QED BY <2>1, <3>1
  <2>3. QED BY <2>1, <2>2, CountedIs
<1>2. QED BY <1>1, SumIsNat, FS_Subset DEF SumOf

\* A value that grows by n adds n to the sum.
LEMMA SumGrows ==
  ASSUME NEW S, IsFiniteSet(S), NEW f \in [S -> Nat], NEW x \in S, NEW n \in Nat
  PROVE  SumOf([f EXCEPT ![x] = f[x] + n]) = SumOf(f) + n
<1> DEFINE g == [f EXCEPT ![x] = f[x] + n]
           more == {x} \X (f[x] + 1 .. f[x] + n)
<1>1. f[x] \in Nat /\ g \in [S -> Nat] /\ g[x] = f[x] + n /\ \A y \in S : y # x => g[y] = f[y]
  OBVIOUS
<1>2. IsFiniteSet(more) /\ Cardinality(more) = n
  <2>1. IsFiniteSet({x}) /\ Cardinality({x}) = 1
    BY FS_Singleton
  <2>2. /\ IsFiniteSet(f[x] + 1 .. f[x] + n)
        /\ Cardinality(f[x] + 1 .. f[x] + n) = n
    <3>1. PICK a \in Int, b \in Int : a = f[x] + 1 /\ b = f[x] + n
      BY <1>1
    <3>2. IsFiniteSet(a .. b) /\ Cardinality(a .. b) = IF a > b THEN 0 ELSE b - a + 1
      BY FS_Interval
    <3>3. (IF a > b THEN 0 ELSE b - a + 1) = n
      BY <1>1, <3>1
    <3>4. QED BY <3>1, <3>2, <3>3
  <2>3. PICK A, B : A = {x} /\ B = f[x] + 1 .. f[x] + n
    OBVIOUS
  <2>4. IsFiniteSet(A \X B) /\ Cardinality(A \X B) = Cardinality(A) * Cardinality(B)
    BY <2>1, <2>2, <2>3, FS_Product
  <2>5. Cardinality(A) = 1 /\ Cardinality(B) = n /\ more = A \X B
    BY <2>1, <2>2, <2>3
  <2> HIDE DEF more
  <2>6. 1 * n = n
    OBVIOUS
  <2>7. IsFiniteSet(more)
    BY <2>4, <2>5
  <2>8. Cardinality(more) = 1 * n
    BY <2>4, <2>5
  <2>9. QED BY <2>6, <2>7, <2>8
<1> HIDE DEF g
<1>3. Counted(g) = Counted(f) \cup more
  <2>1. ASSUME NEW c \in Counted(g) PROVE c \in Counted(f) \cup more
    <3>1. PICK y \in S, k \in Nat : k \in 1 .. g[y] /\ c = <<y, k>>
      BY <1>1, <2>1, CountedPairs
    <3>2. CASE y # x
      BY <1>1, <3>1, <3>2, CountedIs
    <3>3. CASE y = x
      <4>1. k \in 1 .. f[x] \/ k \in f[x] + 1 .. f[x] + n
        BY <1>1, <3>1, <3>3
      <4>2. QED BY <3>1, <3>3, <4>1, CountedIs
    <3>4. QED BY <3>2, <3>3
  <2>2. ASSUME NEW c \in Counted(f) PROVE c \in Counted(g)
    <3>1. PICK y \in S, k \in Nat : k \in 1 .. f[y] /\ c = <<y, k>>
      BY <2>2, CountedPairs
    <3>2. k \in 1 .. g[y]
      BY <1>1, <3>1
    <3>3. QED BY <1>1, <3>1, <3>2, CountedIs
  <2>3. ASSUME NEW c \in more PROVE c \in Counted(g)
    <3>1. PICK k \in f[x] + 1 .. f[x] + n : c = <<x, k>>
      BY <2>3
    <3>2. k \in 1 .. g[x]
      BY <1>1, <3>1
    <3>3. QED BY <1>1, <3>1, <3>2, CountedIs
  <2>4. QED BY <2>1, <2>2, <2>3
<1>4. Counted(f) \cap more = {}
  <2> SUFFICES ASSUME NEW c \in Counted(f), c \in more PROVE FALSE
    OBVIOUS
  <2>1. PICK k \in f[x] + 1 .. f[x] + n : c = <<x, k>>
    OBVIOUS
  <2>2. k \in 1 .. f[x]
    BY <2>1, CountedIs
  <2>3. QED BY <1>1, <2>1, <2>2
<1> HIDE DEF more
<1>5. IsFiniteSet(Counted(f)) /\ SumOf(f) \in Nat
  BY SumIsNat
<1>6. Cardinality(Counted(f) \cup more)
        = Cardinality(Counted(f)) + Cardinality(more) - Cardinality(Counted(f) \cap more)
  BY <1>2, <1>5, FS_Union
<1>7. Cardinality(Counted(f) \cap more) = 0
  BY <1>4, FS_EmptySet
<1>8. SumOf(g) = SumOf(f) + n
  BY <1>2, <1>3, <1>5, <1>6, <1>7 DEF SumOf
<1>9. QED BY <1>8 DEF g

\* A value that is replaced changes the sum by the difference.
LEMMA SumReplaces ==
  ASSUME NEW S, IsFiniteSet(S), NEW f \in [S -> Nat], NEW x \in S, NEW n \in Nat
  PROVE  SumOf([f EXCEPT ![x] = n]) + f[x] = SumOf(f) + n
<1>1. PICK z \in [S -> Nat], m \in Nat : z = [f EXCEPT ![x] = 0] /\ m = f[x]
  OBVIOUS
<1>2. /\ z[x] = 0 /\ z[x] + m = m /\ z[x] + n = n
      /\ [z EXCEPT ![x] = m] = f /\ [z EXCEPT ![x] = n] = [f EXCEPT ![x] = n]
  <2>1. z[x] = 0 /\ z[x] + m = m /\ z[x] + n = n
    BY <1>1
  <2>2. [z EXCEPT ![x] = m] = f
    BY <1>1
  <2>3. [z EXCEPT ![x] = n] = [f EXCEPT ![x] = n]
    BY <1>1
  <2>4. QED BY <2>1, <2>2, <2>3
<1>3. SumOf(f) = SumOf(z) + m
  <2>1. SumOf([z EXCEPT ![x] = z[x] + m]) = SumOf(z) + m
    BY SumGrows
  <2>2. QED BY <1>2, <2>1
<1>4. SumOf([f EXCEPT ![x] = n]) = SumOf(z) + n
  <2>1. SumOf([z EXCEPT ![x] = z[x] + n]) = SumOf(z) + n
    BY SumGrows
  <2>2. QED BY <1>2, <2>1
<1>5. SumOf(z) \in Nat
  BY SumIsNat
<1>6. QED BY <1>1, <1>3, <1>4, <1>5

LEMMA SumOfZeros ==
  ASSUME NEW S, NEW f \in [S -> Nat], \A x \in S : f[x] = 0
  PROVE  SumOf(f) = 0
<1>1. Counted(f) = {}
  <2> SUFFICES ASSUME NEW c \in Counted(f) PROVE FALSE
    OBVIOUS
  <2>1. PICK x \in S, k \in Nat : k \in 1 .. f[x] /\ c = <<x, k>>
    BY CountedPairs
  <2>2. QED BY <2>1
<1>2. QED BY <1>1, FS_EmptySet DEF SumOf

-----------------------------------------------------------------------------
(* The ring's arithmetic.                                                  *)

LEMMA BucketsAre == NBuckets \in Nat \ {0} /\ NBuckets >= Window /\ Window \in Nat
BY StatsAssumption DEF NBuckets

\* Two minutes in the same slot are at least the ring apart.
LEMMA SameSlotIsFar ==
  ASSUME NEW a \in Nat, NEW b \in Nat, a # b, IndexOf(a) = IndexOf(b)
  PROVE  Distance(a, b) >= Window
<1> DEFINE N == NBuckets
<1>1. N \in Nat \ {0} /\ N >= Window /\ Window \in Nat
  BY BucketsAre
<1>2. a % N = b % N
  BY DEF IndexOf
<1> HIDE DEF N
<1>3. PICK q \in Nat, p \in Nat, r \in Nat : a = N * q + r /\ b = N * p + r
  <2>1. \A m \in Nat : m = N * (m \div N) + (m % N) /\ m \div N \in Nat /\ m % N \in Nat
    BY <1>1
  <2>2. QED BY <1>2, <2>1
<1>4. ASSUME NEW u \in Nat, NEW v \in Nat, u < v PROVE N * v >= N * u + N
  <2>1. PICK d \in Nat : v = u + 1 + d
    <3>1. v - u - 1 \in Nat /\ v = u + 1 + (v - u - 1)
      BY <1>4
    <3>2. QED BY <3>1
  <2>2. N * d \in Nat /\ N * v = N * u + N + N * d
    BY <1>1, <2>1
  <2>3. N * u \in Nat
    BY <1>1
  <2>4. QED BY <1>1, <2>2, <2>3
<1>5. q # p
  BY <1>3
<1>6. a >= b + N \/ b >= a + N
  <2>1. N * q \in Nat /\ N * p \in Nat
    BY <1>1
  <2>2. CASE q < p
    BY <1>1, <1>3, <1>4, <2>1, <2>2
  <2>3. CASE p < q
    BY <1>1, <1>3, <1>4, <2>1, <2>3
  <2>4. QED BY <1>5, <2>2, <2>3
<1>7. QED BY <1>1, <1>6 DEF Distance, SaturatingSub

-----------------------------------------------------------------------------
(* The counters of the ports a loader has loaded, and of the others.       *)

LEMMA PortsAre ==
  /\ NPorts \in Nat \ {0} /\ IsFiniteSet(Ports) /\ IsFiniteSet(Slots)
  /\ \A k \in 0 .. NPorts : k < NPorts => k + 1 \in Ports
<1>1. NPorts \in Nat \ {0} /\ NBuckets - 1 \in Int
  BY StatsAssumption, BucketsAre
<1>2. IsFiniteSet(Ports) /\ IsFiniteSet(Slots)
  BY <1>1, FS_Interval DEF Ports, Slots
<1>3. QED BY <1>1, <1>2 DEF Ports

LEMMA PartsAre ==
  ASSUME NEW f \in [Ports -> Nat], NEW k \in 0 .. NPorts
  PROVE  /\ Before(f, k) \in [Ports -> Nat] /\ After(f, k) \in [Ports -> Nat]
         /\ SumOf(Before(f, k)) \in Nat /\ SumOf(After(f, k)) \in Nat /\ SumOf(f) \in Nat
<1>1. Before(f, k) \in [Ports -> Nat] /\ After(f, k) \in [Ports -> Nat]
  BY DEF Before, After
<1>2. QED BY <1>1, PortsAre, SumIsNat

\* Loading one port moves its counter from the second part to the first.
LEMMA NextPort ==
  ASSUME NEW f \in [Ports -> Nat], NEW k \in 0 .. NPorts, k < NPorts
  PROVE  /\ SumOf(Before(f, k + 1)) = SumOf(Before(f, k)) + f[k + 1]
         /\ SumOf(After(f, k)) = SumOf(After(f, k + 1)) + f[k + 1]
<1>1. PICK p \in Ports, n \in Nat : p = k + 1 /\ n = f[p]
  BY PortsAre
<1>2. k \in Nat /\ NPorts \in Nat /\ p \in 0 .. NPorts /\ \A x \in Ports : x \in Nat
  BY <1>1, PortsAre DEF Ports
<1>3. Before(f, p) = [Before(f, k) EXCEPT ![p] = Before(f, k)[p] + n]
  <2>1. Before(f, k)[p] = 0 /\ Before(f, k)[p] + n = n
    BY <1>1, <1>2 DEF Before
  <2>2. \A x \in Ports : x <= p <=> x <= k \/ x = p
    BY <1>1, <1>2
  <2>3. Before(f, p) = [Before(f, k) EXCEPT ![p] = n]
    BY <1>1, <2>2 DEF Before
  <2>4. QED BY <2>1, <2>3
<1>4. After(f, k) = [After(f, p) EXCEPT ![p] = After(f, p)[p] + n]
  <2>1. After(f, p)[p] = 0 /\ After(f, p)[p] + n = n
    BY <1>1, <1>2 DEF After
  <2>2. \A x \in Ports : x > k <=> x > p \/ x = p
    BY <1>1, <1>2
  <2>3. After(f, k) = [After(f, p) EXCEPT ![p] = n]
    BY <1>1, <2>2 DEF After
  <2>4. QED BY <2>1, <2>3
<1>5. PICK b \in [Ports -> Nat], a \in [Ports -> Nat] : b = Before(f, k) /\ a = After(f, p)
  BY <1>2, PartsAre
<1>6. IsFiniteSet(Ports)
  BY PortsAre
<1>7. /\ SumOf([b EXCEPT ![p] = b[p] + n]) = SumOf(b) + n
      /\ SumOf([a EXCEPT ![p] = a[p] + n]) = SumOf(a) + n
  <2>1. \A h \in [Ports -> Nat], x \in Ports, m \in Nat :
          SumOf([h EXCEPT ![x] = h[x] + m]) = SumOf(h) + m
    BY <1>6, SumGrows, Zenon
  <2>2. QED BY <2>1
<1>8. QED BY <1>1, <1>3, <1>4, <1>5, <1>6, <1>7

LEMMA WholeParts ==
  ASSUME NEW f \in [Ports -> Nat]
  PROVE  /\ SumOf(Before(f, NPorts)) = SumOf(f) /\ SumOf(After(f, 0)) = SumOf(f)
         /\ SumOf(Before(f, 0)) = 0 /\ SumOf(After(f, NPorts)) = 0
<1>1. NPorts \in Nat /\ \A p \in Ports : p \in Nat /\ p > 0 /\ p <= NPorts
  BY PortsAre DEF Ports
<1>2. Before(f, NPorts) = f
  BY <1>1 DEF Before
<1>3. After(f, 0) = f
  BY <1>1 DEF After
<1>4. PICK z \in [Ports -> Nat] : z = [p \in Ports |-> 0]
  OBVIOUS
<1>5. Before(f, 0) = z
  BY <1>1, <1>4 DEF Before
<1>6. After(f, NPorts) = z
  BY <1>1, <1>4 DEF After
<1>7. SumOf(z) = 0
  BY <1>4, SumOfZeros
<1>8. QED BY <1>2, <1>3, <1>5, <1>6, <1>7

LEMMA PartsGrow ==
  ASSUME NEW f \in [Ports -> Nat], NEW g \in [Ports -> Nat], \A p \in Ports : f[p] <= g[p],
         NEW k \in 0 .. NPorts
  PROVE  /\ SumOf(Before(f, k)) <= SumOf(Before(g, k))
         /\ SumOf(After(f, k)) <= SumOf(After(g, k))
         /\ SumOf(f) <= SumOf(g)
<1>1. PICK bf \in [Ports -> Nat], bg \in [Ports -> Nat], af \in [Ports -> Nat], ag \in [Ports -> Nat] :
        bf = Before(f, k) /\ bg = Before(g, k) /\ af = After(f, k) /\ ag = After(g, k)
  BY PartsAre
<1>2. \A p \in Ports : bf[p] <= bg[p]
  BY <1>1 DEF Before
<1>3. \A p \in Ports : af[p] <= ag[p]
  BY <1>1 DEF After
<1>4. SumOf(bf) <= SumOf(bg)
  BY <1>2, PortsAre, SumIsMonotone
<1>5. SumOf(af) <= SumOf(ag)
  BY <1>3, PortsAre, SumIsMonotone
<1>6. SumOf(f) <= SumOf(g)
  BY PortsAre, SumIsMonotone
<1>7. QED BY <1>1, <1>4, <1>5, <1>6

-----------------------------------------------------------------------------
(* The invariant: its base, and one lemma per group of actions.            *)

LEMMA StateIs ==
  ASSUME IInv
  PROVE  /\ accepted \in [Ports -> Nat] /\ SumOf(accepted) \in Nat
         /\ pc \in [Loaders -> {"wait", "load", "final", "done"}]
         /\ loaded \in [Loaders -> 0 .. NPorts]
         /\ total \in [Loaders -> Nat] /\ since \in [Loaders -> Nat]
         /\ Rollup \in Loaders /\ previous \in Nat /\ cutoff \in Nat
<1>1. accepted \in [Ports -> Nat]
  BY StatsAssumption DEF IInv, TypeOK
<1>2. QED BY <1>1, PortsAre, SumIsNat DEF IInv, TypeOK, Loaders

LEMMA InitEstablishes == Init => IInv
<1> SUFFICES ASSUME Init PROVE IInv
  OBVIOUS
<1>0. NPorts \in Nat /\ MaxMinute \in Nat \ {0} /\ MaxAccepts \in Nat /\ MaxActive \in Nat
  BY StatsAssumption
<1>1. TypeOK
  <2>1. ring \in [Slots -> Bucket]
    BY <1>0 DEF Init, EmptyBucket, Bucket, NoMinute
  <2>2. /\ accepted \in [Ports -> 0 .. MaxAccepts] /\ loaded \in [Loaders -> 0 .. NPorts]
        /\ total \in [Loaders -> Nat] /\ since \in [Loaders -> Nat]
    BY <1>0 DEF Init
  <2>3. stamp \in NoMinute .. MaxMinute
    BY <1>0 DEF Init, NoMinute
  <2>4. QED BY <2>1, <2>2, <2>3 DEF Init, TypeOK
<1>2. accepted \in [Ports -> Nat] /\ \A p \in Ports : accepted[p] = 0
  BY DEF Init
<1>3. SumOf(accepted) = 0
  BY <1>2, SumOfZeros
<1>4. LoadersInv
  <2> SUFFICES ASSUME NEW r \in Loaders
               PROVE  total[r] <= SumOf(Before(accepted, loaded[r])) /\ pc[r] = "wait"
                      /\ loaded[r] = 0 /\ total[r] = 0
    BY DEF LoadersInv, Loading
  <2>1. loaded[r] = 0 /\ total[r] = 0 /\ pc[r] = "wait"
    BY DEF Init
  <2>2. SumOf(Before(accepted, 0)) = 0
    BY <1>2, WholeParts
  <2>3. QED BY <2>1, <2>2
<1>5. PreviousInv /\ ShutdownInv /\ ShutdownReported
  BY <1>3, Rollup \in Loaders
     DEF Init, PreviousInv, ShutdownInv, ShutdownReported, Loading, Loaders
<1>6. RingInv
  BY DEF Init, RingInv, EmptyBucket, NoMinute
<1>7. DeltasConserved
  <2>1. PICK f \in [Slots -> Nat] : f = [i \in Slots |-> ring[i].newConn]
    BY <1>1 DEF TypeOK, Bucket
  <2>2. \A i \in Slots : f[i] = 0
    BY <2>1 DEF Init, EmptyBucket
  <2>3. SumOf(f) = 0
    BY <2>2, SumOfZeros
  <2>4. QED BY <2>1, <2>3 DEF Init, DeltasConserved
<1>8. QED BY <1>1, <1>4, <1>5, <1>6, <1>7 DEF IInv

LEMMA CountAcceptKeeps ==
  ASSUME IInv, NEW p \in Ports, CountAccept(p)
  PROVE  IInv'
<1>1. /\ accepted[p] < MaxAccepts /\ accepted' = [accepted EXCEPT ![p] = accepted[p] + 1]
      /\ UNCHANGED <<minute, shutdown, pc, loaded, total, stamp, ring, previous, since, evicted, cutoff>>
  BY DEF CountAccept, loaderVars, ringVars, clockVars
<1>2. /\ accepted \in [Ports -> 0 .. MaxAccepts] /\ accepted' \in [Ports -> 0 .. MaxAccepts]
      /\ \A q \in Ports : accepted[q] <= accepted'[q]
  BY <1>1, StatsAssumption DEF IInv, TypeOK
<1>3. accepted \in [Ports -> Nat] /\ accepted' \in [Ports -> Nat]
  BY <1>2, StatsAssumption
<1>4. TypeOK'
  BY <1>1, <1>2 DEF IInv, TypeOK
<1>5. PICK f \in [Ports -> Nat], g \in [Ports -> Nat] : f = accepted /\ g = accepted'
  BY <1>3
<1>6. \A k \in 0 .. NPorts :
        /\ SumOf(Before(f, k)) <= SumOf(Before(g, k)) /\ SumOf(Before(f, k)) \in Nat
        /\ SumOf(After(f, k)) <= SumOf(After(g, k)) /\ SumOf(After(f, k)) \in Nat
        /\ SumOf(Before(g, k)) \in Nat /\ SumOf(After(g, k)) \in Nat
        /\ SumOf(f) <= SumOf(g) /\ SumOf(f) \in Nat /\ SumOf(g) \in Nat
  <2> TAKE k \in 0 .. NPorts
  <2>1. \A q \in Ports : f[q] <= g[q]
    BY <1>2, <1>5
  <2>2. QED BY <2>1, PartsGrow, PartsAre
<1>7. LoadersInv'
  <2> SUFFICES ASSUME NEW r \in Loaders
               PROVE  /\ total[r] <= SumOf(Before(g, loaded[r]))
                      /\ Loading(r) => total[r] + SumOf(After(g, loaded[r])) >= since[r]
                      /\ ~Loading(r) => loaded[r] = 0 /\ total[r] = 0
    BY <1>1, <1>5 DEF LoadersInv, Loading
  <2>1. /\ total[r] <= SumOf(Before(f, loaded[r]))
        /\ Loading(r) => total[r] + SumOf(After(f, loaded[r])) >= since[r]
        /\ ~Loading(r) => loaded[r] = 0 /\ total[r] = 0
    BY <1>5 DEF IInv, LoadersInv
  <2>2. loaded[r] \in 0 .. NPorts /\ total[r] \in Nat /\ since[r] \in Nat
    BY StateIs
  <2>3. QED BY <1>6, <2>1, <2>2
<1>8. PreviousInv' /\ ShutdownInv'
  <2>1. previous <= SumOf(g) /\ (shutdown => cutoff <= SumOf(g))
    <3>1. previous <= SumOf(f) /\ (shutdown => cutoff <= SumOf(f))
      BY <1>5 DEF IInv, PreviousInv, ShutdownInv
    <3>2. 0 \in 0 .. NPorts
      BY PortsAre
    <3>3. QED BY <1>6, <3>1, <3>2, StateIs
  <2>2. QED BY <1>1, <1>5, <2>1 DEF IInv, PreviousInv, ShutdownInv, Loading
<1>9. RingInv' /\ DeltasConserved' /\ ShutdownReported'
  BY <1>1 DEF IInv, RingInv, DeltasConserved, ShutdownReported
<1>10. QED BY <1>4, <1>7, <1>8, <1>9 DEF IInv

\* The parts of the invariant a step leaves alone with their variables.
LEMMA LoadersStay ==
  ASSUME IInv, UNCHANGED <<accepted, pc, loaded, total, since>>
  PROVE  LoadersInv'
BY DEF IInv, LoadersInv, Loading

LEMMA RingStays ==
  ASSUME IInv, UNCHANGED <<ring, previous, evicted>>
  PROVE  RingInv' /\ DeltasConserved'
BY DEF IInv, RingInv, DeltasConserved

LEMMA ClockKeeps ==
  ASSUME IInv, ClockMoves \/ Shutdown \/ UNCHANGED vars
  PROVE  IInv'
<1>1. /\ UNCHANGED <<accepted, pc, loaded, total, stamp, ring, previous, since, evicted>>
      /\ minute' \in 1 .. MaxMinute /\ shutdown' \in BOOLEAN
      /\ \/ cutoff' = cutoff /\ shutdown' = shutdown
         \/ ~shutdown /\ cutoff' = SumOf(accepted) /\ shutdown' = TRUE
  BY DEF ClockMoves, Shutdown, vars, loaderVars, ringVars, clockVars, IInv, TypeOK
<1>2. TypeOK'
  <2>1. cutoff' \in Nat
    BY <1>1, StateIs
  <2>2. QED BY <1>1, <2>1 DEF IInv, TypeOK
<1>3. LoadersInv' /\ RingInv' /\ DeltasConserved'
  BY <1>1, LoadersStay, RingStays
<1>4. PreviousInv'
  BY <1>1 DEF IInv, PreviousInv, Loading
<1>5. ShutdownInv' /\ ShutdownReported'
  BY <1>1, StateIs DEF IInv, ShutdownInv, ShutdownReported
<1>6. QED BY <1>2, <1>3, <1>4, <1>5 DEF IInv

\* A loader begins: what all count now is what it will at least have.
LEMMA BeginKeeps ==
  ASSUME IInv, NEW r \in Loaders, NEW point \in {"load", "final"}, pc[r] = "wait",
         Begin(r, point), accepted' = accepted
  PROVE  /\ LoadersInv'
         /\ pc' \in [Loaders -> {"wait", "load", "final", "done"}] /\ pc'[r] = point
         /\ since' \in [Loaders -> Nat] /\ since'[r] = SumOf(accepted)
         /\ \A q \in Loaders : q # r => pc'[q] = pc[q] /\ since'[q] = since[q]
<1>1. /\ pc' = [pc EXCEPT ![r] = point] /\ since' = [since EXCEPT ![r] = SumOf(accepted)]
      /\ loaded' = loaded /\ total' = total
  BY DEF Begin
<1>2. /\ pc' \in [Loaders -> {"wait", "load", "final", "done"}] /\ pc'[r] = point
      /\ since' \in [Loaders -> Nat] /\ since'[r] = SumOf(accepted)
      /\ \A q \in Loaders : q # r => pc'[q] = pc[q] /\ since'[q] = since[q]
  BY <1>1, StateIs
<1>3. loaded[r] = 0 /\ total[r] = 0
  BY DEF IInv, LoadersInv, Loading
<1>4. 0 + SumOf(After(accepted, 0)) >= SumOf(accepted)
  BY StateIs, WholeParts
<1>5. LoadersInv'
  <2> SUFFICES ASSUME NEW q \in Loaders
               PROVE  /\ total[q] <= SumOf(Before(accepted, loaded[q]))
                      /\ Loading(q)' => total[q] + SumOf(After(accepted, loaded[q])) >= since'[q]
                      /\ ~Loading(q)' => loaded[q] = 0 /\ total[q] = 0
    BY <1>1 DEF LoadersInv
  <2>1. CASE q = r
    BY <1>2, <1>3, <1>4, <2>1 DEF IInv, LoadersInv, Loading
  <2>2. CASE q # r
    BY <1>2, <2>2 DEF IInv, LoadersInv, Loading
  <2>3. QED BY <2>1, <2>2
<1>6. QED BY <1>2, <1>5

LEMMA EndKeeps ==
  ASSUME IInv, NEW r \in Loaders, NEW point \in {"wait", "done"}, End(r, point), accepted' = accepted
  PROVE  /\ LoadersInv'
         /\ pc' \in [Loaders -> {"wait", "load", "final", "done"}] /\ pc'[r] = point
         /\ loaded' \in [Loaders -> 0 .. NPorts] /\ total' \in [Loaders -> Nat]
         /\ since' \in [Loaders -> Nat]
         /\ \A q \in Loaders : q # r => pc'[q] = pc[q] /\ since'[q] = since[q]
<1>1. /\ pc' = [pc EXCEPT ![r] = point] /\ since' = [since EXCEPT ![r] = 0]
      /\ loaded' = [loaded EXCEPT ![r] = 0] /\ total' = [total EXCEPT ![r] = 0]
  BY DEF End
<1>2. 0 \in 0 .. NPorts
  BY PortsAre
<1>3. /\ pc' \in [Loaders -> {"wait", "load", "final", "done"}] /\ pc'[r] = point
      /\ loaded' \in [Loaders -> 0 .. NPorts] /\ total' \in [Loaders -> Nat]
      /\ since' \in [Loaders -> Nat]
      /\ loaded'[r] = 0 /\ total'[r] = 0
      /\ \A q \in Loaders : q # r => /\ pc'[q] = pc[q] /\ since'[q] = since[q]
                                     /\ loaded'[q] = loaded[q] /\ total'[q] = total[q]
  BY <1>1, <1>2, StateIs
<1>4. LoadersInv'
  <2> SUFFICES ASSUME NEW q \in Loaders
               PROVE  /\ total'[q] <= SumOf(Before(accepted, loaded'[q]))
                      /\ Loading(q)' => total'[q] + SumOf(After(accepted, loaded'[q])) >= since'[q]
                      /\ ~Loading(q)' => loaded'[q] = 0 /\ total'[q] = 0
    BY DEF LoadersInv
  <2>1. CASE q = r
    <3>1. SumOf(Before(accepted, 0)) = 0
      BY StateIs, WholeParts
    <3>2. QED BY <1>3, <2>1, <3>1 DEF Loading
  <2>2. CASE q # r
    BY <1>3, <2>2 DEF IInv, LoadersInv, Loading
  <2>3. QED BY <2>1, <2>2
<1>5. QED BY <1>3, <1>4

LEMMA LoadKeeps ==
  ASSUME IInv, NEW r \in Loaders, Load(r)
  PROVE  IInv'
<1> DEFINE k == loaded[r]
<1>1. /\ Loading(r) /\ k < NPorts
      /\ total' = [total EXCEPT ![r] = total[r] + accepted[k + 1]]
      /\ loaded' = [loaded EXCEPT ![r] = k + 1]
      /\ UNCHANGED <<minute, shutdown, accepted, pc, stamp, ring, previous, since, evicted, cutoff>>
  BY DEF Load, Loading, ringVars, clockVars
<1>2. /\ k \in 0 .. NPorts /\ k + 1 \in 0 .. NPorts /\ total[r] \in Nat /\ since[r] \in Nat
      /\ accepted \in [Ports -> Nat] /\ accepted[k + 1] \in Nat
  BY <1>1, StateIs, PortsAre
<1> HIDE DEF k
<1>3. /\ loaded' \in [Loaders -> 0 .. NPorts] /\ total' \in [Loaders -> Nat]
      /\ loaded'[r] = k + 1 /\ total'[r] = total[r] + accepted[k + 1]
      /\ \A q \in Loaders : q # r => loaded'[q] = loaded[q] /\ total'[q] = total[q]
  BY <1>1, <1>2, StateIs
<1>4. TypeOK'
  BY <1>1, <1>3 DEF IInv, TypeOK
<1>5. PICK b \in Nat, b2 \in Nat, a \in Nat, a2 \in Nat, n \in Nat :
        /\ b = SumOf(Before(accepted, k)) /\ b2 = SumOf(Before(accepted, k + 1))
        /\ a = SumOf(After(accepted, k)) /\ a2 = SumOf(After(accepted, k + 1))
        /\ n = accepted[k + 1] /\ b2 = b + n /\ a = a2 + n
  BY <1>1, <1>2, PartsAre, NextPort
<1>6. total[r] <= b /\ total[r] + a >= since[r]
  BY <1>1, <1>5 DEF IInv, LoadersInv, k
<1>7. total'[r] <= b2 /\ total'[r] + a2 >= since[r]
  BY <1>2, <1>3, <1>5, <1>6
<1>8. LoadersInv'
  <2> SUFFICES ASSUME NEW q \in Loaders
               PROVE  /\ total'[q] <= SumOf(Before(accepted, loaded'[q]))
                      /\ Loading(q) => total'[q] + SumOf(After(accepted, loaded'[q])) >= since[q]
                      /\ ~Loading(q) => loaded'[q] = 0 /\ total'[q] = 0
    BY <1>1 DEF LoadersInv, Loading
  <2>1. CASE q = r
    BY <1>1, <1>3, <1>5, <1>7, <2>1
  <2>2. CASE q # r
    BY <1>3, <2>2 DEF IInv, LoadersInv
  <2>3. QED BY <2>1, <2>2
<1>9. RingInv' /\ DeltasConserved'
  BY <1>1, RingStays
<1>10. PreviousInv' /\ ShutdownInv' /\ ShutdownReported'
  BY <1>1 DEF IInv, PreviousInv, ShutdownInv, ShutdownReported, Loading
<1>11. QED BY <1>4, <1>8, <1>9, <1>10 DEF IInv

\* What a loader has when it has loaded every port.
LEMMA TotalIsRegular ==
  ASSUME IInv, NEW r \in Loaders, LoadedAll(r)
  PROVE  since[r] <= total[r] /\ total[r] <= SumOf(accepted) /\ total[r] \in Nat
<1>1. Loading(r) /\ loaded[r] = NPorts
  BY DEF LoadedAll, Loading
<1>2. /\ SumOf(Before(accepted, NPorts)) = SumOf(accepted)
      /\ SumOf(After(accepted, NPorts)) = 0
  BY StateIs, WholeParts
<1>3. total[r] <= SumOf(accepted) /\ total[r] + 0 >= since[r]
  BY <1>1, <1>2 DEF IInv, LoadersInv
<1>4. QED BY <1>3, StateIs

\* Readers change nothing but their own progress.
LEMMA SnapshotKeeps ==
  ASSUME IInv, NEW r \in Readers, SnapshotBegins(r) \/ SnapshotEnds(r)
  PROVE  IInv'
<1>1. r \in Loaders
  BY DEF Loaders
<1>2. UNCHANGED <<minute, shutdown, accepted, stamp, ring, previous, evicted, cutoff>>
  BY DEF SnapshotBegins, SnapshotEnds, ringVars, clockVars
<1>3. /\ LoadersInv' /\ pc' \in [Loaders -> {"wait", "load", "final", "done"}]
      /\ loaded' \in [Loaders -> 0 .. NPorts] /\ total' \in [Loaders -> Nat]
      /\ since' \in [Loaders -> Nat]
      /\ pc'[r] = "wait" \/ (pc'[r] = "load" /\ since'[r] = SumOf(accepted))
      /\ \A q \in Loaders : q # r => pc'[q] = pc[q] /\ since'[q] = since[q]
  <2>1. CASE SnapshotBegins(r)
    <3>1. pc[r] = "wait" /\ Begin(r, "load") /\ loaded' = loaded /\ total' = total
      BY <2>1 DEF SnapshotBegins, Begin
    <3>2. QED BY <1>1, <1>2, <3>1, BeginKeeps, StateIs
  <2>2. CASE SnapshotEnds(r)
    BY <1>1, <1>2, <2>2, EndKeeps DEF SnapshotEnds
  <2>3. QED BY <2>1, <2>2
<1>4. TypeOK'
  BY <1>2, <1>3 DEF IInv, TypeOK
<1>5. RingInv' /\ DeltasConserved'
  BY <1>2, RingStays
<1>6. PreviousInv' /\ ShutdownInv' /\ ShutdownReported'
  <2>1. CASE r = Rollup
    BY <1>2, <1>3, <2>1 DEF IInv, PreviousInv, ShutdownInv, ShutdownReported, Loading
  <2>2. CASE r # Rollup
    BY <1>2, <1>3, <2>2, StateIs DEF IInv, PreviousInv, ShutdownInv, ShutdownReported, Loading
  <2>3. QED BY <2>1, <2>2
<1>7. QED BY <1>3, <1>4, <1>5, <1>6 DEF IInv

LEMMA RollupBeginsKeeps ==
  ASSUME IInv, RollupTick \/ RollupFinal
  PROVE  IInv'
<1>0. Rollup \in Loaders
  BY DEF Loaders
<1>1. /\ pc[Rollup] = "wait" /\ stamp' = minute
      /\ UNCHANGED <<minute, shutdown, accepted, ring, previous, evicted, cutoff>>
  BY DEF RollupTick, RollupFinal, ringVars, clockVars
<1>2. PICK point \in {"load", "final"} : Begin(Rollup, point) /\ (point = "final" => shutdown)
  BY DEF RollupTick, RollupFinal
<1>3. /\ LoadersInv' /\ pc' \in [Loaders -> {"wait", "load", "final", "done"}]
      /\ since' \in [Loaders -> Nat]
      /\ pc'[Rollup] = point /\ since'[Rollup] = SumOf(accepted)
  BY <1>0, <1>1, <1>2, BeginKeeps
<1>4. TypeOK'
  <2>1. loaded' = loaded /\ total' = total
    BY <1>2 DEF Begin
  <2>2. minute \in 1 .. MaxMinute /\ stamp' \in NoMinute .. MaxMinute
    BY <1>1, StatsAssumption DEF IInv, TypeOK, NoMinute
  <2>3. QED BY <1>1, <1>3, <2>1, <2>2 DEF IInv, TypeOK
<1>5. RingInv' /\ DeltasConserved'
  BY <1>1, RingStays
<1>6. PreviousInv' /\ ShutdownInv' /\ ShutdownReported'
  BY <1>1, <1>2, <1>3 DEF IInv, PreviousInv, ShutdownInv, ShutdownReported, Loading
<1>7. QED BY <1>3, <1>4, <1>5, <1>6 DEF IInv

\* The bucket a rollup writes, and what that does to the ring.
LEMMA CommitIs ==
  ASSUME IInv, CommitRollup
  PROVE  LET i == IndexOf(stamp)
             d == total[Rollup] - previous
         IN  /\ i \in Slots /\ d \in Nat /\ previous' = total[Rollup]
             /\ ring' \in [Slots -> Bucket]
             /\ \A j \in Slots : j # i => ring'[j] = ring[j]
             /\ ring'[i].minute = stamp
             /\ ring[i].minute = stamp =>
                  /\ ring'[i].newConn = ring[i].newConn + d
                  /\ ring'[i].activePeak >= ring[i].activePeak
                  /\ evicted' = evicted
             /\ ring[i].minute # stamp =>
                  /\ ring'[i].newConn = d
                  /\ evicted' = evicted + ring[i].newConn
<1> DEFINE i == IndexOf(stamp)
           b == BucketFor(stamp)
           d == total[Rollup] - previous
<1>1. LoadedAll(Rollup) /\ Rollup \in Loaders
  BY DEF CommitRollup, Loaders
<1>2. total[Rollup] \in Nat /\ previous \in Nat /\ previous <= total[Rollup] /\ d \in Nat
  <2>1. previous <= since[Rollup] /\ since[Rollup] \in Nat /\ previous \in Nat
    BY <1>1, StateIs DEF LoadedAll, Loading, IInv, PreviousInv
  <2>2. since[Rollup] <= total[Rollup] /\ total[Rollup] \in Nat
    BY <1>1, TotalIsRegular
  <2>3. QED BY <2>1, <2>2
<1>3. SaturatingSub(total[Rollup], previous) = d
  BY <1>2 DEF SaturatingSub
<1>4. PICK tcp_active \in 0 .. MaxActive :
        /\ ring' = [ring EXCEPT ![i] = [minute |-> b.minute, newConn |-> b.newConn + d,
                                        activePeak |-> Larger(b.activePeak, tcp_active)]]
        /\ evicted' = IF b.minute = ring[i].minute THEN evicted ELSE evicted + ring[i].newConn
        /\ previous' = total[Rollup]
  BY <1>3 DEF CommitRollup, NextPrevious
<1>5. stamp \in 0 .. MaxMinute /\ i \in Slots
  <2>1. stamp \in Nat /\ stamp \in 0 .. MaxMinute
    BY StatsAssumption DEF IInv, TypeOK, NoMinute
  <2>2. stamp % NBuckets \in 0 .. NBuckets - 1
    BY <2>1, BucketsAre
  <2>3. QED BY <2>1, <2>2 DEF IndexOf, Slots
<1>6. ring \in [Slots -> Bucket] /\ ring[i] \in Bucket
  BY <1>5 DEF IInv, TypeOK
<1>7. /\ b \in Bucket /\ b.minute = stamp
      /\ ring[i].minute = stamp => b = ring[i]
      /\ ring[i].minute # stamp => b.newConn = 0
  <2>1. EmptyBucket(stamp) \in Bucket /\ EmptyBucket(stamp).minute = stamp
        /\ EmptyBucket(stamp).newConn = 0
    BY <1>5, StatsAssumption DEF EmptyBucket, Bucket
  <2>2. QED BY <1>6, <2>1 DEF BucketFor
<1> DEFINE new == [minute |-> b.minute, newConn |-> b.newConn + d,
                   activePeak |-> Larger(b.activePeak, tcp_active)]
<1> HIDE DEF i, b, d
<1>8. /\ b.minute \in 0 .. MaxMinute /\ b.newConn \in Nat /\ b.activePeak \in 0 .. MaxActive
      /\ b = [minute |-> b.minute, newConn |-> b.newConn, activePeak |-> b.activePeak]
  BY <1>7 DEF Bucket
<1>9. /\ Larger(b.activePeak, tcp_active) \in 0 .. MaxActive
      /\ Larger(b.activePeak, tcp_active) >= b.activePeak
  BY <1>8, StatsAssumption DEF Larger
<1>10. /\ new \in Bucket /\ new.minute = stamp /\ new.newConn = b.newConn + d
       /\ new.activePeak >= b.activePeak
  <2>1. b.newConn + d \in Nat
    BY <1>2, <1>8
  <2>2. QED BY <1>7, <1>8, <1>9, <2>1 DEF Bucket
<1>11. ring' = [ring EXCEPT ![i] = new]
  BY <1>4
<1> HIDE DEF new
<1>12. /\ ring' \in [Slots -> Bucket] /\ ring'[i] = new
       /\ \A j \in Slots : j # i => ring'[j] = ring[j]
  BY <1>5, <1>6, <1>10, <1>11
<1>13. /\ ring'[i].minute = stamp
       /\ ring'[i].newConn = b.newConn + d /\ ring'[i].activePeak >= b.activePeak
  BY <1>10, <1>12
<1>14. ASSUME ring[i].minute = stamp
       PROVE  /\ ring'[i].newConn = ring[i].newConn + d
              /\ ring'[i].activePeak >= ring[i].activePeak
              /\ evicted' = evicted
  BY <1>4, <1>7, <1>13, <1>14
<1>15. ASSUME ring[i].minute # stamp
       PROVE  ring'[i].newConn = d /\ evicted' = evicted + ring[i].newConn
  <2>1. b.newConn + d = d
    BY <1>2, <1>7, <1>15
  <2>2. QED BY <1>4, <1>7, <1>13, <1>15, <2>1
<1>16. i \in Slots /\ d \in Nat /\ previous' = total[Rollup]
  BY <1>2, <1>4, <1>5
<1>17. QED
  BY <1>12, <1>13, <1>14, <1>15, <1>16 DEF i, d

LEMMA CommitKeeps ==
  ASSUME IInv, CommitRollup
  PROVE  IInv'
<1>1. PICK i \in Slots, d \in Nat :
        /\ i = IndexOf(stamp) /\ d = total[Rollup] - previous
        /\ ring' \in [Slots -> Bucket] /\ previous' = total[Rollup]
        /\ \A j \in Slots : j # i => ring'[j] = ring[j]
        /\ ring'[i].minute = stamp
        /\ ring[i].minute = stamp =>
             ring'[i].newConn = ring[i].newConn + d /\ evicted' = evicted
        /\ ring[i].minute # stamp =>
             ring'[i].newConn = d /\ evicted' = evicted + ring[i].newConn
  BY CommitIs
<1>2. PICK point \in {"wait", "done"} :
        End(Rollup, point) /\ (point = "done" => pc[Rollup] = "final")
  BY DEF CommitRollup
<1>3. /\ UNCHANGED <<minute, shutdown, accepted, cutoff>> /\ stamp' = NoMinute
      /\ LoadedAll(Rollup) /\ Rollup \in Loaders
  BY DEF CommitRollup, clockVars, Loaders
<1>4. /\ LoadersInv' /\ pc' \in [Loaders -> {"wait", "load", "final", "done"}]
      /\ pc'[Rollup] = point
      /\ loaded' \in [Loaders -> 0 .. NPorts] /\ total' \in [Loaders -> Nat]
      /\ since' \in [Loaders -> Nat]
  BY <1>2, <1>3, EndKeeps
<1>5. /\ since[Rollup] <= total[Rollup] /\ total[Rollup] <= SumOf(accepted)
      /\ total[Rollup] \in Nat /\ since[Rollup] \in Nat /\ previous \in Nat /\ cutoff \in Nat
  BY <1>3, StateIs, TotalIsRegular
<1>6. ring \in [Slots -> Bucket] /\ evicted \in Nat /\ \A j \in Slots : ring[j].newConn \in Nat
  BY DEF IInv, TypeOK, Bucket
<1>7. TypeOK'
  <2>1. evicted' \in Nat
    BY <1>1, <1>6
  <2>2. stamp' \in NoMinute .. MaxMinute
    BY <1>3, StatsAssumption DEF NoMinute
  <2>3. previous' \in Nat
    BY <1>1, <1>5
  <2>4. QED BY <1>1, <1>3, <1>4, <2>1, <2>2, <2>3 DEF IInv, TypeOK
<1>8. RingInv'
  <2> SUFFICES ASSUME NEW j \in Slots, ring'[j].minute # NoMinute
               PROVE  IndexOf(ring'[j].minute) = j
    BY DEF RingInv, IndexOf, NBuckets
  <2>1. QED BY <1>1 DEF IInv, RingInv
<1>9. PreviousInv' /\ ShutdownInv' /\ ShutdownReported'
  <2>1. PreviousInv'
    BY <1>1, <1>2, <1>3, <1>4, <1>5 DEF PreviousInv, Loading
  <2>2. ShutdownInv' /\ ShutdownReported'
    <3>1. pc[Rollup] = "final" => shutdown /\ cutoff <= since[Rollup]
      BY DEF IInv, ShutdownInv
    <3>2. QED BY <1>1, <1>2, <1>3, <1>4, <1>5, <3>1 DEF IInv, ShutdownInv, ShutdownReported
  <2>3. QED BY <2>1, <2>2
<1>10. DeltasConserved'
  <2>1. PICK f \in [Slots -> Nat], g \in [Slots -> Nat] :
          /\ f = [j \in Slots |-> ring[j].newConn]
          /\ g = [j \in Slots |-> ring'[j].newConn]
    <3>1. \A j \in Slots : ring'[j].newConn \in Nat
      BY <1>1 DEF Bucket
    <3>2. QED BY <1>6, <3>1
  <2>2. f[i] = ring[i].newConn /\ g[i] = ring'[i].newConn
        /\ \A j \in Slots : j # i => g[j] = f[j]
    BY <1>1, <2>1
  <2>3. g = [f EXCEPT ![i] = g[i]]
    BY <2>2
  <2>4. SumOf([f EXCEPT ![i] = g[i]]) + f[i] = SumOf(f) + g[i]
    <3>1. \A h \in [Slots -> Nat], x \in Slots, m \in Nat :
            SumOf([h EXCEPT ![x] = m]) + h[x] = SumOf(h) + m
      BY PortsAre, SumReplaces, Zenon
    <3>2. g[i] \in Nat
      OBVIOUS
    <3>3. QED BY <3>1, <3>2
  <2>5. SumOf(f) \in Nat /\ SumOf(g) \in Nat /\ f[i] \in Nat /\ g[i] \in Nat
    BY PortsAre, SumIsNat
  <2>6. SumOf(f) + evicted = previous
    BY <2>1 DEF IInv, DeltasConserved
  <2>7. SumOf(g) + f[i] = SumOf(f) + g[i]
    BY <2>3, <2>4
  <2>8. SumOf(g) + evicted' = previous'
    <3>1. previous' = previous + d
      BY <1>1, <1>5
    <3>2. CASE ring[i].minute = stamp
      BY <1>1, <1>6, <2>2, <2>5, <2>6, <2>7, <3>1, <3>2
    <3>3. CASE ring[i].minute # stamp
      BY <1>1, <1>6, <2>2, <2>5, <2>6, <2>7, <3>1, <3>3
    <3>4. QED BY <3>2, <3>3
  <2>9. QED BY <2>1, <2>8 DEF DeltasConserved
<1>11. QED BY <1>4, <1>7, <1>8, <1>9, <1>10 DEF IInv

LEMMA StepKeeps ==
  ASSUME IInv, [Next]_vars
  PROVE  IInv'
<1>1. CASE \E p \in Ports : CountAccept(p)
  BY <1>1, CountAcceptKeeps
<1>2. CASE ClockMoves \/ Shutdown \/ UNCHANGED vars
  BY <1>2, ClockKeeps
<1>3. CASE RollupStep
  <2>1. CASE RollupTick \/ RollupFinal
    BY <2>1, RollupBeginsKeeps
  <2>2. CASE Load(Rollup)
    BY <2>2, LoadKeeps, Rollup \in Loaders DEF Loaders
  <2>3. CASE CommitRollup
    BY <2>3, CommitKeeps
  <2>4. QED BY <1>3, <2>1, <2>2, <2>3 DEF RollupStep
<1>4. CASE \E r \in Readers : SnapshotBegins(r) \/ Load(r) \/ SnapshotEnds(r)
  <2>1. PICK r \in Readers : SnapshotBegins(r) \/ Load(r) \/ SnapshotEnds(r)
    BY <1>4
  <2>2. CASE Load(r)
    BY <2>2, LoadKeeps DEF Loaders
  <2>3. CASE SnapshotBegins(r) \/ SnapshotEnds(r)
    BY <2>3, SnapshotKeeps
  <2>4. QED BY <2>1, <2>2, <2>3
<1>5. QED BY <1>1, <1>2, <1>3, <1>4 DEF Next

-----------------------------------------------------------------------------
(* The results.                                                            *)

\* IInv is inductive.
THEOREM Invariance == Spec => []IInv
<1>1. Init => IInv
  BY InitEstablishes
<1>2. IInv /\ [Next]_vars => IInv'
  BY StepKeeps
<1>3. QED BY <1>1, <1>2, PTL DEF Spec

\* Every counter stays a number, no loader passes the last port, and every
\* bucket is one of the ring.
THEOREM TypeIsKept == Spec => []TypeOK
<1>1. IInv => TypeOK
  BY DEF IInv
<1>2. QED BY <1>1, Invariance, PTL

\* BucketRing::rollup and previous_totals: the connections of the buckets,
\* those overwritten included, are those the last rollup saw, although the
\* counters move while they are loaded and the clock jumps between rollups.
THEOREM DeltasAreConserved == Spec => []DeltasConserved
<1>1. IInv => DeltasConserved
  BY DEF IInv
<1>2. QED BY <1>1, Invariance, PTL

\* The rollup after the signal: it counts all that was accepted before it.
THEOREM ShutdownIsReported == Spec => []ShutdownReported
<1>1. IInv => ShutdownReported
  BY DEF IInv
<1>2. QED BY <1>1, Invariance, PTL

\* PortStats::snapshot of port after port, without a lock: the totals are
\* between those at the beginning of the loads and those at their end.
THEOREM SnapshotsAreRegular == Spec => []SnapshotRegular
<1>1. ASSUME IInv PROVE SnapshotRegular
  <2> SUFFICES ASSUME NEW r \in Loaders, LoadedAll(r)
               PROVE  total[r] \in since[r] .. SumOf(accepted)
    BY DEF SnapshotRegular
  <2>1. since[r] <= total[r] /\ total[r] <= SumOf(accepted) /\ total[r] \in Nat
    BY <1>1, TotalIsRegular
  <2>2. since[r] \in Nat /\ SumOf(accepted) \in Nat
    BY <1>1, StateIs
  <2>3. QED BY <2>1, <2>2
<1>2. QED BY <1>1, Invariance, PTL

\* bucket_for: a bucket gives way only to a minute at least the window away,
\* and while its minute lasts its count and its peak only grow.
THEOREM WindowIsKept == Spec => WindowKept
<1>1. ASSUME IInv, [Next]_vars PROVE [\A i \in Slots : Kept(ring[i], ring'[i])]_ring
  <2>1. CASE CommitRollup
    <3>1. PICK i \in Slots, d \in Nat :
            /\ i = IndexOf(stamp) /\ ring' \in [Slots -> Bucket]
            /\ \A j \in Slots : j # i => ring'[j] = ring[j]
            /\ ring'[i].minute = stamp
            /\ ring[i].minute = stamp =>
                 /\ ring'[i].newConn = ring[i].newConn + d
                 /\ ring'[i].activePeak >= ring[i].activePeak
      BY <1>1, <2>1, CommitIs
    <3>2. \A j \in Slots : /\ ring[j].minute \in Nat /\ ring[j].newConn \in Nat
                           /\ ring[j].activePeak \in Nat
      BY <1>1, StatsAssumption DEF IInv, TypeOK, Bucket
    <3>3. stamp \in Nat
      BY <1>1, StatsAssumption DEF IInv, TypeOK, NoMinute
    <3>4. ASSUME NEW j \in Slots PROVE Kept(ring[j], ring'[j])
      <4>1. CASE j # i
        BY <3>1, <3>2, <4>1 DEF Kept
      <4>2. CASE j = i /\ ring[i].minute = stamp
        BY <3>1, <3>2, <4>2 DEF Kept
      <4>3. CASE j = i /\ ring[i].minute # stamp
        <5>1. CASE ring[i].minute = NoMinute
          BY <3>1, <4>3, <5>1 DEF Kept
        <5>2. CASE ring[i].minute # NoMinute
          <6>1. IndexOf(ring[i].minute) = IndexOf(stamp)
            BY <1>1, <3>1, <5>2 DEF IInv, RingInv
          <6>2. Distance(ring[i].minute, stamp) >= Window
            BY <3>2, <3>3, <4>3, <6>1, SameSlotIsFar
          <6>3. QED BY <3>1, <4>3, <6>2 DEF Kept
        <5>3. QED BY <5>1, <5>2
      <4>4. QED BY <4>1, <4>2, <4>3
    <3>5. \A j \in Slots : Kept(ring[j], ring'[j])
      BY <3>4
    <3>6. QED BY <3>5
  <2>2. CASE ~CommitRollup
    <3>1. ring' = ring
      BY <1>1, <2>2
         DEF Next, CountAccept, ClockMoves, Shutdown, RollupStep, RollupTick, RollupFinal,
             Load, SnapshotBegins, SnapshotEnds, vars, ringVars
    <3>2. QED BY <3>1
  <2>3. QED BY <2>1, <2>2
<1>2. QED BY <1>1, Invariance, PTL DEF Spec, WindowKept
=============================================================================
