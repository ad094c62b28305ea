---------------------------- MODULE ProcessProofs ----------------------------
(***************************************************************************)
(* The ports a process listens on are valid and those that --listen-ports  *)
(* writes down, and its target is the one that --target does, for          *)
(* arguments of any length and the whole range of port numbers; and the    *)
(* process goes through the life cycle of Runtime, so what is proved of    *)
(* that holds of it from the command line on.                              *)
(* Most of this module is about texts: where the parsers cut them, and     *)
(* that what they find there is all there is.                              *)
(***************************************************************************)
EXTENDS Process, RuntimeProofs, SequenceTheorems, WellFoundedInduction

-----------------------------------------------------------------------------
(* The parsers.                                                            *)

LEMMA ParsedPort == ASSUME NEW s PROVE ParsePort(s) \in Ports \cup {NoPort}
<1>1. U16(s) \in 0 .. MaxPort \cup {NoPort}
  BY DEF U16
<1> QED BY <1>1, PortsAssumption DEF ParsePort, Ports, NoPort

LEMMA RangeOfPorts ==
  ASSUME NEW lo \in Ports \cup {NoPort}, NEW hi \in Ports \cup {NoPort}
  PROVE  RangePorts(lo, hi) \subseteq Ports
BY PortsAssumption DEF RangePorts, Ports, NoPort

LEMMA PortsOfSegment == ASSUME NEW s PROVE SegmentPorts(s) \subseteq Ports
<1>1. RangePorts(ParsePort(Trim(Before(s, FirstAt(s, Dash, 1)))),
                 ParsePort(Trim(After(s, FirstAt(s, Dash, 1))))) \subseteq Ports
  BY ParsedPort, RangeOfPorts
<1>2. {ParsePort(s)} \ {NoPort} \subseteq Ports
  BY ParsedPort
<1> QED BY <1>1, <1>2 DEF SegmentPorts

-----------------------------------------------------------------------------
\* A segment that was read left a port behind, and the set is complete only when
\* one was read: an empty argument is one empty segment, which is refused.
ReadInv ==
  /\ stage = "ports" => arg \in Seq(Token) /\ (pos = 1 \/ ports # {})
  /\ PortsValid

LEMMA FromCliKeeps == ReadInv /\ FromCli => ReadInv'
<1> SUFFICES ASSUME ReadInv, FromCli PROVE ReadInv'
  OBVIOUS
<1> USE DEF ReadInv, PortsValid
<1>1. CASE ReadSegment
  <2>1. SegmentPorts(Segment) \subseteq Ports
    BY PortsOfSegment
  <2> QED BY <1>1, <2>1 DEF ReadSegment
<1>2. CASE PortsDone
  <2>1. Len(arg) \in Nat /\ pos > Len(arg) + 1
    BY <1>2 DEF PortsDone, PortsRead
  <2>2. ports # {}
    BY <1>2, <2>1 DEF PortsDone
  <2> QED BY <1>2, <2>2 DEF PortsDone
<1>3. CASE RejectPorts \/ TakeTarget \/ RejectTarget \/ BindStatic \/ BindDynamic \/ Resolve \/ New
  BY <1>3 DEF RejectPorts, TakeTarget, RejectTarget, BindStatic, BindDynamic, Resolve, New
<1> QED BY <1>1, <1>2, <1>3 DEF FromCli

\* Whatever --listen-ports says, only ports from 1 to the largest are listened
\* on, and at least one: RuntimeConfig::new's own check cannot fire.
THEOREM PortsAreValid == ProcessSpec => []PortsValid
<1>1. ProcessInit => ReadInv
  BY ConfigAssumption DEF ProcessInit, ConfigInit, ReadInv, PortsValid
<1>2. ReadInv /\ [ProcessNext]_processVars => ReadInv'
  <2> SUFFICES ASSUME ReadInv, [ProcessNext]_processVars PROVE ReadInv'
    OBVIOUS
  <2>1. CASE ReadCommandLine
    BY <2>1, FromCliKeeps DEF ReadCommandLine
  <2>2. CASE ConfigReady
    BY <2>2 DEF ConfigReady, ReadInv, PortsValid
  <2>3. CASE ConfigRejected \/ LifeCycle \/ UNCHANGED processVars
    BY <2>3 DEF ConfigRejected, LifeCycle, processVars, configVars, ReadInv, PortsValid
  <2> QED BY <2>1, <2>2, <2>3 DEF ProcessNext
<1>3. ReadInv => PortsValid
  BY DEF ReadInv
<1> QED BY <1>1, <1>2, <1>3, PTL DEF ProcessSpec

\* From the command line on, the process goes through the life cycle of Runtime.
THEOREM ProcessImplementsRuntime == ProcessSpec => RuntimeSpec
<1>1. ProcessInit => RuntimeInit
  BY DEF ProcessInit
<1>2. [ProcessNext]_processVars => [RuntimeNext]_runtimeVars
  BY DEF ProcessNext, ReadCommandLine, ConfigReady, ConfigRejected, LifeCycle, RuntimeNext,
         processVars
<1> QED BY <1>1, <1>2, PTL DEF ProcessSpec, RuntimeSpec

\* main(), whatever the command line says: sockets belong to tasks, the process
\* ends only with every task joined, and a task's failure is its exit status.
THEOREM LifeCycleIsKept == ProcessSpec => [](SocketsOfTasks /\ ExitAfterTasks /\ FailureReported)
BY ProcessImplementsRuntime, SocketsHaveTasks, JoinsEveryTask, ReportsFailure, PTL

-----------------------------------------------------------------------------
(* Texts.                                                                  *)

LEMMA Least ==
  ASSUME NEW T \in SUBSET Nat, T # {}
  PROVE  \E m \in T : \A k \in T : m <= k
<1>1. PICK m \in T : \A k \in T : <<k, m>> \notin OpToRel(<, Nat)
  BY NatLessThanWellFounded, WFMin
<1>2. \A k \in T : ~(k < m)
  BY <1>1 DEF OpToRel
<1>3. QED BY <1>2

LEMMA FirstIs ==
  ASSUME NEW s \in Seq(Token), NEW mark, NEW i \in 1 .. Len(s) + 1
  PROVE  /\ FirstAt(s, mark, i) \in i .. Len(s) + 1
         /\ FirstAt(s, mark, i) \in At(s, mark) \/ FirstAt(s, mark, i) = Len(s) + 1
         /\ \A k \in i .. FirstAt(s, mark, i) - 1 : s[k] # mark
<1> DEFINE T == {j \in i .. Len(s) + 1 : j \in At(s, mark) \/ j = Len(s) + 1}
<1>1. Len(s) \in Nat
  BY LenProperties
<1>2. T \in SUBSET Nat /\ Len(s) + 1 \in T
  BY <1>1
<1>3. PICK j \in T : \A k \in T : j <= k
  BY <1>2, Least
<1>4. \A k \in i .. j - 1 : s[k] # mark
  <2> SUFFICES ASSUME NEW k \in i .. j - 1, s[k] = mark PROVE FALSE
    OBVIOUS
  <2>1. k \in T
    BY <1>1, <1>2, <1>3 DEF At
  <2>2. QED BY <1>1, <1>2, <1>3, <2>1
<1>5. QED BY <1>3, <1>4 DEF FirstAt

LEMMA Greatest ==
  ASSUME NEW n \in Nat, NEW P \in SUBSET (1 .. n), P # {}
  PROVE  \E m \in P : \A k \in P : k <= m
<1> DEFINE T == {n - k : k \in P}
<1>1. T \in SUBSET Nat /\ T # {}
  <2>1. \A k \in P : k \in 1 .. n
    OBVIOUS
  <2>2. \A k \in P : n - k \in Nat
    BY <2>1
  <2>3. QED BY <2>2
<1>2. PICK m \in T : \A k \in T : m <= k
  BY <1>1, Least
<1>3. PICK j \in P : m = n - j
  BY <1>2
<1>4. ASSUME NEW k \in P PROVE k <= j
  <2>1. n - k \in T /\ k \in 1 .. n /\ j \in 1 .. n
    OBVIOUS
  <2>2. m <= n - k
    BY <1>2, <2>1
  <2> HIDE DEF T
  <2>3. QED BY <1>3, <2>1, <2>2
<1>5. QED BY <1>4

LEMMA LastIs ==
  ASSUME NEW s \in Seq(Token), NEW mark, At(s, mark) # {}
  PROVE  /\ LastAt(s, mark) \in At(s, mark)
         /\ \A k \in At(s, mark) : k <= LastAt(s, mark)
<1>1. Len(s) \in Nat /\ At(s, mark) \in SUBSET (1 .. Len(s))
  BY LenProperties DEF At
<1>2. \E j \in At(s, mark) : \A k \in At(s, mark) : k <= j
  BY <1>1, Greatest
<1>3. QED BY <1>2 DEF LastAt

\* The part of a text between two positions.
LEMMA PartIs ==
  ASSUME NEW s \in Seq(Token), NEW m \in 1 .. Len(s) + 1, NEW n \in m - 1 .. Len(s)
  PROVE  /\ SubSeq(s, m, n) \in Seq(Token) /\ Len(SubSeq(s, m, n)) = n - m + 1
         /\ \A i \in 1 .. n - m + 1 : SubSeq(s, m, n)[i] = s[m + i - 1]
<1>1. Len(s) \in Nat /\ m \in Int /\ n \in Int
  BY LenProperties
<1>2. \A i \in m .. n : s[i] \in Token
  BY <1>1, ElementOfSeq
<1>3. /\ SubSeq(s, m, n) \in Seq(Token)
      /\ Len(SubSeq(s, m, n)) = IF m <= n THEN n - m + 1 ELSE 0
      /\ \A i \in 1 .. n - m + 1 : SubSeq(s, m, n)[i] = s[m + i - 1]
  BY <1>1, <1>2, SubSeqProperties
<1>4. QED BY <1>1, <1>3

LEMMA PortIsToken == Ports \subseteq Token /\ Ports \subseteq Nat
BY PortsAssumption DEF Ports, Token

LEMMA NumeralIs ==
  ASSUME NEW s \in Seq(Token), ParsePort(s) # NoPort
  PROVE  ParsePort(s) \in Ports /\ s \in Numerals(ParsePort(s))
<1>1. ParsePort(s) \in Ports
  BY ParsedPort
<1>2. /\ Len(s) \in {1, 2} /\ s[Len(s)] = ParsePort(s)
      /\ Len(s) = 2 => s[1] = Plus
  BY PortsAssumption DEF ParsePort, U16
<1>3. s \in Numerals(ParsePort(s))
  <2>1. CASE Len(s) = 1
    <3>1. s = <<ParsePort(s)>>
      BY <1>2, <2>1, LenProperties
    <3>2. QED BY <3>1 DEF Numerals
  <2>2. CASE Len(s) = 2
    <3>1. s = <<Plus, ParsePort(s)>>
      BY <1>2, <2>2, LenProperties
    <3>2. QED BY <3>1 DEF Numerals
  <2>3. QED BY <1>2, <2>1, <2>2
<1>4. QED BY <1>1, <1>3

LEMMA NumeralParses ==
  ASSUME NEW n \in Ports, NEW s \in Numerals(n)
  PROVE  /\ s \in Seq(Token) /\ Len(s) \in {1, 2} /\ ParsePort(s) = n
         /\ \A i \in 1 .. Len(s) : s[i] \in {Plus, n}
<1>1. n \in Nat /\ n \in 0 .. MaxPort /\ n # 0 /\ n # NoPort /\ n \in Token /\ Plus \in Token
  BY PortsAssumption DEF Ports, NoPort, Token, Plus, V4, Comma
<1>2. CASE s = <<n>>
  <2>1. s \in Seq(Token) /\ Len(s) = 1 /\ s[1] = n
    BY <1>1, <1>2
  <2>2. U16(s) = n
    BY <1>1, <2>1 DEF U16
  <2>3. QED BY <1>1, <2>1, <2>2 DEF ParsePort
<1>3. CASE s = <<Plus, n>>
  <2>1. s \in Seq(Token) /\ Len(s) = 2 /\ s[1] = Plus /\ s[2] = n
    BY <1>1, <1>3
  <2>2. U16(s) = n
    BY <1>1, <2>1 DEF U16
  <2>3. QED BY <1>1, <2>1, <2>2 DEF ParsePort
<1>4. QED BY <1>2, <1>3 DEF Numerals

\* A text is its part before a position, the token there and the part after it.
LEMMA CutAt ==
  ASSUME NEW s \in Seq(Token), NEW i \in 1 .. Len(s)
  PROVE  /\ Before(s, i) \in Seq(Token) /\ After(s, i) \in Seq(Token)
         /\ Len(Before(s, i)) = i - 1 /\ Len(After(s, i)) = Len(s) - i
         /\ \A k \in 1 .. i - 1 : Before(s, i)[k] = s[k]
         /\ \A k \in 1 .. Len(s) - i : After(s, i)[k] = s[i + k]
         /\ s = (Before(s, i) \o <<s[i]>>) \o After(s, i)
<1> DEFINE b == Before(s, i)
           a == After(s, i)
<1>1. Len(s) \in Nat /\ s[i] \in Token /\ i \in Nat /\ i <= Len(s) /\ i >= 1
  BY LenProperties, ElementOfSeq
<1>2. /\ b \in Seq(Token) /\ Len(b) = i - 1
      /\ \A k \in 1 .. i - 1 : b[k] = s[k]
  <2>1. 1 \in 1 .. Len(s) + 1 /\ i - 1 \in 1 - 1 .. Len(s)
    BY <1>1
  <2>2. /\ SubSeq(s, 1, i - 1) \in Seq(Token) /\ Len(SubSeq(s, 1, i - 1)) = i - 1 - 1 + 1
        /\ \A k \in 1 .. i - 1 - 1 + 1 : SubSeq(s, 1, i - 1)[k] = s[1 + k - 1]
    BY <2>1, PartIs
  <2>3. i - 1 - 1 + 1 = i - 1 /\ \A k \in 1 .. i - 1 : 1 + k - 1 = k
    BY <1>1
  <2>4. QED BY <2>2, <2>3 DEF Before
<1>3. /\ a \in Seq(Token) /\ Len(a) = Len(s) - i
      /\ \A k \in 1 .. Len(s) - i : a[k] = s[i + k]
  <2>1. i + 1 \in 1 .. Len(s) + 1 /\ Len(s) \in i + 1 - 1 .. Len(s)
    BY <1>1
  <2>2. /\ SubSeq(s, i + 1, Len(s)) \in Seq(Token)
        /\ Len(SubSeq(s, i + 1, Len(s))) = Len(s) - (i + 1) + 1
        /\ \A k \in 1 .. Len(s) - (i + 1) + 1 : SubSeq(s, i + 1, Len(s))[k] = s[i + 1 + k - 1]
    BY <2>1, PartIs
  <2>3. Len(s) - (i + 1) + 1 = Len(s) - i /\ \A k \in 1 .. Len(s) - i : i + 1 + k - 1 = i + k
    BY <1>1
  <2>4. QED BY <2>2, <2>3 DEF After
<1> HIDE DEF a, b
<1>4. <<s[i]>> \in Seq(Token) /\ Len(<<s[i]>>) = 1 /\ <<s[i]>>[1] = s[i]
  BY <1>1
<1>5. PICK c \in Seq(Token) :
        /\ c = b \o <<s[i]>> /\ Len(c) = i
        /\ \A k \in 1 .. i : c[k] = s[k]
  <2>1. /\ b \o <<s[i]>> \in Seq(Token) /\ Len(b \o <<s[i]>>) = Len(b) + Len(<<s[i]>>)
        /\ \A k \in 1 .. Len(b) + Len(<<s[i]>>) :
             (b \o <<s[i]>>)[k] = IF k <= Len(b) THEN b[k] ELSE <<s[i]>>[k - Len(b)]
    BY <1>2, <1>4, ConcatProperties
  <2>2. Len(b) + Len(<<s[i]>>) = i
    BY <1>1, <1>2, <1>4
  <2>3. ASSUME NEW k \in 1 .. i PROVE (b \o <<s[i]>>)[k] = s[k]
    <3>1. CASE k <= i - 1
      BY <1>1, <1>2, <2>1, <2>2, <3>1
    <3>2. CASE k = i
      <4>1. k - Len(b) = 1 /\ ~(k <= Len(b))
        BY <1>1, <1>2, <3>2
      <4>2. QED BY <1>4, <2>1, <2>2, <3>2, <4>1
    <3>3. k <= i - 1 \/ k = i
      BY <1>1
    <3>4. QED BY <3>1, <3>2, <3>3, Zenon
  <2>4. QED BY <2>1, <2>2, <2>3
<1>6. s = c \o a
  <2>0. c \in Seq(Token) /\ a \in Seq(Token) /\ Len(c) = i /\ Len(a) = Len(s) - i
    BY <1>3, <1>5
  <2>1. /\ c \o a \in Seq(Token) /\ Len(c \o a) = Len(c) + Len(a)
        /\ \A k \in 1 .. Len(c) + Len(a) : (c \o a)[k] = IF k <= Len(c) THEN c[k] ELSE a[k - Len(c)]
    BY <2>0, ConcatProperties
  <2>2. Len(c) + Len(a) = Len(s)
    BY <1>1, <2>0
  <2>3. ASSUME NEW k \in 1 .. Len(s) PROVE (c \o a)[k] = s[k]
    <3>1. CASE k <= i
      BY <1>1, <1>5, <2>1, <2>2, <3>1
    <3>2. CASE k > i
      <4>1. ~(k <= Len(c)) /\ k - i \in 1 .. Len(s) - i /\ i + (k - i) = k
        BY <1>1, <1>5, <3>2
      <4>2. a[k - i] = s[k]
        BY <1>3, <4>1
      <4>3. QED BY <1>5, <2>1, <2>2, <4>1, <4>2
    <3>3. k <= i \/ k > i
      BY <1>1
    <3>4. QED BY <3>1, <3>2, <3>3, Zenon
  <2>4. QED BY <2>1, <2>2, <2>3, SeqEqual
<1>7. QED BY <1>2, <1>3, <1>5, <1>6 DEF a, b

\* The text s is b, the token t and a, and is cut into them at t.
IsCut(s, b, t, a) ==
  /\ s \in Seq(Token) /\ Len(s) = Len(b) + 1 + Len(a) /\ s[Len(b) + 1] = t
  /\ \A k \in 1 .. Len(b) : s[k] = b[k]
  /\ \A k \in 1 .. Len(a) : s[Len(b) + 1 + k] = a[k]
  /\ Before(s, Len(b) + 1) = b /\ After(s, Len(b) + 1) = a

LEMMA CutBack ==
  ASSUME NEW b \in Seq(Token), NEW t \in Token, NEW a \in Seq(Token),
         NEW s, s = (b \o <<t>>) \o a
  PROVE  IsCut(s, b, t, a)
<1>1. Len(b) \in Nat /\ Len(a) \in Nat
  BY LenProperties
<1>2. <<t>> \in Seq(Token) /\ Len(<<t>>) = 1 /\ <<t>>[1] = t
  OBVIOUS
<1>3. PICK c \in Seq(Token) :
        /\ c = b \o <<t>> /\ Len(c) = Len(b) + 1 /\ c[Len(b) + 1] = t
        /\ \A k \in 1 .. Len(b) : c[k] = b[k]
  <2>1. /\ b \o <<t>> \in Seq(Token) /\ Len(b \o <<t>>) = Len(b) + Len(<<t>>)
        /\ \A k \in 1 .. Len(b) + Len(<<t>>) :
             (b \o <<t>>)[k] = IF k <= Len(b) THEN b[k] ELSE <<t>>[k - Len(b)]
    BY <1>2, ConcatProperties
  <2>2. \A k \in 1 .. Len(b) : (b \o <<t>>)[k] = b[k]
    BY <1>1, <1>2, <2>1
  <2>3. (b \o <<t>>)[Len(b) + 1] = t
    <3>1. Len(b) + 1 - Len(b) = 1 /\ ~(Len(b) + 1 <= Len(b)) /\ Len(b) + 1 \in 1 .. Len(b) + 1
      BY <1>1
    <3>2. QED BY <1>2, <2>1, <3>1
  <2>4. QED BY <1>2, <2>1, <2>2, <2>3
<1>4. /\ s \in Seq(Token) /\ Len(s) = Len(b) + 1 + Len(a)
      /\ \A k \in 1 .. Len(b) + 1 : s[k] = c[k]
      /\ \A k \in 1 .. Len(a) : s[Len(b) + 1 + k] = a[k]
  <2>1. /\ c \o a \in Seq(Token) /\ Len(c \o a) = Len(c) + Len(a)
        /\ \A k \in 1 .. Len(c) + Len(a) : (c \o a)[k] = IF k <= Len(c) THEN c[k] ELSE a[k - Len(c)]
    BY <1>3, ConcatProperties
  <2>2. s = c \o a
    BY <1>3
  <2>3. \A k \in 1 .. Len(b) + 1 : s[k] = c[k]
    BY <1>1, <1>3, <2>1, <2>2
  <2>4. ASSUME NEW k \in 1 .. Len(a) PROVE s[Len(b) + 1 + k] = a[k]
    <3>1. /\ Len(b) + 1 + k \in 1 .. Len(c) + Len(a) /\ ~(Len(b) + 1 + k <= Len(c))
          /\ Len(b) + 1 + k - Len(c) = k
      BY <1>1, <1>3
    <3>2. QED BY <2>1, <2>2, <3>1
  <2>5. QED BY <1>3, <2>1, <2>2, <2>3, <2>4
<1>5. /\ s[Len(b) + 1] = t /\ \A k \in 1 .. Len(b) : s[k] = b[k]
  BY <1>1, <1>3, <1>4
<1>6. PICK i \in 1 .. Len(s) : i = Len(b) + 1 /\ i - 1 = Len(b) /\ Len(s) - i = Len(a)
  BY <1>1, <1>4
<1>7. Before(s, i) = b
  <2>1. /\ Before(s, i) \in Seq(Token) /\ Len(Before(s, i)) = Len(b)
        /\ \A k \in 1 .. Len(b) : Before(s, i)[k] = s[k]
    BY <1>4, <1>6, CutAt
  <2>2. QED BY <1>5, <2>1, SeqEqual
<1>8. After(s, i) = a
  <2>1. /\ After(s, i) \in Seq(Token) /\ Len(After(s, i)) = Len(a)
        /\ \A k \in 1 .. Len(a) : After(s, i)[k] = s[i + k]
    <3>1. /\ After(s, i) \in Seq(Token) /\ Len(After(s, i)) = Len(s) - i
          /\ \A k \in 1 .. Len(s) - i : After(s, i)[k] = s[i + k]
      BY <1>4, CutAt
    <3>2. QED BY <1>6, <3>1
  <2>2. \A k \in 1 .. Len(a) : After(s, i)[k] = a[k]
    BY <1>4, <1>6, <2>1
  <2>3. QED BY <2>1, <2>2, SeqEqual
<1>9. QED BY <1>4, <1>5, <1>6, <1>7, <1>8 DEF IsCut

LEMMA Joined ==
  ASSUME NEW s \in Seq(Token), NEW t \in Seq(Token)
  PROVE  /\ s \o t \in Seq(Token) /\ Len(s \o t) = Len(s) + Len(t)
         /\ \A k \in 1 .. Len(s) : (s \o t)[k] = s[k]
         /\ \A k \in 1 .. Len(t) : (s \o t)[Len(s) + k] = t[k]
<1>1. Len(s) \in Nat /\ Len(t) \in Nat
  BY LenProperties
<1>2. /\ s \o t \in Seq(Token) /\ Len(s \o t) = Len(s) + Len(t)
      /\ \A k \in 1 .. Len(s) + Len(t) : (s \o t)[k] = IF k <= Len(s) THEN s[k] ELSE t[k - Len(s)]
  BY ConcatProperties
<1>3. \A k \in 1 .. Len(s) : (s \o t)[k] = s[k]
  BY <1>1, <1>2
<1>4. ASSUME NEW k \in 1 .. Len(t) PROVE (s \o t)[Len(s) + k] = t[k]
  <2>1. /\ Len(s) + k \in 1 .. Len(s) + Len(t) /\ ~(Len(s) + k <= Len(s))
        /\ Len(s) + k - Len(s) = k
    BY <1>1
  <2>2. QED BY <1>2, <2>1
<1>5. QED BY <1>2, <1>3, <1>4

BracketedText(h, n) == <<LBracket>> \o h \o <<RBracket, Colon>> \o n

IsBracketed(t, h, n) ==
  /\ t \in Seq(Token) /\ Len(t) = Len(h) + 3 + Len(n)
  /\ t[1] = LBracket /\ t[Len(h) + 2] = RBracket /\ t[Len(h) + 3] = Colon
  /\ \A k \in 1 .. Len(h) : t[k + 1] = h[k]
  /\ \A k \in 1 .. Len(n) : t[Len(h) + 3 + k] = n[k]

LEMMA BracketedTextIs ==
  ASSUME NEW h \in Seq(Token), NEW n \in Seq(Token)
  PROVE  IsBracketed(BracketedText(h, n), h, n)
<1>1. Len(h) \in Nat /\ Len(n) \in Nat
  BY LenProperties
<1>2. PICK l \in Seq(Token), r \in Seq(Token) :
        /\ l = <<LBracket>> /\ Len(l) = 1 /\ l[1] = LBracket
        /\ r = <<RBracket, Colon>> /\ Len(r) = 2 /\ r[1] = RBracket /\ r[2] = Colon
  <2>1. LBracket \in Token /\ RBracket \in Token /\ Colon \in Token
    BY DEF LBracket, RBracket, Colon, Token, V4, Comma
  <2>2. <<LBracket>> \in Seq(Token) /\ Len(<<LBracket>>) = 1 /\ <<LBracket>>[1] = LBracket
    BY <2>1
  <2>3. /\ <<RBracket, Colon>> \in Seq(Token) /\ Len(<<RBracket, Colon>>) = 2
        /\ <<RBracket, Colon>>[1] = RBracket /\ <<RBracket, Colon>>[2] = Colon
    BY <2>1
  <2>4. QED BY <2>2, <2>3
<1>3. PICK b \in Seq(Token) :
        /\ b = l \o h /\ Len(b) = Len(h) + 1 /\ b[1] = LBracket
        /\ \A k \in 1 .. Len(h) : b[k + 1] = h[k]
  <2>1. /\ l \o h \in Seq(Token) /\ Len(l \o h) = Len(l) + Len(h)
        /\ \A k \in 1 .. Len(l) : (l \o h)[k] = l[k]
        /\ \A k \in 1 .. Len(h) : (l \o h)[Len(l) + k] = h[k]
    BY Joined
  <2>2. PICK b \in Seq(Token) : b = l \o h
    BY <2>1
  <2>3. Len(b) = Len(h) + 1 /\ b[1] = LBracket /\ \A k \in 1 .. Len(h) : b[1 + k] = h[k]
    BY <1>1, <1>2, <2>1, <2>2
  <2>4. \A k \in 1 .. Len(h) : 1 + k = k + 1
    BY <1>1
  <2>5. QED BY <2>2, <2>3, <2>4
<1>4. PICK c \in Seq(Token) :
        /\ c = b \o r /\ Len(c) = Len(h) + 3
        /\ \A k \in 1 .. Len(h) + 1 : c[k] = b[k]
        /\ c[Len(h) + 2] = RBracket /\ c[Len(h) + 3] = Colon
  <2>1. /\ b \o r \in Seq(Token) /\ Len(b \o r) = Len(b) + Len(r)
        /\ \A k \in 1 .. Len(b) : (b \o r)[k] = b[k]
        /\ \A k \in 1 .. Len(r) : (b \o r)[Len(b) + k] = r[k]
    BY Joined
  <2>2. PICK c \in Seq(Token) : c = b \o r
    BY <2>1
  <2>3. 1 \in 1 .. Len(r) /\ 2 \in 1 .. Len(r) /\ Len(b) + 1 = Len(h) + 2 /\ Len(b) + 2 = Len(h) + 3
    BY <1>1, <1>2, <1>3
  <2>4. Len(c) = Len(b) + 2
    BY <1>2, <2>1, <2>2
  <2>5. c[Len(b) + 1] = RBracket /\ c[Len(b) + 2] = Colon
    BY <1>2, <2>1, <2>2, <2>3
  <2>6. \A k \in 1 .. Len(h) + 1 : c[k] = b[k]
    BY <1>3, <2>1, <2>2
  <2>7. QED BY <2>2, <2>3, <2>4, <2>5, <2>6
<1>5. PICK t \in Seq(Token) :
        /\ t = c \o n /\ Len(t) = Len(h) + 3 + Len(n)
        /\ \A k \in 1 .. Len(h) + 3 : t[k] = c[k]
        /\ \A k \in 1 .. Len(n) : t[Len(h) + 3 + k] = n[k]
  <2>1. /\ c \o n \in Seq(Token) /\ Len(c \o n) = Len(c) + Len(n)
        /\ \A k \in 1 .. Len(c) : (c \o n)[k] = c[k]
        /\ \A k \in 1 .. Len(n) : (c \o n)[Len(c) + k] = n[k]
    BY Joined
  <2>2. PICK t \in Seq(Token) : t = c \o n
    BY <2>1
  <2>3. PICK m \in Nat : m = Len(c) /\ m = Len(h) + 3
    BY <1>1, <1>4
  <2>4. /\ Len(t) = m + Len(n)
        /\ \A k \in 1 .. m : t[k] = c[k]
        /\ \A k \in 1 .. Len(n) : t[m + k] = n[k]
    BY <2>1, <2>2, <2>3
  <2>5. QED BY <2>2, <2>3, <2>4
<1>6. t = BracketedText(h, n)
  BY <1>2, <1>3, <1>4, <1>5 DEF BracketedText
<1>7. t[1] = LBracket /\ t[Len(h) + 2] = RBracket /\ t[Len(h) + 3] = Colon
  <2>1. 1 \in 1 .. Len(h) + 1 /\ 1 \in 1 .. Len(h) + 3 /\ Len(h) + 2 \in 1 .. Len(h) + 3
        /\ Len(h) + 3 \in 1 .. Len(h) + 3
    BY <1>1
  <2>2. QED BY <1>3, <1>4, <1>5, <2>1
<1>8. ASSUME NEW k \in 1 .. Len(h) PROVE t[k + 1] = h[k]
  <2>1. k + 1 \in 1 .. Len(h) + 1 /\ k + 1 \in 1 .. Len(h) + 3
    BY <1>1
  <2>2. QED BY <1>3, <1>4, <1>5, <2>1
<1>9. QED BY <1>5, <1>6, <1>7, <1>8 DEF IsBracketed

-----------------------------------------------------------------------------
(* The port expressions.                                                   *)

LEMMA TrimIs ==
  ASSUME NEW s \in Seq(Token)
  PROVE  \/ Trim(s) = <<>> /\ \A k \in 1 .. Len(s) : s[k] = Blank
         \/ \E f \in 1 .. Len(s), l \in 1 .. Len(s) :
              /\ f <= l /\ Trim(s) = SubSeq(s, f, l) /\ s[f] # Blank /\ s[l] # Blank
              /\ \A k \in 1 .. Len(s) : k < f \/ l < k => s[k] = Blank
<1>1. Len(s) \in Nat
  BY LenProperties
<1>2. CASE Inked(s) = {}
  BY <1>2 DEF Trim, Inked
<1>3. CASE Inked(s) # {}
  <2> DEFINE f == CHOOSE i \in Inked(s) : \A k \in Inked(s) : i <= k
             l == CHOOSE i \in Inked(s) : \A k \in Inked(s) : k <= i
  <2>1. Inked(s) \in SUBSET Nat /\ Inked(s) \in SUBSET (1 .. Len(s))
    BY <1>1 DEF Inked
  <2>2. f \in Inked(s) /\ \A k \in Inked(s) : f <= k
    <3>1. \E i \in Inked(s) : \A k \in Inked(s) : i <= k
      BY <1>3, <2>1, Least
    <3>2. QED BY <3>1
  <2>3. l \in Inked(s) /\ \A k \in Inked(s) : k <= l
    <3>1. \E i \in Inked(s) : \A k \in Inked(s) : k <= i
      BY <1>1, <1>3, <2>1, Greatest
    <3>2. QED BY <3>1
  <2>4. Trim(s) = SubSeq(s, f, l)
    BY <1>3 DEF Trim
  <2> HIDE DEF f, l
  <2>5. /\ f \in 1 .. Len(s) /\ l \in 1 .. Len(s) /\ f <= l
        /\ s[f] # Blank /\ s[l] # Blank
    BY <2>2, <2>3 DEF Inked
  <2>6. ASSUME NEW k \in 1 .. Len(s), k < f \/ l < k PROVE s[k] = Blank
    <3>1. k \notin Inked(s)
      BY <1>1, <2>2, <2>3, <2>5, <2>6
    <3>2. QED BY <3>1 DEF Inked
  <2>7. QED BY <2>4, <2>5, <2>6
<1>4. QED BY <1>2, <1>3

LEMMA Tokens ==
  /\ NoPort \notin Ports /\ 0 \notin Ports /\ Ports \subseteq 0 .. MaxPort /\ Ports \subseteq Nat
  /\ {Blank, Dash, Plus, Comma} \cap Ports = {}
  /\ Blank # Dash /\ Blank # Plus /\ Dash # Plus
BY PortsAssumption DEF Ports, NoPort, Blank, Dash, Plus, Comma

LEMMA ParsesTo ==
  ASSUME NEW t, NEW n \in Ports
  PROVE  ParsePort(t) = n <=> Len(t) \in {1, 2} /\ t[Len(t)] = n /\ (Len(t) = 2 => t[1] = Plus)
BY Tokens DEF ParsePort, U16

\* What is between the ends of a text is what is between them in another one.
LEMMA NumberMoves ==
  ASSUME NEW u, NEW v, NEW m \in Nat, NEW c \in Int, NEW n \in Ports,
         \A k \in 1 .. m : v[k] = u[c + k]
  PROVE  Number(v, 1, m, n) <=> Number(u, c + 1, c + m, n)
<1>1. ASSUME Number(v, 1, m, n) PROVE Number(u, c + 1, c + m, n)
  <2>1. PICK l \in 1 .. m :
          v[l] = n /\ \A k \in 1 .. m \ {l} : v[k] = Blank \/ (k = l - 1 /\ v[k] = Plus)
    BY <1>1 DEF Number
  <2>2. c + l \in c + 1 .. c + m /\ u[c + l] = n
    BY <2>1
  <2>3. ASSUME NEW k \in c + 1 .. c + m \ {c + l}
        PROVE  u[k] = Blank \/ (k = c + l - 1 /\ u[k] = Plus)
    <3>1. PICK i \in 1 .. m \ {l} : i = k - c /\ c + i = k
      <4>1. k - c \in 1 .. m \ {l} /\ c + (k - c) = k
        OBVIOUS
      <4>2. QED BY <4>1
    <3>2. v[i] = u[k] /\ (i = l - 1 => k = c + l - 1)
      BY <3>1
    <3>3. QED BY <2>1, <3>2
  <2>4. QED BY <2>2, <2>3 DEF Number
<1>2. ASSUME Number(u, c + 1, c + m, n) PROVE Number(v, 1, m, n)
  <2>1. PICK l \in c + 1 .. c + m :
          /\ u[l] = n
          /\ \A k \in c + 1 .. c + m \ {l} : u[k] = Blank \/ (k = l - 1 /\ u[k] = Plus)
    BY <1>2 DEF Number
  <2>2. PICK j \in 1 .. m : j = l - c /\ c + j = l
    <3>1. l - c \in 1 .. m /\ c + (l - c) = l
      OBVIOUS
    <3>2. QED BY <3>1
  <2>3. v[j] = n
    BY <2>1, <2>2
  <2>4. ASSUME NEW k \in 1 .. m \ {j}
        PROVE  v[k] = Blank \/ (k = j - 1 /\ v[k] = Plus)
    <3>1. c + k \in c + 1 .. c + m \ {l} /\ v[k] = u[c + k]
      BY <2>2
    <3>2. c + k = l - 1 => k = j - 1
      BY <2>2
    <3>3. QED BY <2>1, <3>1, <3>2
  <2>5. QED BY <2>3, <2>4 DEF Number
<1>3. QED BY <1>1, <1>2

\* Blanks at the ends make no difference.
LEMMA NumberWidens ==
  ASSUME NEW u, NEW i \in Nat, NEW j \in Int, NEW f \in Nat, NEW l \in Int, NEW n \in Ports,
         i <= f, l <= j, \A k \in i .. j : k < f \/ l < k => u[k] = Blank
  PROVE  Number(u, f, l, n) <=> Number(u, i, j, n)
<1>1. ASSUME Number(u, f, l, n) PROVE Number(u, i, j, n)
  <2>1. PICK e \in f .. l :
          u[e] = n /\ \A k \in f .. l \ {e} : u[k] = Blank \/ (k = e - 1 /\ u[k] = Plus)
    BY <1>1 DEF Number
  <2>2. e \in i .. j
    OBVIOUS
  <2>3. \A k \in i .. j \ {e} : u[k] = Blank \/ (k = e - 1 /\ u[k] = Plus)
    BY <2>1
  <2>4. QED BY <2>1, <2>2, <2>3 DEF Number
<1>2. ASSUME Number(u, i, j, n) PROVE Number(u, f, l, n)
  <2>1. PICK e \in i .. j :
          u[e] = n /\ \A k \in i .. j \ {e} : u[k] = Blank \/ (k = e - 1 /\ u[k] = Plus)
    BY <1>2 DEF Number
  <2>2. u[e] # Blank
    BY <2>1, Tokens
  <2>3. e \in f .. l
    BY <2>2
  <2>4. \A k \in f .. l \ {e} : u[k] = Blank \/ (k = e - 1 /\ u[k] = Plus)
    BY <2>1
  <2>5. QED BY <2>1, <2>3, <2>4 DEF Number
<1>3. QED BY <1>1, <1>2

LEMMA TrimmedNumber ==
  ASSUME NEW u \in Seq(Token), NEW n \in Ports
  PROVE  ParsePort(Trim(u)) = n <=> Number(u, 1, Len(u), n)
<1>1. Len(u) \in Nat
  BY LenProperties
<1>2. CASE Trim(u) = <<>> /\ \A k \in 1 .. Len(u) : u[k] = Blank
  <2>1. ParsePort(Trim(u)) # n
    BY <1>2, ParsesTo, Len(<<>>) = 0
  <2>2. ~Number(u, 1, Len(u), n)
    BY <1>2, Tokens DEF Number
  <2>3. QED BY <2>1, <2>2
<1>3. ASSUME NEW f \in 1 .. Len(u), NEW l \in 1 .. Len(u),
             f <= l, Trim(u) = SubSeq(u, f, l), u[f] # Blank, u[l] # Blank,
             \A k \in 1 .. Len(u) : k < f \/ l < k => u[k] = Blank
      PROVE  ParsePort(Trim(u)) = n <=> Number(u, 1, Len(u), n)
  <2>1. PICK t \in Seq(Token) :
          /\ t = Trim(u) /\ Len(t) = l - f + 1
          /\ \A i \in 1 .. l - f + 1 : t[i] = u[f + i - 1]
    <3>1. f \in 1 .. Len(u) + 1 /\ l \in f - 1 .. Len(u)
      BY <1>1, <1>3
    <3>2. /\ SubSeq(u, f, l) \in Seq(Token) /\ Len(SubSeq(u, f, l)) = l - f + 1
          /\ \A i \in 1 .. l - f + 1 : SubSeq(u, f, l)[i] = u[f + i - 1]
      BY <3>1, PartIs
    <3>3. QED BY <1>3, <3>2
  <2>2. t[Len(t)] = u[l] /\ t[1] = u[f]
    <3>1. Len(t) \in 1 .. l - f + 1 /\ f + Len(t) - 1 = l /\ 1 \in 1 .. l - f + 1 /\ f + 1 - 1 = f
      BY <1>1, <1>3, <2>1
    <3>2. QED BY <2>1, <3>1
  <2>3. ParsePort(t) = n
          <=> l - f + 1 \in {1, 2} /\ u[l] = n /\ (l - f + 1 = 2 => u[f] = Plus)
    BY <2>1, <2>2, ParsesTo
  <2>4. ASSUME l - f + 1 \in {1, 2}, u[l] = n, l - f + 1 = 2 => u[f] = Plus
        PROVE  Number(u, 1, Len(u), n)
    <3>1. ASSUME NEW k \in 1 .. Len(u) \ {l} PROVE u[k] = Blank \/ (k = l - 1 /\ u[k] = Plus)
      <4>1. k < f \/ l < k \/ (k = f /\ k = l - 1 /\ l - f + 1 = 2)
        BY <1>1, <2>4
      <4>2. QED BY <1>3, <2>4, <4>1
    <3>2. QED BY <2>4, <3>1 DEF Number
  <2>5. ASSUME Number(u, 1, Len(u), n)
        PROVE  l - f + 1 \in {1, 2} /\ u[l] = n /\ (l - f + 1 = 2 => u[f] = Plus)
    <3>1. PICK e \in 1 .. Len(u) :
            u[e] = n /\ \A k \in 1 .. Len(u) \ {e} : u[k] = Blank \/ (k = e - 1 /\ u[k] = Plus)
      BY <2>5 DEF Number
    <3>2. u[e] # Blank
      BY <3>1, Tokens
    <3>3. f <= e /\ e <= l
      BY <1>1, <1>3, <3>2
    <3>4. e = l
      BY <1>1, <1>3, <3>1, <3>3
    <3>5. f = l \/ (f = l - 1 /\ u[f] = Plus)
      BY <1>1, <1>3, <3>1, <3>4
    <3>6. QED BY <1>1, <3>1, <3>4, <3>5
  <2>6. QED BY <2>1, <2>3, <2>4, <2>5
<1>4. QED BY <1>2, <1>3, TrimIs

\* A text with a dash in it is split at the first one.
LEMMA WholeSegment ==
  ASSUME NEW u \in Seq(Token)
  PROVE  SegmentPorts(Trim(u)) = {n \in Ports : Denotes(u, 1, Len(u), n)}
<1>1. Len(u) \in Nat
  BY LenProperties
<1>2. ASSUME NEW n \in Ports, NEW i \in Int, NEW j \in Int, NEW k \in i .. j, Number(u, i, j, n)
      PROVE  u[k] # Dash
  BY <1>2, Tokens DEF Number
<1>3. CASE At(u, Dash) = {}
  <2>1. At(Trim(u), Dash) = {}
    <3>1. CASE Trim(u) = <<>>
      BY <3>1 DEF At
    <3>2. ASSUME NEW f \in 1 .. Len(u), NEW l \in 1 .. Len(u), f <= l, Trim(u) = SubSeq(u, f, l)
          PROVE  At(Trim(u), Dash) = {}
      <4>1. f \in 1 .. Len(u) + 1 /\ l \in f - 1 .. Len(u)
        BY <1>1, <3>2
      <4>2. /\ Len(Trim(u)) = l - f + 1
            /\ \A i \in 1 .. l - f + 1 : Trim(u)[i] = u[f + i - 1]
        BY <3>2, <4>1, PartIs
      <4>3. \A i \in 1 .. l - f + 1 : f + i - 1 \in 1 .. Len(u)
        BY <1>1
      <4>4. QED BY <1>3, <4>2, <4>3 DEF At
    <3>3. QED BY <3>1, <3>2, TrimIs
  <2>2. SegmentPorts(Trim(u)) = {ParsePort(Trim(u))} \ {NoPort}
    BY <2>1 DEF SegmentPorts
  <2>3. \A n \in Ports : Denotes(u, 1, Len(u), n) <=> Number(u, 1, Len(u), n)
    BY <1>3 DEF Denotes, At
  <2>4. \A n \in Ports : Denotes(u, 1, Len(u), n) <=> ParsePort(Trim(u)) = n
    BY <2>3, TrimmedNumber
  <2>5. ParsePort(Trim(u)) \in Ports \cup {NoPort}
    BY ParsedPort
  <2>6. QED BY <2>2, <2>4, <2>5, Tokens
<1>4. CASE At(u, Dash) # {}
  <2>1. PICK f \in 1 .. Len(u), l \in 1 .. Len(u) :
          /\ f <= l /\ Trim(u) = SubSeq(u, f, l)
          /\ \A k \in 1 .. Len(u) : k < f \/ l < k => u[k] = Blank
    <3>1. ~(\A k \in 1 .. Len(u) : u[k] = Blank)
      BY <1>4, Tokens DEF At
    <3>2. QED BY <3>1, TrimIs
  <2>2. PICK t \in Seq(Token) :
          /\ t = Trim(u) /\ Len(t) = l - f + 1
          /\ \A i \in 1 .. l - f + 1 : t[i] = u[f + i - 1]
    <3>1. f \in 1 .. Len(u) + 1 /\ l \in f - 1 .. Len(u)
      BY <1>1, <2>1
    <3>2. /\ SubSeq(u, f, l) \in Seq(Token) /\ Len(SubSeq(u, f, l)) = l - f + 1
          /\ \A i \in 1 .. l - f + 1 : SubSeq(u, f, l)[i] = u[f + i - 1]
      BY <3>1, PartIs
    <3>3. QED BY <2>1, <3>2
  <2>3. At(t, Dash) # {}
    <3>1. PICK k \in 1 .. Len(u) : u[k] = Dash
      BY <1>4 DEF At
    <3>2. f <= k /\ k <= l
      BY <1>1, <2>1, <3>1, Tokens
    <3>3. k - f + 1 \in 1 .. l - f + 1 /\ f + (k - f + 1) - 1 = k
      BY <1>1, <3>2
    <3>4. t[k - f + 1] = Dash
      BY <2>2, <3>1, <3>3
    <3>5. QED BY <2>2, <3>3, <3>4 DEF At
  <2>4. PICK e \in 1 .. Len(t) :
          /\ e = FirstAt(t, Dash, 1) /\ t[e] = Dash
          /\ \A k \in 1 .. e - 1 : t[k] # Dash
    <3>1. 1 \in 1 .. Len(t) + 1 /\ Len(t) \in Nat
      BY <1>1, <2>1, <2>2
    <3>2. /\ FirstAt(t, Dash, 1) \in 1 .. Len(t) + 1
          /\ FirstAt(t, Dash, 1) \in At(t, Dash) \/ FirstAt(t, Dash, 1) = Len(t) + 1
          /\ \A k \in 1 .. FirstAt(t, Dash, 1) - 1 : t[k] # Dash
      BY <3>1, FirstIs
    <3>3. FirstAt(t, Dash, 1) # Len(t) + 1
      BY <2>3, <3>1, <3>2 DEF At
    <3>4. QED BY <3>2, <3>3 DEF At
  <2>5. PICK d \in f .. l : d = f + e - 1
    <3>1. f + e - 1 \in f .. l
      BY <1>1, <2>1, <2>2
    <3>2. QED BY <3>1
  <2>6. u[d] = Dash
    BY <2>2, <2>4, <2>5
  <2>7. \A k \in 1 .. d - 1 : u[k] # Dash
    <3> SUFFICES ASSUME NEW k \in 1 .. d - 1 PROVE u[k] # Dash
      OBVIOUS
    <3>1. CASE k < f
      BY <1>1, <2>1, <3>1, Tokens
    <3>2. CASE k >= f
      <4>1. k - f + 1 \in 1 .. e - 1 /\ k - f + 1 \in 1 .. l - f + 1 /\ f + (k - f + 1) - 1 = k
        BY <1>1, <2>5, <3>2
      <4>2. t[k - f + 1] = u[k] /\ t[k - f + 1] # Dash
        BY <2>2, <2>4, <4>1
      <4>3. QED BY <4>2
    <3>3. QED BY <1>1, <3>1, <3>2
  <2>8. PICK b \in Seq(Token), a \in Seq(Token) :
          /\ b = Before(t, e) /\ a = After(t, e)
          /\ Len(b) = e - 1 /\ Len(a) = l - d
          /\ \A k \in 1 .. e - 1 : b[k] = u[f - 1 + k]
          /\ \A k \in 1 .. l - d : a[k] = u[d + k]
    <3>1. /\ Before(t, e) \in Seq(Token) /\ After(t, e) \in Seq(Token)
          /\ Len(Before(t, e)) = e - 1 /\ Len(After(t, e)) = Len(t) - e
          /\ \A k \in 1 .. e - 1 : Before(t, e)[k] = t[k]
          /\ \A k \in 1 .. Len(t) - e : After(t, e)[k] = t[e + k]
      BY CutAt
    <3>2. Len(t) - e = l - d
      BY <1>1, <2>2, <2>5
    <3>3. \A k \in 1 .. e - 1 : t[k] = u[f - 1 + k]
      <4> TAKE k \in 1 .. e - 1
      <4>1. k \in 1 .. l - f + 1 /\ f + k - 1 = f - 1 + k
        BY <1>1, <2>2
      <4>2. QED BY <2>2, <4>1
    <3>4. \A k \in 1 .. l - d : t[e + k] = u[d + k]
      <4> TAKE k \in 1 .. l - d
      <4>1. e + k \in 1 .. l - f + 1 /\ f + (e + k) - 1 = d + k
        BY <1>1, <2>2, <2>5
      <4>2. QED BY <2>2, <4>1
    <3>5. PICK b \in Seq(Token), a \in Seq(Token) : b = Before(t, e) /\ a = After(t, e)
      BY <3>1
    <3>6. Len(b) = e - 1 /\ Len(a) = l - d
      BY <3>1, <3>2, <3>5
    <3>7. \A k \in 1 .. e - 1 : b[k] = u[f - 1 + k]
      BY <3>1, <3>3, <3>5
    <3>8. \A k \in 1 .. l - d : a[k] = u[d + k]
      <4> TAKE k \in 1 .. l - d
      <4>1. k \in 1 .. Len(t) - e
        BY <3>2
      <4>2. QED BY <3>1, <3>4, <3>5, <4>1
    <3>9. QED BY <3>5, <3>6, <3>7, <3>8
  <2>9. ASSUME NEW n \in Ports
        PROVE  /\ ParsePort(Trim(b)) = n <=> Number(u, 1, d - 1, n)
               /\ ParsePort(Trim(a)) = n <=> Number(u, d + 1, Len(u), n)
    <3>1. /\ ParsePort(Trim(b)) = n <=> Number(b, 1, e - 1, n)
          /\ ParsePort(Trim(a)) = n <=> Number(a, 1, l - d, n)
      BY <2>8, TrimmedNumber
    <3>2. Number(b, 1, e - 1, n) <=> Number(u, f, d - 1, n)
      <4>1. e - 1 \in Nat /\ f - 1 \in Int /\ f - 1 + 1 = f /\ f - 1 + (e - 1) = d - 1
        BY <1>1, <2>5
      <4>2. Number(b, 1, e - 1, n) <=> Number(u, f - 1 + 1, f - 1 + (e - 1), n)
        BY <2>8, <4>1, NumberMoves
      <4>3. QED BY <4>1, <4>2
    <3>3. Number(a, 1, l - d, n) <=> Number(u, d + 1, l, n)
      <4>1. l - d \in Nat /\ d \in Int /\ d + (l - d) = l
        BY <1>1, <2>5
      <4>2. Number(a, 1, l - d, n) <=> Number(u, d + 1, d + (l - d), n)
        BY <2>8, <4>1, NumberMoves
      <4>3. QED BY <4>1, <4>2
    <3>4. Number(u, f, d - 1, n) <=> Number(u, 1, d - 1, n)
      <4>1. /\ 1 \in Nat /\ f \in Nat /\ d - 1 \in Int /\ 1 <= f /\ d - 1 <= d - 1
            /\ \A k \in 1 .. d - 1 : k < f \/ d - 1 < k => u[k] = Blank
        BY <1>1, <2>1, <2>5
      <4>2. QED BY <4>1, NumberWidens
    <3>5. Number(u, d + 1, l, n) <=> Number(u, d + 1, Len(u), n)
      <4>1. /\ d + 1 \in Nat /\ l \in Int /\ Len(u) \in Int /\ d + 1 <= d + 1 /\ l <= Len(u)
            /\ \A k \in d + 1 .. Len(u) : k < d + 1 \/ l < k => u[k] = Blank
        BY <1>1, <2>1, <2>5
      <4>2. QED BY <4>1, NumberWidens
    <3>6. QED BY <3>1, <3>2, <3>3, <3>4, <3>5
  <2> DEFINE lo == ParsePort(Trim(b))
             hi == ParsePort(Trim(a))
  <2>10. SegmentPorts(Trim(u)) = RangePorts(lo, hi)
    BY <2>2, <2>3, <2>4, <2>8 DEF SegmentPorts
  <2>11. lo \in Ports \cup {NoPort} /\ hi \in Ports \cup {NoPort}
    BY ParsedPort
  <2>12. d \in 1 .. Len(u)
    BY <1>1, <2>5
  <2> HIDE DEF lo, hi
  <2>13. ASSUME NEW n \in Ports
         PROVE  n \in RangePorts(lo, hi) <=> Denotes(u, 1, Len(u), n)
    <3>1. ASSUME n \in RangePorts(lo, hi) PROVE Denotes(u, 1, Len(u), n)
      <4>1. lo \in Ports /\ hi \in Ports /\ lo <= n /\ n <= hi
        BY <2>11, <3>1, Tokens DEF RangePorts
      <4>2. Number(u, 1, d - 1, lo) /\ Number(u, d + 1, Len(u), hi)
        BY <2>9, <4>1 DEF lo, hi
      <4>3. QED BY <2>6, <2>12, <4>1, <4>2 DEF Denotes
    <3>2. ASSUME Denotes(u, 1, Len(u), n) PROVE n \in RangePorts(lo, hi)
      <4>1. ~Number(u, 1, Len(u), n)
        BY <1>1, <1>2, <2>6, <2>12
      <4>2. PICK c \in 1 .. Len(u), p \in Ports, q \in Ports :
              /\ u[c] = Dash /\ Number(u, 1, c - 1, p) /\ Number(u, c + 1, Len(u), q)
              /\ p <= n /\ n <= q
        BY <3>2, <4>1 DEF Denotes
      <4>3. c = d
        <5>1. ~(c < d)
          BY <2>7, <2>12, <4>2
        <5>2. ~(d < c)
          <6>1. d < c => d \in 1 .. c - 1 /\ 1 \in Int /\ c - 1 \in Int
            BY <2>12
          <6>2. QED BY <1>2, <2>6, <4>2, <6>1
        <5>3. QED BY <1>1, <2>12, <5>1, <5>2
      <4>4. lo = p /\ hi = q
        BY <2>9, <4>2, <4>3 DEF lo, hi
      <4>5. QED BY <4>2, <4>4, Tokens DEF RangePorts
    <3>3. QED BY <3>1, <3>2
  <2>14. RangePorts(lo, hi) \subseteq Ports
    BY <2>11, RangeOfPorts
  <2>15. QED BY <2>10, <2>13, <2>14
<1>5. QED BY <1>3, <1>4

LEMMA SegmentIs ==
  ASSUME NEW s \in Seq(Token), NEW i \in 1 .. Len(s) + 1, NEW j \in i - 1 .. Len(s)
  PROVE  SegmentPorts(Trim(SubSeq(s, i, j))) = Meaning(s, <<i, j>>)
<1>1. Len(s) \in Nat
  BY LenProperties
<1>2. PICK c \in Nat, m \in Nat : c = i - 1 /\ m = j - i + 1
  BY <1>1
<1>3. PICK u \in Seq(Token) :
        u = SubSeq(s, i, j) /\ Len(u) = m /\ \A k \in 1 .. m : u[k] = s[c + k]
  <2>1. /\ SubSeq(s, i, j) \in Seq(Token) /\ Len(SubSeq(s, i, j)) = j - i + 1
        /\ \A k \in 1 .. j - i + 1 : SubSeq(s, i, j)[k] = s[i + k - 1]
    BY PartIs
  <2>2. \A k \in 1 .. m : i + k - 1 = c + k
    BY <1>1, <1>2
  <2>3. QED BY <1>2, <2>1, <2>2
<1>4. i = c + 1 /\ j = c + m
  BY <1>1, <1>2
<1>5. ASSUME NEW n \in Ports, NEW d \in 0 .. m
      PROVE  /\ Number(u, 1, d, n) <=> Number(s, c + 1, c + d, n)
             /\ Number(u, d + 1, m, n) <=> Number(s, c + d + 1, c + m, n)
  <2>1. Number(u, 1, d, n) <=> Number(s, c + 1, c + d, n)
    <3>1. d \in Nat /\ c \in Int /\ \A k \in 1 .. d : u[k] = s[c + k]
      <4>1. \A k \in 1 .. d : k \in 1 .. m
        OBVIOUS
      <4>2. \A k \in 1 .. d : u[k] = s[c + k]
        BY <1>3, <4>1, Zenon
      <4>3. QED BY <4>2
    <3>2. QED BY <3>1, NumberMoves
  <2>2. Number(u, d + 1, m, n) <=> Number(s, c + d + 1, c + m, n)
    <3>1. PICK v : v = [k \in 1 .. m - d |-> u[d + k]]
      OBVIOUS
    <3>2. PICK r \in Nat, x \in Int : r = m - d /\ x = c + d /\ d + r = m /\ x + r = c + m
      OBVIOUS
    <3>3. Number(v, 1, r, n) <=> Number(u, d + 1, d + r, n)
      <4>1. d \in Int /\ \A k \in 1 .. r : v[k] = u[d + k]
        BY <3>1, <3>2
      <4>2. QED BY <4>1, NumberMoves
    <3>4. Number(v, 1, r, n) <=> Number(s, x + 1, x + r, n)
      <4>1. \A k \in 1 .. r : v[k] = s[x + k]
        <5> TAKE k \in 1 .. r
        <5>1. d + k \in 1 .. m /\ c + (d + k) = x + k
          BY <3>2
        <5>2. v[k] = u[d + k] /\ u[d + k] = s[c + (d + k)]
          BY <1>3, <3>1, <3>2, <5>1
        <5>3. QED BY <5>1, <5>2
      <4>2. QED BY <4>1, NumberMoves
    <3>5. QED BY <3>2, <3>3, <3>4
  <2>3. QED BY <2>1, <2>2
<1>6. ASSUME NEW n \in Ports PROVE Denotes(u, 1, m, n) <=> Denotes(s, i, j, n)
  <2>1. Number(u, 1, m, n) <=> Number(s, i, j, n)
    BY <1>4, <1>5
  <2>2. ASSUME NEW d \in 1 .. m, NEW lo \in Ports, NEW hi \in Ports
        PROVE  /\ u[d] = s[c + d]
               /\ Number(u, 1, d - 1, lo) <=> Number(s, i, (c + d) - 1, lo)
               /\ Number(u, d + 1, m, hi) <=> Number(s, (c + d) + 1, j, hi)
    <3>1. d - 1 \in 0 .. m /\ d \in 0 .. m /\ c + (d - 1) = c + d - 1
      OBVIOUS
    <3>2. Number(u, 1, d - 1, lo) <=> Number(s, c + 1, c + (d - 1), lo)
      BY <1>5, <3>1
    <3>3. Number(u, d + 1, m, hi) <=> Number(s, c + d + 1, c + m, hi)
      BY <1>5, <3>1
    <3>4. QED BY <1>3, <1>4, <3>1, <3>2, <3>3
  <2>3. ASSUME Denotes(u, 1, m, n) PROVE Denotes(s, i, j, n)
    <3>1. SUFFICES ASSUME NEW d \in 1 .. m, NEW lo \in Ports, NEW hi \in Ports,
                          u[d] = Dash, Number(u, 1, d - 1, lo), Number(u, d + 1, m, hi),
                          lo <= n, n <= hi
                   PROVE  Denotes(s, i, j, n)
      BY <2>1, <2>3 DEF Denotes
    <3>2. PICK e \in i .. j : e = c + d
      BY <1>4
    <3>3. s[e] = Dash /\ Number(s, i, e - 1, lo) /\ Number(s, e + 1, j, hi)
      BY <2>2, <3>1, <3>2, Zenon
    <3>4. QED BY <3>1, <3>3 DEF Denotes
  <2>4. ASSUME Denotes(s, i, j, n) PROVE Denotes(u, 1, m, n)
    <3>1. SUFFICES ASSUME NEW e \in i .. j, NEW lo \in Ports, NEW hi \in Ports,
                          s[e] = Dash, Number(s, i, e - 1, lo), Number(s, e + 1, j, hi),
                          lo <= n, n <= hi
                   PROVE  Denotes(u, 1, m, n)
      BY <2>1, <2>4 DEF Denotes
    <3>2. PICK d \in 1 .. m : e = c + d
      <4>1. e - c \in 1 .. m /\ e = c + (e - c)
        BY <1>4
      <4>2. QED BY <4>1
    <3>3. u[d] = Dash /\ Number(u, 1, d - 1, lo) /\ Number(u, d + 1, m, hi)
      BY <2>2, <3>1, <3>2, Zenon
    <3>4. QED BY <3>1, <3>3 DEF Denotes
  <2>5. QED BY <2>3, <2>4
<1>7. SegmentPorts(Trim(u)) = {n \in Ports : Denotes(u, 1, m, n)}
  BY <1>3, WholeSegment
<1>8. Meaning(s, <<i, j>>) = {n \in Ports : Denotes(s, i, j, n)}
  BY DEF Meaning
<1>9. QED BY <1>3, <1>6, <1>7, <1>8

-----------------------------------------------------------------------------
\* The segments that end before the position i - 1, where a comma is.
Read(s, i) == {g \in Segments(s) : g[2] + 2 <= i}

\* The loop takes segment after segment, and skips none.
LEMMA NextSegment ==
  ASSUME NEW s \in Seq(Token), NEW i \in 1 .. Len(s) + 1, i = 1 \/ s[i - 1] = Comma,
         NEW e, e = FirstAt(s, Comma, i) - 1
  PROVE  /\ e \in i - 1 .. Len(s) /\ (e = Len(s) \/ s[e + 1] = Comma)
         /\ <<i, e>> \in Segments(s)
         /\ Read(s, e + 2) = Read(s, i) \cup {<<i, e>>}
<1>1. Len(s) \in Nat
  BY LenProperties
<1>2. /\ e \in i - 1 .. Len(s) /\ (e = Len(s) \/ s[e + 1] = Comma)
      /\ \A k \in i .. e : s[k] # Comma
  <2>1. PICK j \in i .. Len(s) + 1 :
          /\ j = FirstAt(s, Comma, i) /\ (j \in At(s, Comma) \/ j = Len(s) + 1)
          /\ \A k \in i .. j - 1 : s[k] # Comma
    BY FirstIs
  <2>2. e = j - 1 /\ e + 1 = j
    BY <1>1, <2>1
  <2>3. QED BY <1>1, <2>1, <2>2 DEF At
<1>3. <<i, e>> \in Segments(s)
  <2>1. e \in 0 .. Len(s) /\ i <= e + 1
    BY <1>1, <1>2
  <2>2. QED BY <1>2, <2>1 DEF Segments
<1>4. ASSUME NEW g \in Segments(s), g[2] + 2 <= e + 2, ~(g[2] + 2 <= i)
      PROVE  g = <<i, e>>
  <2>1. PICK a \in 1 .. Len(s) + 1, b \in 0 .. Len(s) :
          /\ g = <<a, b>> /\ a <= b + 1
          /\ a = 1 \/ s[a - 1] = Comma
          /\ b = Len(s) \/ s[b + 1] = Comma
          /\ \A k \in a .. b : s[k] # Comma
    BY DEF Segments
  <2>2. b <= e /\ b >= i - 1
    BY <1>1, <1>2, <1>4, <2>1
  <2>3. b = e
    <3>1. b < e => b + 1 \in i .. e /\ b # Len(s)
      BY <1>1, <1>2, <2>2
    <3>2. QED BY <1>1, <1>2, <2>1, <2>2, <3>1
  <2>4. ~(a < i)
    <3>1. a < i => i # 1 /\ i - 1 \in a .. b
      BY <1>1, <2>2
    <3>2. QED BY <2>1, <3>1
  <2>5. ~(a > i)
    <3>1. a > i => a # 1 /\ a - 1 \in i .. e
      BY <1>1, <1>2, <2>1, <2>3
    <3>2. QED BY <1>2, <2>1, <3>1
  <2>6. a = i
    BY <1>1, <2>4, <2>5
  <2>7. QED BY <2>1, <2>3, <2>6
<1>5. \A g \in Segments(s) : g[2] + 2 <= i => g[2] + 2 <= e + 2
  <2> TAKE g \in Segments(s)
  <2>1. g[2] \in Nat
    BY <1>1 DEF Segments
  <2>2. QED BY <1>1, <1>2, <2>1
<1>6. <<i, e>>[2] + 2 <= e + 2
  BY <1>1, <1>2
<1>7. QED BY <1>2, <1>3, <1>4, <1>5, <1>6 DEF Read

-----------------------------------------------------------------------------
(* The target.                                                             *)

LEMMA BracketedIsExact ==
  ASSUME NEW raw \in Seq(Token), raw # <<>>, raw[1] = LBracket,
         NEW h \in Seq(Token), NEW p \in Ports
  PROVE  SplitBracketed(raw) = HostPort(h, p)
           <=> At(h, RBracket) = {} /\ \E n \in Numerals(p) : raw = BracketedText(h, n)
<1> DEFINE end == FirstAt(raw, RBracket, 1)
           port == ParsePort(After(raw, end + 1))
<1>1. Len(raw) \in Nat \ {0} /\ 1 \in 1 .. Len(raw) + 1
  BY EmptySeq, LenProperties
<1>2. /\ end \in 1 .. Len(raw) + 1
      /\ end \in At(raw, RBracket) \/ end = Len(raw) + 1
      /\ \A k \in 1 .. end - 1 : raw[k] # RBracket
  BY <1>1, FirstIs
<1>3. p # NoPort /\ NoPort \notin Ports /\ LBracket # RBracket
  BY DEF Ports, NoPort, LBracket, RBracket
<1> HIDE DEF end
<1>4. ASSUME SplitBracketed(raw) = HostPort(h, p)
      PROVE  At(h, RBracket) = {} /\ \E n \in Numerals(p) : raw = BracketedText(h, n)
  <2>1. HostPort(h, p) # BadTarget
    BY <1>3 DEF HostPort, BadTarget
  <2>2. /\ end < Len(raw) /\ raw[end + 1] = Colon /\ port # NoPort
        /\ SplitBracketed(raw) = HostPort(SubSeq(raw, 2, end - 1), port)
    BY <1>4, <2>1 DEF SplitBracketed, end
  <2>3. h = SubSeq(raw, 2, end - 1) /\ p = port
    BY <1>4, <2>2 DEF HostPort
  <2>4. raw[end] = RBracket /\ end \in 2 .. Len(raw)
    BY <1>1, <1>2, <1>3, <2>2 DEF At
  <2>5. Len(h) = end - 2 /\ \A k \in 1 .. Len(h) : h[k] = raw[k + 1]
    <3>1. 2 \in 1 .. Len(raw) + 1 /\ end - 1 \in 2 - 1 .. Len(raw)
      BY <1>1, <2>4
    <3>2. /\ Len(SubSeq(raw, 2, end - 1)) = end - 1 - 2 + 1
          /\ \A k \in 1 .. end - 1 - 2 + 1 : SubSeq(raw, 2, end - 1)[k] = raw[2 + k - 1]
      BY <3>1, PartIs
    <3>3. end - 1 - 2 + 1 = end - 2 /\ \A k \in 1 .. end - 2 : 2 + k - 1 = k + 1
      BY <2>4
    <3>4. QED BY <2>3, <3>2, <3>3
  <2>6. PICK n \in Seq(Token) :
          /\ n = After(raw, end + 1) /\ Len(n) = Len(raw) - (end + 1)
          /\ \A k \in 1 .. Len(raw) - (end + 1) : n[k] = raw[end + 1 + k]
    <3>1. end + 1 \in 1 .. Len(raw)
      BY <1>1, <2>2, <2>4
    <3>2. /\ After(raw, end + 1) \in Seq(Token)
          /\ Len(After(raw, end + 1)) = Len(raw) - (end + 1)
          /\ \A k \in 1 .. Len(raw) - (end + 1) : After(raw, end + 1)[k] = raw[end + 1 + k]
      BY <3>1, CutAt
    <3>3. QED BY <3>2
  <2>7. n \in Numerals(p)
    BY <2>2, <2>3, <2>6, NumeralIs
  <2>8. At(h, RBracket) = {}
    <3> SUFFICES ASSUME NEW k \in 1 .. Len(h) PROVE h[k] # RBracket
      BY DEF At
    <3>1. k + 1 \in 1 .. end - 1
      BY <2>4, <2>5
    <3>2. QED BY <1>2, <2>5, <3>1
  <2>9. raw = BracketedText(h, n)
    <3>1. PICK t \in Seq(Token) :
            /\ t = BracketedText(h, n) /\ Len(t) = Len(h) + 3 + Len(n)
            /\ t[1] = LBracket /\ t[Len(h) + 2] = RBracket /\ t[Len(h) + 3] = Colon
            /\ \A k \in 1 .. Len(h) : t[k + 1] = h[k]
            /\ \A k \in 1 .. Len(n) : t[Len(h) + 3 + k] = n[k]
      BY BracketedTextIs DEF IsBracketed
    <3>2. Len(t) = Len(raw)
      BY <1>1, <2>4, <2>5, <2>6, <3>1
    <3>3. ASSUME NEW k \in 1 .. Len(raw) PROVE raw[k] = t[k]
      <4>1. CASE k = 1
        BY <3>1, <4>1
      <4>2. CASE k \in 2 .. end - 1
        <5>1. k - 1 \in 1 .. Len(h) /\ k - 1 + 1 = k
          BY <2>4, <2>5, <4>2
        <5>2. h[k - 1] = raw[k] /\ t[k] = h[k - 1]
          BY <2>5, <3>1, <5>1
        <5>3. QED BY <5>2
      <4>3. CASE k = end \/ k = end + 1
        <5>1. Len(h) + 2 = end /\ Len(h) + 3 = end + 1
          BY <2>4, <2>5
        <5>2. QED BY <2>2, <2>4, <3>1, <4>3, <5>1
      <4>4. CASE k > end + 1
        <5>1. PICK j \in 1 .. Len(n) : k = end + 1 + j
          <6>1. k - (end + 1) \in 1 .. Len(n) /\ k = end + 1 + (k - (end + 1))
            BY <1>1, <2>4, <2>6, <4>4
          <6>2. QED BY <6>1
        <5>2. Len(h) + 3 + j = k /\ j \in 1 .. Len(raw) - (end + 1)
          BY <1>1, <2>4, <2>5, <2>6, <5>1
        <5>3. QED BY <2>6, <3>1, <5>1, <5>2
      <4>5. k = 1 \/ k \in 2 .. end - 1 \/ k = end \/ k = end + 1 \/ k > end + 1
        BY <1>1, <2>4
      <4>6. QED BY <4>1, <4>2, <4>3, <4>4, <4>5
    <3>4. t = raw
      BY <3>2, <3>3, SeqEqual
    <3>5. QED BY <3>1, <3>4
  <2>10. QED BY <2>7, <2>8, <2>9
<1>5. ASSUME At(h, RBracket) = {}, NEW n \in Numerals(p), raw = BracketedText(h, n)
      PROVE  SplitBracketed(raw) = HostPort(h, p)
  <2>1. n \in Seq(Token) /\ Len(n) \in {1, 2} /\ ParsePort(n) = p /\ Len(h) \in Nat
    BY NumeralParses, LenProperties
  <2>2. /\ Len(raw) = Len(h) + 3 + Len(n)
        /\ raw[1] = LBracket /\ raw[Len(h) + 2] = RBracket /\ raw[Len(h) + 3] = Colon
        /\ \A k \in 1 .. Len(h) : raw[k + 1] = h[k]
        /\ \A k \in 1 .. Len(n) : raw[Len(h) + 3 + k] = n[k]
    BY <1>5, <2>1, BracketedTextIs DEF IsBracketed
  <2>3. end = Len(h) + 2
    <3>1. \A k \in 1 .. Len(h) + 1 : raw[k] # RBracket
      <4> SUFFICES ASSUME NEW k \in 1 .. Len(h) + 1 PROVE raw[k] # RBracket
        OBVIOUS
      <4>1. CASE k = 1
        BY <1>3, <4>1
      <4>2. CASE k > 1
        <5>1. k - 1 \in 1 .. Len(h) /\ k - 1 + 1 = k
          BY <2>1, <4>2
        <5>2. raw[k] = h[k - 1] /\ h[k - 1] # RBracket
          BY <1>5, <2>2, <5>1 DEF At
        <5>3. QED BY <5>2
      <4>3. QED BY <2>1, <4>1, <4>2
    <3>2. ~(end < Len(h) + 2)
      <4>1. end < Len(h) + 2 => end \in 1 .. Len(h) + 1 /\ end # Len(raw) + 1
        BY <1>1, <1>2, <2>1, <2>2
      <4>2. QED BY <1>2, <3>1, <4>1 DEF At
    <3>3. ~(end > Len(h) + 2)
      <4>1. end > Len(h) + 2 => Len(h) + 2 \in 1 .. end - 1
        BY <1>1, <1>2, <2>1
      <4>2. QED BY <1>2, <2>2, <4>1
    <3>4. QED BY <1>1, <1>2, <2>1, <3>2, <3>3
  <2>4. end < Len(raw) /\ end + 1 = Len(h) + 3 /\ raw[end + 1] = Colon
    BY <2>1, <2>2, <2>3
  <2>5. SubSeq(raw, 2, end - 1) = h
    <3>1. 2 \in 1 .. Len(raw) + 1 /\ end - 1 \in 2 - 1 .. Len(raw)
      BY <1>1, <2>1, <2>3, <2>4
    <3>2. /\ SubSeq(raw, 2, end - 1) \in Seq(Token)
          /\ Len(SubSeq(raw, 2, end - 1)) = end - 1 - 2 + 1
          /\ \A k \in 1 .. end - 1 - 2 + 1 : SubSeq(raw, 2, end - 1)[k] = raw[2 + k - 1]
      BY <3>1, PartIs
    <3>3. end - 1 - 2 + 1 = Len(h) /\ \A k \in 1 .. Len(h) : 2 + k - 1 = k + 1
      BY <2>1, <2>3
    <3>4. PICK u \in Seq(Token) : u = SubSeq(raw, 2, end - 1)
      BY <3>2
    <3>5. Len(u) = Len(h) /\ \A k \in 1 .. Len(u) : u[k] = h[k]
      BY <2>2, <3>2, <3>3, <3>4
    <3>6. u = h
      BY <3>5, SeqEqual
    <3>7. QED BY <3>4, <3>6
  <2>6. After(raw, end + 1) = n
    <3>1. end + 1 \in 1 .. Len(raw) /\ Len(raw) - (end + 1) = Len(n)
      BY <1>1, <2>1, <2>2, <2>4
    <3>2. PICK u \in Seq(Token) :
            /\ u = After(raw, end + 1) /\ Len(u) = Len(raw) - (end + 1)
            /\ \A k \in 1 .. Len(raw) - (end + 1) : u[k] = raw[end + 1 + k]
      <4>1. /\ After(raw, end + 1) \in Seq(Token)
            /\ Len(After(raw, end + 1)) = Len(raw) - (end + 1)
            /\ \A k \in 1 .. Len(raw) - (end + 1) : After(raw, end + 1)[k] = raw[end + 1 + k]
        BY <3>1, CutAt
      <4>2. QED BY <4>1
    <3>3. Len(u) = Len(n) /\ \A k \in 1 .. Len(u) : u[k] = n[k]
      BY <2>2, <2>4, <3>1, <3>2
    <3>4. u = n
      BY <2>1, <3>3, SeqEqual
    <3>5. QED BY <3>2, <3>4
  <2>7. QED BY <1>3, <2>1, <2>4, <2>5, <2>6 DEF SplitBracketed, end
<1>6. QED BY <1>4, <1>5

LEMMA PlainIsExact ==
  ASSUME NEW raw \in Seq(Token), NEW h \in Seq(Token), NEW p \in Ports
  PROVE  SplitPlain(raw) = HostPort(h, p)
           <=> h # <<>> /\ \E n \in Numerals(p) : raw = (h \o <<Colon>>) \o n
<1> DEFINE colon == LastAt(raw, Colon)
           port == ParsePort(After(raw, colon))
<1>1. Len(raw) \in Nat /\ Len(h) \in Nat /\ (h # <<>> <=> Len(h) > 0)
  BY EmptySeq, LenProperties
<1>2. p # NoPort /\ p # Colon /\ Plus # Colon /\ Colon \in Token
  BY DEF Ports, NoPort, Colon, Plus, Token, V4, Comma
<1> HIDE DEF colon
<1>3. ASSUME SplitPlain(raw) = HostPort(h, p)
      PROVE  h # <<>> /\ \E n \in Numerals(p) : raw = (h \o <<Colon>>) \o n
  <2>1. HostPort(h, p) # BadTarget
    BY <1>2 DEF HostPort, BadTarget
  <2>2. /\ At(raw, Colon) # {} /\ colon > 1 /\ port # NoPort
        /\ SplitPlain(raw) = HostPort(Before(raw, colon), port)
    BY <1>3, <2>1 DEF SplitPlain, colon
  <2>3. h = Before(raw, colon) /\ p = port
    BY <1>3, <2>2 DEF HostPort
  <2>4. colon \in 1 .. Len(raw) /\ raw[colon] = Colon
    BY <2>2, LastIs DEF colon, At
  <2>5. PICK n \in Seq(Token) : n = After(raw, colon)
    BY <2>4, CutAt
  <2>6. n \in Numerals(p)
    BY <2>2, <2>3, <2>5, NumeralIs
  <2>7. /\ raw = (Before(raw, colon) \o <<raw[colon]>>) \o After(raw, colon)
        /\ Len(Before(raw, colon)) = colon - 1
    BY <2>4, CutAt
  <2>8. h # <<>>
    BY <1>1, <2>2, <2>3, <2>4, <2>7
  <2>9. QED BY <2>3, <2>4, <2>5, <2>6, <2>7, <2>8
<1>4. ASSUME h # <<>>, NEW n \in Numerals(p), raw = (h \o <<Colon>>) \o n
      PROVE  SplitPlain(raw) = HostPort(h, p)
  <2>1. /\ n \in Seq(Token) /\ Len(n) \in {1, 2} /\ ParsePort(n) = p
        /\ \A i \in 1 .. Len(n) : n[i] # Colon
    BY <1>2, NumeralParses
  <2>2. /\ Len(raw) = Len(h) + 1 + Len(n) /\ raw[Len(h) + 1] = Colon
        /\ \A k \in 1 .. Len(n) : raw[Len(h) + 1 + k] = n[k]
        /\ Before(raw, Len(h) + 1) = h /\ After(raw, Len(h) + 1) = n
    <3>1. IsCut(raw, h, Colon, n)
      BY <1>2, <1>4, <2>1, CutBack
    <3>2. QED BY <3>1 DEF IsCut
  <2>3. Len(h) + 1 \in At(raw, Colon)
    BY <1>1, <2>1, <2>2 DEF At
  <2>4. colon \in 1 .. Len(raw) /\ raw[colon] = Colon /\ Len(h) + 1 <= colon
    <3>1. colon \in At(raw, Colon) /\ \A k \in At(raw, Colon) : k <= colon
      BY <2>3, LastIs DEF colon
    <3>2. QED BY <2>3, <3>1 DEF At
  <2>5. ~(colon > Len(h) + 1)
    <3> SUFFICES ASSUME colon > Len(h) + 1 PROVE FALSE
      OBVIOUS
    <3>1. PICK k \in 1 .. Len(n) : colon = Len(h) + 1 + k
      <4>1. colon - (Len(h) + 1) \in 1 .. Len(n) /\ colon = Len(h) + 1 + (colon - (Len(h) + 1))
        BY <1>1, <2>1, <2>2, <2>4
      <4>2. QED BY <4>1
    <3>2. raw[colon] = n[k]
      BY <2>2, <3>1
    <3>3. QED BY <2>1, <2>4, <3>2
  <2>6. colon = Len(h) + 1 /\ colon > 1
    BY <1>1, <1>4, <2>4, <2>5
  <2>7. QED BY <1>2, <2>1, <2>2, <2>3, <2>6 DEF SplitPlain, colon
<1>5. QED BY <1>3, <1>4

\* split_host_port takes a text for a host and a port exactly when it is written
\* so: each text has at most one reading.
LEMMA SplitIsExact ==
  ASSUME NEW raw \in Seq(Token), NEW h \in Seq(Token), NEW p \in Ports
  PROVE  SplitHostPort(raw) = HostPort(h, p) <=> raw \in Written(h, p)
<1>1. raw # <<>> /\ raw[1] = LBracket =>
        (raw \in Written(h, p) <=> At(h, RBracket) = {} /\ raw \in Bracketed(h, p))
  <2> SUFFICES ASSUME raw[1] = LBracket, h # <<>>, h[1] # LBracket, raw \in Plain(h, p)
               PROVE  FALSE
    BY DEF Written
  <2>1. PICK n \in Numerals(p) : raw = (h \o <<Colon>>) \o n
    BY DEF Plain
  <2>2. 1 \in 1 .. Len(h) /\ n \in Seq(Token) /\ Colon \in Token
    BY EmptySeq, LenProperties, NumeralParses DEF Colon, Token, V4, Comma
  <2>3. raw[1] = h[1]
    BY <2>1, <2>2, CutBack DEF IsCut
  <2>4. QED BY <2>3
<1>2. ~(raw # <<>> /\ raw[1] = LBracket) =>
        (raw \in Written(h, p) <=> h # <<>> /\ raw \in Plain(h, p))
  <2>1. ASSUME raw \in Bracketed(h, p) PROVE raw # <<>> /\ raw[1] = LBracket
    <3>1. PICK n \in Numerals(p) : raw = BracketedText(h, n)
      BY <2>1 DEF Bracketed, BracketedText
    <3>2. n \in Seq(Token)
      BY NumeralParses
    <3>3. raw[1] = LBracket /\ Len(raw) = Len(h) + 3 + Len(n)
      BY <3>1, <3>2, BracketedTextIs DEF IsBracketed
    <3>4. QED BY <3>2, <3>3, LenProperties, EmptySeq
  <2>2. ASSUME h # <<>>, raw \in Plain(h, p), ~(raw # <<>> /\ raw[1] = LBracket)
        PROVE  h[1] # LBracket
    <3>1. PICK n \in Numerals(p) : raw = (h \o <<Colon>>) \o n
      BY <2>2 DEF Plain
    <3>2. 1 \in 1 .. Len(h) /\ n \in Seq(Token) /\ Colon \in Token /\ Len(n) \in Nat
      BY <2>2, EmptySeq, LenProperties, NumeralParses DEF Colon, Token, V4, Comma
    <3>3. raw[1] = h[1] /\ Len(raw) = Len(h) + 1 + Len(n)
      BY <3>1, <3>2, CutBack DEF IsCut
    <3>4. raw # <<>>
      BY <3>2, <3>3, LenProperties, EmptySeq
    <3>5. QED BY <2>2, <3>3, <3>4
  <2>3. QED BY <2>1, <2>2 DEF Written
<1>3. CASE raw # <<>> /\ raw[1] = LBracket
  <2>1. raw \in Bracketed(h, p) <=> \E n \in Numerals(p) : raw = BracketedText(h, n)
    BY DEF Bracketed, BracketedText
  <2>2. QED BY <1>1, <1>3, <2>1, BracketedIsExact DEF SplitHostPort
<1>4. CASE ~(raw # <<>> /\ raw[1] = LBracket)
  <2>1. raw \in Plain(h, p) <=> \E n \in Numerals(p) : raw = (h \o <<Colon>>) \o n
    BY DEF Plain
  <2>2. SplitHostPort(raw) = SplitPlain(raw)
    BY <1>4 DEF SplitHostPort
  <2>3. SplitPlain(raw) = HostPort(h, p) <=> h # <<>> /\ raw \in Plain(h, p)
    BY <2>1, PlainIsExact
  <2>4. QED BY <1>2, <1>4, <2>2, <2>3
<1>5. QED BY <1>3, <1>4

\* The literals of the standard library are written like any other target.
LEMMA LiteralIsWritten ==
  ASSUME NEW raw, IsLiteral(raw)
  PROVE  /\ raw \in Written(LiteralAddr(raw).host, LiteralAddr(raw).port)
         /\ LiteralAddr(raw) # NoTarget
<1> DEFINE a == LiteralAddr(raw)
<1>1. PICK n \in 0 .. MaxPort : raw \in Literals(n)
  BY DEF IsLiteral
<1>2. /\ n \in Token /\ <<n>> \in Seq(Token) /\ Len(<<n>>) = 1 /\ <<n>>[1] = n
      /\ <<n>> \in Numerals(n)
  <2>1. n \in Token
    BY <1>1, PortsAssumption DEF Token
  <2>2. QED BY <2>1 DEF Numerals
<1>3. V4 # LBracket /\ RBracket # Colon /\ V4 \in Token /\ Colon \in Token /\ RBracket \in Token
  BY DEF V4, LBracket, RBracket, Colon, Token, Comma
<1>4. CASE raw = <<V4, Colon, n>>
  <2>1. raw[1] = V4 /\ Len(raw) = 3 /\ raw[3] = n
    BY <1>4
  <2>2. a.host = <<V4>> /\ a.port = n
    BY <2>1 DEF LiteralAddr
  <2>3. raw = (<<V4>> \o <<Colon>>) \o <<n>>
    BY <1>4
  <2>4. <<V4>> # <<>> /\ <<V4>>[1] # LBracket
    BY <1>3
  <2>5. raw \in Plain(<<V4>>, n)
    BY <1>2, <2>3 DEF Plain
  <2>6. QED BY <2>2, <2>4, <2>5 DEF Written, LiteralAddr, NoTarget
<1>5. ASSUME NEW v \in V6, raw = <<LBracket>> \o v \o <<RBracket, Colon, n>>
      PROVE  /\ raw \in Written(a.host, a.port)
             /\ a # NoTarget
  <2>1. /\ v \in Seq(Token) /\ Len(v) \in {2, 3}
        /\ \A k \in 1 .. Len(v) : v[k] = Colon \/ v[k] \in 0 .. MaxPort
    <3>1. CASE v = <<Colon, Colon>>
      BY <1>3, <3>1
    <3>2. ASSUME NEW k \in 0 .. MaxPort, v = <<Colon, Colon, k>>
          PROVE  <2>1!1 /\ <2>1!2
      <4>1. k \in Token
        BY PortsAssumption DEF Token
      <4>2. QED BY <1>3, <3>2, <4>1
    <3>3. QED BY <3>1, <3>2 DEF V6
  <2>2. raw = BracketedText(v, <<n>>)
    <3>1. PICK l \in Seq(Token), r \in Seq(Token), m \in Seq(Token) :
            l = <<LBracket>> \o v /\ r = <<RBracket, Colon>> /\ m = <<n>>
      <4>1. <<LBracket>> \in Seq(Token) /\ <<RBracket, Colon>> \in Seq(Token)
        BY <1>3 DEF LBracket, Token, V4, Comma
      <4>2. <<LBracket>> \o v \in Seq(Token)
        BY <2>1, <4>1, Joined
      <4>3. QED BY <1>2, <4>1, <4>2
    <3>2. (l \o r) \o m = l \o (r \o m)
      BY ConcatAssociative
    <3>3. <<RBracket, Colon, n>> = <<RBracket, Colon>> \o <<n>>
      OBVIOUS
    <3>4. QED BY <1>5, <3>1, <3>2, <3>3 DEF BracketedText
  <2>3. /\ raw \in Seq(Token) /\ Len(raw) = Len(v) + 4 /\ raw[1] = LBracket
        /\ raw[Len(v) + 4] = n /\ \A k \in 1 .. Len(v) : raw[k + 1] = v[k]
    <3>1. PICK m \in Seq(Token) : m = <<n>> /\ Len(m) = 1 /\ m[1] = n
      BY <1>2
    <3>2. IsBracketed(raw, v, m)
      BY <2>1, <2>2, <3>1, BracketedTextIs
    <3>3. /\ raw \in Seq(Token) /\ Len(raw) = Len(v) + 3 + Len(m) /\ raw[1] = LBracket
          /\ \A k \in 1 .. Len(v) : raw[k + 1] = v[k]
          /\ \A k \in 1 .. Len(m) : raw[Len(v) + 3 + k] = m[k]
      BY <3>2 DEF IsBracketed
    <3>4. raw[Len(v) + 3 + 1] = m[1] /\ Len(v) + 3 + 1 = Len(v) + 4
      BY <2>1, <3>1, <3>3
    <3>5. QED BY <2>1, <3>1, <3>3, <3>4
  <2>4. a.host = v /\ a.port = n
    <3>1. a.host = SubSeq(raw, 2, Len(raw) - 3) /\ a.port = n
      BY <1>3, <2>1, <2>3 DEF LiteralAddr
    <3>2. Len(raw) - 3 = Len(v) + 1 /\ 2 \in 1 .. Len(raw) + 1 /\ Len(v) + 1 \in 2 - 1 .. Len(raw)
      BY <2>1, <2>3
    <3>3. /\ SubSeq(raw, 2, Len(v) + 1) \in Seq(Token)
          /\ Len(SubSeq(raw, 2, Len(v) + 1)) = Len(v) + 1 - 2 + 1
          /\ \A k \in 1 .. Len(v) + 1 - 2 + 1 : SubSeq(raw, 2, Len(v) + 1)[k] = raw[2 + k - 1]
      BY <2>3, <3>2, PartIs
    <3>4. Len(v) + 1 - 2 + 1 = Len(v) /\ \A k \in 1 .. Len(v) : 2 + k - 1 = k + 1
      BY <2>1
    <3>5. \A k \in 1 .. Len(v) : SubSeq(raw, 2, Len(v) + 1)[k] = v[k]
      BY <2>3, <3>3, <3>4
    <3>6. SubSeq(raw, 2, Len(v) + 1) = v
      BY <2>1, <3>3, <3>4, <3>5, SeqEqual
    <3>7. QED BY <3>1, <3>2, <3>6
  <2>5. At(v, RBracket) = {}
    BY <1>3, <2>1 DEF At, RBracket
  <2>6. raw \in Bracketed(v, n)
    BY <1>2, <2>2 DEF Bracketed, BracketedText
  <2>7. QED BY <2>4, <2>5, <2>6 DEF Written, LiteralAddr, NoTarget
<1>6. QED BY <1>1, <1>4, <1>5 DEF Literals

LEMMA SplitHasParts ==
  ASSUME NEW raw \in Seq(Token), SplitHostPort(raw) # BadTarget
  PROVE  \E h \in Seq(Token), p \in Ports : SplitHostPort(raw) = HostPort(h, p)
<1>1. CASE raw # <<>> /\ raw[1] = LBracket
  <2> DEFINE end == FirstAt(raw, RBracket, 1)
             port == ParsePort(After(raw, end + 1))
  <2>1. /\ end < Len(raw) /\ port # NoPort
        /\ SplitHostPort(raw) = HostPort(SubSeq(raw, 2, end - 1), port)
    BY <1>1 DEF SplitHostPort, SplitBracketed
  <2>2. port \in Ports
    BY <2>1, ParsedPort
  <2>3. Len(raw) \in Nat \ {0} /\ end \in 1 .. Len(raw) + 1
    <3>1. Len(raw) \in Nat \ {0}
      BY <1>1, EmptySeq
    <3>2. 1 \in 1 .. Len(raw) + 1
      BY <3>1
    <3>3. QED BY <3>1, <3>2, FirstIs
  <2> HIDE DEF end, port
  <2>4. SubSeq(raw, 2, end - 1) \in Seq(Token)
    <3>1. 2 \in Int /\ end - 1 \in Int /\ \A i \in 2 .. end - 1 : raw[i] \in Token
      BY <2>1, <2>3, ElementOfSeq
    <3>2. QED BY <3>1, SubSeqProperties
  <2>5. QED BY <2>1, <2>2, <2>4
<1>2. CASE ~(raw # <<>> /\ raw[1] = LBracket)
  <2> DEFINE colon == LastAt(raw, Colon)
             port == ParsePort(After(raw, colon))
  <2>1. /\ At(raw, Colon) # {} /\ port # NoPort
        /\ SplitHostPort(raw) = HostPort(Before(raw, colon), port)
    BY <1>2 DEF SplitHostPort, SplitPlain
  <2>2. port \in Ports
    BY <2>1, ParsedPort
  <2>3. colon \in 1 .. Len(raw)
    BY <2>1, LastIs DEF At
  <2>4. Before(raw, colon) \in Seq(Token)
    BY <2>3, CutAt
  <2>5. QED BY <2>1, <2>2, <2>4
<1>3. QED BY <1>1, <1>2

-----------------------------------------------------------------------------
\* A target is bound from the argument that is there, and an argument is refused
\* without a lookup only when it cannot be split.
TargetInv ==
  /\ stage \in {"ports", "badPorts", "bind", "target"} => target = NoTarget
  /\ stage = "target" => arg \in Seq(Token)
  /\ stage = "badTarget" /\ target = NoTarget => arg \in Seq(Token) /\ SplitHostPort(arg) = BadTarget
  /\ stage = "resolve" => target # NoTarget
  /\ target # NoTarget => arg \in Written(target.host, target.port)

LEMMA TargetInvIsEnough == TargetInv => TargetAsWritten
<1> SUFFICES ASSUME TargetInv, stage = "badTarget", target = NoTarget,
                    NEW i \in 1 .. Len(arg) + 1, NEW j \in 1 .. Len(arg) + 1, NEW port \in Ports,
                    arg \in Written(SubSeq(arg, i, j - 1), port)
             PROVE  FALSE
  BY DEF TargetInv, TargetAsWritten
<1>1. arg \in Seq(Token) /\ SplitHostPort(arg) = BadTarget
  BY DEF TargetInv
<1>2. SubSeq(arg, i, j - 1) \in Seq(Token)
  <2>1. i \in Int /\ j - 1 \in Int /\ \A k \in i .. j - 1 : arg[k] \in Token
    BY <1>1, ElementOfSeq, LenProperties
  <2>2. QED BY <2>1, SubSeqProperties
<1>3. BadTarget = HostPort(SubSeq(arg, i, j - 1), port)
  BY <1>1, <1>2, SplitIsExact
<1>4. QED BY <1>3 DEF BadTarget, HostPort, NoPort, Ports

LEMMA FromCliKeepsTarget == TargetInv /\ FromCli => TargetInv'
<1> SUFFICES ASSUME TargetInv, FromCli PROVE TargetInv'
  OBVIOUS
<1>1. CASE ReadSegment \/ RejectPorts \/ PortsDone \/ New
  BY <1>1 DEF TargetInv, ReadSegment, RejectPorts, PortsDone, New
<1>2. CASE TakeTarget
  BY <1>2, ConfigAssumption DEF TargetInv, TakeTarget
<1>3. CASE RejectTarget \/ Resolve
  BY <1>3 DEF TargetInv, RejectTarget, Resolve
<1>4. CASE BindStatic
  <2>1. target' = LiteralAddr(arg) /\ arg' = arg /\ stage' = "new" /\ IsLiteral(arg)
    BY <1>4 DEF BindStatic
  <2>2. QED BY <2>1, LiteralIsWritten DEF TargetInv
<1>5. CASE BindDynamic
  <2>1. /\ stage = "target" /\ SplitHostPort(arg) # BadTarget /\ arg' = arg /\ stage' = "resolve"
        /\ target' = [kind |-> "dynamic", host |-> SplitHostPort(arg).host,
                      port |-> SplitHostPort(arg).port]
    BY <1>5 DEF BindDynamic
  <2>2. arg \in Seq(Token)
    BY <2>1 DEF TargetInv
  <2>3. PICK h \in Seq(Token), p \in Ports : SplitHostPort(arg) = HostPort(h, p)
    BY <2>1, <2>2, SplitHasParts
  <2>4. target'.host = h /\ target'.port = p /\ target' # NoTarget
    BY <2>1, <2>3 DEF HostPort, NoTarget
  <2>5. arg \in Written(h, p)
    BY <2>2, <2>3, SplitIsExact
  <2>6. QED BY <2>1, <2>4, <2>5 DEF TargetInv
<1>6. QED BY <1>1, <1>2, <1>3, <1>4, <1>5 DEF FromCli

\* TargetAddr::bind: a target that is bound is the one --target writes down,
\* whatever its length and whichever parser took it apart, and a text that
\* writes one down is never refused by split_host_port.
THEOREM TargetIsAsWritten == ProcessSpec => []TargetAsWritten
<1>1. ProcessInit => TargetInv
  BY DEF ProcessInit, ConfigInit, TargetInv
<1>2. TargetInv /\ [ProcessNext]_processVars => TargetInv'
  <2> SUFFICES ASSUME TargetInv, [ProcessNext]_processVars PROVE TargetInv'
    OBVIOUS
  <2>1. CASE ReadCommandLine
    BY <2>1, FromCliKeepsTarget DEF ReadCommandLine
  <2>2. CASE ConfigReady
    BY <2>2 DEF ConfigReady, TargetInv
  <2>3. CASE ConfigRejected \/ LifeCycle \/ UNCHANGED processVars
    BY <2>3 DEF ConfigRejected, LifeCycle, processVars, configVars, TargetInv
  <2>4. QED BY <2>1, <2>2, <2>3 DEF ProcessNext
<1>3. QED BY <1>1, <1>2, TargetInvIsEnough, PTL DEF ProcessSpec

-----------------------------------------------------------------------------
\* The set is that of the segments before the position the loop has reached.
PortsInv ==
  /\ stage = "ports" =>
       /\ arg \in Seq(Token) /\ pos \in 1 .. Len(arg) + 2
       /\ pos = 1 \/ pos = Len(arg) + 2 \/ arg[pos - 1] = Comma
       /\ \A g \in Read(arg, pos) : Meaning(arg, g) # {}
       /\ ports = UNION {Meaning(arg, g) : g \in Read(arg, pos)}
  /\ stage = "badPorts" => \E g \in Segments(arg) : Meaning(arg, g) = {}

LEMMA PortsInvStarts == ConfigInit => PortsInv
<1> SUFFICES ASSUME ConfigInit PROVE PortsInv
  OBVIOUS
<1>1. stage = "ports" /\ arg \in Seq(Token) /\ pos = 1 /\ ports = {}
  BY ConfigAssumption DEF ConfigInit
<1>2. Len(arg) \in Nat
  BY <1>1, LenProperties
<1>3. Read(arg, pos) = {}
  <2> SUFFICES ASSUME NEW g \in Segments(arg), g[2] + 2 <= 1 PROVE FALSE
    BY <1>1 DEF Read
  <2>1. g[2] \in Nat
    BY <1>2 DEF Segments
  <2>2. QED BY <2>1
<1>4. QED BY <1>1, <1>2, <1>3 DEF PortsInv

LEMMA PortsInvIsEnough == PortsInv => PortsAsWritten
<1> SUFFICES ASSUME PortsInv, stage = "ports", PortsRead
             PROVE  /\ \A g \in Segments(arg) : Meaning(arg, g) # {}
                    /\ ports = UNION {Meaning(arg, g) : g \in Segments(arg)}
  BY DEF PortsInv, PortsAsWritten
<1>1. arg \in Seq(Token) /\ Len(arg) \in Nat /\ pos = Len(arg) + 2
  <2>1. arg \in Seq(Token) /\ Len(arg) \in Nat /\ pos \in 1 .. Len(arg) + 2
    BY LenProperties DEF PortsInv
  <2>2. QED BY <2>1 DEF PortsRead
<1>2. Read(arg, pos) = Segments(arg)
  <2>1. \A g \in Segments(arg) : g[2] \in 0 .. Len(arg)
    BY <1>1 DEF Segments
  <2>2. \A g \in Segments(arg) : g[2] + 2 <= pos
    BY <1>1, <2>1
  <2>3. QED BY <2>2 DEF Read
<1>3. QED BY <1>2 DEF PortsInv

LEMMA FromCliKeepsPorts == PortsInv /\ FromCli => PortsInv'
<1> SUFFICES ASSUME PortsInv, FromCli PROVE PortsInv'
  OBVIOUS
<1>1. ASSUME stage = "ports", ~PortsRead
      PROVE  /\ arg \in Seq(Token) /\ Len(arg) \in Nat
             /\ SegmentEnd \in Nat /\ SegmentEnd <= Len(arg)
             /\ SegmentEnd = Len(arg) \/ arg[SegmentEnd + 1] = Comma
             /\ <<pos, SegmentEnd>> \in Segments(arg)
             /\ Read(arg, SegmentEnd + 2) = Read(arg, pos) \cup {<<pos, SegmentEnd>>}
             /\ SegmentPorts(Segment) = Meaning(arg, <<pos, SegmentEnd>>)
  <2>1. /\ arg \in Seq(Token) /\ Len(arg) \in Nat /\ pos \in 1 .. Len(arg) + 2
        /\ pos = 1 \/ pos = Len(arg) + 2 \/ arg[pos - 1] = Comma
    BY <1>1, LenProperties DEF PortsInv
  <2>2. pos \in 1 .. Len(arg) + 1 /\ (pos = 1 \/ arg[pos - 1] = Comma)
    BY <1>1, <2>1 DEF PortsRead
  <2>3. PICK e : e = SegmentEnd /\ e = FirstAt(arg, Comma, pos) - 1
    BY DEF SegmentEnd
  <2>4. /\ e \in pos - 1 .. Len(arg) /\ (e = Len(arg) \/ arg[e + 1] = Comma)
        /\ <<pos, e>> \in Segments(arg)
        /\ Read(arg, e + 2) = Read(arg, pos) \cup {<<pos, e>>}
    BY <2>1, <2>2, <2>3, NextSegment
  <2>5. SegmentPorts(Trim(SubSeq(arg, pos, e))) = Meaning(arg, <<pos, e>>)
    BY <2>1, <2>2, <2>4, SegmentIs
  <2>6. e \in Nat /\ e <= Len(arg)
    BY <2>1, <2>2, <2>4
  <2>7. QED BY <2>1, <2>3, <2>4, <2>5, <2>6 DEF Segment
<1>2. CASE ReadSegment
  <2>1. /\ stage = "ports" /\ ~PortsRead /\ stage' = stage /\ arg' = arg
        /\ SegmentPorts(Segment) # {} /\ pos' = SegmentEnd + 2
        /\ ports' = ports \cup SegmentPorts(Segment)
    BY <1>2 DEF ReadSegment
  <2>2. PICK g, e : /\ e = SegmentEnd /\ g = <<pos, e>> /\ e \in Nat /\ e <= Len(arg)
                    /\ e = Len(arg) \/ arg[e + 1] = Comma
                    /\ Read(arg, e + 2) = Read(arg, pos) \cup {g}
                    /\ SegmentPorts(Segment) = Meaning(arg, g)
    BY <1>1, <2>1
  <2>3. arg \in Seq(Token) /\ Len(arg) \in Nat
    BY <1>1, <2>1
  <2>4. pos' \in 1 .. Len(arg) + 2 /\ (pos' = Len(arg) + 2 \/ arg[pos' - 1] = Comma)
    <3>1. pos' = e + 2 /\ pos' - 1 = e + 1
      BY <2>1, <2>2
    <3>2. QED BY <2>2, <2>3, <3>1
  <2>5. Read(arg, pos') = Read(arg, pos) \cup {g}
    BY <2>1, <2>2
  <2>6. \A h \in Read(arg, pos') : Meaning(arg, h) # {}
    BY <2>1, <2>2, <2>5 DEF PortsInv
  <2>7. ports' = UNION {Meaning(arg, h) : h \in Read(arg, pos')}
    <3>1. ports = UNION {Meaning(arg, h) : h \in Read(arg, pos)}
      BY <2>1 DEF PortsInv
    <3>2. ports' = ports \cup Meaning(arg, g)
      BY <2>1, <2>2
    <3>3. QED BY <2>5, <3>1, <3>2
  <2>8. QED BY <2>1, <2>3, <2>4, <2>6, <2>7 DEF PortsInv
<1>3. CASE RejectPorts
  <2>1. /\ stage = "ports" /\ ~PortsRead /\ SegmentPorts(Segment) = {}
        /\ stage' = "badPorts" /\ arg' = arg
    BY <1>3 DEF RejectPorts
  <2>2. <<pos, SegmentEnd>> \in Segments(arg) /\ Meaning(arg, <<pos, SegmentEnd>>) = {}
    BY <1>1, <2>1
  <2>3. QED BY <2>1, <2>2 DEF PortsInv
<1>4. CASE PortsDone \/ TakeTarget \/ RejectTarget \/ BindStatic \/ BindDynamic \/ Resolve \/ New
  BY <1>4 DEF PortsInv, PortsDone, TakeTarget, RejectTarget, BindStatic, BindDynamic, Resolve, New
<1>5. QED BY <1>2, <1>3, <1>4 DEF FromCli

\* parse_portset: the ports are those of the list, whatever its length and
\* whatever the largest port number is, and only what is no list is refused.
THEOREM PortsAreAsWritten == ProcessSpec => []PortsAsWritten
<1>1. ProcessInit => PortsInv
  BY PortsInvStarts DEF ProcessInit
<1>2. PortsInv /\ [ProcessNext]_processVars => PortsInv'
  <2> SUFFICES ASSUME PortsInv, [ProcessNext]_processVars PROVE PortsInv'
    OBVIOUS
  <2>1. CASE ReadCommandLine
    BY <2>1, FromCliKeepsPorts DEF ReadCommandLine
  <2>2. CASE ConfigReady
    BY <2>2 DEF ConfigReady, PortsInv
  <2>3. CASE ConfigRejected \/ LifeCycle \/ UNCHANGED processVars
    BY <2>3 DEF ConfigRejected, LifeCycle, processVars, configVars, PortsInv
  <2>4. QED BY <2>1, <2>2, <2>3 DEF ProcessNext
<1>3. QED BY <1>1, <1>2, PortsInvIsEnough, PTL DEF ProcessSpec
=============================================================================
