-------------------------- MODULE UdpSessionProofs --------------------------
(***************************************************************************)
(* Proofs of the safety properties of UdpSession, for every value of its   *)
(* constants.                                                              *)
(***************************************************************************)
EXTENDS UdpSession, FiniteSetTheorems, TLAPS

(***************************************************************************)
(* Typing.                                                                 *)
(***************************************************************************)

LEMMA TypingInit == Init => TypeOK
<1> SUFFICES ASSUME Init PROVE TypeOK
  OBVIOUS
<1> USE ConstantsAssumption DEF Init, Ids, NoSession
<1>1. EnvTypes
  <2>1. now \in 0 .. MaxNow
    OBVIOUS
  <2> QED BY <2>1 DEF EnvTypes
<1>2. TableTypes /\ flows \in Nat
  BY DEF TableTypes
<1>3. ObjectTypes /\ ReplyTypes
  BY DEF ObjectTypes, ReplyTypes, ReplyPoints
<1>4. ListenerTypes
  <2>1. <<>> \in Seq(Sources)
    OBVIOUS
  <2> QED BY <2>1 DEF ListenerTypes, ListenerPoints
<1>5. CleanupTypes
  BY DEF CleanupTypes, CleanupPoints
<1> QED BY <1>1, <1>2, <1>3, <1>4, <1>5 DEF TypeOK

\* The second of a tick is no later than the tick.
LEMMA EpochTypes == ASSUME NEW t \in Nat PROVE Epoch(t) \in 0 .. t
<1>1. t \div TicksPerSecond \in Nat /\ t \div TicksPerSecond <= t
  BY ConstantsAssumption, SMTT(30)
<1> QED BY <1>1 DEF Epoch

LEMMA TailOfBatch ==
  ASSUME NEW S, NEW q \in Seq(S), q # <<>>
  PROVE  Tail(q) \in Seq(S) /\ Head(q) \in S
OBVIOUS

\* What remove_session leaves behind is still well typed.
LEMMA RetireTypes ==
  ASSUME ObjectTypes, flows \in Nat, NEW s \in Ids, Retire(s), UNCHANGED <<owner, lastActive>>
  PROVE  ObjectTypes' /\ flows' \in Nat
BY DEF Retire, ObjectTypes, SaturatingSub

LEMMA RemoveIfTypes ==
  ASSUME TableTypes, NEW c \in Sources, NEW id, RemoveIf(c, id)
  PROVE  sessions' \in [Sources -> Ids \cup {NoSession}]
BY DEF RemoveIf, TableTypes

LEMMA TouchTypes ==
  ASSUME EnvTypes, ObjectTypes, NEW s \in Ids, Touch(s)
  PROVE  lastActive' \in [Ids -> 0 .. MaxNow]
BY DEF Touch, ObjectTypes, EnvTypes

LEMMA NextDatagramTypes ==
  ASSUME ListenerTypes, batch # <<>>, NextDatagram, UNCHANGED todo
  PROVE  ListenerTypes'
<1>1. Tail(batch) \in Seq(Sources)
  BY TailOfBatch DEF ListenerTypes
<1> QED BY <1>1 DEF ListenerTypes, ListenerPoints, NextDatagram

LEMMA NextReplyTypes ==
  ASSUME ReplyTypes, InboxInv, NEW s \in Ids, rpc[s] = "deliver", NextReply(s)
  PROVE  ReplyTypes'
<1>1. inbox[s] \in 0 .. SessionBatch /\ inbox[s] > 0
  BY DEF ReplyTypes, InboxInv
<1>2. inbox[s] - 1 \in 0 .. SessionBatch
  BY <1>1, ConstantsAssumption
<1> QED BY <1>2 DEF ReplyTypes, ReplyPoints, NextReply

LEMMA TypingStep == TypeOK /\ PointsInv /\ InboxInv /\ [Next]_vars => TypeOK'
<1> SUFFICES ASSUME TypeOK, PointsInv, InboxInv, [Next]_vars PROVE TypeOK'
  OBVIOUS
<1> USE DEF TypeOK
<1>t. /\ UNCHANGED envVars => EnvTypes'
      /\ UNCHANGED tableVars => TableTypes'
      /\ UNCHANGED objectVars => ObjectTypes'
      /\ UNCHANGED listenerVars => ListenerTypes'
      /\ UNCHANGED cleanupVars => CleanupTypes'
      /\ UNCHANGED replyVars => ReplyTypes'
      /\ UNCHANGED flows => flows' \in Nat
  BY DEF EnvTypes, TableTypes, ObjectTypes, ListenerTypes, CleanupTypes, ReplyTypes,
         envVars, tableVars, objectVars, listenerVars, cleanupVars, replyVars
<1>1. CASE UNCHANGED vars
  BY <1>t, <1>1 DEF vars
<1>2. CASE ListenerRecv
  <2>1. PICK n \in 1 .. ListenerBatch : batch' \in [1 .. n -> Sources]
    BY <1>2 DEF ListenerRecv
  <2>2. batch' \in Seq(Sources)
    BY <2>1, ConstantsAssumption
  <2>3. ListenerTypes'
    BY <1>2, <2>2 DEF ListenerRecv, ListenerTypes, ListenerPoints
  <2> QED BY <1>t, <1>2, <2>3 DEF ListenerRecv
<1>3. CASE GetOrCreate
  <2> USE <1>3 DEF GetOrCreate
  <2>1. Client \in Sources
    BY TailOfBatch DEF PointsInv, ListenerTypes, LookupHit, TouchFound, LookupMiss, Connect, ConnectFail,
                       Insert, RecordOpen, SpawnReply, Client
  <2>2. CASE LookupHit
    <3>1. ListenerTypes'
      BY <2>1, <2>2 DEF LookupHit, TableTypes, ListenerTypes, ListenerPoints
    <3> QED BY <1>t, <2>2, <3>1 DEF LookupHit
  <2>3. CASE TouchFound
    <3>1. lastActive' \in [Ids -> 0 .. MaxNow]
      BY <2>3, TouchTypes DEF TouchFound, PointsInv
    <3>2. ListenerTypes'
      BY <2>3 DEF TouchFound, ListenerTypes, ListenerPoints
    <3>3. ObjectTypes'
      BY <2>3, <3>1 DEF TouchFound, ObjectTypes
    <3> QED BY <1>t, <2>3, <3>2, <3>3 DEF TouchFound
  <2>4. CASE LookupMiss
    <3>1. ListenerTypes'
      BY <2>4 DEF LookupMiss, ListenerTypes, ListenerPoints
    <3> QED BY <1>t, <2>4, <3>1 DEF LookupMiss
  <2>5. CASE Connect
    <3>1. nextId \in Ids
      BY <2>5, ConstantsAssumption DEF Connect, TableTypes, Ids
    <3>2. lastActive' \in [Ids -> 0 .. MaxNow]
      BY <2>5, <3>1, TouchTypes DEF Connect
    <3>3. ObjectTypes'
      BY <2>1, <2>5, <3>1, <3>2 DEF Connect, ObjectTypes
    <3>4. TableTypes'
      BY <2>5, <3>1, ConstantsAssumption DEF Connect, TableTypes, Ids
    <3>5. ListenerTypes'
      BY <2>5, <3>1 DEF Connect, ListenerTypes, ListenerPoints
    <3> QED BY <1>t, <2>5, <3>3, <3>4, <3>5 DEF Connect
  <2>6. CASE ConnectFail
    <3>1. ListenerTypes'
      BY <2>6, NextDatagramTypes DEF ConnectFail, PointsInv
    <3> QED BY <1>t, <2>6, <3>1 DEF ConnectFail
  <2>7. CASE Insert
    <3>1. cur \in Ids
      BY <2>7 DEF Insert, PointsInv
    <3>2. CASE sessions[Client] = NoSession
      <4>1. TableTypes'
        BY <2>1, <2>7, <3>1, <3>2 DEF Insert, TableTypes
      <4>2. ListenerTypes'
        BY <2>7, <3>2 DEF Insert, ListenerTypes, ListenerPoints
      <4>3. ObjectTypes'
        BY <2>7, <3>2 DEF Insert, ObjectTypes
      <4> QED BY <1>t, <2>7, <4>1, <4>2, <4>3 DEF Insert
    <3>3. CASE sessions[Client] # NoSession
      <4>1. sessions[Client] \in Ids
        BY <2>1, <3>3 DEF TableTypes
      <4>2. lastActive' \in [Ids -> 0 .. MaxNow]
        BY <2>7, <3>3, <4>1, TouchTypes DEF Insert
      <4>3. TableTypes' /\ ObjectTypes'
        BY <2>7, <3>3, <4>2 DEF Insert, TableTypes, ObjectTypes
      <4>4. ListenerTypes'
        BY <2>7, <3>3, <4>1 DEF Insert, ListenerTypes, ListenerPoints
      <4> QED BY <1>t, <2>7, <4>3, <4>4 DEF Insert
    <3> QED BY <3>2, <3>3
  <2>8. CASE RecordOpen
    <3>1. ListenerTypes' /\ flows' \in Nat
      BY <2>8 DEF RecordOpen, ListenerTypes, ListenerPoints
    <3> QED BY <1>t, <2>8, <3>1 DEF RecordOpen
  <2>9. CASE SpawnReply
    <3>1. ListenerTypes'
      BY <2>9 DEF SpawnReply, ListenerTypes, ListenerPoints
    <3>2. ReplyTypes'
      BY <2>9 DEF SpawnReply, PointsInv, ReplyTypes, ReplyPoints
    <3> QED BY <1>t, <2>9, <3>1, <3>2 DEF SpawnReply
  <2> QED BY <2>2, <2>3, <2>4, <2>5, <2>6, <2>7, <2>8, <2>9
<1>4. CASE ForwardClientPacket
  <2>1. CASE SendOk
    <3>1. ListenerTypes'
      BY <2>1 DEF SendOk, ListenerTypes, ListenerPoints
    <3> QED BY <1>t, <2>1, <3>1 DEF SendOk
  <2>2. CASE SendErr
    <3>1. ListenerTypes'
      BY <2>2, NextDatagramTypes DEF SendErr, PointsInv
    <3> QED BY <1>t, <2>2, <3>1 DEF SendErr
  <2>3. CASE TouchSent
    <3>1. ListenerTypes'
      BY <2>3, NextDatagramTypes DEF TouchSent, PointsInv
    <3>2. lastActive' \in [Ids -> 0 .. MaxNow]
      BY <2>3, TouchTypes DEF TouchSent, PointsInv
    <3>3. ObjectTypes'
      BY <2>3, <3>2 DEF TouchSent, ObjectTypes
    <3> QED BY <1>t, <2>3, <3>1, <3>3 DEF TouchSent
  <2> QED BY <1>4, <2>1, <2>2, <2>3 DEF ForwardClientPacket
<1>5. CASE ListenerShutdown
  <2>1. ListenerTypes'
    BY <1>5 DEF ListenerShutdown, Entries, ListenerTypes, ListenerPoints, TableTypes
  <2> QED BY <1>t, <1>5, <2>1 DEF ListenerShutdown
<1>6. CASE Drain
  <2>1. ASSUME NEW e \in todo, DrainRemove(e[1], e[2]) PROVE TypeOK'
    <3>1. e[1] \in Sources /\ e[2] \in Ids
      BY DEF ListenerTypes
    <3>2. TableTypes'
      BY <2>1, <3>1, RemoveIfTypes DEF DrainRemove, TableTypes
    <3>3. ListenerTypes'
      BY <2>1, <3>1 DEF DrainRemove, ListenerTypes, ListenerPoints, TableTypes
    <3> QED BY <1>t, <2>1, <3>2, <3>3 DEF DrainRemove
  <2>2. CASE DrainRetire
    <3>1. ObjectTypes' /\ flows' \in Nat
      BY <2>2, RetireTypes DEF DrainRetire, PointsInv
    <3>2. ListenerTypes'
      BY <2>2 DEF DrainRetire, ListenerTypes, ListenerPoints
    <3> QED BY <1>t, <2>2, <3>1, <3>2 DEF DrainRetire
  <2>3. CASE DrainDone \/ JoinCleanup \/ JoinSender
    <3>1. ListenerTypes'
      BY <2>3 DEF DrainDone, JoinCleanup, JoinSender, ListenerTypes, ListenerPoints
    <3> QED BY <1>t, <2>3, <3>1 DEF DrainDone, JoinCleanup, JoinSender
  <2> QED BY <1>6, <2>1, <2>2, <2>3 DEF Drain
<1>7. CASE Cleanup
  <2>1. CASE CleanupTick
    <3>1. cnow' \in 0 .. MaxNow
      <4>1. now \in Nat /\ now <= MaxNow /\ MaxNow \in Nat /\ cnow' = Epoch(now)
        BY <2>1, ConstantsAssumption DEF CleanupTick, EnvTypes
      <4>2. Epoch(now) \in 0 .. now
        BY <4>1, EpochTypes
      <4> QED BY <4>1, <4>2
    <3>2. CleanupTypes'
      BY <2>1, <3>1 DEF CleanupTick, CleanupTypes, CleanupPoints
    <3> QED BY <1>t, <2>1, <3>2 DEF CleanupTick
  <2>5. CASE ListIdle
    <3>1. stale' \subseteq Entries /\ cpc' = "sweep" /\ cnow' = 0 /\ ccur' = ccur
      BY <2>5 DEF ListIdle
    <3>2. CleanupTypes'
      BY <3>1, ConstantsAssumption DEF Entries, CleanupTypes, CleanupPoints, TableTypes
    <3> QED BY <1>t, <2>5, <3>2 DEF ListIdle
  <2>2. ASSUME NEW e \in stale, SweepRemove(e[1], e[2]) PROVE TypeOK'
    <3>1. e[1] \in Sources /\ e[2] \in Ids
      BY DEF CleanupTypes
    <3>2. TableTypes'
      BY <2>2, <3>1, RemoveIfTypes DEF SweepRemove, TableTypes
    <3>3. CleanupTypes'
      BY <2>2, <3>1 DEF SweepRemove, CleanupTypes, CleanupPoints, TableTypes
    <3> QED BY <1>t, <2>2, <3>2, <3>3 DEF SweepRemove
  <2>3. CASE SweepRetire
    <3>1. ObjectTypes' /\ flows' \in Nat
      BY <2>3, RetireTypes DEF SweepRetire, PointsInv
    <3>2. CleanupTypes'
      BY <2>3 DEF SweepRetire, CleanupTypes, CleanupPoints
    <3> QED BY <1>t, <2>3, <3>1, <3>2 DEF SweepRetire
  <2>4. CASE SweepDone
    <3>1. CleanupTypes'
      BY <2>4 DEF SweepDone, CleanupTypes, CleanupPoints
    <3> QED BY <1>t, <2>4, <3>1 DEF SweepDone
  <2> QED BY <1>7, <2>1, <2>2, <2>3, <2>4, <2>5 DEF Cleanup
<1>8. CASE CleanupShutdown
  <2>1. CleanupTypes'
    BY <1>8 DEF CleanupShutdown, CleanupTypes, CleanupPoints
  <2> QED BY <1>t, <1>8, <2>1 DEF CleanupShutdown
<1>9. ASSUME NEW s \in Ids,
             \/ ReplyRecv(s) \/ Deliver(s) \/ ReplyFail(s)
             \/ ReplyShutdown(s) \/ ReplyCancelled(s) \/ ReplyExit(s)
      PROVE TypeOK'
  <2>1. CASE ReplyRecv(s)
    <3>1. PICK n \in 1 .. SessionBatch : inbox' = [inbox EXCEPT ![s] = n]
      BY <2>1 DEF ReplyRecv
    <3>2. ReplyTypes'
      BY <2>1, <3>1 DEF ReplyRecv, ReplyTypes, ReplyPoints
    <3> QED BY <1>t, <2>1, <3>2 DEF ReplyRecv
  <2>2. CASE ReplyQueued(s)
    <3>1. ReplyTypes'
      BY <2>2, NextReplyTypes DEF ReplyQueued
    <3>2. lastActive' \in [Ids -> 0 .. MaxNow]
      BY <2>2, TouchTypes DEF ReplyQueued
    <3>3. ObjectTypes'
      BY <2>2, <3>2 DEF ReplyQueued, ObjectTypes
    <3> QED BY <1>t, <2>2, <3>1, <3>3 DEF ReplyQueued
  <2>3. CASE ReplyDropped(s)
    <3>1. ReplyTypes'
      BY <2>3, NextReplyTypes DEF ReplyDropped
    <3> QED BY <1>t, <2>3, <3>1 DEF ReplyDropped
  <2>4. CASE ReplyEnd(s)
    <3>1. ReplyTypes'
      BY <2>4, ConstantsAssumption DEF ReplyEnd, ReplyTypes, ReplyPoints
    <3> QED BY <1>t, <2>4, <3>1 DEF ReplyEnd
  <2>5. CASE ReplyRemove(s)
    <3>1. ReplyTypes'
      BY <2>5 DEF ReplyRemove, ReplyTypes, ReplyPoints
    <3>2. TableTypes'
      BY <2>5 DEF ReplyRemove, RemoveIf, Matches, TableTypes
    <3> QED BY <1>t, <2>5, <3>1, <3>2 DEF ReplyRemove
  <2>6. CASE ReplyRetire(s)
    <3>1. ReplyTypes'
      BY <2>6 DEF ReplyRetire, ReplyTypes, ReplyPoints
    <3>2. ObjectTypes' /\ flows' \in Nat
      BY <2>6, RetireTypes DEF ReplyRetire
    <3> QED BY <1>t, <2>6, <3>1, <3>2 DEF ReplyRetire
  <2> QED
    BY <1>9, <2>1, <2>2, <2>3, <2>4, <2>5, <2>6
       DEF Deliver, ReplyExit, ReplyClosed, ReplyFail, ReplyShutdown, ReplyCancelled
<1>10. CASE ClockMoves \/ Shutdown \/ SenderExit
  <2>1. now' \in 0 .. MaxNow
    BY <1>10, ConstantsAssumption DEF ClockMoves, Shutdown, SenderExit, EnvTypes
  <2>2. shutdown' \in BOOLEAN /\ senderGone' \in BOOLEAN
    BY <1>10 DEF ClockMoves, Shutdown, SenderExit, EnvTypes
  <2>3. EnvTypes'
    BY <2>1, <2>2 DEF EnvTypes
  <2> QED BY <1>t, <1>10, <2>3 DEF ClockMoves, Shutdown, SenderExit
<1>11. CASE Terminated
  BY <1>t, <1>11 DEF Terminated, vars
<1> QED
  BY <1>1, <1>2, <1>3, <1>4, <1>5, <1>6, <1>7, <1>8, <1>9, <1>10, <1>11 DEF Next

(***************************************************************************)
(* The table invariant, one lemma per part.                                *)
(***************************************************************************)

\* The types the table invariant needs.
Types ==
  /\ sessions \in [Sources -> Ids \cup {NoSession}] /\ nextId \in Nat
  /\ rpc \in [Ids -> ReplyPoints]
  /\ cancelled \in [Ids -> BOOLEAN] /\ closed \in [Ids -> BOOLEAN]
  /\ owner \in [Ids -> Sources \cup {NoSource}]
  /\ cur \in Ids \cup {NoSession} /\ ccur \in Ids \cup {NoSession}
  /\ todo \subseteq Sources \X Ids /\ stale \subseteq Sources \X Ids
  /\ \A s \in Ids : s \in Nat /\ s # NoSession

LEMMA TypeOKTypes == TypeOK => Types
BY ConstantsAssumption
   DEF TypeOK, Types, TableTypes, ObjectTypes, ListenerTypes, CleanupTypes, ReplyTypes, Ids, NoSession

\* An entry's id was handed out.
LEMMA EntryKnown ==
  ASSUME Types, EntryInv, NEW c \in Sources, sessions[c] # NoSession
  PROVE  sessions[c] \in Ids /\ sessions[c] < nextId
BY DEF Types, EntryInv, Live

LEMMA ClientInSources ==
  ASSUME TypeOK, PointsInv, lpc \in {"lookup", "touch", "connect", "insert", "open", "spawn", "send", "sent"}
  PROVE  Client \in Sources
BY TailOfBatch DEF TypeOK, ListenerTypes, PointsInv, Client

LEMMA PointsStep == TypeOK /\ TableInv /\ [Next]_vars => PointsInv'
<1> SUFFICES ASSUME TypeOK, TableInv, [Next]_vars PROVE PointsInv'
  OBVIOUS
<1> USE TypeOKTypes DEF TableInv
<1>f. UNCHANGED <<listenerVars, cleanupVars, nextId>> => PointsInv'
  BY DEF PointsInv, listenerVars, cleanupVars
<1>1. CASE UNCHANGED vars
  BY <1>f, <1>1 DEF vars, tableVars
<1>2. CASE ListenerRecv
  <2>1. PICK n \in 1 .. ListenerBatch : batch' \in [1 .. n -> Sources]
    BY <1>2 DEF ListenerRecv
  <2>2. batch' # <<>>
    BY <2>1, ConstantsAssumption
  <2> QED BY <1>2, <2>2 DEF ListenerRecv, PointsInv, tableVars, cleanupVars
<1>3. CASE LookupHit
  <2>1. cur' \in Ids /\ cur' < nextId
    BY <1>3, ClientInSources, EntryKnown DEF LookupHit
  <2> QED BY <1>3, <2>1 DEF LookupHit, PointsInv, tableVars, cleanupVars
<1>4. CASE LookupMiss \/ TouchFound
  BY <1>4 DEF LookupMiss, TouchFound, PointsInv, tableVars, cleanupVars
<1>5. CASE Connect
  BY <1>5, ConstantsAssumption DEF Connect, PointsInv, Types, cleanupVars, Ids, TypeOK, TableTypes
<1>6. CASE ConnectFail \/ SendErr \/ TouchSent
  BY <1>6 DEF ConnectFail, SendErr, TouchSent, NextDatagram, PointsInv, tableVars, cleanupVars
<1>7. CASE Insert
  <2>1. Client \in Sources
    BY <1>7, ClientInSources DEF Insert
  <2>2. sessions[Client] # NoSession => sessions[Client] \in Ids /\ sessions[Client] < nextId
    BY <2>1, EntryKnown
  <2> QED BY <1>7, <2>2 DEF Insert, PointsInv, cleanupVars
<1>8. CASE RecordOpen \/ SpawnReply \/ SendOk
  BY <1>8 DEF RecordOpen, SpawnReply, SendOk, PointsInv, tableVars, cleanupVars
<1>9. CASE ListenerShutdown \/ DrainRetire \/ DrainDone \/ JoinCleanup \/ JoinSender
  BY <1>9 DEF ListenerShutdown, DrainRetire, DrainDone, JoinCleanup, JoinSender, PointsInv, tableVars, cleanupVars
<1>10. ASSUME NEW e \in todo, DrainRemove(e[1], e[2]) PROVE PointsInv'
  <2>1. e[1] \in Sources /\ e[2] \in Ids
    BY DEF Types
  <2>2. Matches(e[1], e[2]) => cur' \in Ids /\ cur' < nextId
    BY <1>10, <2>1, EntryKnown DEF DrainRemove, Matches, Types
  <2> QED BY <1>10, <2>2 DEF DrainRemove, PointsInv, cleanupVars
<1>11. CASE CleanupTick \/ ListIdle \/ SweepRetire \/ SweepDone \/ CleanupShutdown
  BY <1>11 DEF CleanupTick, ListIdle, SweepRetire, SweepDone, CleanupShutdown, PointsInv, tableVars, listenerVars
<1>12. ASSUME NEW e \in stale, SweepRemove(e[1], e[2]) PROVE PointsInv'
  <2>1. e[1] \in Sources /\ e[2] \in Ids
    BY DEF Types
  <2>2. Matches(e[1], e[2]) => ccur' \in Ids /\ ccur' < nextId
    BY <1>12, <2>1, EntryKnown DEF SweepRemove, Matches, Types
  <2> QED BY <1>12, <2>2 DEF SweepRemove, PointsInv, listenerVars
<1>13. ASSUME NEW s \in Ids,
              \/ ReplyRecv(s) \/ Deliver(s) \/ ReplyFail(s)
              \/ ReplyShutdown(s) \/ ReplyCancelled(s) \/ ReplyExit(s)
       PROVE  PointsInv'
  BY <1>f, <1>13
     DEF ReplyRecv, Deliver, ReplyQueued, ReplyDropped, ReplyClosed, ReplyFail, ReplyShutdown,
         ReplyCancelled, ReplyExit, ReplyRemove, ReplyRetire, ReplyEnd, tableVars
<1>14. CASE ClockMoves \/ Shutdown \/ SenderExit \/ Terminated
  BY <1>f, <1>14 DEF ClockMoves, Shutdown, SenderExit, Terminated, vars, tableVars
<1> QED
  BY <1>1, <1>2, <1>3, <1>4, <1>5, <1>6, <1>7, <1>8, <1>9, <1>10, <1>11, <1>12, <1>13, <1>14
     DEF Next, GetOrCreate, ForwardClientPacket, Drain, Cleanup

LEMMA InboxStep == TypeOK /\ TableInv /\ InboxInv /\ [Next]_vars => InboxInv'
<1> SUFFICES ASSUME TypeOK, TableInv, InboxInv, [Next]_vars PROVE InboxInv'
  OBVIOUS
<1>t. rpc \in [Ids -> ReplyPoints] /\ inbox \in [Ids -> 0 .. SessionBatch]
  BY DEF TypeOK, ReplyTypes
<1>f. UNCHANGED replyVars => InboxInv'
  BY DEF InboxInv, replyVars
<1>1. CASE SpawnReply
  BY <1>t, <1>1 DEF SpawnReply, InboxInv, TableInv, PointsInv
<1>2. ASSUME NEW s \in Ids, ReplyRecv(s) PROVE InboxInv'
  <2>1. PICK n \in 1 .. SessionBatch : inbox' = [inbox EXCEPT ![s] = n]
    BY <1>2 DEF ReplyRecv
  <2> QED BY <1>t, <1>2, <2>1, ConstantsAssumption DEF ReplyRecv, InboxInv
<1>3. ASSUME NEW s \in Ids, ReplyQueued(s) \/ ReplyDropped(s) PROVE InboxInv'
  <2>1. rpc[s] = "deliver" /\ NextReply(s)
    BY <1>3 DEF ReplyQueued, ReplyDropped
  <2>2. inbox[s] \in Nat /\ inbox[s] > 0
    BY <1>t, <2>1 DEF InboxInv
  <2>3. ASSUME NEW t \in Ids, rpc'[t] = "deliver" PROVE inbox'[t] > 0
    BY <1>t, <2>1, <2>2, <2>3 DEF NextReply, InboxInv
  <2> QED BY <2>3 DEF InboxInv
<1>4. ASSUME NEW s \in Ids, ReplyEnd(s) PROVE InboxInv'
  BY <1>t, <1>4 DEF ReplyEnd, InboxInv
<1>5. ASSUME NEW s \in Ids, ReplyExit(s) PROVE InboxInv'
  BY <1>t, <1>5 DEF ReplyExit, ReplyRemove, ReplyRetire, InboxInv
<1>6. CASE ListenerRecv \/ LookupHit \/ LookupMiss \/ TouchFound \/ Connect \/ ConnectFail \/ Insert
           \/ RecordOpen \/ ForwardClientPacket \/ ListenerShutdown \/ Drain
  BY <1>f, <1>6
     DEF ListenerRecv, LookupHit, LookupMiss, TouchFound, Connect, ConnectFail, Insert, RecordOpen,
         ForwardClientPacket, SendOk, SendErr, TouchSent, ListenerShutdown, Drain, DrainRemove,
         DrainRetire, DrainDone, JoinCleanup, JoinSender
<1>7. CASE Cleanup \/ CleanupShutdown
  BY <1>f, <1>7 DEF Cleanup, CleanupTick, ListIdle, SweepRemove, SweepRetire, SweepDone, CleanupShutdown
<1>8. CASE ClockMoves \/ Shutdown \/ SenderExit \/ Terminated \/ UNCHANGED vars
  BY <1>f, <1>8 DEF ClockMoves, Shutdown, SenderExit, Terminated, vars
<1> QED
  BY <1>1, <1>2, <1>3, <1>4, <1>5, <1>6, <1>7, <1>8
     DEF Next, GetOrCreate, Deliver, ReplyClosed, ReplyFail, ReplyShutdown, ReplyCancelled

\* What remove_session's lock-protected step does to the table.
LEMMA RemoveIfEffect ==
  ASSUME Types, NEW c \in Sources, NEW id \in Ids, RemoveIf(c, id)
  PROVE  /\ \A d \in Sources : sessions'[d] = sessions[d] \/ sessions'[d] = NoSession
         /\ sessions'[c] # id
         /\ \A d \in Sources : d # c => sessions'[d] = sessions[d]
         /\ ~Matches(c, id) => sessions' = sessions
BY DEF RemoveIf, Matches, Types

\* A table that only loses entries gains no session.
LEMMA ShrinkingTable ==
  ASSUME NEW s \in Ids, ~InTable(s), Types,
         \A d \in Sources : sessions'[d] = sessions[d] \/ sessions'[d] = NoSession
  PROVE  ~InTable(s)'
BY DEF InTable, Types

\* Every step either leaves the table and the ids alone, or removes one
\* entry, or hands out an id, or inserts the session under construction.
LEMMA TableSteps ==
  ASSUME TypeOK, TableInv, [Next]_vars
  PROVE  \/ UNCHANGED tableVars
         \/ Connect
         \/ lpc = "insert" /\ Insert /\ sessions[Client] = NoSession
         \/ /\ nextId' = nextId
            /\ \A d \in Sources : sessions'[d] = sessions[d] \/ sessions'[d] = NoSession
<1> USE TypeOKTypes
<1>1. ASSUME NEW e \in todo, DrainRemove(e[1], e[2])
      PROVE  /\ nextId' = nextId
             /\ \A d \in Sources : sessions'[d] = sessions[d] \/ sessions'[d] = NoSession
  BY <1>1, RemoveIfEffect DEF DrainRemove, Types
<1>2. ASSUME NEW e \in stale, SweepRemove(e[1], e[2])
      PROVE  /\ nextId' = nextId
             /\ \A d \in Sources : sessions'[d] = sessions[d] \/ sessions'[d] = NoSession
  BY <1>2, RemoveIfEffect DEF SweepRemove, Types
<1>3. ASSUME NEW s \in Ids, ReplyRemove(s)
      PROVE  /\ nextId' = nextId
             /\ \A d \in Sources : sessions'[d] = sessions[d] \/ sessions'[d] = NoSession
  BY <1>3 DEF ReplyRemove, RemoveIf, Matches, Types
<1>4. CASE Insert
  BY <1>4 DEF Insert, TableInv, NewSessionInv
<1>5. CASE ListenerRecv \/ LookupHit \/ LookupMiss \/ TouchFound \/ ConnectFail \/ RecordOpen
           \/ SpawnReply \/ ForwardClientPacket \/ ListenerShutdown \/ DrainRetire \/ DrainDone
           \/ JoinCleanup \/ JoinSender
  BY <1>5
     DEF ListenerRecv, LookupHit, LookupMiss, TouchFound, ConnectFail, RecordOpen, SpawnReply,
         ForwardClientPacket, SendOk, SendErr, TouchSent, ListenerShutdown, DrainRetire, DrainDone,
         JoinCleanup, JoinSender
<1>6. CASE CleanupTick \/ ListIdle \/ SweepRetire \/ SweepDone \/ CleanupShutdown
  BY <1>6 DEF CleanupTick, ListIdle, SweepRetire, SweepDone, CleanupShutdown
<1>7. ASSUME NEW s \in Ids,
             \/ ReplyRecv(s) \/ Deliver(s) \/ ReplyFail(s)
             \/ ReplyShutdown(s) \/ ReplyCancelled(s) \/ ReplyRetire(s)
      PROVE  UNCHANGED tableVars
  BY <1>7
     DEF ReplyRecv, Deliver, ReplyQueued, ReplyDropped, ReplyClosed, ReplyFail, ReplyShutdown,
         ReplyCancelled, ReplyRetire, ReplyEnd
<1>8. CASE ClockMoves \/ Shutdown \/ SenderExit \/ Terminated \/ UNCHANGED vars
  BY <1>8 DEF ClockMoves, Shutdown, SenderExit, Terminated, vars
<1> QED
  BY <1>1, <1>2, <1>3, <1>4, <1>5, <1>6, <1>7, <1>8
     DEF Next, GetOrCreate, Drain, Cleanup, ReplyExit

\* A reply task's point only moves on for a session that has one, except that
\* SpawnReply starts the one of the session just inserted.
LEMMA ReplySteps ==
  ASSUME TypeOK, TableInv, [Next]_vars
  PROVE  \/ UNCHANGED rpc
         \/ SpawnReply
         \/ \E s \in Ids, q \in ReplyPoints \ {"none"} :
               rpc[s] # "none" /\ rpc' = [rpc EXCEPT ![s] = q]
<1> USE TypeOKTypes DEF ReplyPoints
<1>1. ASSUME NEW s \in Ids,
             \/ ReplyRecv(s) \/ Deliver(s) \/ ReplyFail(s)
             \/ ReplyShutdown(s) \/ ReplyCancelled(s) \/ ReplyExit(s)
      PROVE  \E q \in ReplyPoints \ {"none"} : rpc[s] # "none" /\ rpc' = [rpc EXCEPT ![s] = q]
  BY <1>1
     DEF ReplyRecv, Deliver, ReplyQueued, ReplyDropped, ReplyClosed, ReplyFail, ReplyShutdown,
         ReplyCancelled, ReplyExit, ReplyRemove, ReplyRetire, ReplyEnd, NextReply
<1>2. CASE ListenerRecv \/ LookupHit \/ LookupMiss \/ TouchFound \/ Connect \/ ConnectFail \/ Insert
           \/ RecordOpen \/ ForwardClientPacket \/ ListenerShutdown \/ Drain
  BY <1>2
     DEF ListenerRecv, LookupHit, LookupMiss, TouchFound, Connect, ConnectFail, Insert, RecordOpen,
         ForwardClientPacket, SendOk, SendErr, TouchSent, ListenerShutdown, Drain, DrainRemove,
         DrainRetire, DrainDone, JoinCleanup, JoinSender, replyVars
<1>3. CASE Cleanup \/ CleanupShutdown
  BY <1>3 DEF Cleanup, CleanupTick, ListIdle, SweepRemove, SweepRetire, SweepDone, CleanupShutdown, replyVars
<1>4. CASE ClockMoves \/ Shutdown \/ SenderExit \/ Terminated \/ UNCHANGED vars
  BY <1>4 DEF ClockMoves, Shutdown, SenderExit, Terminated, vars, replyVars
<1> QED
  BY <1>1, <1>2, <1>3, <1>4 DEF Next, GetOrCreate

\* Only a session somebody has taken out of the table is cancelled or closed.
LEMMA RetireSteps ==
  ASSUME TypeOK, TableInv, [Next]_vars
  PROVE  \/ UNCHANGED <<cancelled, closed, flows>>
         \/ RecordOpen
         \/ DrainRetire \/ SweepRetire \/ \E s \in Ids : ReplyRetire(s)
<1>1. CASE ListenerRecv \/ LookupHit \/ LookupMiss \/ TouchFound \/ Connect \/ ConnectFail \/ Insert
           \/ SpawnReply \/ ForwardClientPacket \/ ListenerShutdown
  BY <1>1
     DEF ListenerRecv, LookupHit, LookupMiss, TouchFound, Connect, ConnectFail, Insert, SpawnReply,
         ForwardClientPacket, SendOk, SendErr, TouchSent, ListenerShutdown, objectVars
<1>2. CASE Drain \/ Cleanup \/ CleanupShutdown
  BY <1>2 DEF Drain, DrainRemove, DrainDone, JoinCleanup, JoinSender,
              Cleanup, CleanupTick, ListIdle, SweepRemove, SweepDone, CleanupShutdown, objectVars
<1>3. ASSUME NEW s \in Ids,
             \/ ReplyRecv(s) \/ Deliver(s) \/ ReplyFail(s)
             \/ ReplyShutdown(s) \/ ReplyCancelled(s) \/ ReplyRemove(s)
      PROVE  UNCHANGED <<cancelled, closed, flows>>
  BY <1>3
     DEF ReplyRecv, Deliver, ReplyQueued, ReplyDropped, ReplyClosed, ReplyFail, ReplyShutdown,
         ReplyCancelled, ReplyRemove, ReplyEnd, objectVars
<1>4. CASE ClockMoves \/ Shutdown \/ SenderExit \/ Terminated \/ UNCHANGED vars
  BY <1>4 DEF ClockMoves, Shutdown, SenderExit, Terminated, vars, objectVars
<1> QED
  BY <1>1, <1>2, <1>3, <1>4 DEF Next, GetOrCreate, ReplyExit

\* The session a retiring task works on is not in the table, and is not the
\* one get_or_create is about to insert.
LEMMA RetireTarget ==
  ASSUME TypeOK, TableInv, [Next]_vars, NEW s \in Ids,
         cancelled'[s] # cancelled[s] \/ closed'[s] # closed[s]
  PROVE  /\ ~InTable(s) /\ s < nextId
         /\ lpc = "insert" => s # cur
         /\ UNCHANGED <<tableVars, rpc>> \/ (\E t \in Ids : ReplyRetire(t))
<1> USE TypeOKTypes DEF TableInv
<1>1. CASE DrainRetire
  <2>1. s = cur /\ lpc = "retire"
    BY <1>1 DEF DrainRetire, Retire, Types
  <2> QED BY <1>1, <2>1 DEF DrainRetire, TakenInv, PointsInv, replyVars
<1>2. CASE SweepRetire
  <2>1. s = ccur /\ cpc = "retire"
    BY <1>2 DEF SweepRetire, Retire, Types
  <2> QED BY <1>2, <2>1 DEF SweepRetire, TakenInv, PointsInv, NewSessionInv, replyVars
<1>3. ASSUME NEW t \in Ids, ReplyRetire(t)
      PROVE  ~InTable(s) /\ s < nextId /\ (lpc = "insert" => s # cur)
  <2>1. s = t /\ rpc[t] = "retire"
    BY <1>3 DEF ReplyRetire, Retire, Types
  <2>2. s < nextId
    BY <2>1 DEF FreshInv, Types
  <2> QED BY <2>1, <2>2 DEF TakenInv, NewSessionInv
<1>4. CASE RecordOpen
  BY <1>4 DEF RecordOpen, objectVars
<1> QED BY <1>1, <1>2, <1>3, <1>4, RetireSteps

ListenerStep ==
  ListenerRecv \/ GetOrCreate \/ ForwardClientPacket \/ ListenerShutdown \/ Drain

Shrinks == \A d \in Sources : sessions'[d] = sessions[d] \/ sessions'[d] = NoSession

\* The other tasks leave the listener alone and at most take an entry out.
LEMMA OtherSteps ==
  ASSUME TypeOK, TableInv, [Next]_vars, ~ListenerStep
  PROVE  UNCHANGED <<listenerVars, nextId, owner>> /\ Shrinks
<1> USE TypeOKTypes DEF tableVars, objectVars
<1>1. CASE CleanupTick \/ ListIdle \/ SweepRetire \/ SweepDone \/ CleanupShutdown
  BY <1>1 DEF CleanupTick, ListIdle, SweepRetire, SweepDone, CleanupShutdown, Shrinks
<1>2. ASSUME NEW e \in stale, SweepRemove(e[1], e[2])
      PROVE  UNCHANGED <<listenerVars, nextId, owner>> /\ Shrinks
  BY <1>2, RemoveIfEffect DEF SweepRemove, Types, Shrinks
<1>3. ASSUME NEW s \in Ids, ReplyRemove(s)
      PROVE  UNCHANGED <<listenerVars, nextId, owner>> /\ Shrinks
  BY <1>3 DEF ReplyRemove, RemoveIf, Matches, Types, Shrinks
<1>4. ASSUME NEW s \in Ids,
             \/ ReplyRecv(s) \/ Deliver(s) \/ ReplyFail(s)
             \/ ReplyShutdown(s) \/ ReplyCancelled(s) \/ ReplyRetire(s)
      PROVE  UNCHANGED <<listenerVars, nextId, owner>> /\ Shrinks
  BY <1>4
     DEF ReplyRecv, Deliver, ReplyQueued, ReplyDropped, ReplyClosed, ReplyFail, ReplyShutdown,
         ReplyCancelled, ReplyRetire, ReplyEnd, Shrinks
<1>5. CASE ClockMoves \/ Shutdown \/ SenderExit \/ Terminated \/ UNCHANGED vars
  BY <1>5 DEF ClockMoves, Shutdown, SenderExit, Terminated, vars, Shrinks
<1> QED
  BY <1>1, <1>2, <1>3, <1>4, <1>5 DEF Next, ListenerStep, Cleanup, ReplyExit

LEMMA FreshStep == TypeOK /\ TableInv /\ [Next]_vars => FreshInv'
<1> SUFFICES ASSUME TypeOK, TableInv, [Next]_vars, NEW s \in Ids, s >= nextId'
             PROVE  ~InTable(s)' /\ rpc'[s] = "none" /\ ~cancelled'[s] /\ ~closed'[s]
  BY DEF FreshInv
<1> USE TypeOKTypes DEF TableInv
<1>1. s >= nextId
  BY TableSteps DEF Connect, Insert, Types, tableVars
<1>2. ~InTable(s) /\ rpc[s] = "none" /\ ~cancelled[s] /\ ~closed[s]
  BY <1>1 DEF FreshInv
<1>3. ~cancelled'[s] /\ ~closed'[s]
  BY <1>1, <1>2, RetireTarget DEF Types
<1>4. rpc'[s] = "none"
  <2>1. CASE SpawnReply
    BY <1>1, <1>2, <2>1 DEF SpawnReply, PointsInv, Types
  <2> QED BY <1>2, <2>1, ReplySteps DEF Types
<1>5. ~InTable(s)'
  <2>1. CASE Insert
    BY <1>1, <1>2, <2>1 DEF Insert, PointsInv, InTable, Types
  <2>2. CASE Shrinks
    BY <1>2, <2>2, ShrinkingTable DEF Shrinks
  <2>3. CASE UNCHANGED sessions
    BY <1>2, <2>3 DEF InTable
  <2> QED BY <2>1, <2>2, <2>3, TableSteps DEF Connect, Shrinks, tableVars
<1> QED BY <1>3, <1>4, <1>5

LEMMA NewSessionStep == TypeOK /\ TableInv /\ [Next]_vars => NewSessionInv'
<1> SUFFICES ASSUME TypeOK, TableInv, [Next]_vars PROVE NewSessionInv'
  OBVIOUS
<1> USE TypeOKTypes DEF TableInv
<1>1. CASE ~ListenerStep
  <2>1. UNCHANGED <<lpc, batch, cur, owner>> /\ Shrinks
    BY <1>1, OtherSteps DEF listenerVars
  <2>2. ASSUME lpc \in {"connect", "insert"} PROVE sessions'[Client'] = NoSession
    <3>1. Client \in Sources /\ Client' = Client
      BY <2>1, <2>2, ClientInSources DEF Client
    <3> QED BY <2>1, <2>2, <3>1 DEF NewSessionInv, Shrinks
  <2>3. ASSUME lpc \in {"insert", "open", "spawn"}, cur \in Ids, rpc[cur] = "none"
        PROVE  rpc'[cur] = "none"
    BY <1>1, <2>3, ReplySteps DEF ListenerStep, GetOrCreate, Types
  <2>4. ASSUME lpc = "insert"
        PROVE  /\ owner'[cur] = Client' /\ ~InTable(cur)' /\ rpc'[cur] = "none"
               /\ ~cancelled'[cur] /\ ~closed'[cur]
    <3>1. cur \in Ids
      BY <2>4 DEF PointsInv
    <3>2. owner'[cur] = Client'
      BY <2>1, <2>4 DEF NewSessionInv, Client
    <3>3. ~InTable(cur)'
      BY <2>1, <2>4, <3>1, ShrinkingTable DEF NewSessionInv, Shrinks, InTable
    <3>4. rpc'[cur] = "none"
      BY <2>3, <2>4, <3>1 DEF NewSessionInv
    <3>5. ~cancelled'[cur] /\ ~closed'[cur]
      BY <2>4, <3>1, RetireTarget DEF NewSessionInv, Types
    <3> QED BY <3>2, <3>3, <3>4, <3>5
  <2>5. ASSUME lpc = "insert", cpc' = "retire" PROVE ccur' # cur
    <3>1. ASSUME NEW e \in stale, SweepRemove(e[1], e[2]) PROVE ccur' # cur
      BY <2>5, <3>1 DEF SweepRemove, Matches, Types, InTable, NewSessionInv
    <3>2. UNCHANGED <<cpc, ccur>> \/ cpc' # "retire" \/ \E e \in stale : SweepRemove(e[1], e[2])
      BY <1>1
         DEF ListenerStep, Next, Cleanup, CleanupTick, ListIdle, SweepRetire, SweepDone, CleanupShutdown, ClockMoves,
             Shutdown, SenderExit, Terminated, vars, cleanupVars, ReplyRecv, Deliver, ReplyQueued,
             ReplyDropped, ReplyClosed, ReplyFail, ReplyShutdown, ReplyCancelled, ReplyExit,
             ReplyRemove, ReplyRetire, ReplyEnd
    <3> QED BY <2>5, <3>1, <3>2 DEF NewSessionInv
  <2>6. lpc \in {"open", "spawn"} => rpc'[cur] = "none"
    BY <2>3 DEF NewSessionInv, PointsInv
  <2> QED BY <2>1, <2>2, <2>4, <2>5, <2>6 DEF NewSessionInv, InTable
<1>2. CASE LookupMiss
  BY <1>2 DEF LookupMiss, NewSessionInv, Client, tableVars
<1>3. CASE Connect
  <2>1. nextId \in Ids
    BY <1>3, ConstantsAssumption DEF Connect, Ids, TypeOK, TableTypes
  <2>2. ~InTable(nextId) /\ rpc[nextId] = "none" /\ ~cancelled[nextId] /\ ~closed[nextId]
    BY <2>1 DEF FreshInv, Types
  <2>3. cpc = "retire" => ccur # nextId
    BY <2>1 DEF PointsInv, Types
  <2> QED
    BY <1>3, <2>1, <2>2, <2>3
       DEF Connect, NewSessionInv, Client, InTable, Types, cleanupVars, replyVars
<1>4. CASE Insert \/ RecordOpen
  BY <1>4 DEF Insert, RecordOpen, NewSessionInv, replyVars
<1>5. CASE LookupHit \/ TouchFound \/ ConnectFail \/ SpawnReply \/ ForwardClientPacket
           \/ ListenerRecv \/ ListenerShutdown \/ Drain
  BY <1>5
     DEF LookupHit, TouchFound, ConnectFail, SpawnReply, ForwardClientPacket, SendOk, SendErr,
         TouchSent, NextDatagram, ListenerRecv, ListenerShutdown, Drain, DrainRemove, DrainRetire,
         DrainDone, JoinCleanup, JoinSender, NewSessionInv
<1> QED
  BY <1>1, <1>2, <1>3, <1>4, <1>5 DEF ListenerStep, GetOrCreate

\* What the three removals have in common: the removed session was served
\* and is in no other entry, so it leaves the table altogether.
LEMMA RemovedSession ==
  ASSUME TypeOK, TableInv, NEW c \in Sources, NEW s \in Ids, sessions[c] = s, RemoveIf(c, s)
  PROVE  /\ ~InTable(s)'
         /\ Published(s)
         /\ lpc = "drain" => rpc[s] # "none"
         /\ s < nextId
<1> USE TypeOKTypes DEF TableInv
<1>1. /\ c \in Live /\ owner[s] = c
      /\ Published(s) /\ (lpc = "drain" => rpc[s] # "none")
      /\ s < nextId
  BY DEF SessionServed, Live, Published, EntryInv, Types
<1>2. \A d \in Sources : sessions[d] = s => d = c
  BY <1>1 DEF SessionServed, Live, Types
<1>3. ~InTable(s)'
  BY <1>2, RemoveIfEffect DEF InTable, Types, Matches
<1> QED BY <1>1, <1>3

\* A published session stays published.
LEMMA PublishedStep ==
  ASSUME TypeOK, TableInv, [Next]_vars, NEW s \in Ids, Published(s), s < nextId
  PROVE  Published(s)'
<1> USE TypeOKTypes DEF TableInv
<1>1. CASE rpc[s] # "none"
  <2>1. CASE SpawnReply
    BY <1>1, <2>1 DEF SpawnReply, Published, Types, PointsInv
  <2> QED BY <1>1, <2>1, ReplySteps DEF Published, Types
<1>2. CASE lpc \in {"open", "spawn"} /\ cur = s
  <2>1. CASE ~ListenerStep
    <3>1. UNCHANGED <<lpc, cur>>
      BY <2>1, OtherSteps DEF listenerVars
    <3> QED BY <1>2, <3>1 DEF Published
  <2>2. CASE RecordOpen
    BY <1>2, <2>2 DEF RecordOpen, Published
  <2>3. CASE SpawnReply
    BY <1>2, <2>3 DEF SpawnReply, Published, Types
  <2> QED
    BY <1>2, <2>1, <2>2, <2>3
       DEF ListenerStep, GetOrCreate, LookupHit, TouchFound, LookupMiss, Connect, ConnectFail, Insert,
           ForwardClientPacket, SendOk, SendErr, TouchSent, ListenerRecv, ListenerShutdown, Drain,
           DrainRemove, DrainRetire, DrainDone, JoinCleanup, JoinSender
<1> QED BY <1>1, <1>2 DEF Published

\* A published session that is out of the table stays out of it.
LEMMA StaysOut ==
  ASSUME TypeOK, TableInv, [Next]_vars, NEW s \in Ids, ~InTable(s), lpc = "insert" => s # cur
  PROVE  ~InTable(s)'
<1> USE TypeOKTypes DEF TableInv
<1>1. CASE lpc = "insert" /\ Insert
  BY <1>1 DEF Insert, InTable, Types, PointsInv, NewSessionInv
<1>2. CASE Shrinks
  BY <1>2, ShrinkingTable DEF Shrinks
<1>3. CASE UNCHANGED sessions
  BY <1>3 DEF InTable
<1> QED BY <1>1, <1>2, <1>3, TableSteps DEF Connect, Shrinks, tableVars

LEMMA TakenStep == TypeOK /\ TableInv /\ [Next]_vars => TakenInv'
<1> SUFFICES ASSUME TypeOK, TableInv, [Next]_vars PROVE TakenInv'
  OBVIOUS
<1> USE TypeOKTypes DEF TableInv
<1>1. ASSUME cpc' = "retire" PROVE ~InTable(ccur)' /\ Published(ccur)'
  <2>1. ASSUME NEW e \in stale, SweepRemove(e[1], e[2]), Matches(e[1], e[2])
        PROVE  ~InTable(ccur)' /\ Published(ccur)'
    <3>1. e[1] \in Sources /\ e[2] \in Ids /\ sessions[e[1]] = e[2] /\ ccur' = e[2]
      BY <2>1 DEF SweepRemove, Matches, Types
    <3>2. ~InTable(e[2])' /\ Published(e[2]) /\ e[2] < nextId
      BY <2>1, <3>1, RemovedSession DEF SweepRemove
    <3>3. Published(e[2])'
      BY <3>1, <3>2, PublishedStep
    <3> QED BY <3>1, <3>2, <3>3 DEF InTable, Published
  <2>2. CASE cpc = "retire" /\ UNCHANGED ccur
    <3>1. /\ ccur \in Ids /\ ccur < nextId /\ ~InTable(ccur) /\ Published(ccur)
          /\ lpc = "insert" => ccur # cur
      BY <2>2 DEF PointsInv, TakenInv, NewSessionInv
    <3>2. ~InTable(ccur)' /\ Published(ccur)'
      <4> HIDE DEF TableInv
      <4>1. \A s \in Ids : s = ccur => ~InTable(s)'
        BY <3>1, StaysOut DEF InTable
      <4>2. \A s \in Ids : s = ccur => Published(s)'
        BY <3>1, PublishedStep DEF Published
      <4> QED BY <2>2, <3>1, <4>1, <4>2 DEF InTable, Published
    <3> QED BY <3>2
  <2>3. \/ cpc = "retire" /\ UNCHANGED ccur
        \/ \E e \in stale : SweepRemove(e[1], e[2]) /\ Matches(e[1], e[2])
    BY <1>1
       DEF Next, ListenerRecv, GetOrCreate, LookupHit, TouchFound, LookupMiss, Connect, ConnectFail,
           Insert, RecordOpen, SpawnReply, ForwardClientPacket, SendOk, SendErr, TouchSent,
           ListenerShutdown, Drain, DrainRemove, DrainRetire, DrainDone, JoinCleanup, JoinSender,
           Cleanup, CleanupTick, ListIdle, SweepRemove, SweepRetire, SweepDone, CleanupShutdown, ClockMoves,
           Shutdown, SenderExit, Terminated, vars, cleanupVars, ReplyRecv, Deliver, ReplyQueued,
           ReplyDropped, ReplyClosed, ReplyFail, ReplyShutdown, ReplyCancelled, ReplyExit,
           ReplyRemove, ReplyRetire, ReplyEnd
  <2> QED BY <2>1, <2>2, <2>3
<1>2. ASSUME lpc' = "retire" PROVE ~InTable(cur)' /\ rpc'[cur'] # "none"
  <2>1. ASSUME NEW e \in todo, DrainRemove(e[1], e[2]), Matches(e[1], e[2])
        PROVE  ~InTable(cur)' /\ rpc'[cur'] # "none"
    <3>1. e[1] \in Sources /\ e[2] \in Ids /\ sessions[e[1]] = e[2] /\ cur' = e[2] /\ lpc = "drain"
      BY <2>1 DEF DrainRemove, Matches, Types
    <3>2. ~InTable(e[2])' /\ rpc[e[2]] # "none"
      BY <2>1, <3>1, RemovedSession DEF DrainRemove
    <3> QED BY <2>1, <3>1, <3>2 DEF InTable, DrainRemove, replyVars
  <2>2. CASE lpc = "retire" /\ UNCHANGED cur
    <3>1. cur \in Ids /\ ~InTable(cur) /\ rpc[cur] # "none"
      BY <2>2 DEF PointsInv, TakenInv
    <3>2. \A s \in Ids : s = cur => ~InTable(s)'
      BY <2>2, <3>1, StaysOut DEF InTable
    <3>3. rpc'[cur] # "none"
      BY <2>2, <3>1, ReplySteps DEF SpawnReply, Types
    <3> QED BY <2>2, <3>1, <3>2, <3>3 DEF InTable
  <2>3. \/ lpc = "retire" /\ UNCHANGED cur
        \/ \E e \in todo : DrainRemove(e[1], e[2]) /\ Matches(e[1], e[2])
    <3>1. CASE ~ListenerStep
      BY <1>2, <3>1, OtherSteps DEF listenerVars
    <3> QED
      BY <1>2, <3>1
         DEF ListenerStep, ListenerRecv, GetOrCreate, LookupHit, TouchFound, LookupMiss, Connect,
             ConnectFail, Insert, RecordOpen, SpawnReply, ForwardClientPacket, SendOk, SendErr,
             TouchSent, NextDatagram, ListenerShutdown, Drain, DrainRemove, DrainRetire, DrainDone,
             JoinCleanup, JoinSender
  <2> QED BY <2>1, <2>2, <2>3
<1>3. ASSUME NEW s \in Ids, rpc'[s] \in {"retire", "done"} PROVE ~InTable(s)'
  <2>1. CASE ReplyRemove(s)
    <3>1. RemoveIf(owner[s], s)
      BY <2>1 DEF ReplyRemove
    <3>2. CASE owner[s] \in Sources /\ sessions[owner[s]] = s
      BY <3>1, <3>2, RemovedSession
    <3>3. CASE ~InTable(s)
      BY <2>1, <3>3, StaysOut DEF NewSessionInv, ReplyRemove
    <3>4. InTable(s) => owner[s] \in Sources /\ sessions[owner[s]] = s
      BY DEF InTable, SessionServed, Live, Types
    <3> QED BY <3>2, <3>3, <3>4
  <2>2. CASE rpc[s] \in {"retire", "done"}
    BY <2>2, StaysOut DEF TakenInv, NewSessionInv
  <2>3. ReplyRemove(s) \/ rpc[s] \in {"retire", "done"}
    <3>1. CASE UNCHANGED rpc
      BY <1>3, <3>1
    <3>2. CASE SpawnReply
      BY <1>3, <3>2 DEF SpawnReply, Types, PointsInv
    <3>3. ASSUME NEW t \in Ids,
                 \/ ReplyRecv(t) \/ Deliver(t) \/ ReplyFail(t)
                 \/ ReplyShutdown(t) \/ ReplyCancelled(t) \/ ReplyExit(t)
          PROVE  ReplyRemove(s) \/ rpc[s] \in {"retire", "done"}
      BY <1>3, <3>3
         DEF ReplyRecv, Deliver, ReplyQueued, ReplyDropped, ReplyClosed, ReplyFail, ReplyShutdown,
             ReplyCancelled, ReplyExit, ReplyRemove, ReplyRetire, ReplyEnd, NextReply, Types
    <3>4. CASE ~\E t \in Ids : \/ ReplyRecv(t) \/ Deliver(t) \/ ReplyFail(t)
                               \/ ReplyShutdown(t) \/ ReplyCancelled(t) \/ ReplyExit(t)
      BY <3>1, <3>2, <3>4
         DEF Next, ListenerRecv, GetOrCreate, LookupHit, TouchFound, LookupMiss, Connect, ConnectFail,
             Insert, RecordOpen, ForwardClientPacket, SendOk, SendErr, TouchSent,
             ListenerShutdown, Drain, DrainRemove, DrainRetire, DrainDone, JoinCleanup, JoinSender,
             Cleanup, CleanupTick, ListIdle, SweepRemove, SweepRetire, SweepDone, CleanupShutdown, ClockMoves,
             Shutdown, SenderExit, Terminated, vars, replyVars
    <3> QED BY <3>3, <3>4
  <2> QED BY <2>1, <2>2, <2>3
<1> QED BY <1>1, <1>2, <1>3 DEF TakenInv

LEMMA ServedStep == TypeOK /\ TableInv /\ [Next]_vars => SessionServed'
<1> SUFFICES ASSUME TypeOK, TableInv, [Next]_vars, NEW c \in Sources, sessions'[c] # NoSession
             PROVE  LET s == sessions'[c] IN
                      /\ owner'[s] = c
                      /\ ~cancelled'[s]
                      /\ \/ rpc'[s] \in {"recv", "deliver", "remove"}
                         \/ rpc'[s] = "none" /\ cur' = s /\ lpc' \in {"open", "spawn"}
  BY DEF SessionServed, Live
<1> USE TypeOKTypes DEF TableInv
<1>1. CASE lpc = "insert" /\ Insert /\ sessions[Client] = NoSession /\ c = Client
  <2>1. sessions'[c] = cur /\ cur' = cur /\ lpc' = "open" /\ cur \in Ids
    BY <1>1 DEF Insert, Types, PointsInv
  <2>2. owner' = owner /\ cancelled' = cancelled /\ rpc' = rpc
    BY <1>1 DEF Insert, replyVars
  <2> QED BY <1>1, <2>1, <2>2 DEF NewSessionInv
<1>2. CASE sessions'[c] = sessions[c]
  <2> DEFINE s == sessions[c]
  <2>1. /\ s \in Ids /\ s < nextId /\ owner[s] = c /\ ~cancelled[s]
        /\ Published(s) /\ InTable(s)
    BY <1>2 DEF SessionServed, Live, Published, EntryInv, InTable, Types
  <2>2. owner'[s] = owner[s]
    <3>1. CASE Connect
      BY <2>1, <3>1 DEF Connect, Types
    <3>2. CASE ~ListenerStep
      BY <3>2, OtherSteps
    <3> QED
      BY <3>1, <3>2
         DEF ListenerStep, ListenerRecv, GetOrCreate, LookupHit, TouchFound, LookupMiss, ConnectFail,
             Insert, RecordOpen, SpawnReply, ForwardClientPacket, SendOk, SendErr, TouchSent,
             ListenerShutdown, Drain, DrainRemove, DrainRetire, DrainDone, JoinCleanup, JoinSender,
             objectVars
  <2>3. ~cancelled'[s]
    BY <2>1, RetireTarget
  <2>4. Published(s)'
    <3>1. \A t \in Ids : t = s => Published(t)'
      BY <2>1, PublishedStep DEF Published
    <3> QED BY <1>2, <2>1, <3>1 DEF Published
  <2>5. rpc'[s] \notin {"retire", "done"}
    <3>1. TakenInv'
      BY TakenStep
    <3> QED BY <1>2, <2>1, <3>1 DEF TakenInv, InTable
  <2>6. rpc'[s] \in ReplyPoints
    BY <2>1, ReplySteps DEF Types, SpawnReply, ReplyPoints
  <2> QED BY <1>2, <2>1, <2>2, <2>3, <2>4, <2>5, <2>6 DEF Published, ReplyPoints
<1>3. \/ sessions'[c] = sessions[c]
      \/ lpc = "insert" /\ Insert /\ sessions[Client] = NoSession /\ c = Client
  BY TableSteps DEF Connect, Insert, Types, tableVars
<1> QED BY <1>1, <1>2, <1>3

LEMMA EntryStep == TypeOK /\ TableInv /\ [Next]_vars => EntryInv'
<1> SUFFICES ASSUME TypeOK, TableInv, [Next]_vars, NEW c \in Sources, sessions'[c] # NoSession
             PROVE  sessions'[c] < nextId' /\ ~closed'[sessions'[c]]
  BY DEF EntryInv, Live
<1> USE TypeOKTypes DEF TableInv
<1>1. CASE lpc = "insert" /\ Insert /\ sessions[Client] = NoSession /\ c = Client
  BY <1>1 DEF Insert, Types, PointsInv, NewSessionInv
<1>2. CASE sessions'[c] = sessions[c]
  <2>1. sessions[c] \in Ids /\ sessions[c] < nextId /\ ~closed[sessions[c]] /\ InTable(sessions[c])
    BY <1>2 DEF EntryInv, Live, InTable, Types
  <2>2. ~closed'[sessions[c]]
    BY <2>1, RetireTarget
  <2>3. nextId' = nextId \/ nextId' = nextId + 1
    BY TableSteps DEF Connect, Insert, tableVars
  <2> QED BY <1>2, <2>1, <2>2, <2>3 DEF Types
<1>3. \/ sessions'[c] = sessions[c]
      \/ lpc = "insert" /\ Insert /\ sessions[Client] = NoSession /\ c = Client
  BY TableSteps DEF Connect, Insert, Types, tableVars
<1> QED BY <1>1, <1>2, <1>3

LEMMA TableStep == TypeOK /\ TableInv /\ [Next]_vars => TableInv'
BY PointsStep, FreshStep, NewSessionStep, ServedStep, EntryStep, TakenStep DEF TableInv

(***************************************************************************)
(* The drain.                                                              *)
(***************************************************************************)

DrainPoints == {"drain", "retire", "join", "waitSender", "done"}

LEMMA DrainStep ==
  TypeOK /\ TableInv /\ DrainInv /\ DrainedStaysEmpty /\ [Next]_vars
    => DrainInv' /\ DrainedStaysEmpty'
<1> SUFFICES ASSUME TypeOK, TableInv, DrainInv, DrainedStaysEmpty, [Next]_vars
             PROVE  DrainInv' /\ DrainedStaysEmpty'
  OBVIOUS
<1> USE TypeOKTypes DEF TableInv
<1>1. CASE ~ListenerStep
  BY <1>1, OtherSteps
     DEF DrainInv, DrainedStaysEmpty, Entries, Live, listenerVars, Shrinks, Types
<1>2. CASE ListenerShutdown
  BY <1>2 DEF ListenerShutdown, DrainInv, DrainedStaysEmpty, Entries, tableVars
<1>3. ASSUME NEW e \in todo, DrainRemove(e[1], e[2])
      PROVE  DrainInv' /\ DrainedStaysEmpty'
  <2>1. e[1] \in Sources /\ e[2] \in Ids /\ e = <<e[1], e[2]>> /\ lpc = "drain"
    BY <1>3 DEF Types, DrainRemove
  <2>2. ASSUME NEW c \in Sources, sessions'[c] # NoSession
        PROVE  <<c, sessions'[c]>> \in todo'
    <3>1. sessions'[c] = sessions[c] /\ <<c, sessions[c]>> \in todo
      BY <1>3, <2>1, <2>2, RemoveIfEffect DEF DrainRemove, DrainInv, Entries, Types
    <3>2. <<c, sessions[c]>> # <<e[1], e[2]>>
      BY <1>3, <2>1, <3>1, RemoveIfEffect DEF DrainRemove
    <3> QED BY <1>3, <3>1, <3>2 DEF DrainRemove
  <2>3. lpc' \in {"drain", "retire"}
    BY <1>3 DEF DrainRemove
  <2> QED BY <2>2, <2>3 DEF DrainInv, DrainedStaysEmpty, Entries
<1>4. CASE DrainRetire
  BY <1>4 DEF DrainRetire, DrainInv, DrainedStaysEmpty, Entries, tableVars
<1>5. CASE DrainDone
  BY <1>5 DEF DrainDone, DrainInv, DrainedStaysEmpty, Entries, Live, tableVars
<1>6. CASE JoinCleanup \/ JoinSender
  BY <1>6 DEF JoinCleanup, JoinSender, DrainInv, DrainedStaysEmpty, Live, tableVars
<1>7. CASE ListenerRecv \/ GetOrCreate \/ ForwardClientPacket
  BY <1>7
     DEF ListenerRecv, GetOrCreate, LookupHit, TouchFound, LookupMiss, Connect, ConnectFail, Insert,
         RecordOpen, SpawnReply, ForwardClientPacket, SendOk, SendErr, TouchSent, NextDatagram,
         DrainInv, DrainedStaysEmpty
<1> QED BY <1>1, <1>2, <1>3, <1>4, <1>5, <1>6, <1>7 DEF ListenerStep, Drain

(***************************************************************************)
(* The flow gauge.                                                         *)
(***************************************************************************)

LEMMA CountedFinite ==
  IsFiniteSet(Counted) /\ Cardinality(Counted) \in Nat
<1>1. IsFiniteSet(Ids)
  BY FS_Interval, ConstantsAssumption DEF Ids
<1> QED BY <1>1, FS_Subset, FS_CardinalityType DEF Counted

LEMMA CountedFinitePrime ==
  IsFiniteSet(Counted') /\ Cardinality(Counted') \in Nat
<1>1. IsFiniteSet(Ids)
  BY FS_Interval, ConstantsAssumption DEF Ids
<1> QED BY <1>1, FS_Subset, FS_CardinalityType DEF Counted

\* Taking a session out of service keeps the gauge above the count, whether
\* its start has been recorded yet or not.
LEMMA RetireGauge ==
  ASSUME TypeOK, TableInv, GaugeInv, NEW s \in Ids, Published(s), Retire(s),
         Counted' = Counted \ {s},
         LostDecrement' = IF lpc = "open" /\ (closed[cur] \/ cur = s) THEN 1 ELSE 0
  PROVE  GaugeInv'
<1>1. flows \in Nat /\ flows' = IF closed[s] THEN flows ELSE SaturatingSub(flows, 1)
  BY DEF Retire, TypeOK
<1>2. /\ Cardinality(Counted) \in Nat
      /\ Cardinality(Counted') = IF s \in Counted THEN Cardinality(Counted) - 1 ELSE Cardinality(Counted)
  BY CountedFinite, FS_RemoveElement
<1>3. LostDecrement \in {0, 1} /\ LostDecrement' \in {0, 1} /\ LostDecrement' >= LostDecrement
  BY DEF LostDecrement
<1>4. CASE closed[s]
  <2>1. s \notin Counted
    BY <1>4 DEF Counted
  <2> QED BY <1>1, <1>2, <1>3, <1>4, <2>1 DEF GaugeInv
<1>5. CASE ~closed[s] /\ s \in Counted
  BY <1>1, <1>2, <1>3, <1>5 DEF GaugeInv, SaturatingSub, LostDecrement
<1>6. CASE ~closed[s] /\ s \notin Counted
  <2>1. lpc = "open" /\ cur = s
    BY <1>6 DEF Counted, Published
  <2>2. LostDecrement = 0 /\ LostDecrement' = 1
    BY <1>6, <2>1 DEF LostDecrement
  <2> QED BY <1>1, <1>2, <1>6, <2>2 DEF GaugeInv, SaturatingSub
<1> QED BY <1>4, <1>5, <1>6

LEMMA GaugeStep == TypeOK /\ TableInv /\ GaugeInv /\ [Next]_vars => GaugeInv'
<1> SUFFICES ASSUME TypeOK, TableInv, GaugeInv, [Next]_vars PROVE GaugeInv'
  OBVIOUS
<1> USE TypeOKTypes DEF TableInv
<1>n. flows \in Nat /\ Cardinality(Counted) \in Nat /\ Cardinality(Counted') \in Nat
  BY CountedFinite, CountedFinitePrime DEF TypeOK
<1>f. ASSUME Counted' = Counted, LostDecrement' = LostDecrement, flows' = flows
      PROVE  GaugeInv'
  BY <1>f DEF GaugeInv
<1>r. ASSUME NEW t \in Ids, NEW q \in ReplyPoints \ {"none"},
             rpc[t] # "none", rpc' = [rpc EXCEPT ![t] = q],
             UNCHANGED <<closed, lpc, cur>>
      PROVE  Counted' = Counted
  BY <1>r DEF Counted, Types
<1>1. CASE Connect
  <2>1. Counted' = Counted /\ LostDecrement' = LostDecrement
    BY <1>1 DEF Connect, Counted, LostDecrement, replyVars
  <2> QED BY <1>1, <1>f, <2>1 DEF Connect
<1>2. CASE Insert
  <2>1. lpc = "insert" /\ sessions[Client] = NoSession
    BY <1>2 DEF Insert, NewSessionInv
  <2>2. Counted' = Counted
    BY <1>2, <2>1 DEF Insert, Counted, replyVars
  <2>3. LostDecrement' = 0 /\ LostDecrement = 0
    BY <1>2, <2>1 DEF Insert, LostDecrement, NewSessionInv
  <2> QED BY <1>2, <1>f, <2>2, <2>3 DEF Insert
<1>3. CASE RecordOpen
  <2>1. cur \in Ids /\ rpc[cur] = "none" /\ lpc = "open" /\ lpc' = "spawn" /\ flows' = flows + 1
    BY <1>3 DEF RecordOpen, PointsInv, NewSessionInv
  <2>2. LostDecrement' = 0
    BY <2>1 DEF LostDecrement
  <2>3. UNCHANGED <<cur, closed, rpc>>
    BY <1>3 DEF RecordOpen, objectVars, replyVars
  <2>4. CASE closed[cur]
    <3>1. Counted' = Counted /\ LostDecrement = 1
      BY <2>1, <2>3, <2>4 DEF Counted, LostDecrement
    <3> QED BY <1>n, <2>1, <2>2, <3>1 DEF GaugeInv
  <2>5. CASE ~closed[cur]
    <3>1. Counted' = Counted \cup {cur} /\ LostDecrement = 0
      BY <2>1, <2>3, <2>5 DEF Counted, LostDecrement
    <3>2. Cardinality(Counted \cup {cur}) <= Cardinality(Counted) + 1
      <4>1. IsFiniteSet(Counted)
        BY CountedFinite
      <4>2. Cardinality(Counted \cup {cur})
              = IF cur \in Counted THEN Cardinality(Counted) ELSE Cardinality(Counted) + 1
        BY ONLY <4>1, FS_AddElement
      <4> QED BY <1>n, <4>2
    <3> QED BY <1>n, <2>1, <2>2, <3>1, <3>2 DEF GaugeInv
  <2> QED BY <2>4, <2>5
<1>4. CASE SpawnReply
  <2>1. Counted' = Counted /\ LostDecrement' = LostDecrement
    BY <1>4 DEF SpawnReply, Counted, LostDecrement, PointsInv, Types, objectVars
  <2> QED BY <1>4, <1>f, <2>1 DEF SpawnReply
<1>5. CASE LookupHit \/ LookupMiss \/ TouchFound \/ ConnectFail \/ ForwardClientPacket \/ ListenerRecv
           \/ ListenerShutdown
  <2>1. UNCHANGED <<rpc, closed, flows>> /\ lpc \notin {"open", "spawn"} /\ lpc' \notin {"open", "spawn"}
    BY <1>5
       DEF LookupHit, LookupMiss, TouchFound, ConnectFail, ForwardClientPacket, SendOk, SendErr,
           TouchSent, NextDatagram, ListenerRecv, ListenerShutdown, objectVars, replyVars
  <2>2. Counted' = Counted /\ LostDecrement' = LostDecrement
    BY <2>1 DEF Counted, LostDecrement
  <2> QED BY <1>f, <2>1, <2>2
<1>6. CASE Drain
  <2>1. lpc \notin {"open", "spawn"} /\ lpc' \notin {"open", "spawn"} /\ UNCHANGED rpc
    BY <1>6 DEF Drain, DrainRemove, DrainRetire, DrainDone, JoinCleanup, JoinSender, replyVars
  <2>2. CASE DrainRetire
    <3>1. cur \in Ids /\ rpc[cur] # "none" /\ Retire(cur)
      BY <2>2 DEF DrainRetire, PointsInv, TakenInv
    <3>2. Counted' = Counted \ {cur}
      BY <2>1, <3>1 DEF Retire, Counted, Types
    <3>3. LostDecrement' = IF lpc = "open" /\ (closed[cur] \/ cur = cur) THEN 1 ELSE 0
      BY <2>1 DEF LostDecrement
    <3> QED BY <3>1, <3>2, <3>3, RetireGauge DEF Published
  <2>3. CASE ~DrainRetire
    <3>1. UNCHANGED <<closed, flows>>
      BY <1>6, <2>3 DEF Drain, DrainRemove, DrainDone, JoinCleanup, JoinSender, objectVars
    <3>2. Counted' = Counted /\ LostDecrement' = LostDecrement
      BY <2>1, <3>1 DEF Counted, LostDecrement
    <3> QED BY <1>f, <3>1, <3>2
  <2> QED BY <2>2, <2>3
<1>7. CASE SweepRetire
  <2>1. /\ ccur \in Ids /\ Published(ccur) /\ Retire(ccur)
        /\ UNCHANGED <<lpc, cur, rpc>>
    BY <1>7 DEF SweepRetire, PointsInv, TakenInv, listenerVars, replyVars
  <2>2. Counted' = Counted \ {ccur}
    BY <2>1 DEF Retire, Counted, Types
  <2>3. LostDecrement' = IF lpc = "open" /\ (closed[cur] \/ cur = ccur) THEN 1 ELSE 0
    BY <2>1 DEF Retire, LostDecrement, PointsInv, Types
  <2> QED BY <2>1, <2>2, <2>3, RetireGauge
<1>8. ASSUME NEW s \in Ids, ReplyRetire(s) PROVE GaugeInv'
  <2>1. /\ rpc[s] = "retire" /\ rpc' = [rpc EXCEPT ![s] = "done"] /\ Retire(s)
        /\ UNCHANGED <<lpc, cur>>
    BY <1>8 DEF ReplyRetire, listenerVars
  <2>2. Counted' = Counted \ {s}
    BY <2>1 DEF Retire, Counted, Types
  <2>3. LostDecrement' = IF lpc = "open" /\ (closed[cur] \/ cur = s) THEN 1 ELSE 0
    BY <2>1 DEF Retire, LostDecrement, PointsInv, Types
  <2>4. Published(s)
    BY <2>1 DEF Published
  <2> QED BY <2>1, <2>2, <2>3, <2>4, RetireGauge
<1>9. ASSUME NEW s \in Ids,
             \/ ReplyRecv(s) \/ Deliver(s) \/ ReplyFail(s)
             \/ ReplyShutdown(s) \/ ReplyCancelled(s) \/ ReplyRemove(s)
      PROVE  GaugeInv'
  <2>1. UNCHANGED <<closed, flows, lpc, cur>>
    BY <1>9
       DEF ReplyRecv, Deliver, ReplyQueued, ReplyDropped, ReplyClosed, ReplyFail, ReplyShutdown,
           ReplyCancelled, ReplyRemove, ReplyEnd, objectVars, listenerVars
  <2>2. \E q \in ReplyPoints \ {"none"} : rpc[s] # "none" /\ rpc' = [rpc EXCEPT ![s] = q]
    BY <1>9
       DEF ReplyRecv, Deliver, ReplyQueued, ReplyDropped, ReplyClosed, ReplyFail, ReplyShutdown,
           ReplyCancelled, ReplyRemove, ReplyEnd, NextReply, ReplyPoints
  <2>3. Counted' = Counted
    BY <1>r, <2>1, <2>2
  <2>4. LostDecrement' = LostDecrement
    BY <2>1 DEF LostDecrement
  <2> QED BY <1>f, <2>1, <2>3, <2>4
<1>10. CASE \/ CleanupTick \/ ListIdle \/ (\E e \in stale : SweepRemove(e[1], e[2])) \/ SweepDone \/ CleanupShutdown
            \/ ClockMoves \/ Shutdown \/ SenderExit \/ Terminated \/ UNCHANGED vars
  <2>1. UNCHANGED <<closed, flows, lpc, cur, rpc>>
    BY <1>10
       DEF CleanupTick, ListIdle, SweepRemove, SweepDone, CleanupShutdown, ClockMoves, Shutdown, SenderExit,
           Terminated, vars, objectVars, listenerVars, replyVars
  <2>2. Counted' = Counted /\ LostDecrement' = LostDecrement
    BY <2>1 DEF Counted, LostDecrement
  <2> QED BY <1>f, <2>1, <2>2
<1> QED
  BY <1>1, <1>2, <1>3, <1>4, <1>5, <1>6, <1>7, <1>8, <1>9, <1>10
     DEF Next, GetOrCreate, Cleanup, ReplyExit

(***************************************************************************)
(* The theorems.                                                           *)
(***************************************************************************)

LEMMA IInvInit == Init => IInv
<1> SUFFICES ASSUME Init PROVE IInv
  OBVIOUS
<1>1. TypeOK
  BY TypingInit
<1>2. InboxInv /\ PointsInv /\ DrainInv
  BY DEF Init, InboxInv, PointsInv, DrainInv
<1>3. FreshInv
  BY DEF Init, FreshInv, InTable, Ids, NoSession
<1>4. NewSessionInv /\ SessionServed /\ EntryInv /\ DrainedStaysEmpty
  BY DEF Init, NewSessionInv, SessionServed, EntryInv, DrainedStaysEmpty, Live
<1>5. TakenInv
  BY DEF Init, TakenInv
<1>6. GaugeInv
  <2>1. Counted = {}
    BY DEF Init, Counted
  <2>2. Cardinality(Counted) = 0
    BY <2>1, FS_EmptySet
  <2> QED BY <2>2 DEF Init, GaugeInv, LostDecrement
<1> QED BY <1>1, <1>2, <1>3, <1>4, <1>5, <1>6 DEF IInv, TableInv

LEMMA IInvStep == IInv /\ [Next]_vars => IInv'
BY TypingStep, InboxStep, TableStep, DrainStep, GaugeStep DEF IInv, TableInv

LEMMA Inductive == Spec => []IInv
BY IInvInit, IInvStep, PTL DEF Spec

\* Every variable stays within its type: no clock, inbox or gauge underflows
\* and no task works on a session that does not exist (udp_session.rs as a
\* whole).
THEOREM Typing == Spec => []TypeOK
<1>1. IInv => TypeOK
  BY DEF IInv
<1> QED BY <1>1, Inductive, PTL

\* A session in the table is its source's, is not cancelled, and has a reply
\* task that serves it or will take it out (get_or_create, reply_loop).
THEOREM Served == Spec => []SessionServed
<1>1. IInv => SessionServed
  BY DEF IInv, TableInv
<1> QED BY <1>1, Inductive, PTL

\* The entry get_or_create inserts into is vacant (udp_session.rs:123-135).
THEOREM Vacant == Spec => []InsertFindsVacant
<1>1. IInv => InsertFindsVacant
  BY DEF IInv, TableInv, NewSessionInv, InsertFindsVacant
<1> QED BY <1>1, Inductive, PTL

\* After shutdown_all the table is empty and stays empty (udp.rs:72-84).
THEOREM Drained == Spec => []DrainedStaysEmpty
<1>1. IInv => DrainedStaysEmpty
  BY DEF IInv
<1> QED BY <1>1, Inductive, PTL

\* The gauge counts at least the sessions in the table: each of them is a
\* different session that has been counted in and not out.
LEMMA LiveAreCounted == IInv => GaugeCoversTable
<1> SUFFICES ASSUME IInv, lpc # "open" PROVE flows >= Cardinality(Live)
  BY DEF GaugeCoversTable
<1> USE TypeOKTypes DEF IInv, TableInv
<1> DEFINE f == [c \in Live |-> sessions[c]]
<1>1. ASSUME NEW c \in Live PROVE sessions[c] \in Counted /\ owner[sessions[c]] = c
  BY <1>1 DEF Live, Counted, SessionServed, EntryInv, Types
<1>2. f \in Injection(Live, Counted)
  <2>1. f \in [Live -> Counted]
    BY <1>1
  <2>2. \A c, d \in Live : f[c] = f[d] => c = d
    BY <1>1
  <2> QED BY <2>1, <2>2 DEF Injection, IsInjective
<1>3. Cardinality(Live) <= Cardinality(Counted) /\ IsFiniteSet(Live)
  BY <1>2, CountedFinite, FS_Injection
<1>4. Cardinality(Live) \in Nat /\ Cardinality(Counted) \in Nat /\ flows \in Nat
  BY <1>3, CountedFinite, FS_CardinalityType DEF TypeOK
<1>5. flows >= Cardinality(Counted)
  BY <1>4 DEF GaugeInv, LostDecrement
<1> QED BY <1>3, <1>4, <1>5

\* udp_active_flows never counts fewer flows than the table holds.
THEOREM Gauge == Spec => []GaugeCoversTable
BY LiveAreCounted, Inductive, PTL

\* A session leaves the table only for a cause of its own: it was listed by
\* cleanup or by shutdown_all, or its reply task has ended (remove_session's
\* comparison of the ids).
THEOREM Cause == Spec => RemovedForCause
<1>1. IInv /\ [Next]_vars => HasCause
  <2> SUFFICES ASSUME IInv, [Next]_vars, NEW c \in Sources, sessions[c] # NoSession,
                      sessions'[c] # sessions[c]
               PROVE  \/ <<c, sessions[c]>> \in stale
                      \/ <<c, sessions[c]>> \in todo
                      \/ rpc[sessions[c]] = "remove"
    BY DEF Live, HasCause
  <2> USE TypeOKTypes DEF IInv, TableInv
  <2>1. ASSUME NEW e \in todo, DrainRemove(e[1], e[2]) PROVE <<c, sessions[c]>> \in todo
    BY <2>1, RemoveIfEffect DEF DrainRemove, Matches, Types, RemoveIf
  <2>2. ASSUME NEW e \in stale, SweepRemove(e[1], e[2]) PROVE <<c, sessions[c]>> \in stale
    BY <2>2, RemoveIfEffect DEF SweepRemove, Matches, Types, RemoveIf
  <2>3. ASSUME NEW s \in Ids, ReplyRemove(s) PROVE rpc[sessions[c]] = "remove"
    BY <2>3 DEF ReplyRemove, RemoveIf, Matches, Types
  <2>4. CASE Insert
    BY <2>4 DEF Insert, NewSessionInv, Types
  <2>5. CASE ListenerRecv \/ LookupHit \/ LookupMiss \/ TouchFound \/ Connect \/ ConnectFail
             \/ RecordOpen \/ SpawnReply \/ ForwardClientPacket \/ ListenerShutdown \/ DrainRetire
             \/ DrainDone \/ JoinCleanup \/ JoinSender
    BY <2>5
       DEF ListenerRecv, LookupHit, LookupMiss, TouchFound, Connect, ConnectFail, RecordOpen,
           SpawnReply, ForwardClientPacket, SendOk, SendErr, TouchSent, ListenerShutdown,
           DrainRetire, DrainDone, JoinCleanup, JoinSender, tableVars
  <2>6. CASE CleanupTick \/ ListIdle \/ SweepRetire \/ SweepDone \/ CleanupShutdown
    BY <2>6 DEF CleanupTick, ListIdle, SweepRetire, SweepDone, CleanupShutdown, tableVars
  <2>7. ASSUME NEW s \in Ids,
               \/ ReplyRecv(s) \/ Deliver(s) \/ ReplyFail(s)
               \/ ReplyShutdown(s) \/ ReplyCancelled(s) \/ ReplyRetire(s)
        PROVE  FALSE
    BY <2>7
       DEF ReplyRecv, Deliver, ReplyQueued, ReplyDropped, ReplyClosed, ReplyFail, ReplyShutdown,
           ReplyCancelled, ReplyRetire, ReplyEnd, tableVars
  <2>8. CASE ClockMoves \/ Shutdown \/ SenderExit \/ Terminated \/ UNCHANGED vars
    BY <2>8 DEF ClockMoves, Shutdown, SenderExit, Terminated, vars, tableVars
  <2> QED
    BY <2>1, <2>2, <2>3, <2>4, <2>5, <2>6, <2>7, <2>8
       DEF Next, GetOrCreate, Drain, Cleanup, ReplyExit
<1>2. IInv /\ [Next]_vars => [HasCause]_vars
  BY <1>1
<1> QED BY <1>2, Inductive, PTL DEF Spec, RemovedForCause

\* Whatever is done to the wall clock, cleanup lists only sessions whose last
\* touch is the whole timeout before the second it read: the saturating
\* subtraction of cleanup_loop turns a later touch into an idle time of zero.
THEOREM ListsOnlyIdle == Spec => ListedAreIdle
<1>1. ASSUME TypeOK, ListIdle, NEW e \in stale'
      PROVE  Epoch(lastActive[e[2]]) + TimeoutSeconds <= cnow
  <2>1. e[2] \in Ids /\ IdleAt(e[2], cnow) >= TimeoutSeconds
    BY <1>1, TypeOKTypes DEF ListIdle, Entries, Types
  <2>2. lastActive[e[2]] \in Nat /\ cnow \in Nat
    BY <1>1, <2>1, ConstantsAssumption DEF TypeOK, ObjectTypes, CleanupTypes
  <2>3. Epoch(lastActive[e[2]]) \in Nat
    BY <2>2, EpochTypes
  <2>4. TimeoutSeconds \in Nat /\ TimeoutSeconds >= 1
    BY EpochTypes, ConstantsAssumption DEF TimeoutSeconds
  <2> QED BY <2>1, <2>2, <2>3, <2>4 DEF IdleAt, SaturatingSub
<1>2. ASSUME [Next]_vars, cpc = "list", cpc' = "sweep" PROVE ListIdle
  <2> USE <1>2
  <2>1. CASE Cleanup \/ CleanupShutdown
    BY <2>1 DEF Cleanup, CleanupTick, SweepRemove, SweepRetire, SweepDone, CleanupShutdown
  <2>2. ASSUME ~(Cleanup \/ CleanupShutdown) PROVE cpc' = cpc
    BY <2>2 DEF Next, GetOrCreate, LookupHit, LookupMiss, TouchFound, Connect, ConnectFail,
           Insert, RecordOpen, SpawnReply, ForwardClientPacket, SendOk, SendErr, TouchSent,
           ListenerRecv, ListenerShutdown, Drain, DrainRemove, DrainRetire, DrainDone,
           JoinCleanup, JoinSender, ReplyRecv, Deliver, ReplyQueued, ReplyDropped, ReplyClosed,
           ReplyFail, ReplyShutdown, ReplyCancelled, ReplyExit, ReplyRemove, ReplyRetire,
           ReplyEnd, ClockMoves, Shutdown, SenderExit, Terminated, vars, cleanupVars
  <2> QED BY <2>1, <2>2
<1>3. TypeOK /\ [Next]_vars =>
        [cpc = "list" /\ cpc' = "sweep" =>
           \A e \in stale' : Epoch(lastActive[e[2]]) + TimeoutSeconds <= cnow]_<<cpc, stale>>
  BY <1>1, <1>2
<1>4. IInv => TypeOK
  BY DEF IInv
<1> QED BY <1>3, <1>4, Inductive, PTL DEF Spec, ListedAreIdle
=============================================================================
