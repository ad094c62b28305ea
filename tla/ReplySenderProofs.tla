-------------------------- MODULE ReplySenderProofs --------------------------
(***************************************************************************)
(* Proofs about ReplySender, for any number of reply tasks, any queue      *)
(* capacity and any batch size.  Every step does one of five things to the *)
(* replies on their way (Pending) and to those the kernel took: one enters *)
(* at the back, some leave at the front to be delivered or to be lost, all *)
(* are lost, or none moves.  The lemmas of the second part say which; all  *)
(* the rest is about Pending alone, and no longer about the sender's batch *)
(* and its two cursors.                                                    *)
(***************************************************************************)
EXTENDS ReplySender, FiniteSetTheorems, SequenceTheorems, TLAPS

\* What is left of a sequence after its first k elements.
Rest(s, k) == SubSeq(s, k + 1, Len(s))
First(s, k) == SubSeq(s, 1, k)

-----------------------------------------------------------------------------
(* Sequences that lose a front.                                            *)

LEMMA RestIs ==
  ASSUME NEW S, NEW s \in Seq(S), NEW k \in 0 .. Len(s)
  PROVE  /\ Rest(s, k) \in Seq(S) /\ Len(Rest(s, k)) = Len(s) - k
         /\ \A i \in 1 .. Len(s) - k : Rest(s, k)[i] = s[k + i]
<1>1. Len(s) \in Nat /\ k + 1 \in Int /\ Len(s) \in Int /\ \A i \in k + 1 .. Len(s) : s[i] \in S
  OBVIOUS
<1>2. /\ Rest(s, k) \in Seq(S)
      /\ Len(Rest(s, k)) = IF k + 1 <= Len(s) THEN Len(s) - (k + 1) + 1 ELSE 0
      /\ \A i \in 1 .. Len(s) - (k + 1) + 1 : Rest(s, k)[i] = s[k + 1 + i - 1]
  BY <1>1, SubSeqProperties DEF Rest
<1> HIDE DEF Rest
<1>3. Len(Rest(s, k)) = Len(s) - k
  BY <1>1, <1>2
<1>4. ASSUME NEW i \in 1 .. Len(s) - k PROVE Rest(s, k)[i] = s[k + i]
  <2>1. i \in 1 .. Len(s) - (k + 1) + 1 /\ k + 1 + i - 1 = k + i
    BY <1>1
  <2>2. QED BY <1>2, <2>1
<1>5. QED BY <1>2, <1>3, <1>4

LEMMA FirstIs ==
  ASSUME NEW S, NEW s \in Seq(S), NEW k \in 0 .. Len(s)
  PROVE  /\ First(s, k) \in Seq(S) /\ Len(First(s, k)) = k
         /\ \A i \in 1 .. k : First(s, k)[i] = s[i]
<1>1. Len(s) \in Nat /\ k \in Int /\ 1 \in Int /\ \A i \in 1 .. k : s[i] \in S
  OBVIOUS
<1>2. /\ First(s, k) \in Seq(S)
      /\ Len(First(s, k)) = IF 1 <= k THEN k - 1 + 1 ELSE 0
      /\ \A i \in 1 .. k - 1 + 1 : First(s, k)[i] = s[1 + i - 1]
  BY <1>1, SubSeqProperties DEF First
<1>3. Len(First(s, k)) = k
  BY <1>1, <1>2
<1>4. ASSUME NEW i \in 1 .. k PROVE First(s, k)[i] = s[i]
  <2>1. i \in 1 .. k - 1 + 1 /\ 1 + i - 1 = i
    BY <1>1
  <2>2. QED BY <1>2, <2>1
<1>5. QED BY <1>2, <1>3, <1>4

LEMMA JoinIs ==
  ASSUME NEW S, NEW a \in Seq(S), NEW b \in Seq(S)
  PROVE  /\ a \o b \in Seq(S) /\ Len(a \o b) = Len(a) + Len(b)
         /\ \A i \in 1 .. Len(a) : (a \o b)[i] = a[i]
         /\ \A i \in 1 .. Len(b) : (a \o b)[Len(a) + i] = b[i]
<1>1. Len(a) \in Nat /\ Len(b) \in Nat
  OBVIOUS
<1>2. /\ a \o b \in Seq(S) /\ Len(a \o b) = Len(a) + Len(b)
      /\ \A i \in 1 .. Len(a) + Len(b) : (a \o b)[i] = IF i <= Len(a) THEN a[i] ELSE b[i - Len(a)]
  BY ConcatProperties
<1>3. \A i \in 1 .. Len(a) : i \in 1 .. Len(a) + Len(b) /\ i <= Len(a)
  BY <1>1
<1>4. \A i \in 1 .. Len(b) : /\ Len(a) + i \in 1 .. Len(a) + Len(b)
                             /\ ~(Len(a) + i <= Len(a)) /\ Len(a) + i - Len(a) = i
  BY <1>1
<1>5. QED BY <1>2, <1>3, <1>4

\* A front of the first of two joined sequences.
LEMMA SplitIs ==
  ASSUME NEW S, NEW a \in Seq(S), NEW b \in Seq(S), NEW k \in 0 .. Len(a)
  PROVE  /\ k \in 0 .. Len(a \o b)
         /\ Rest(a \o b, k) = Rest(a, k) \o b
         /\ First(a \o b, k) = First(a, k)
<1> DEFINE c == a \o b
<1>1. /\ c \in Seq(S) /\ Len(c) = Len(a) + Len(b)
      /\ \A i \in 1 .. Len(a) : c[i] = a[i]
      /\ \A i \in 1 .. Len(b) : c[Len(a) + i] = b[i]
  BY JoinIs
<1> HIDE DEF c
<1>2. Len(a) \in Nat /\ Len(b) \in Nat /\ k \in 0 .. Len(c)
  BY <1>1
<1>3. /\ Rest(a, k) \in Seq(S) /\ Len(Rest(a, k)) = Len(a) - k
      /\ \A i \in 1 .. Len(a) - k : Rest(a, k)[i] = a[k + i]
  BY RestIs
<1>4. /\ Rest(c, k) \in Seq(S) /\ Len(Rest(c, k)) = Len(c) - k
      /\ \A i \in 1 .. Len(c) - k : Rest(c, k)[i] = c[k + i]
  BY <1>1, <1>2, RestIs
<1>5. PICK r \in Seq(S) : r = Rest(a, k)
  BY <1>3
<1> DEFINE d == r \o b
<1>6. /\ d \in Seq(S) /\ Len(d) = Len(a) - k + Len(b)
      /\ \A i \in 1 .. Len(a) - k : d[i] = r[i]
      /\ \A i \in 1 .. Len(b) : d[Len(a) - k + i] = b[i]
  <2>1. /\ d \in Seq(S) /\ Len(d) = Len(r) + Len(b)
        /\ \A i \in 1 .. Len(r) : d[i] = r[i]
        /\ \A i \in 1 .. Len(b) : d[Len(r) + i] = b[i]
    BY JoinIs
  <2>2. QED BY <1>3, <1>5, <2>1
<1> HIDE DEF d
<1>7. Rest(c, k) = d
  <2>1. ASSUME NEW i \in 1 .. Len(c) - k PROVE Rest(c, k)[i] = d[i]
    <3>1. CASE i <= Len(a) - k
      <4>1. i \in 1 .. Len(a) - k /\ k + i \in 1 .. Len(a)
        BY <1>1, <1>2, <3>1
      <4>2. QED BY <1>1, <1>3, <1>4, <1>5, <1>6, <4>1
    <3>2. CASE ~(i <= Len(a) - k)
      <4> DEFINE j == i - (Len(a) - k)
      <4>1. j \in 1 .. Len(b) /\ i = Len(a) - k + j /\ k + i = Len(a) + j
        BY <1>1, <1>2, <3>2
      <4> HIDE DEF j
      <4>2. Rest(c, k)[i] = c[Len(a) + j] /\ d[i] = b[j]
        BY <1>4, <1>6, <4>1
      <4>3. QED BY <1>1, <4>1, <4>2
    <3>3. QED BY <3>1, <3>2
  <2>2. Len(Rest(c, k)) = Len(d)
    BY <1>1, <1>2, <1>4, <1>6
  <2>3. QED BY <1>4, <1>6, <2>1, <2>2, SeqEqual
<1>8. First(c, k) = First(a, k)
  <2>1. /\ First(c, k) \in Seq(S) /\ Len(First(c, k)) = k
        /\ \A i \in 1 .. k : First(c, k)[i] = c[i]
    BY <1>1, <1>2, FirstIs
  <2>2. /\ First(a, k) \in Seq(S) /\ Len(First(a, k)) = k
        /\ \A i \in 1 .. k : First(a, k)[i] = a[i]
    BY FirstIs
  <2>3. \A i \in 1 .. k : i \in 1 .. Len(a)
    BY <1>2
  <2>4. \A i \in 1 .. Len(First(c, k)) : First(c, k)[i] = First(a, k)[i]
    BY <1>1, <2>1, <2>2, <2>3
  <2>5. QED BY <2>1, <2>2, <2>4, SeqEqual
<1>9. QED BY <1>2, <1>5, <1>7, <1>8 DEF c, d

\* A front of what is left.
LEMMA RestOfRest ==
  ASSUME NEW S, NEW s \in Seq(S), NEW j \in 0 .. Len(s), NEW k \in 0 .. Len(s) - j
  PROVE  /\ Rest(Rest(s, j), k) = Rest(s, j + k)
         /\ First(Rest(s, j), k) = SubSeq(s, j + 1, j + k)
<1>1. /\ Rest(s, j) \in Seq(S) /\ Len(Rest(s, j)) = Len(s) - j
      /\ \A i \in 1 .. Len(s) - j : Rest(s, j)[i] = s[j + i]
  BY RestIs
<1>2. Len(s) \in Nat /\ j \in Nat /\ k \in Nat /\ j + k \in 0 .. Len(s) /\ k \in 0 .. Len(Rest(s, j))
  BY <1>1
<1>3. Rest(Rest(s, j), k) = Rest(s, j + k)
  <2>1. /\ Rest(Rest(s, j), k) \in Seq(S) /\ Len(Rest(Rest(s, j), k)) = Len(s) - j - k
        /\ \A i \in 1 .. Len(s) - j - k : Rest(Rest(s, j), k)[i] = Rest(s, j)[k + i]
    BY <1>1, <1>2, RestIs
  <2>2. /\ Rest(s, j + k) \in Seq(S) /\ Len(Rest(s, j + k)) = Len(s) - (j + k)
        /\ \A i \in 1 .. Len(s) - (j + k) : Rest(s, j + k)[i] = s[j + k + i]
    BY <1>2, RestIs
  <2>3. \A i \in 1 .. Len(s) - j - k :
          i \in 1 .. Len(s) - (j + k) /\ k + i \in 1 .. Len(s) - j /\ j + (k + i) = j + k + i
    BY <1>2
  <2>4. \A i \in 1 .. Len(Rest(Rest(s, j), k)) : Rest(Rest(s, j), k)[i] = Rest(s, j + k)[i]
    BY <1>1, <2>1, <2>2, <2>3
  <2>5. Len(Rest(Rest(s, j), k)) = Len(Rest(s, j + k))
    <3>1. Len(s) - j - k = Len(s) - (j + k)
      BY <1>2
    <3>2. QED BY <2>1, <2>2, <3>1
  <2>6. QED BY <2>1, <2>2, <2>4, <2>5, SeqEqual
<1>4. First(Rest(s, j), k) = SubSeq(s, j + 1, j + k)
  <2>1. /\ First(Rest(s, j), k) \in Seq(S) /\ Len(First(Rest(s, j), k)) = k
        /\ \A i \in 1 .. k : First(Rest(s, j), k)[i] = Rest(s, j)[i]
    BY <1>1, <1>2, FirstIs
  <2>2. /\ SubSeq(s, j + 1, j + k) \in Seq(S) /\ Len(SubSeq(s, j + 1, j + k)) = k
        /\ \A i \in 1 .. k : SubSeq(s, j + 1, j + k)[i] = s[j + i]
    <3>1. j + 1 \in Int /\ j + k \in Int /\ \A i \in j + 1 .. j + k : s[i] \in S
      BY <1>2
    <3>2. /\ SubSeq(s, j + 1, j + k) \in Seq(S)
          /\ Len(SubSeq(s, j + 1, j + k)) = IF j + 1 <= j + k THEN j + k - (j + 1) + 1 ELSE 0
          /\ \A i \in 1 .. j + k - (j + 1) + 1 : SubSeq(s, j + 1, j + k)[i] = s[j + 1 + i - 1]
      BY <3>1, SubSeqProperties
    <3>3. j + k - (j + 1) + 1 = k /\ \A i \in 1 .. k : j + 1 + i - 1 = j + i
      BY <1>2
    <3>4. QED BY <1>2, <3>2, <3>3
  <2>3. \A i \in 1 .. k : i \in 1 .. Len(s) - j
    BY <1>2
  <2>4. \A i \in 1 .. Len(First(Rest(s, j), k)) :
          First(Rest(s, j), k)[i] = SubSeq(s, j + 1, j + k)[i]
    BY <1>1, <2>1, <2>2, <2>3
  <2>5. QED BY <2>1, <2>2, <2>4, SeqEqual
<1>5. QED BY <1>3, <1>4

\* A front and what is left make the sequence.
LEMMA FirstAndRest ==
  ASSUME NEW S, NEW s \in Seq(S), NEW k \in 0 .. Len(s)
  PROVE  First(s, k) \o Rest(s, k) = s
<1>1. Len(s) \in Nat
  OBVIOUS
<1>2. 1 \in 1 .. Len(s) + 1 /\ k \in 1 - 1 .. Len(s) /\ Len(s) \in k .. Len(s)
  BY <1>1
<1>3. SubSeq(s, 1, k) \o SubSeq(s, k + 1, Len(s)) = SubSeq(s, 1, Len(s))
  BY ONLY <1>2, s \in Seq(S), ConcatAdjacentSubSeq
<1>4. SubSeq(s, 1, Len(s)) = s
  BY SubSeqFull
<1>5. QED BY <1>3, <1>4 DEF First, Rest

LEMMA RestOfNone ==
  ASSUME NEW s, Len(s) \in Nat
  PROVE  Rest(s, Len(s)) = <<>>
BY SubSeqEmpty DEF Rest

-----------------------------------------------------------------------------
(* What each step does to the replies on their way.                        *)

\* Pending, with the two cursors taken together.
LEMMA PendingIs ==
  ASSUME IInv
  PROVE  /\ start + sent \in 0 .. Len(batch)
         /\ Pending = Rest(batch, start + sent) \o queue
         /\ Rest(batch, start + sent) \in Seq(Replies)
         /\ Pending \in Seq(Replies)
         /\ Len(Pending) = Len(batch) - (start + sent) + Len(queue)
         /\ Len(batch) \in Nat /\ Len(queue) \in Nat /\ Len(Pending) \in Nat
         /\ batch \in Seq(Replies) /\ queue \in Seq(Replies)
<1>1. /\ start + sent \in 0 .. Len(batch)
      /\ batch \in Seq(Replies) /\ queue \in Seq(Replies)
      /\ Len(batch) \in Nat /\ Len(queue) \in Nat
  BY DEF IInv, TypeOK
<1>2. Pending = Rest(batch, start + sent) \o queue
  BY DEF Pending, Rest
<1>3. Rest(batch, start + sent) \in Seq(Replies) /\ Len(Rest(batch, start + sent)) = Len(batch) - (start + sent)
  BY <1>1, RestIs
<1>4. PICK r \in Seq(Replies) : r = Rest(batch, start + sent)
  BY <1>3
<1>5. r \o queue \in Seq(Replies) /\ Len(r \o queue) = Len(r) + Len(queue)
  BY <1>1, JoinIs
<1>6. Len(Pending) = Len(batch) - (start + sent) + Len(queue) /\ Pending \in Seq(Replies)
  BY <1>2, <1>3, <1>4, <1>5
<1>7. QED BY <1>1, <1>2, <1>3, <1>6

\* A sender that waits for replies has none left in its batch.
LEMMA NothingLeft ==
  ASSUME IInv, spc \in {"recv", "done"}
  PROVE  sent = 0 /\ start = Len(batch) /\ Pending = queue
<1>1. sent = 0 /\ start = Len(batch)
  BY DEF IInv, SenderInv, TypeOK
<1>2. Rest(batch, start + sent) = <<>>
  BY <1>1, PendingIs, RestOfNone
<1>3. <<>> \o queue = queue
  BY PendingIs, ConcatEmptySeq
<1>4. QED BY <1>1, <1>2, <1>3, PendingIs

LEMMA ReplyType ==
  ASSUME IInv, NEW t \in Tasks, Produce(t)
  PROVE  /\ NextReply(t) \in Replies /\ produced[t] \in Nat
         /\ NextReply(t).by = t /\ NextReply(t).n = produced[t] + 1
         /\ produced' = [produced EXCEPT ![t] = produced[t] + 1]
         /\ produced' \in [Tasks -> 0 .. MaxReplies]
BY ReplyAssumption DEF IInv, TypeOK, Produce, NextReply, Replies

LEMMA OfferEnters ==
  ASSUME IInv, NEW t \in Tasks, OfferQueued(t)
  PROVE  Pending' = Append(Pending, NextReply(t)) /\ Len(Pending) < Capacity + BatchSize
<1>1. NextReply(t) \in Replies /\ queue' = Append(queue, NextReply(t)) /\ Len(queue) < Capacity
  BY ReplyType DEF OfferQueued
<1>2. Pending' = Rest(batch, start + sent) \o queue'
  BY DEF OfferQueued, senderVars, Pending, Rest
<1>3. PICK r \in Seq(Replies) : r = Rest(batch, start + sent)
  BY PendingIs
<1>4. PICK q \in Seq(Replies) : q = queue
  BY PendingIs
<1>5. PICK x \in Replies : x = NextReply(t)
  BY <1>1
<1>6. (r \o q) \o <<x>> = r \o (q \o <<x>>) /\ r \o q \in Seq(Replies)
  <2>1. <<x>> \in Seq(Replies)
    OBVIOUS
  <2>2. QED BY <2>1, ConcatAssociative, JoinIs
<1>7. Append(q, x) = q \o <<x>> /\ Append(r \o q, x) = (r \o q) \o <<x>>
  BY <1>6, AppendIsConcat
<1>8. Pending' = Append(Pending, NextReply(t))
  BY <1>1, <1>2, <1>3, <1>4, <1>5, <1>6, <1>7, PendingIs
<1>9. Len(Pending) < Capacity + BatchSize
  BY <1>1, PendingIs, ReplyAssumption DEF IInv, TypeOK
<1>10. QED BY <1>8, <1>9

\* A batch is the front of the queue: taking it moves no reply.
LEMMA ReceiveMovesNone ==
  ASSUME IInv, Receive
  PROVE  Pending' = Pending
<1>1. Pending = queue /\ sent = 0
  BY NothingLeft DEF Receive
<1>2. /\ batch' = First(queue, TakeN) /\ queue' = Rest(queue, TakeN)
      /\ start' = 0 /\ sent' = 0
  BY <1>1 DEF Receive, First, Rest
<1>3. queue \in Seq(Replies) /\ TakeN \in 0 .. Len(queue)
  BY PendingIs, ReplyAssumption DEF TakeN
<1>4. First(queue, TakeN) \in Seq(Replies)
  BY <1>3, FirstIs
<1>5. SubSeq(batch', 1, Len(batch')) = batch'
  BY <1>2, <1>4, SubSeqFull
<1>6. Pending' = First(queue, TakeN) \o Rest(queue, TakeN)
  <2>1. start' + sent' + 1 = 1
    BY <1>2
  <2>2. QED BY <1>2, <1>5, <2>1 DEF Pending
<1>7. QED BY <1>1, <1>3, <1>6, FirstAndRest

\* What sendmmsg takes, it takes from the front.
LEMMA SendDelivers ==
  ASSUME IInv, Send
  PROVE  /\ sent = 0 /\ sent' \in 1 .. Len(Pending) /\ sent' <= BatchSize
         /\ sent' \in 1 .. Len(batch) - start
         /\ Pending' = Rest(Pending, sent')
         /\ delivered' = delivered \o First(Pending, sent')
<1> DEFINE k == sent'
<1>1. /\ sent = 0 /\ k \in 1 .. Len(batch) - start /\ k \in Nat
      /\ start \in 0 .. Len(batch) /\ Len(batch) \in Nat /\ Len(batch) <= BatchSize
      /\ delivered' = delivered \o SubSeq(batch, start + 1, start + k)
      /\ Pending' = Rest(batch, start + k) \o queue
  BY DEF Send, IInv, SenderInv, TypeOK, Pending, Rest, queueVars
<1> HIDE DEF k
<1>2. PICK r \in Seq(Replies) : r = Rest(batch, start)
  BY <1>1, PendingIs
<1>3. /\ Pending = r \o queue /\ Len(Pending) = Len(batch) - start + Len(queue)
      /\ batch \in Seq(Replies) /\ queue \in Seq(Replies) /\ Len(queue) \in Nat
  BY <1>1, <1>2, PendingIs
<1>4. Len(r) = Len(batch) - start
  BY <1>1, <1>2, <1>3, RestIs
<1>5. Rest(r, k) = Rest(batch, start + k) /\ First(r, k) = SubSeq(batch, start + 1, start + k)
  <2>1. k \in 0 .. Len(batch) - start
    BY <1>1
  <2>2. QED BY <1>1, <1>2, <1>3, <2>1, RestOfRest
<1>6. k \in 0 .. Len(r)
  BY <1>1, <1>4
<1>7. Rest(r \o queue, k) = Rest(r, k) \o queue /\ First(r \o queue, k) = First(r, k)
  BY <1>3, <1>6, SplitIs
<1>8. k \in 1 .. Len(Pending) /\ k <= BatchSize
  BY <1>1, <1>3, ReplyAssumption
<1>9. QED BY <1>1, <1>3, <1>5, <1>7, <1>8 DEF k

\* A send that fails throws away the rest of the batch, which is in front.
LEMMA SendFailsLoses ==
  ASSUME IInv, SendFails
  PROVE  LET n == Len(batch) - start IN
         /\ sent = 0 /\ n \in 1 .. Len(Pending) /\ n <= BatchSize
         /\ Pending' = Rest(Pending, n)
         /\ lost' = lost \cup SetOf(First(Pending, n))
<1> DEFINE n == Len(batch) - start
<1>1. /\ sent = 0 /\ sent' = sent /\ start' = Len(batch) /\ batch' = batch /\ queue' = queue
      /\ start \in 0 .. Len(batch) /\ start < Len(batch)
      /\ Len(batch) \in Nat /\ Len(batch) <= BatchSize
      /\ lost' = lost \cup SetOf(Rest(batch, start))
      /\ Pending' = Rest(batch, Len(batch)) \o queue
  BY DEF SendFails, IInv, SenderInv, TypeOK, Pending, Rest, queueVars
<1>2. PICK r \in Seq(Replies) : r = Rest(batch, start)
  BY <1>1, PendingIs
<1>3. /\ Pending = r \o queue /\ Len(Pending) = n + Len(queue)
      /\ batch \in Seq(Replies) /\ queue \in Seq(Replies) /\ Len(queue) \in Nat
  BY <1>1, <1>2, PendingIs
<1>4. Len(r) = n
  BY <1>1, <1>2, <1>3, RestIs
<1>5. n \in Nat /\ n \in 1 .. Len(Pending) /\ n <= BatchSize /\ n \in 0 .. Len(r)
  BY <1>1, <1>3, <1>4, ReplyAssumption
<1> HIDE DEF n
<1>6. Rest(r \o queue, n) = Rest(r, n) \o queue /\ First(r \o queue, n) = First(r, n)
  BY <1>3, <1>5, SplitIs
<1>7. First(r, n) = r /\ Rest(r, n) = <<>>
  BY <1>4, <1>5, SubSeqFull, RestOfNone DEF First
<1>8. Rest(batch, Len(batch)) = <<>>
  BY <1>1, RestOfNone
<1>9. QED BY <1>1, <1>2, <1>3, <1>5, <1>6, <1>7, <1>8 DEF n

LEMMA StopLosesAll ==
  ASSUME IInv, SenderStops
  PROVE  /\ Pending = queue /\ Pending' = <<>>
         /\ First(Pending, Len(Pending)) = queue /\ Rest(Pending, Len(Pending)) = <<>>
<1>1. spc = "recv" /\ queue' = <<>> /\ batch' = batch /\ start' = start /\ sent' = sent
  BY DEF SenderStops
<1>2. Pending = queue /\ sent = 0 /\ start = Len(batch)
  BY <1>1, NothingLeft
<1>3. Rest(batch, start + sent) = <<>>
  BY <1>2, PendingIs, RestOfNone
<1>4. Pending' = Rest(batch, start + sent) \o <<>>
  BY <1>1 DEF Pending, Rest
<1>5. <<>> \o <<>> = <<>>
  BY ConcatEmptySeq, <<>> \in Seq(Replies)
<1>6. First(Pending, Len(Pending)) = queue /\ Rest(Pending, Len(Pending)) = <<>>
  BY <1>2, PendingIs, SubSeqFull, RestOfNone DEF First
<1>7. QED BY <1>2, <1>3, <1>4, <1>5, <1>6

LEMMA CountMovesNone ==
  ASSUME IInv, CountSent
  PROVE  Pending' = Pending
<1>1. start' + sent' = start + sent /\ batch' = batch /\ queue' = queue
  BY DEF CountSent, queueVars, IInv, TypeOK
<1>2. Pending' = Rest(batch', start' + sent') \o queue'
  BY DEF Pending, Rest
<1>3. QED BY <1>1, <1>2, PendingIs

\* The other steps touch neither the queue nor the batch nor its cursors.
Aside ==
  \/ \E t \in Tasks : SpawnTask(t) \/ OfferFull(t) \/ OfferClosed(t) \/ TaskEnds(t)
  \/ FlushEnds \/ Shutdown \/ DropTable \/ JoinSender \/ Terminated \/ UNCHANGED vars

LEMMA AsideMovesNone ==
  ASSUME Aside
  PROVE  UNCHANGED <<queue, rxOpen, batch, start, sent, out, delivered, lost, Pending>>
<1>1. UNCHANGED <<queue, rxOpen, batch, start, sent, out, delivered, lost>>
  BY DEF Aside, SpawnTask, OfferFull, OfferClosed, TaskEnds, FlushEnds, Shutdown, DropTable,
         JoinSender, Terminated, Produce, vars, queueVars, senderVars, history
<1>2. QED BY <1>1 DEF Pending

LEMMA StepIs ==
  [Next]_vars <=> \/ \E t \in Tasks : OfferQueued(t)
                  \/ Receive \/ Send \/ SendFails \/ SenderStops \/ CountSent
                  \/ Aside
BY DEF Next, Offer, Flush, Aside

-----------------------------------------------------------------------------
(* Order, over a sequence that loses or gains replies.                     *)

LEMMA UpcomingIs ==
  ASSUME IInv
  PROVE  /\ delivered \in Seq(Replies) /\ Len(delivered) \in Nat
         /\ Upcoming \in Seq(Replies) /\ Len(Upcoming) = Len(delivered) + Len(Pending)
         /\ \A i \in 1 .. Len(delivered) : Upcoming[i] = delivered[i]
         /\ \A i \in 1 .. Len(Pending) : Upcoming[Len(delivered) + i] = Pending[i]
<1>1. delivered \in Seq(Replies)
  BY DEF IInv, TypeOK
<1>2. PICK d \in Seq(Replies) : d = delivered
  BY <1>1
<1>3. PICK p \in Seq(Replies) : p = Pending
  BY PendingIs
<1>4. /\ d \o p \in Seq(Replies) /\ Len(d \o p) = Len(d) + Len(p)
      /\ \A i \in 1 .. Len(d) : (d \o p)[i] = d[i]
      /\ \A i \in 1 .. Len(p) : (d \o p)[Len(d) + i] = p[i]
  BY JoinIs
<1>5. Upcoming = d \o p /\ Len(d) \in Nat
  BY <1>2, <1>3 DEF Upcoming
<1>6. QED BY <1>2, <1>3, <1>4, <1>5

\* Two replies that are still pending are different ones.
LEMMA PendingIncreases ==
  ASSUME IInv
  PROVE  Increasing(Pending) /\ \A i, j \in 1 .. Len(Pending) : i < j => Pending[i] # Pending[j]
<1> DEFINE D == Len(delivered)
<1>1. /\ D \in Nat /\ Len(Pending) \in Nat /\ Len(Upcoming) = D + Len(Pending)
      /\ \A i \in 1 .. Len(Pending) : Upcoming[D + i] = Pending[i]
  BY UpcomingIs, PendingIs
<1> HIDE DEF D
<1>2. Increasing(Upcoming)
  BY DEF IInv
<1>3. ASSUME NEW i \in 1 .. Len(Pending), NEW j \in 1 .. Len(Pending), i < j,
             Pending[i].by = Pending[j].by
      PROVE  Pending[i].n < Pending[j].n
  <2>1. D + i \in 1 .. Len(Upcoming) /\ D + j \in 1 .. Len(Upcoming) /\ D + i < D + j
    BY <1>1, <1>3
  <2>2. Upcoming[D + i] = Pending[i] /\ Upcoming[D + j] = Pending[j]
    BY <1>1
  <2>3. QED BY <1>2, <1>3, <2>1, <2>2 DEF Increasing
<1>4. \A i \in 1 .. Len(Pending) : Pending[i] \in Replies /\ Pending[i].n \in Nat
  <2>1. \A i \in 1 .. Len(Pending) : Pending[i] \in Replies
    BY PendingIs
  <2>2. QED BY <2>1, ReplyAssumption DEF Replies
<1>5. ASSUME NEW i \in 1 .. Len(Pending), NEW j \in 1 .. Len(Pending), i < j
      PROVE  Pending[i] # Pending[j]
  <2> SUFFICES ASSUME Pending[i] = Pending[j] PROVE FALSE
    OBVIOUS
  <2>1. Pending[i].n < Pending[j].n /\ Pending[i].n = Pending[j].n
    BY <1>3, <1>5
  <2>2. QED BY <1>4, <2>1
<1>6. QED BY <1>3, <1>5 DEF Increasing

\* What leaves the front changes neither the order of the others nor a reply.
LEMMA DropIs ==
  ASSUME NEW d \in Seq(Replies), NEW p \in Seq(Replies), NEW n \in 0 .. Len(p)
  PROVE  /\ Len(d \o Rest(p, n)) = Len(d) + (Len(p) - n)
         /\ \A i \in 1 .. Len(d \o Rest(p, n)) :
              LET old == IF i <= Len(d) THEN i ELSE i + n
              IN  old \in 1 .. Len(d \o p) /\ (d \o Rest(p, n))[i] = (d \o p)[old]
<1>1. /\ Rest(p, n) \in Seq(Replies) /\ Len(Rest(p, n)) = Len(p) - n
      /\ \A i \in 1 .. Len(p) - n : Rest(p, n)[i] = p[n + i]
  BY RestIs
<1>2. PICK r \in Seq(Replies) : r = Rest(p, n)
  BY <1>1
<1>3. /\ Len(d \o r) = Len(d) + Len(r)
      /\ \A i \in 1 .. Len(d) : (d \o r)[i] = d[i]
      /\ \A i \in 1 .. Len(r) : (d \o r)[Len(d) + i] = r[i]
  BY JoinIs
<1>4. /\ Len(d \o p) = Len(d) + Len(p)
      /\ \A i \in 1 .. Len(d) : (d \o p)[i] = d[i]
      /\ \A i \in 1 .. Len(p) : (d \o p)[Len(d) + i] = p[i]
  BY JoinIs
<1>5. Len(d) \in Nat /\ Len(p) \in Nat /\ n \in Nat
  OBVIOUS
<1> DEFINE u == d \o p
           v == d \o r
           w == Rest(p, n)
<1>6. ASSUME NEW i \in 1 .. Len(v)
      PROVE  LET old == IF i <= Len(d) THEN i ELSE i + n
             IN  old \in 1 .. Len(u) /\ v[i] = u[old]
  <2>0. Len(u) = Len(d) + Len(p) /\ Len(v) = Len(d) + (Len(p) - n)
    BY <1>1, <1>2, <1>3, <1>4
  <2>1. CASE i <= Len(d)
    <3> HIDE DEF u, v, w
    <3>1. i \in 1 .. Len(d) /\ i \in 1 .. Len(u)
      BY <1>5, <2>0, <2>1
    <3>2. v[i] = d[i] /\ u[i] = d[i]
      BY <1>3, <1>4, <3>1 DEF u, v
    <3>3. QED BY <2>1, <3>1, <3>2
  <2>2. CASE ~(i <= Len(d))
    <3> DEFINE j == i - Len(d)
    <3> HIDE DEF u, v, w
    <3>1. /\ j \in 1 .. Len(p) - n /\ n + j \in 1 .. Len(p)
          /\ i = Len(d) + j /\ i + n = Len(d) + (n + j) /\ i + n \in 1 .. Len(u)
      BY <1>5, <2>0, <2>2
    <3> HIDE DEF j
    <3>2. v[i] = r[j]
      BY <1>1, <1>2, <1>3, <3>1 DEF v
    <3>3. u[i + n] = p[n + j]
      BY <1>4, <3>1 DEF u
    <3>4. r[j] = p[n + j]
      BY <1>1, <1>2, <3>1
    <3>5. QED BY <2>2, <3>1, <3>2, <3>3, <3>4
  <2>3. QED BY <2>1, <2>2
<1>7. Len(v) = Len(d) + (Len(p) - n)
  BY <1>1, <1>2, <1>3
<1>8. QED BY <1>2, <1>6, <1>7

-----------------------------------------------------------------------------
(* Counting.                                                               *)

Made(f) == {r \in Replies : r.n <= f[r.by]}

Balance ==
  Len(delivered) + Len(Pending) + Cardinality(lost) + dropped + Cardinality(refused)
    = Cardinality(Made(produced))

LEMMA AccountedIs ==
  EachReplyAccounted <=> /\ Balance /\ out + sent = Len(delivered)
                         /\ spc # "count" => sent = 0
BY DEF EachReplyAccounted, Balance, Made

LEMMA RepliesFinite ==
  ASSUME NEW T \in SUBSET Replies
  PROVE  IsFiniteSet(T) /\ Cardinality(T) \in Nat
<1> DEFINE P == Tasks \X (1 .. MaxReplies)
           f == [x \in P |-> [by |-> x[1], n |-> x[2]]]
<1>1. IsFiniteSet(P)
  <2>1. IsFiniteSet(1 .. MaxReplies)
    BY FS_Interval, ReplyAssumption
  <2>2. QED BY <2>1, FS_Product, ReplyAssumption
<1>2. f \in Surjection(P, Replies)
  <2>1. f \in [P -> Replies]
    BY DEF Replies
  <2>2. ASSUME NEW r \in Replies PROVE \E x \in P : f[x] = r
    <3>1. r.by \in Tasks /\ r.n \in 1 .. MaxReplies /\ r = [by |-> r.by, n |-> r.n]
      BY DEF Replies
    <3>2. <<r.by, r.n>> \in P /\ f[<<r.by, r.n>>] = r
      BY <3>1
    <3>3. QED BY <3>2
  <2> HIDE DEF f, P
  <2>3. QED BY <2>1, <2>2 DEF Surjection
<1> HIDE DEF f, P
<1>3. IsFiniteSet(Replies)
  BY <1>1, <1>2, FS_Surjection
<1>4. QED BY <1>3, FS_Subset, FS_CardinalityType

LEMMA CountsAre ==
  ASSUME IInv
  PROVE  /\ Len(delivered) \in Nat /\ Len(Pending) \in Nat /\ dropped \in Nat
         /\ Cardinality(lost) \in Nat /\ Cardinality(refused) \in Nat
         /\ Cardinality(Made(produced)) \in Nat
BY UpcomingIs, PendingIs, RepliesFinite DEF IInv, TypeOK, Made

\* One more reply is one more to account for.
LEMMA ProduceMakes ==
  ASSUME IInv, NEW t \in Tasks, Produce(t)
  PROVE  /\ Cardinality(Made(produced')) = Cardinality(Made(produced)) + 1
         /\ NextReply(t) \notin Made(produced)
<1>1. /\ NextReply(t) \in Replies /\ produced[t] \in Nat
      /\ NextReply(t).by = t /\ NextReply(t).n = produced[t] + 1
      /\ produced' = [produced EXCEPT ![t] = produced[t] + 1]
      /\ produced \in [Tasks -> 0 .. MaxReplies]
  BY ReplyType DEF IInv, TypeOK
<1>2. NextReply(t) \notin Made(produced)
  BY <1>1 DEF Made
<1>3. \A r \in Replies : r.by \in Tasks /\ r.n \in Nat
  BY ReplyAssumption DEF Replies
<1>4. \A r \in Replies : r.n <= produced'[r.by] <=> r.n <= produced[r.by] \/ r = NextReply(t)
  <2> TAKE r \in Replies
  <2>1. CASE r.by # t
    BY <1>1, <1>3, <2>1
  <2>2. CASE r.by = t
    <3>1. produced'[r.by] = produced[t] + 1
      BY <1>1, <2>2
    <3>2. r.n = produced[t] + 1 <=> r = NextReply(t)
      BY <1>1, <2>2 DEF Replies, NextReply
    <3>3. QED BY <1>1, <1>3, <2>2, <3>1, <3>2
  <2>3. QED BY <2>1, <2>2
<1>5. Made(produced') = Made(produced) \cup {NextReply(t)}
  BY <1>1, <1>4 DEF Made
<1>6. IsFiniteSet(Made(produced))
  BY RepliesFinite DEF Made
<1>7. QED BY <1>2, <1>5, <1>6, FS_AddElement

\* No reply already on its way, lost or refused is the one a task makes next.
LEMMA NextIsNew ==
  ASSUME IInv
  PROVE  /\ \A i \in 1 .. Len(Upcoming) : Upcoming[i] \in Made(produced)
         /\ lost \subseteq Made(produced) /\ refused \subseteq Made(produced)
BY UpcomingIs DEF IInv, TypeOK, NumbersInv, Made

\* Replies that leave the front together are as many as their number.
LEMMA FrontCounts ==
  ASSUME IInv, NEW n \in 0 .. Len(Pending)
  PROVE  /\ SetOf(First(Pending, n)) \subseteq Made(produced)
         /\ Cardinality(lost \cup SetOf(First(Pending, n))) = Cardinality(lost) + n
         /\ \A i \in 1 .. Len(Pending) - n : Rest(Pending, n)[i] \notin lost \cup SetOf(First(Pending, n))
<1>1. PICK p \in Seq(Replies) : p = Pending
  BY PendingIs
<1>2. /\ First(p, n) \in Seq(Replies) /\ Len(First(p, n)) = n
      /\ \A i \in 1 .. n : First(p, n)[i] = p[i]
  BY <1>1, FirstIs
<1>3. \A i, j \in 1 .. Len(p) : i < j => p[i] # p[j]
  BY <1>1, PendingIncreases
<1>4. \A i \in 1 .. Len(p) : p[i] \notin lost
  BY <1>1 DEF IInv, LostInv
<1>5. Len(p) \in Nat /\ n \in Nat /\ 1 .. n \subseteq 1 .. Len(p)
  BY <1>1
<1> DEFINE F == SetOf(First(p, n))
           f == [i \in 1 .. n |-> p[i]]
<1>6. F = {p[i] : i \in 1 .. n}
  BY <1>2 DEF SetOf
<1>7. IsFiniteSet(F) /\ Cardinality(F) = n
  <2>1. f \in [1 .. n -> F]
    BY <1>6
  <2>2. \A i, j \in 1 .. n : f[i] = f[j] => i = j
    BY <1>3, <1>5
  <2>3. \A r \in F : \E i \in 1 .. n : f[i] = r
    BY <1>6
  <2> HIDE DEF f, F
  <2>4. f \in Bijection(1 .. n, F)
    BY <2>1, <2>2, <2>3 DEF Bijection, Injection, IsInjective, Surjection
  <2>5. IsFiniteSet(1 .. n) /\ Cardinality(1 .. n) = n
    BY <1>5, FS_Interval
  <2>6. QED BY <2>4, <2>5, FS_Bijection DEF ExistsBijection
<1>8. F \cap lost = {}
  BY <1>4, <1>5, <1>6
<1>9. IsFiniteSet(lost) /\ Cardinality(lost) \in Nat
  BY RepliesFinite DEF IInv, TypeOK
<1> HIDE DEF F
<1>10. Cardinality(lost \cup F) = Cardinality(lost) + n
  <2>1. Cardinality(lost \cap F) = 0
    BY <1>8, FS_EmptySet
  <2>2. Cardinality(lost \cup F) = Cardinality(lost) + Cardinality(F) - Cardinality(lost \cap F)
    BY <1>7, <1>9, FS_Union
  <2>3. QED BY <1>5, <1>7, <1>9, <2>1, <2>2
<1>11. F \subseteq Made(produced)
  <2>1. \A i \in 1 .. n : p[i] \in Made(produced)
    <3> TAKE i \in 1 .. n
    <3>1. /\ i \in 1 .. Len(Pending) /\ Len(delivered) + i \in 1 .. Len(Upcoming)
          /\ Upcoming[Len(delivered) + i] = p[i]
      BY <1>1, <1>5, UpcomingIs
    <3>2. QED BY <3>1, NextIsNew
  <2>2. QED BY <1>6, <2>1
<1>12. ASSUME NEW i \in 1 .. Len(p) - n PROVE Rest(p, n)[i] \notin lost \cup F
  <2>1. Rest(p, n)[i] = p[n + i]
    BY <1>1, RestIs
  <2>2. n + i \in 1 .. Len(p) /\ \A j \in 1 .. n : j \in 1 .. Len(p) /\ j < n + i
    BY <1>5
  <2>3. QED BY <1>3, <1>4, <1>6, <2>1, <2>2
<1>13. QED BY <1>1, <1>10, <1>11, <1>12 DEF F

-----------------------------------------------------------------------------
(* The invariant: its base, and what each kind of step does to the part    *)
(* that is about the replies on their way.                                 *)

Flow == Increasing(Upcoming) /\ NumbersInv /\ LostInv /\ Balance

Counters == out + sent = Len(delivered) /\ (spc # "count" => sent = 0)

LEMMA InvariantIs == IInv <=> TypeOK /\ SenderInv /\ Flow /\ Counters
BY AccountedIs DEF IInv, Flow, Counters

LEMMA InvariantIsNext ==
  ASSUME TypeOK', SenderInv', Flow', Counters'
  PROVE  IInv'
BY DEF IInv, Flow, Counters, EachReplyAccounted, Balance, Made

LEMMA InitEstablishes == Init => IInv
<1> SUFFICES ASSUME Init PROVE IInv
  OBVIOUS
<1>1. TypeOK
  <2>1. <<>> \in Seq(Replies) /\ Len(<<>>) = 0
    OBVIOUS
  <2>2. 0 <= Capacity /\ 0 <= BatchSize /\ produced \in [Tasks -> 0 .. MaxReplies]
    BY ReplyAssumption DEF Init
  <2>3. queue \in Seq(Replies) /\ batch \in Seq(Replies) /\ delivered \in Seq(Replies)
    BY <2>1 DEF Init
  <2>4. /\ Len(queue) <= Capacity /\ Len(batch) <= BatchSize
        /\ start \in 0 .. Len(batch) /\ sent \in 0 .. Len(batch) - start
    BY <2>1, <2>2 DEF Init
  <2>5. QED BY <2>2, <2>3, <2>4 DEF Init, TypeOK
<1>2. SenderInv
  BY DEF Init, SenderInv
<1>3. Pending = <<>> /\ Upcoming = <<>>
  <2>1. SubSeq(batch, start + sent + 1, Len(batch)) = <<>>
    BY SubSeqEmpty DEF Init
  <2>2. <<>> \o <<>> = <<>>
    BY <<>> \in Seq(Replies), ConcatEmptySeq
  <2>3. QED BY <2>1, <2>2 DEF Init, Pending, Upcoming
<1>4. Made(produced) = {}
  BY DEF Init, Made, Replies
<1>5. Flow
  <2>1. Increasing(Upcoming) /\ NumbersInv /\ LostInv
    BY <1>3 DEF Init, Increasing, NumbersInv, LostInv
  <2>2. Balance
    <3>1. Cardinality(lost) = 0 /\ Cardinality(refused) = 0 /\ Cardinality(Made(produced)) = 0
      BY <1>4, FS_EmptySet DEF Init
    <3>2. Len(delivered) = 0 /\ Len(Pending) = 0 /\ dropped = 0
      BY <1>3 DEF Init
    <3>3. QED BY <3>1, <3>2 DEF Balance
  <2>3. QED BY <2>1, <2>2 DEF Flow
<1>6. Counters
  BY DEF Init, Counters
<1>7. QED BY <1>1, <1>2, <1>5, <1>6, InvariantIs

LEMMA MadeGrows ==
  ASSUME IInv, NEW t \in Tasks, Produce(t)
  PROVE  /\ Made(produced) \subseteq Made(produced') /\ NextReply(t) \in Made(produced')
         /\ Cardinality(Made(produced)) \in Nat
<1>1. produced \in [Tasks -> 0 .. MaxReplies]
  BY DEF IInv, TypeOK
<1>2. \A r \in Replies : r.by \in Tasks /\ r.n \in Nat
  BY ReplyAssumption DEF Replies
<1>3. \A r \in Replies : r.n <= produced[r.by] => r.n <= produced'[r.by]
  <2> SUFFICES ASSUME NEW r \in Replies, r.n <= produced[r.by] PROVE r.n <= produced'[r.by]
    OBVIOUS
  <2>1. produced'[r.by] = IF r.by = t THEN produced[t] + 1 ELSE produced[r.by]
    BY <1>1, <1>2, ReplyType
  <2>2. QED BY <1>1, <1>2, <2>1, ReplyAssumption
<1>4. NextReply(t) \in Made(produced')
  <2>1. produced'[t] = produced[t] + 1
    BY <1>1, ReplyType
  <2>2. QED BY <2>1, ReplyType DEF Made
<1>5. QED BY <1>3, <1>4, RepliesFinite DEF Made

\* A step that moves no reply, by a task that may have made one more.
LEMMA NoneMoves ==
  ASSUME IInv, UNCHANGED <<Pending, delivered, lost>>,
         Made(produced) \subseteq Made(produced'),
         refused' \subseteq Made(produced')
  PROVE  Increasing(Upcoming)' /\ NumbersInv' /\ LostInv'
<1>1. Upcoming' = Upcoming
  BY DEF Upcoming
<1>2. Increasing(Upcoming)' /\ LostInv'
  BY <1>1 DEF IInv, Increasing, LostInv
<1>3. \A r \in Made(produced') : r.n <= produced'[r.by]
  BY DEF Made
<1>4. NumbersInv'
  BY <1>1, <1>3, NextIsNew DEF NumbersInv
<1>5. QED BY <1>2, <1>4

\* A reply enters at the back.
LEMMA EnterKeeps ==
  ASSUME IInv, NEW t \in Tasks, OfferQueued(t)
  PROVE  Flow'
<1> DEFINE r == NextReply(t)
<1>1. /\ Produce(t) /\ r \in Replies /\ r \notin Made(produced)
      /\ r.by = t /\ r.n = produced[t] + 1 /\ produced[t] \in Nat
      /\ UNCHANGED <<dropped, delivered, lost, refused>>
      /\ Cardinality(Made(produced')) = Cardinality(Made(produced)) + 1
      /\ Made(produced) \subseteq Made(produced') /\ r \in Made(produced')
  BY ReplyType, ProduceMakes, MadeGrows DEF OfferQueued, history
<1>2. Pending' = Append(Pending, r)
  BY OfferEnters
<1> HIDE DEF r
<1>3. PICK d \in Seq(Replies), p \in Seq(Replies), x \in Replies :
        d = delivered /\ p = Pending /\ x = r
  BY <1>1, UpcomingIs, PendingIs
<1>4. /\ Len(Append(p, x)) = Len(p) + 1 /\ Append(p, x)[Len(p) + 1] = x
      /\ \A i \in 1 .. Len(p) : Append(p, x)[i] = p[i]
  BY AppendProperties
<1>5. d \o Append(p, x) = Append(d \o p, x)
  <2>1. <<x>> \in Seq(Replies) /\ d \o p \in Seq(Replies)
    BY JoinIs
  <2>2. d \o (p \o <<x>>) = (d \o p) \o <<x>>
    BY <2>1, ConcatAssociative
  <2>3. Append(p, x) = p \o <<x>> /\ Append(d \o p, x) = (d \o p) \o <<x>>
    BY <2>1, AppendIsConcat
  <2>4. QED BY <2>2, <2>3
<1>6. PICK u \in Seq(Replies) : u = Upcoming /\ Upcoming' = Append(u, x)
  BY <1>1, <1>2, <1>3, <1>5, UpcomingIs DEF Upcoming
<1>7. /\ Len(Upcoming') = Len(u) + 1 /\ Upcoming'[Len(u) + 1] = x
      /\ \A i \in 1 .. Len(u) : Upcoming'[i] = u[i]
      /\ Len(u) \in Nat
  BY <1>6, AppendProperties
<1>8. \A i \in 1 .. Len(Upcoming') : i \in 1 .. Len(u) \/ i = Len(u) + 1
  BY <1>7
<1>9. Increasing(Upcoming')
  <2> SUFFICES ASSUME NEW i \in 1 .. Len(Upcoming'), NEW j \in 1 .. Len(Upcoming'), i < j,
                      Upcoming'[i].by = Upcoming'[j].by
               PROVE  Upcoming'[i].n < Upcoming'[j].n
    BY DEF Increasing
  <2>1. i \in 1 .. Len(u)
    BY <1>7, <1>8
  <2>2. CASE j \in 1 .. Len(u)
    BY <1>6, <1>7, <2>1, <2>2 DEF IInv, Increasing
  <2>3. CASE j = Len(u) + 1
    <3>1. u[i].by = t /\ u[i].n <= produced[t] /\ u[i] \in Replies
      BY <1>1, <1>3, <1>6, <1>7, <2>1, <2>3 DEF IInv, NumbersInv
    <3>2. u[i].n \in Nat
      BY <3>1, ReplyAssumption DEF Replies
    <3>3. QED BY <1>1, <1>3, <1>7, <2>1, <2>3, <3>1, <3>2
  <2>4. QED BY <1>8, <2>2, <2>3
<1>10. NumbersInv'
  <2>1. \A y \in Made(produced') : y.n <= produced'[y.by]
    BY DEF Made
  <2>2. \A i \in 1 .. Len(Upcoming') : Upcoming'[i] \in Made(produced')
    BY <1>1, <1>3, <1>6, <1>7, <1>8, NextIsNew
  <2>3. lost' \cup refused' \subseteq Made(produced')
    BY <1>1, NextIsNew
  <2>4. QED BY <2>1, <2>2, <2>3 DEF NumbersInv
<1>11. LostInv'
  <2>1. x \notin lost
    BY <1>1, <1>3, NextIsNew
  <2>2. \A i \in 1 .. Len(p) + 1 : i \in 1 .. Len(p) \/ i = Len(p) + 1
    OBVIOUS
  <2>3. QED BY <1>1, <1>2, <1>3, <1>4, <2>1, <2>2 DEF IInv, LostInv
<1>12. Balance'
  <2>1. Len(Pending') = Len(Pending) + 1
    BY <1>2, <1>3, <1>4
  <2>2. Balance
    BY AccountedIs DEF IInv
  <2>3. /\ Len(delivered) \in Nat /\ Len(Pending) \in Nat /\ dropped \in Nat
        /\ Cardinality(lost) \in Nat /\ Cardinality(refused) \in Nat
        /\ Cardinality(Made(produced)) \in Nat
    BY CountsAre
  <2> DEFINE made == Cardinality(Made(produced))
             madeNext == Cardinality(Made(produced'))
             ndelivered == Len(delivered)
             npending == Len(Pending)
             npendingNext == Len(Pending')
             nlost == Cardinality(lost)
             nrefused == Cardinality(refused)
  <2>4. /\ ndelivered + npending + nlost + dropped + nrefused = made
        /\ madeNext = made + 1 /\ npendingNext = npending + 1
        /\ ndelivered \in Nat /\ npending \in Nat /\ dropped \in Nat
        /\ nlost \in Nat /\ nrefused \in Nat /\ made \in Nat
    BY <1>1, <2>1, <2>2, <2>3 DEF Balance
  <2> HIDE DEF made, madeNext, ndelivered, npending, npendingNext, nlost, nrefused
  <2>5. ndelivered + npendingNext + nlost + dropped + nrefused = madeNext
    BY <2>4
  <2>6. QED BY <1>1, <2>5 DEF Balance, madeNext, ndelivered, npendingNext, nlost, nrefused
<1>13. QED BY <1>9, <1>10, <1>11, <1>12 DEF Flow

\* Replies leave at the front and are lost.
LEMMA LoseKeeps ==
  ASSUME IInv, NEW n \in 0 .. Len(Pending), Pending' = Rest(Pending, n),
         lost' = lost \cup SetOf(First(Pending, n)),
         UNCHANGED <<produced, dropped, delivered, refused>>
  PROVE  Flow'
<1>1. PICK d \in Seq(Replies), p \in Seq(Replies) : d = delivered /\ p = Pending
  BY UpcomingIs, PendingIs
<1>2. /\ Len(d \o Rest(p, n)) = Len(d) + (Len(p) - n)
      /\ \A i \in 1 .. Len(d \o Rest(p, n)) :
           LET old == IF i <= Len(d) THEN i ELSE i + n
           IN  old \in 1 .. Len(d \o p) /\ (d \o Rest(p, n))[i] = (d \o p)[old]
  BY <1>1, DropIs
<1> DEFINE old(i) == IF i <= Len(d) THEN i ELSE i + n
<1>3. /\ Len(Upcoming') = Len(d) + (Len(p) - n)
      /\ \A i \in 1 .. Len(Upcoming') :
           old(i) \in 1 .. Len(Upcoming) /\ Upcoming'[i] = Upcoming[old(i)]
  BY <1>1, <1>2 DEF Upcoming
<1>4. \A i, j \in 1 .. Len(Upcoming') : i < j => old(i) < old(j)
  BY <1>1, <1>3
<1> HIDE DEF old
<1>5. Increasing(Upcoming')
  BY <1>3, <1>4 DEF IInv, Increasing
<1>6. NumbersInv'
  <2>1. lost' \subseteq Made(produced)
    BY NextIsNew, FrontCounts
  <2>2. QED BY <1>3, <2>1 DEF IInv, NumbersInv, Made
<1>7. Len(Pending') = Len(Pending) - n
  BY <1>1, RestIs
<1>8. LostInv'
  BY <1>7, FrontCounts DEF LostInv
<1>9. Balance'
  <2>1. Cardinality(lost') = Cardinality(lost) + n
    BY FrontCounts
  <2>2. Balance
    BY AccountedIs DEF IInv
  <2>3. /\ Len(delivered) \in Nat /\ Len(Pending) \in Nat /\ dropped \in Nat /\ n \in Nat
        /\ Cardinality(lost) \in Nat /\ Cardinality(refused) \in Nat
    BY CountsAre
  <2> DEFINE made == Cardinality(Made(produced))
             nlost == Cardinality(lost)
             ndelivered == Len(delivered)
             npending == Len(Pending)
             npendingNext == Len(Pending')
             nlostNext == Cardinality(lost')
             nrefused == Cardinality(refused)
  <2>4. /\ ndelivered + npending + nlost + dropped + nrefused = made
        /\ ndelivered \in Nat /\ npending \in Nat /\ dropped \in Nat /\ n \in Nat
        /\ nlost \in Nat /\ nrefused \in Nat /\ nlostNext = nlost + n
        /\ npendingNext = npending - n
    BY <1>7, <2>1, <2>2, <2>3 DEF Balance
  <2> HIDE DEF made, ndelivered, npending, npendingNext, nlost, nlostNext, nrefused
  <2>5. ndelivered + npendingNext + nlostNext + dropped + nrefused = made
    BY <2>4
  <2>6. QED BY <2>5 DEF Balance, made, ndelivered, npendingNext, nlostNext, nrefused
<1>10. QED BY <1>5, <1>6, <1>8, <1>9 DEF Flow

\* Replies leave at the front and are delivered, in the order they had.
LEMMA DeliverKeeps ==
  ASSUME IInv, NEW n \in 0 .. Len(Pending), Pending' = Rest(Pending, n),
         delivered' = delivered \o First(Pending, n),
         UNCHANGED <<produced, dropped, lost, refused>>
  PROVE  /\ Flow'
         /\ delivered' \in Seq(Replies) /\ Len(delivered') = Len(delivered) + n
<1>1. PICK d \in Seq(Replies), p \in Seq(Replies) : d = delivered /\ p = Pending
  BY UpcomingIs, PendingIs
<1>2. /\ First(p, n) \in Seq(Replies) /\ Len(First(p, n)) = n
      /\ Rest(p, n) \in Seq(Replies) /\ Len(Rest(p, n)) = Len(p) - n
      /\ First(p, n) \o Rest(p, n) = p
      /\ \A i \in 1 .. Len(p) - n : Rest(p, n)[i] = p[n + i]
  BY <1>1, FirstIs, RestIs, FirstAndRest
<1>3. PICK a \in Seq(Replies), b \in Seq(Replies) : a = First(p, n) /\ b = Rest(p, n)
  BY <1>2
<1>4. d \o (a \o b) = (d \o a) \o b /\ d \o a \in Seq(Replies) /\ Len(d \o a) = Len(d) + Len(a)
  <2>1. d \o a \in Seq(Replies) /\ Len(d \o a) = Len(d) + Len(a)
    BY JoinIs
  <2>2. (d \o a) \o b = d \o (a \o b)
    BY ConcatAssociative
  <2>3. QED BY <2>1, <2>2
<1>5. Upcoming' = Upcoming
  BY <1>1, <1>2, <1>3, <1>4 DEF Upcoming
<1>6. delivered' \in Seq(Replies) /\ Len(delivered') = Len(delivered) + n
  BY <1>1, <1>2, <1>3, <1>4
<1>7. Len(Pending') = Len(Pending) - n
  BY <1>1, <1>2
<1>8. Increasing(Upcoming)' /\ NumbersInv'
  BY <1>5 DEF IInv, Increasing, NumbersInv
<1>9. LostInv'
  <2>1. \A i \in 1 .. Len(Pending') : n + i \in 1 .. Len(Pending) /\ Pending'[i] = Pending[n + i]
    BY <1>1, <1>2, <1>7
  <2>2. QED BY <2>1 DEF IInv, LostInv
<1>10. Balance'
  <2>1. Balance
    BY AccountedIs DEF IInv
  <2>2. /\ Len(delivered) \in Nat /\ Len(Pending) \in Nat /\ dropped \in Nat /\ n \in Nat
        /\ Cardinality(lost) \in Nat /\ Cardinality(refused) \in Nat
    BY CountsAre
  <2> DEFINE made == Cardinality(Made(produced))
             ndelivered == Len(delivered)
             ndeliveredNext == Len(delivered')
             npending == Len(Pending)
             npendingNext == Len(Pending')
             nlost == Cardinality(lost)
             nrefused == Cardinality(refused)
  <2>3. /\ ndelivered + npending + nlost + dropped + nrefused = made
        /\ ndelivered \in Nat /\ npending \in Nat /\ dropped \in Nat /\ n \in Nat
        /\ nlost \in Nat /\ nrefused \in Nat
        /\ ndeliveredNext = ndelivered + n /\ npendingNext = npending - n
    BY <1>6, <1>7, <2>1, <2>2 DEF Balance
  <2> HIDE DEF made, ndelivered, ndeliveredNext, npending, npendingNext, nlost, nrefused
  <2>4. ndeliveredNext + npendingNext + nlost + dropped + nrefused = made
    BY <2>3
  <2>5. QED BY <2>4 DEF Balance, made, ndeliveredNext, npendingNext, nlost, nrefused
<1>11. QED BY <1>6, <1>8, <1>9, <1>10 DEF Flow

-----------------------------------------------------------------------------
(* One lemma per action, and the invariant.                                *)

\* A step that moves no reply and makes none.
LEMMA NothingMoves ==
  ASSUME IInv, UNCHANGED <<Pending, delivered, lost, produced, dropped, refused>>
  PROVE  Flow'
<1>1. Increasing(Upcoming)' /\ NumbersInv' /\ LostInv'
  BY NoneMoves, NextIsNew
<1>2. Balance'
  BY DEF IInv, EachReplyAccounted, Balance, Made
<1>3. QED BY <1>1, <1>2 DEF Flow

LEMMA OfferQueuedKeeps ==
  ASSUME IInv, NEW t \in Tasks, OfferQueued(t)
  PROVE  IInv'
<1>1. /\ Produce(t) /\ rxOpen /\ Len(queue) < Capacity /\ queue' = Append(queue, NextReply(t))
      /\ UNCHANGED <<shutdown, listener, task, dropped, rxOpen, spc, batch, start, sent, out,
                     delivered, lost, refused>>
  BY DEF OfferQueued, senderVars, history
<1>2. queue' \in Seq(Replies) /\ Len(queue') = Len(queue) + 1
  BY <1>1, ReplyType, PendingIs, AppendProperties
<1>3. TypeOK'
  <2>1. Len(queue') <= Capacity
    BY <1>1, <1>2, PendingIs, ReplyAssumption
  <2>2. QED BY <1>1, <1>2, <2>1, ReplyType DEF IInv, TypeOK
<1>4. SenderInv' /\ Counters'
  BY <1>1 DEF IInv, SenderInv, EachReplyAccounted, Counters
<1>5. QED BY <1>3, <1>4, EnterKeeps, InvariantIsNext

LEMMA ReceiveKeeps ==
  ASSUME IInv, Receive
  PROVE  IInv'
<1>1. /\ spc = "recv" /\ batch' = First(queue, TakeN) /\ queue' = Rest(queue, TakeN)
      /\ start' = 0 /\ spc' = "flush"
      /\ UNCHANGED <<shutdown, listener, task, produced, dropped, rxOpen, sent, out,
                     delivered, lost, refused>>
  BY DEF Receive, First, Rest, taskVars, history
<1>2. queue \in Seq(Replies) /\ Len(queue) \in Nat /\ TakeN \in 0 .. Len(queue) /\ TakeN <= BatchSize
  BY PendingIs, ReplyAssumption DEF TakeN
<1>3. /\ batch' \in Seq(Replies) /\ Len(batch') = TakeN
      /\ queue' \in Seq(Replies) /\ Len(queue') = Len(queue) - TakeN
  BY <1>1, <1>2, FirstIs, RestIs
<1>4. sent = 0
  BY <1>1, NothingLeft
<1>5. TypeOK'
  <2>1. Len(queue') <= Capacity /\ Len(batch') <= BatchSize
    BY <1>2, <1>3, ReplyAssumption DEF IInv, TypeOK
  <2>2. start' \in 0 .. Len(batch') /\ sent' \in 0 .. Len(batch') - start'
    BY <1>1, <1>2, <1>3, <1>4
  <2>3. QED BY <1>1, <1>3, <2>1, <2>2 DEF IInv, TypeOK
<1>6. SenderInv' /\ Counters'
  BY <1>1, <1>4 DEF IInv, SenderInv, EachReplyAccounted, Counters
<1>7. Flow'
  BY <1>1, ReceiveMovesNone, NothingMoves
<1>8. QED BY <1>5, <1>6, <1>7, InvariantIsNext

LEMMA SendKeeps ==
  ASSUME IInv, Send
  PROVE  IInv'
<1>1. /\ spc = "flush" /\ spc' = "count"
      /\ UNCHANGED <<shutdown, listener, task, produced, dropped, queue, rxOpen, batch, start, out,
                     lost, refused>>
  BY DEF Send, taskVars, queueVars
<1>2. /\ sent = 0 /\ sent' \in 1 .. Len(Pending) /\ sent' \in 1 .. Len(batch) - start
      /\ Pending' = Rest(Pending, sent') /\ delivered' = delivered \o First(Pending, sent')
      /\ sent' \in 0 .. Len(Pending) /\ sent' \in Nat
  BY SendDelivers, PendingIs
<1>3. Flow' /\ delivered' \in Seq(Replies) /\ Len(delivered') = Len(delivered) + sent'
  BY <1>1, <1>2, DeliverKeeps
<1>4. TypeOK'
  <2>1. sent' \in 0 .. Len(batch) - start
    BY <1>2
  <2>2. QED BY <1>1, <1>3, <2>1 DEF IInv, TypeOK
<1>5. SenderInv' /\ Counters'
  <2>1. out = Len(delivered) /\ out \in Nat
    BY <1>2 DEF IInv, TypeOK, EachReplyAccounted
  <2>2. QED BY <1>1, <1>2, <1>3, <2>1 DEF IInv, SenderInv, Counters
<1>6. QED BY <1>3, <1>4, <1>5, InvariantIsNext

LEMMA SendFailsKeeps ==
  ASSUME IInv, SendFails
  PROVE  IInv'
<1>1. /\ spc = "flush" /\ spc' = "recv" /\ start' = Len(batch)
      /\ UNCHANGED <<shutdown, listener, task, produced, dropped, queue, rxOpen, batch, sent, out,
                     delivered, refused>>
  BY DEF SendFails, taskVars, queueVars
<1> DEFINE n == Len(batch) - start
<1>2. /\ sent = 0 /\ n \in 0 .. Len(Pending) /\ Pending' = Rest(Pending, n)
      /\ lost' = lost \cup SetOf(First(Pending, n))
  BY SendFailsLoses, PendingIs
<1> HIDE DEF n
<1>3. Flow'
  BY <1>1, <1>2, LoseKeeps
<1>4. TypeOK'
  <2>1. lost' \subseteq Replies
    BY <1>2, FrontCounts DEF IInv, TypeOK, Made
  <2>2. start' \in 0 .. Len(batch) /\ sent \in 0 .. Len(batch) - start'
    BY <1>1, <1>2, PendingIs
  <2>3. QED BY <1>1, <2>1, <2>2 DEF IInv, TypeOK
<1>5. SenderInv' /\ Counters'
  BY <1>1, <1>2 DEF IInv, SenderInv, EachReplyAccounted, Counters
<1>6. QED BY <1>3, <1>4, <1>5, InvariantIsNext

LEMMA SenderStopsKeeps ==
  ASSUME IInv, SenderStops
  PROVE  IInv'
<1>1. /\ spc = "recv" /\ spc' = "done" /\ rxOpen' = FALSE /\ queue' = <<>>
      /\ lost' = lost \cup SetOf(queue)
      /\ UNCHANGED <<shutdown, listener, task, produced, dropped, batch, start, sent, out,
                     delivered, refused>>
  BY DEF SenderStops, taskVars
<1> DEFINE n == Len(Pending)
<1>2. /\ n \in 0 .. Len(Pending) /\ Pending' = Rest(Pending, n)
      /\ lost' = lost \cup SetOf(First(Pending, n))
  BY <1>1, StopLosesAll, PendingIs
<1> HIDE DEF n
<1>3. Flow'
  BY <1>1, <1>2, LoseKeeps
<1>4. TypeOK'
  <2>1. lost' \subseteq Replies
    BY <1>2, FrontCounts DEF IInv, TypeOK, Made
  <2>2. queue' \in Seq(Replies) /\ Len(queue') <= Capacity
    BY <1>1, ReplyAssumption
  <2>3. QED BY <1>1, <2>1, <2>2 DEF IInv, TypeOK
<1>5. SenderInv' /\ Counters'
  BY <1>1 DEF IInv, SenderInv, EachReplyAccounted, Counters
<1>6. QED BY <1>3, <1>4, <1>5, InvariantIsNext

LEMMA CountSentKeeps ==
  ASSUME IInv, CountSent
  PROVE  IInv'
<1>1. /\ spc = "count" /\ out' = out + 1 /\ start' = start + 1 /\ sent' = sent - 1
      /\ spc' = IF sent = 1 THEN "flush" ELSE "count"
      /\ UNCHANGED <<shutdown, listener, task, produced, dropped, queue, rxOpen, batch,
                     delivered, lost, refused>>
  BY DEF CountSent, taskVars, queueVars, history
<1>2. /\ sent > 0 /\ sent \in Nat /\ start \in Nat /\ out \in Nat /\ Len(batch) \in Nat
      /\ start + sent <= Len(batch)
  BY <1>1, PendingIs DEF IInv, TypeOK, SenderInv
<1>3. TypeOK'
  <2>1. start' \in 0 .. Len(batch) /\ sent' \in 0 .. Len(batch) - start' /\ out' \in Nat
    BY <1>1, <1>2
  <2>2. spc' \in {"recv", "flush", "count", "done"}
    BY <1>1
  <2>3. QED BY <1>1, <2>1, <2>2 DEF IInv, TypeOK
<1>4. SenderInv'
  BY <1>1, <1>2 DEF IInv, SenderInv
<1>5. Counters'
  BY <1>1, <1>2 DEF IInv, EachReplyAccounted, Counters
<1>6. Flow'
  BY <1>1, CountMovesNone, NothingMoves
<1>7. QED BY <1>3, <1>4, <1>5, <1>6, InvariantIsNext

\* A reply that finds the queue full or closed moves none, and is counted.
LEMMA OfferMissesKeeps ==
  ASSUME IInv, NEW t \in Tasks, OfferFull(t) \/ OfferClosed(t)
  PROVE  IInv'
<1>1. Produce(t) /\ Aside
  BY DEF OfferFull, OfferClosed, Aside
<1>2. /\ UNCHANGED <<shutdown, listener, queue, rxOpen, spc, batch, start, sent, out,
                     delivered, lost, Pending>>
  BY <1>1, AsideMovesNone DEF OfferFull, OfferClosed, queueVars, senderVars
<1>3. \/ dropped' = dropped + 1 /\ refused' = refused /\ task' = task
      \/ /\ dropped' = dropped /\ refused' = refused \cup {NextReply(t)}
         /\ task' = [task EXCEPT ![t] = "ended"]
  BY DEF OfferFull, OfferClosed, history
<1>4. /\ NextReply(t) \in Replies /\ NextReply(t) \notin Made(produced)
      /\ Cardinality(Made(produced')) = Cardinality(Made(produced)) + 1
      /\ Made(produced) \subseteq Made(produced') /\ NextReply(t) \in Made(produced')
      /\ produced' \in [Tasks -> 0 .. MaxReplies]
  BY <1>1, ReplyType, ProduceMakes, MadeGrows
<1>5. TypeOK'
  <2>1. /\ task' \in [Tasks -> {"new", "running", "ended"}]
        /\ refused' \subseteq Replies /\ dropped' \in Nat
    BY <1>3, <1>4 DEF IInv, TypeOK
  <2>2. QED BY <1>2, <1>4, <2>1 DEF IInv, TypeOK
<1>6. SenderInv' /\ Counters'
  BY <1>2 DEF IInv, SenderInv, EachReplyAccounted, Counters
<1>7. Increasing(Upcoming)' /\ NumbersInv' /\ LostInv'
  BY <1>2, <1>3, <1>4, NextIsNew, NoneMoves
<1>8. Balance'
  <2>1. PICK made \in Nat, nlost \in Nat, nrefused \in Nat, dlen \in Nat, plen \in Nat :
          /\ made = Cardinality(Made(produced)) /\ nlost = Cardinality(lost)
          /\ nrefused = Cardinality(refused)
          /\ dlen = Len(delivered) /\ plen = Len(Pending)
    BY CountsAre
  <2>2. dlen + plen + nlost + dropped + nrefused = made /\ dropped \in Nat
    BY <2>1, CountsAre, AccountedIs DEF IInv, Balance
  <2>3. CASE dropped' = dropped + 1 /\ refused' = refused
    <3>1. dlen + plen + nlost + dropped' + nrefused = made + 1
      BY <2>2, <2>3
    <3>2. QED BY <1>2, <1>4, <2>1, <2>3, <3>1 DEF Balance
  <2>4. CASE dropped' = dropped /\ refused' = refused \cup {NextReply(t)}
    <3>1. NextReply(t) \notin refused /\ IsFiniteSet(refused)
      BY <1>4, NextIsNew, RepliesFinite DEF IInv, TypeOK
    <3>2. Cardinality(refused') = nrefused + 1
      BY <2>1, <2>4, <3>1, FS_AddElement
    <3>3. dlen + plen + nlost + dropped' + (nrefused + 1) = made + 1
      BY <2>2, <2>4
    <3>4. QED BY <1>2, <1>4, <2>1, <3>2, <3>3 DEF Balance
  <2>5. QED BY <1>3, <2>3, <2>4
<1>9. QED BY <1>5, <1>6, <1>7, <1>8, InvariantIsNext DEF Flow

\* The tasks' own ends, the end of a batch, and the listener.
LEMMA OthersKeep ==
  ASSUME IInv,
         \/ \E t \in Tasks : SpawnTask(t) \/ TaskEnds(t)
         \/ FlushEnds \/ Shutdown \/ DropTable \/ JoinSender \/ Terminated \/ UNCHANGED vars
  PROVE  IInv'
<1>1. UNCHANGED <<queue, rxOpen, batch, start, sent, out, delivered, lost, Pending>>
  BY AsideMovesNone DEF Aside
<1>2. UNCHANGED <<produced, dropped, refused>>
  BY DEF SpawnTask, TaskEnds, FlushEnds, Shutdown, DropTable, JoinSender, Terminated,
         taskVars, history, vars
<1>3. /\ task' \in [Tasks -> {"new", "running", "ended"}]
      /\ shutdown' \in BOOLEAN /\ listener' \in {"running", "joining", "returned"}
      /\ spc' = spc \/ (spc = "flush" /\ spc' = "recv" /\ start = Len(batch))
  BY DEF IInv, TypeOK, SpawnTask, TaskEnds, FlushEnds, Shutdown, DropTable, JoinSender, Terminated,
         taskVars, senderVars, vars
<1>4. TypeOK'
  BY <1>1, <1>2, <1>3 DEF IInv, TypeOK
<1>5. SenderInv' /\ Counters'
  BY <1>1, <1>3 DEF IInv, SenderInv, EachReplyAccounted, Counters
<1>6. Flow'
  BY <1>1, <1>2, NothingMoves
<1>7. QED BY <1>4, <1>5, <1>6, InvariantIsNext

LEMMA StepKeeps == IInv /\ [Next]_vars => IInv'
BY StepIs, OfferQueuedKeeps, ReceiveKeeps, SendKeeps, SendFailsKeeps, SenderStopsKeeps,
   CountSentKeeps, OfferMissesKeeps, OthersKeep DEF Aside

\* The invariant holds, for any tasks, capacity and batch size.
THEOREM Invariance == Spec => []IInv
<1>1. QED BY InitEstablishes, StepKeeps, PTL DEF Spec

\* The state has its type: the queue keeps to REPLY_QUEUE_CAPACITY, a batch to
\* SEND_BATCH_SIZE, and flush's cursor never leaves the batch.
THEOREM TypeIsKept == Spec => []TypeOK
<1>1. IInv => TypeOK
  BY DEF IInv
<1>2. QED BY <1>1, Invariance, PTL

\* Every reply a task took from the target is delivered, on its way, lost by
\* the sender, counted in udp_dropped or refused, and in one of these places.
THEOREM RepliesAreAccounted == Spec => []EachReplyAccounted
<1>1. IInv => EachReplyAccounted
  BY DEF IInv
<1>2. QED BY <1>1, Invariance, PTL

\* Clients get each session's replies in the target's order and none twice,
\* whatever the kernel takes of each sendmmsg call.
THEOREM RepliesKeepTheirOrder == Spec => []DeliveredInOrder
<1>1. IInv => DeliveredInOrder
  <2> SUFFICES ASSUME IInv PROVE DeliveredInOrder
    OBVIOUS
  <2>1. /\ Increasing(Upcoming) /\ DOMAIN delivered = 1 .. Len(delivered)
        /\ Len(delivered) \in Nat /\ Len(Pending) \in Nat
        /\ Len(Upcoming) = Len(delivered) + Len(Pending)
        /\ \A i \in 1 .. Len(delivered) : Upcoming[i] = delivered[i]
    BY UpcomingIs, PendingIs DEF IInv
  <2>2. \A i \in 1 .. Len(delivered) : i \in 1 .. Len(Upcoming)
    BY <2>1
  <2>3. QED BY <2>1, <2>2 DEF DeliveredInOrder, Increasing
<1>2. QED BY <1>1, Invariance, PTL

-----------------------------------------------------------------------------
(* The pipe.                                                               *)

LEMMA StepImplements ==
  ASSUME IInv, [Next]_vars
  PROVE  [Pipe!Next]_<<Pending, delivered, rxOpen>>
<1>1. /\ rxOpen \in BOOLEAN /\ (spc # "done" => rxOpen)
      /\ Len(Pending) \in Nat /\ BatchSize \in Nat
  BY PendingIs, ReplyAssumption DEF IInv, TypeOK, SenderInv
<1>2. ASSUME NEW n \in 1 .. Len(Pending), n <= BatchSize
      PROVE  n \in Pipe!Chunk
  BY <1>1, <1>2 DEF Pipe!Chunk
<1>3. ASSUME NEW t \in Tasks, OfferQueued(t) PROVE Pipe!Next
  <2>1. rxOpen /\ UNCHANGED <<delivered, rxOpen>> /\ Produce(t)
    BY <1>3 DEF OfferQueued, history
  <2>2. NextReply(t) \in Replies
    BY <2>1, ReplyType
  <2>3. Pipe!Enter(NextReply(t))
    BY <1>3, <2>1, OfferEnters DEF Pipe!Enter
  <2>4. QED BY <2>2, <2>3 DEF Pipe!Next
<1>4. ASSUME Send PROVE Pipe!Next
  <2>1. rxOpen /\ rxOpen' = rxOpen
    BY <1>1, <1>4 DEF Send, queueVars
  <2>2. sent' \in Pipe!Chunk
    BY <1>2, <1>4, SendDelivers
  <2>3. Pipe!Deliver(sent')
    BY <1>4, <2>1, SendDelivers DEF Pipe!Deliver, Pipe!DropFront, Pipe!Front, First, Rest
  <2>4. QED BY <2>2, <2>3 DEF Pipe!Next
<1>5. ASSUME SendFails PROVE Pipe!Next
  <2> DEFINE n == Len(batch) - start
  <2>1. rxOpen /\ UNCHANGED <<delivered, rxOpen>>
    BY <1>1, <1>5 DEF SendFails, queueVars
  <2>2. n \in 1 .. Len(Pending) /\ n <= BatchSize /\ Pending' = Rest(Pending, n)
    BY <1>5, SendFailsLoses
  <2> HIDE DEF n
  <2>3. n \in Pipe!Chunk
    BY <1>2, <2>2
  <2>4. Pipe!Lose(n)
    BY <2>1, <2>2 DEF Pipe!Lose, Pipe!DropFront, Rest
  <2>5. QED BY <2>3, <2>4 DEF Pipe!Next
<1>6. ASSUME SenderStops PROVE Pipe!Next
  <2>1. rxOpen /\ rxOpen' = FALSE /\ delivered' = delivered
    BY <1>1, <1>6 DEF SenderStops
  <2>2. QED BY <1>6, <2>1, StopLosesAll DEF Pipe!Next, Pipe!Shut
<1>7. ASSUME Receive \/ CountSent \/ Aside PROVE UNCHANGED <<Pending, delivered, rxOpen>>
  BY <1>7, ReceiveMovesNone, CountMovesNone, AsideMovesNone
     DEF Receive, CountSent, queueVars, history
<1>8. QED BY <1>3, <1>4, <1>5, <1>6, <1>7, StepIs

\* The reply path is a bounded, ordered, lossy pipe: the reply tasks, the
\* queue and the sender implement ReplyPipe.
THEOREM PipeIsImplemented == Spec => ImplementsPipe
<1>1. Init => Pipe!Init
  <2> SUFFICES ASSUME Init PROVE Pipe!Init
    OBVIOUS
  <2>1. Pending = <<>>
    <3>1. SubSeq(batch, start + sent + 1, Len(batch)) = <<>>
      BY SubSeqEmpty DEF Init
    <3>2. <<>> \o <<>> = <<>>
      BY <<>> \in Seq(Replies), ConcatEmptySeq
    <3>3. QED BY <3>1, <3>2 DEF Init, Pending
  <2>2. QED BY <2>1 DEF Init, Pipe!Init
<1>2. IInv /\ [Next]_vars => [Pipe!Next]_<<Pending, delivered, rxOpen>>
  BY StepImplements
<1>3. QED BY <1>1, <1>2, Invariance, PTL DEF Spec, ImplementsPipe, Pipe!Spec
=============================================================================
