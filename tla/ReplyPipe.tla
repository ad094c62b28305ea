------------------------------ MODULE ReplyPipe ------------------------------
(***************************************************************************)
(* What the reply path of one listen port promises: a pipe that holds at   *)
(* most Bound replies, hands them over in the order they entered, each at  *)
(* most once, and may lose some of them: up to BatchSize from the front at *)
(* a time, or all of them when it is shut.                                 *)
(***************************************************************************)
EXTENDS Naturals, Sequences

CONSTANTS Replies, Bound, BatchSize

VARIABLES pending, delivered, open

Init == pending = <<>> /\ delivered = <<>> /\ open = TRUE

Enter(r) ==
  /\ open /\ Len(pending) < Bound
  /\ pending' = Append(pending, r)
  /\ UNCHANGED <<delivered, open>>

Front(n) == SubSeq(pending, 1, n)
DropFront(n) == pending' = SubSeq(pending, n + 1, Len(pending))
Chunk == 1 .. (IF Len(pending) < BatchSize THEN Len(pending) ELSE BatchSize)

Deliver(n) ==
  /\ open /\ DropFront(n)
  /\ delivered' = delivered \o Front(n)
  /\ UNCHANGED open

Lose(n) ==
  /\ open /\ DropFront(n)
  /\ UNCHANGED <<delivered, open>>

Shut ==
  /\ open
  /\ pending' = <<>> /\ open' = FALSE
  /\ UNCHANGED delivered

Next ==
  \/ \E r \in Replies : Enter(r)
  \/ \E n \in Chunk : Deliver(n) \/ Lose(n)
  \/ Shut

Spec == Init /\ [][Next]_<<pending, delivered, open>>
=============================================================================
