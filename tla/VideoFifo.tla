------------------------------ MODULE VideoFifo ------------------------------
(***************************************************************************)
(* What a VideoShm ring promises to the two processes that share it: a     *)
(* bounded first-in first-out channel.  Messages are numbered by the order *)
(* in which the writer starts to write them; a write that never commits    *)
(* leaves a gap in the numbers.  The reader first takes the oldest message *)
(* (the slot is free again from then on) and then hands it to its caller;  *)
(* if it dies in between, the message in its hand is lost, and nothing     *)
(* else is.                                                                *)
(***************************************************************************)
EXTENDS Integers, Sequences

CONSTANTS Slots,    \* number of slots of the ring
          MaxMsgs   \* bound on the numbers of the messages

VARIABLES queue,    \* the committed messages nobody has taken yet, oldest first
          hand,     \* the message the reader has taken and not returned, or 0
          out       \* the last message returned to the reader's caller, or 0

vars == <<queue, hand, out>>

TypeOK ==
  /\ queue \in Seq(1..MaxMsgs)
  /\ hand \in 0..MaxMsgs
  /\ out \in 0..MaxMsgs

Init == queue = <<>> /\ hand = 0 /\ out = 0

\* Newer(m): no message that is queued, taken or returned is as recent as m.
Newer(m) == /\ hand < m
            /\ out < m
            /\ \A k \in DOMAIN queue : queue[k] < m

Commit(m) ==
  /\ Len(queue) < Slots
  /\ Newer(m)
  /\ queue' = Append(queue, m)
  /\ UNCHANGED <<hand, out>>

Take ==
  /\ hand = 0
  /\ queue # <<>>
  /\ hand' = Head(queue)
  /\ queue' = Tail(queue)
  /\ UNCHANGED out

Return ==
  /\ hand # 0
  /\ out' = hand
  /\ hand' = 0
  /\ UNCHANGED queue

\* The reader dies with a message in its hand.
LoseHand ==
  /\ hand # 0
  /\ hand' = 0
  /\ UNCHANGED <<queue, out>>

Next == \/ \E m \in 1..MaxMsgs : Commit(m)
        \/ Take
        \/ Return
        \/ LoseHand

Spec == Init /\ [][Next]_vars
=============================================================================
