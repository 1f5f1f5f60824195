------------------------------ MODULE AnswerLine ------------------------------
(***************************************************************************)
(* What the video pipeline promises to the server: one line of requests.   *)
(* A request that is written joins the line at its end, and answers are    *)
(* taken from its front, so that none is lost, repeated or overtaken, an   *)
(* answer with an error included.  A server that starts throws away        *)
(* answers to requests of the process before it.                           *)
(***************************************************************************)
EXTENDS Naturals, Sequences

CONSTANT Ids    \* requests and probes

VARIABLE line   \* those written and not answered, oldest first

Ask(id) == line' = Append(line, id)
Answer == line # <<>> /\ line' = Tail(line)
Flush(n) == line' = SubSeq(line, n + 1, Len(line))

Init == line = <<>>
Next ==
    \/ \E id \in Ids : Ask(id)
    \/ Answer
    \/ \E n \in 1..Len(line) : Flush(n)
Spec == Init /\ [][Next]_line
=============================================================================
