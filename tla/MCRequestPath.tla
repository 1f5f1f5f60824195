--------------------------- MODULE MCRequestPath ---------------------------
(* The request path with a stream and an ordinary request.                  *)
EXTENDS RequestPath, TLC

CONSTANTS s1, r1, w1, w2

TwoRequests == {s1, r1}
OneStream == {s1}
TwoWorkers == {w1, w2}
OneWorker == {w1}
TwoWorkersSymmetry == Permutations(TwoWorkers)

=============================================================================
