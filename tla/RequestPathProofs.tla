------------------------- MODULE RequestPathProofs --------------------------
(***************************************************************************)
(* The request path, for any number of requests, workers and deaths.  The  *)
(* invariant PathInv is split into what it says of the two queues and what *)
(* it says of one request, ReqOK; a step touches one request, or those of  *)
(* one worker, and leaves the others as they are (Untouched).              *)
(***************************************************************************)
EXTENDS RequestPath, TLAPS, SequenceTheorems

\* PathInv, for one request.
ReqOK(r) ==
    /\ r \in registry <=> handler[r] \in {"waiting", "rejected"}
    /\ ranOn[r] = NoWorker =>
          put[r] = 0 /\ r \notin finals \cup errorQ \cup dropped \cup lost /\ errAt[r] = NoError
    /\ Queued(r) => ranOn[r] = NoWorker
    /\ handler[r] \in {"idle", "rejected"} => ranOn[r] = NoWorker /\ ~Queued(r)
    /\ \A w \in Workers : r \in inflight[w] =>
          ranOn[r] = w /\ r \notin finals \cup errorQ /\ errAt[r] = NoError
    /\ r \in finals => put[r] > 0 /\ r \notin errorQ /\ errAt[r] = NoError
    /\ read[r] <= routed[r] /\ routed[r] <= sent[r] /\ sent[r] <= put[r]
    /\ r \in errSent => r \in errorQ
    /\ handler[r] = "waiting" /\ r \in finals => read[r] < put[r]
    /\ handler[r] = "waiting" => r \notin dropped
    /\ handler[r] = "waiting" /\ r \notin lost =>
          Queued(r) \/ Running(r) \/ r \in finals \cup errorQ \/ errAt[r] # NoError
    /\ handler[r] = "answered" => r \in finals /\ read[r] = put[r]

QueuesOK == NoDuplicates /\ SignalsAreLate

IInv == TypeOK /\ QueuesOK /\ \A r \in Requests : ReqOK(r)

Untouched(x) ==
    /\ handler'[x] = handler[x] /\ ranOn'[x] = ranOn[x]
    /\ put'[x] = put[x] /\ sent'[x] = sent[x]
    /\ routed'[x] = routed[x] /\ read'[x] = read[x]
    /\ errAt'[x] = errAt[x]
    /\ x \in registry' <=> x \in registry
    /\ x \in finals' <=> x \in finals
    /\ x \in dropped' <=> x \in dropped
    /\ x \in errorQ' <=> x \in errorQ
    /\ x \in errSent' <=> x \in errSent
    /\ x \in lost' <=> x \in lost
    /\ Queued(x)' <=> Queued(x)
    /\ \A w \in Workers : x \in inflight'[w] <=> x \in inflight[w]

LEMMA Invariants == IInv => PathInv
  BY DEF IInv, QueuesOK, ReqOK, TypeOK, PathInv, RegistryExact, Untaken, RunsOnce, Positions,
     Accounted, StreamIntact, Ended

LEMMA Frame == ASSUME NEW x \in Requests, ReqOK(x), Untouched(x) PROVE ReqOK(x)'
  BY DEF ReqOK, Untouched, Running

-----------------------------------------------------------------------------
(* The queues.                                                             *)

LEMMA Appended ==
    ASSUME NEW q \in Seq(Requests), NEW r \in Requests
    PROVE  /\ Append(q, r) \in Seq(Requests)
           /\ Len(Append(q, r)) = Len(q) + 1
           /\ \A i \in 1..Len(q) : Append(q, r)[i] = q[i]
           /\ Append(q, r)[Len(q) + 1] = r
  BY AppendProperties

LEMMA Tailed ==
    ASSUME NEW q \in Seq(Requests), q # <<>>
    PROVE  /\ Tail(q) \in Seq(Requests)
           /\ Len(q) \in Nat \ {0} /\ Len(Tail(q)) = Len(q) - 1
           /\ \A i \in 1..Len(Tail(q)) : Tail(q)[i] = q[i + 1]
           /\ Head(q) = q[1] /\ Head(q) \in Requests
  BY HeadTailProperties, EmptySeq, LenProperties

LEMMA QueueGrows ==
    ASSUME IInv, NEW r \in Requests, ~Queued(r), taskQ' = Append(taskQ, r)
    PROVE  /\ taskQ' \in Seq(Requests) /\ NoDuplicates'
           /\ \A x \in Requests : Queued(x)' <=> Queued(x) \/ x = r
<1>1. taskQ \in Seq(Requests) /\ Len(taskQ) \in Nat
  BY LenProperties DEF IInv, TypeOK
<1>2. /\ taskQ' \in Seq(Requests) /\ Len(taskQ') = Len(taskQ) + 1
      /\ \A i \in 1..Len(taskQ) : taskQ'[i] = taskQ[i]
      /\ taskQ'[Len(taskQ) + 1] = r
  BY <1>1, Appended
<1>3. \A i \in 1..Len(taskQ') : i \in 1..Len(taskQ) \/ i = Len(taskQ) + 1
  BY <1>1, <1>2
<1>4. NoDuplicates'
  BY <1>1, <1>2, <1>3 DEF IInv, QueuesOK, NoDuplicates, Queued
<1>5. \A x \in Requests : Queued(x)' <=> Queued(x) \/ x = r
  BY <1>1, <1>2, <1>3 DEF Queued
<1> QED
  BY <1>2, <1>4, <1>5

LEMMA QueueShrinks ==
    ASSUME IInv, taskQ # <<>>, taskQ' = Tail(taskQ)
    PROVE  /\ taskQ' \in Seq(Requests) /\ NoDuplicates'
           /\ Head(taskQ) \in Requests /\ Queued(Head(taskQ))
           /\ \A x \in Requests : Queued(x)' <=> Queued(x) /\ x # Head(taskQ)
<1>1. /\ taskQ' \in Seq(Requests)
      /\ Len(taskQ) \in Nat \ {0} /\ Len(taskQ') = Len(taskQ) - 1
      /\ \A i \in 1..Len(taskQ') : taskQ'[i] = taskQ[i + 1]
      /\ Head(taskQ) = taskQ[1] /\ Head(taskQ) \in Requests
  BY Tailed DEF IInv, TypeOK
<1>2. \A i \in 1..Len(taskQ') : i + 1 \in 1..Len(taskQ)
  BY <1>1
<1>3. \A i \in 1..Len(taskQ) : i = 1 \/ (i - 1 \in 1..Len(taskQ') /\ taskQ'[i - 1] = taskQ[i])
  BY <1>1
<1>4. NoDuplicates'
  BY <1>1, <1>2 DEF IInv, QueuesOK, NoDuplicates
<1>5. Queued(Head(taskQ))
  BY <1>1 DEF Queued
<1>6. ASSUME NEW x \in Requests PROVE Queued(x)' <=> Queued(x) /\ x # Head(taskQ)
  <2>1. ASSUME Queued(x)' PROVE Queued(x) /\ x # Head(taskQ)
    <3>1. PICK i \in 1..Len(taskQ') : taskQ'[i] = x
      BY <2>1 DEF Queued
    <3>2. i + 1 \in 1..Len(taskQ) /\ taskQ[i + 1] = x /\ i + 1 # 1
      BY <1>1, <1>2, <3>1
    <3>3. taskQ[i + 1] # taskQ[1]
      BY <1>1, <3>2 DEF IInv, QueuesOK, NoDuplicates
    <3> QED
      BY <1>1, <3>2, <3>3 DEF Queued
  <2>2. ASSUME Queued(x), x # Head(taskQ) PROVE Queued(x)'
    BY <1>1, <1>3, <2>2 DEF Queued
  <2> QED
    BY <2>1, <2>2
<1> QED
  BY <1>1, <1>4, <1>5, <1>6

\* A handler that has ended stays so; then the signals stay late.
LEMMA SignalsKept ==
    ASSUME IInv, cancelQ' \in {cancelQ, Tail(cancelQ)}, cancelQ' # cancelQ => cancelQ # <<>>,
           \A x \in Requests : handler[x] \in Ended => handler'[x] \in Ended
    PROVE  cancelQ' \in Seq(Requests) /\ SignalsAreLate'
<1>1. CASE cancelQ' = cancelQ
  BY <1>1, LenProperties DEF IInv, TypeOK, QueuesOK, SignalsAreLate
<1>2. CASE cancelQ' # cancelQ
  <2>0. cancelQ \in Seq(Requests) /\ cancelQ # <<>> /\ cancelQ' = Tail(cancelQ)
    BY <1>2 DEF IInv, TypeOK
  <2>1. /\ cancelQ' \in Seq(Requests) /\ Len(cancelQ) \in Nat \ {0}
        /\ Len(cancelQ') = Len(cancelQ) - 1
        /\ \A i \in 1..Len(cancelQ') : cancelQ'[i] = cancelQ[i + 1]
    BY <2>0, Tailed
  <2>2. \A i \in 1..Len(cancelQ) : cancelQ[i] \in Requests
    BY <2>0, ElementOfSeq
  <2>3. \A i \in 1..Len(cancelQ') : i + 1 \in 1..Len(cancelQ)
    BY <2>1
  <2> QED
    BY <2>1, <2>2, <2>3 DEF IInv, QueuesOK, SignalsAreLate
<1> QED
  BY <1>1, <1>2

LEMMA SignalSent ==
    ASSUME IInv, NEW r \in Requests, cancelQ' = Append(cancelQ, r), handler'[r] \in Ended,
           \A x \in Requests \ {r} : handler'[x] = handler[x]
    PROVE  cancelQ' \in Seq(Requests) /\ SignalsAreLate'
<1>1. /\ cancelQ' \in Seq(Requests) /\ Len(cancelQ) \in Nat
      /\ Len(cancelQ') = Len(cancelQ) + 1
      /\ \A i \in 1..Len(cancelQ) : cancelQ'[i] = cancelQ[i]
      /\ cancelQ'[Len(cancelQ) + 1] = r
  BY Appended, LenProperties DEF IInv, TypeOK
<1>2. \A i \in 1..Len(cancelQ') : i \in 1..Len(cancelQ) \/ i = Len(cancelQ) + 1
  BY <1>1
<1>3. \A i \in 1..Len(cancelQ) : cancelQ[i] \in Requests
  BY ElementOfSeq DEF IInv, TypeOK
<1> QED
  BY <1>1, <1>2, <1>3 DEF IInv, QueuesOK, SignalsAreLate

-----------------------------------------------------------------------------
(* Steps.                                                                  *)

LEMMA Preserved ==
    ASSUME IInv, NEW r \in Requests, TypeOK', QueuesOK',
           ReqOK(r)', \A x \in Requests \ {r} : Untouched(x)
    PROVE  IInv'
<1>1. ASSUME NEW x \in Requests PROVE ReqOK(x)'
  BY Frame DEF IInv
<1> QED
  BY <1>1 DEF IInv

LEMMA QueuesStay ==
    ASSUME IInv, UNCHANGED <<taskQ, cancelQ>>,
           \A x \in Requests : handler[x] \in Ended => handler'[x] \in Ended
    PROVE  /\ QueuesOK' /\ taskQ' \in Seq(Requests) /\ cancelQ' \in Seq(Requests)
           /\ \A x \in Requests : Queued(x)' <=> Queued(x)
<1>1. cancelQ' \in Seq(Requests) /\ SignalsAreLate'
  BY SignalsKept
<1> QED
  BY <1>1 DEF IInv, TypeOK, QueuesOK, NoDuplicates, Queued

LEMMA IInvInit == Init => IInv
<1> SUFFICES ASSUME Init PROVE IInv
  OBVIOUS
<1> USE PathAssumption DEF Init
<1>1. Len(taskQ) = 0 /\ Len(cancelQ) = 0 /\ <<>> \in Seq(Requests)
  BY EmptySeq
<1>2. TypeOK
  BY <1>1 DEF TypeOK, Ended, NoError
<1>3. QueuesOK
  BY <1>1 DEF QueuesOK, NoDuplicates, SignalsAreLate
<1>4. ASSUME NEW r \in Requests PROVE ReqOK(r)
  BY <1>1 DEF ReqOK, Queued, Running, NoError
<1> QED
  BY <1>2, <1>3, <1>4 DEF IInv

LEMMA SubmitKeeps == ASSUME IInv, NEW r \in Requests, Submit(r) PROVE IInv'
<1> USE DEF client, results, errors, pool, locks
<1>0. handler[r] = "idle"
  BY DEF Submit
<1>1. /\ ~Queued(r) /\ ranOn[r] = NoWorker
  BY <1>0 DEF IInv, ReqOK
<1>a. /\ \A x \in Requests : handler[x] \in Ended => handler'[x] = handler[x]
      /\ \A x \in Requests \ {r} : handler'[x] = handler[x]
      /\ handler'[r] \in {"waiting", "rejected"}
      /\ handler' \in [Requests -> Ended \cup {"idle", "waiting", "rejected"}]
  BY <1>0 DEF Submit, IInv, TypeOK, Ended
<1>2. cancelQ' \in Seq(Requests) /\ SignalsAreLate'
  BY <1>a, SignalsKept DEF Submit
<1>3. /\ taskQ' \in Seq(Requests) /\ NoDuplicates'
      /\ \A x \in Requests \ {r} : Queued(x)' <=> Queued(x)
      /\ Queued(r)' <=> handler'[r] = "waiting"
  <2>1. CASE Admits
    BY <1>1, <1>a, <2>1, QueueGrows DEF Submit, IInv, TypeOK
  <2>2. CASE ~Admits
    BY <1>1, <1>a, <2>2 DEF Submit, IInv, TypeOK, QueuesOK, NoDuplicates, Queued
  <2> QED
    BY <2>1, <2>2
<1>4. TypeOK'
  BY <1>a, <1>2, <1>3 DEF Submit, IInv, TypeOK
<1>b. ReqOK(r) /\ r \in registry'
  BY DEF IInv, Submit
<1>c. UNCHANGED <<read, ranOn, inflight, put, sent, finals, routed, dropped, errorQ, errSent,
                errAt, lost>>
  BY DEF Submit
<1>5. ReqOK(r)'
  BY <1>0, <1>1, <1>a, <1>b, <1>c, <1>3 DEF ReqOK
<1>6. \A x \in Requests \ {r} : Untouched(x)
  BY <1>0, <1>1, <1>a, <1>3 DEF Submit, Untouched
<1> QED
  BY <1>2, <1>3, <1>4, <1>5, <1>6, Preserved DEF QueuesOK

\* A handler ends, one way or another.
LEMMA Ending ==
    ASSUME IInv, NEW r \in Requests, handler[r] = "waiting", NEW outcome \in Ended,
           handler' = [handler EXCEPT ![r] = outcome], Teardown(r),
           read' \in [Requests -> 0..MaxItems],
           read'[r] <= routed[r], \A x \in Requests \ {r} : read'[x] = read[x],
           outcome = "answered" => r \in finals /\ read'[r] = put[r],
           UNCHANGED <<taskQ, ranOn, inflight, results, errors, pool, lost>>
    PROVE  IInv'
<1> USE DEF results, errors, pool, locks
<1>1. /\ \A x \in Requests \ {r} : handler'[x] = handler[x]
      /\ handler'[r] = outcome
      /\ handler' \in [Requests -> Ended \cup {"idle", "waiting", "rejected"}]
  BY DEF IInv, TypeOK
<1>2. cancelQ' \in Seq(Requests) /\ SignalsAreLate'
  BY <1>1, SignalSent DEF Teardown
<1>3. \A x \in Requests : Queued(x)' <=> Queued(x)
  BY DEF Queued
<1>4. TypeOK'
  BY <1>1, <1>2 DEF Teardown, IInv, TypeOK
<1>5. ReqOK(r)'
  BY <1>1, <1>3 DEF Teardown, IInv, ReqOK, TypeOK, Running, Ended
<1>6. \A x \in Requests \ {r} : Untouched(x)
  BY <1>1, <1>3 DEF Teardown, Untouched
<1>7. NoDuplicates'
  BY DEF IInv, QueuesOK, NoDuplicates
<1> QED
  BY <1>2, <1>4, <1>5, <1>6, <1>7, Preserved DEF QueuesOK

LEMMA EndsKeeps == ASSUME IInv, NEW r \in Requests, Ends(r) PROVE IInv'
<1>1. "failed" \in Ended
  BY DEF Ended
<1> QED
  BY <1>1, Ending DEF Ends, IInv, TypeOK, ReqOK

LEMMA TakeItemKeeps == ASSUME IInv, NEW r \in Requests, TakeItem(r) PROVE IInv'
<1>1. /\ handler[r] = "waiting" /\ read[r] < routed[r] /\ routed[r] <= sent[r]
      /\ sent[r] <= put[r] /\ put[r] <= MaxItems
      /\ read' \in [Requests -> 0..MaxItems] /\ read'[r] = read[r] + 1
      /\ \A x \in Requests \ {r} : read'[x] = read[x]
  BY PathAssumption DEF TakeItem, IInv, TypeOK, ReqOK
<1>2. CASE r \in finals /\ read[r] + 1 = put[r]
  <2>1. /\ "answered" \in Ended /\ handler' = [handler EXCEPT ![r] = "answered"] /\ Teardown(r)
        /\ UNCHANGED <<taskQ, ranOn, inflight, results, errors, pool, lost>>
    BY <1>2 DEF TakeItem, Ended
  <2>2. read'[r] <= routed[r] /\ read'[r] = put[r] /\ r \in finals
    BY <1>1, <1>2 DEF IInv, TypeOK
  <2> QED
    BY <1>1, <2>1, <2>2, Ending
<1>3. CASE ~(r \in finals /\ read[r] + 1 = put[r])
  <2> USE DEF results, errors, pool, locks
  <2>1. QueuesOK' /\ taskQ' \in Seq(Requests) /\ cancelQ' \in Seq(Requests)
        /\ \A x \in Requests : Queued(x)' <=> Queued(x)
    BY <1>3, QueuesStay DEF TakeItem
  <2>a. UNCHANGED <<handler, registry, taskQ, ranOn, inflight, put, sent, finals, routed,
                    dropped, errorQ, errSent, errAt, worker, flags, locks, deaths, lost>>
    BY <1>3 DEF TakeItem
  <2>2. TypeOK'
    BY <1>1, <2>1, <2>a DEF IInv, TypeOK
  <2>3. ReqOK(r)'
    BY <1>1, <1>3, <2>1 DEF TakeItem, IInv, ReqOK, TypeOK, Running
  <2>4. \A x \in Requests \ {r} : Untouched(x)
    BY <1>1, <1>3, <2>1 DEF TakeItem, Untouched
  <2> QED
    BY <2>1, <2>2, <2>3, <2>4, Preserved
<1> QED
  BY <1>2, <1>3

LEMMA RouteResultKeeps == ASSUME IInv, NEW r \in Requests, RouteResult(r) PROVE IInv'
<1> USE DEF client, errors, pool, locks
<1>1. /\ QueuesOK' /\ taskQ' \in Seq(Requests) /\ cancelQ' \in Seq(Requests)
      /\ \A x \in Requests : Queued(x)' <=> Queued(x)
  BY QueuesStay DEF RouteResult
<1>a. routed' \in [Requests -> 0..MaxItems] /\ dropped' \subseteq Requests
  BY PathAssumption DEF RouteResult, IInv, TypeOK
<1>2. TypeOK'
  <2>1. UNCHANGED <<handler, registry, read, ranOn, inflight, put, sent, finals, errorQ,
                    errSent, errAt, worker, flags, locks, deaths, lost>>
    BY DEF RouteResult
  <2> QED
    BY <1>1, <1>a, <2>1 DEF IInv, TypeOK
<1>3. ReqOK(r)'
  BY <1>1 DEF RouteResult, IInv, ReqOK, TypeOK, Running
<1>4. \A x \in Requests \ {r} : Untouched(x)
  BY <1>1 DEF RouteResult, Untouched, IInv, TypeOK
<1> QED
  BY <1>1, <1>2, <1>3, <1>4, Preserved

LEMMA RouteErrorKeeps == ASSUME IInv, NEW r \in Requests, RouteError(r) PROVE IInv'
<1> USE DEF client, results, pool, locks
<1>1. /\ QueuesOK' /\ taskQ' \in Seq(Requests) /\ cancelQ' \in Seq(Requests)
      /\ \A x \in Requests : Queued(x)' <=> Queued(x)
  BY QueuesStay DEF RouteError
<1>2. TypeOK'
  BY <1>1 DEF RouteError, IInv, TypeOK
<1>3. ReqOK(r)'
  BY <1>1 DEF RouteError, IInv, ReqOK, TypeOK, Running, NoError
<1>4. \A x \in Requests \ {r} : Untouched(x)
  BY <1>1 DEF RouteError, Untouched, IInv, TypeOK
<1> QED
  BY <1>1, <1>2, <1>3, <1>4, Preserved

LEMMA TakeKeeps == ASSUME IInv, NEW w \in Workers, Take(w) PROVE IInv'
<1> USE DEF client, results, errors, pool, locks
<1>0. PICK r \in Requests : r = Head(taskQ)
  BY QueueShrinks DEF Take
<1>1. /\ taskQ' \in Seq(Requests) /\ NoDuplicates' /\ Queued(r)
      /\ \A x \in Requests : Queued(x)' <=> Queued(x) /\ x # r
  BY <1>0, QueueShrinks DEF Take
<1>2. cancelQ' \in Seq(Requests) /\ SignalsAreLate'
  BY SignalsKept DEF Take
<1>3. /\ ranOn' \in [Requests -> Workers \cup {NoWorker}]
      /\ inflight' \in [Workers -> SUBSET Requests]
      /\ ranOn'[r] = w /\ \A x \in Requests \ {r} : ranOn'[x] = ranOn[x]
      /\ \A v \in Workers, x \in Requests \ {r} : x \in inflight'[v] <=> x \in inflight[v]
      /\ r \in inflight'[w]
      /\ \A v \in Workers \ {w} : r \in inflight'[v] <=> r \in inflight[v]
  BY <1>0 DEF Take, IInv, TypeOK
<1>4. UNCHANGED <<handler, registry, read, put, sent, finals, routed, dropped, errorQ, errSent,
                  errAt, worker, flags, locks, deaths, lost>>
  BY DEF Take
<1>5. TypeOK'
  BY <1>1, <1>2, <1>3, <1>4 DEF IInv, TypeOK
<1>6. ReqOK(r)
  BY DEF IInv
<1>a. ranOn[r] = NoWorker /\ w # NoWorker
  BY <1>1, <1>6, PathAssumption DEF ReqOK
<1>b. \A v \in Workers : r \notin inflight[v]
  BY <1>6, <1>a, PathAssumption DEF ReqOK
<1>7. \A v \in Workers : r \in inflight'[v] => v = w
  BY <1>3, <1>b
<1>8. ReqOK(r)'
  BY <1>1, <1>3, <1>4, <1>6, <1>a, <1>7 DEF ReqOK, Running
<1>9. \A x \in Requests \ {r} : Untouched(x)
  BY <1>1, <1>3, <1>4 DEF Untouched
<1> QED
  BY <1>1, <1>2, <1>5, <1>8, <1>9, Preserved DEF QueuesOK

LEMMA PutChunkKeeps ==
    ASSUME IInv, NEW w \in Workers, NEW r \in Requests, PutChunk(w, r) PROVE IInv'
<1> USE DEF client, errors, pool, locks
<1>1. /\ QueuesOK' /\ taskQ' \in Seq(Requests) /\ cancelQ' \in Seq(Requests)
      /\ \A x \in Requests : Queued(x)' <=> Queued(x)
  BY QueuesStay DEF PutChunk
<1>2. UNCHANGED <<handler, registry, read, ranOn, inflight, sent, finals, routed, dropped,
                  errorQ, errSent, errAt, worker, flags, locks, deaths, lost>>
  BY DEF PutChunk
<1>3. /\ put' \in [Requests -> 0..MaxItems] /\ put'[r] = put[r] + 1
      /\ put[r] \in Nat /\ sent[r] \in Nat /\ routed[r] \in Nat
      /\ \A x \in Requests \ {r} : put'[x] = put[x]
  BY PathAssumption DEF PutChunk, IInv, TypeOK
<1>4. TypeOK'
  BY <1>1, <1>2, <1>3 DEF IInv, TypeOK
<1>5. ReqOK(r) /\ ranOn[r] # NoWorker /\ r \notin finals
  BY PathAssumption DEF PutChunk, IInv, ReqOK
<1>6. handler[r] # "answered"
  BY <1>5 DEF ReqOK
<1>7. ReqOK(r)'
  BY <1>1, <1>2, <1>3, <1>5, <1>6 DEF ReqOK, Running
<1>8. \A x \in Requests \ {r} : Untouched(x)
  BY <1>1, <1>2, <1>3 DEF Untouched
<1> QED
  BY <1>1, <1>4, <1>7, <1>8, Preserved

LEMMA FinishKeeps ==
    ASSUME IInv, NEW w \in Workers, NEW r \in Requests, Finish(w, r) PROVE IInv'
<1> USE DEF client, errors, pool, locks
<1>1. /\ QueuesOK' /\ taskQ' \in Seq(Requests) /\ cancelQ' \in Seq(Requests)
      /\ \A x \in Requests : Queued(x)' <=> Queued(x)
  BY QueuesStay DEF Finish
<1>2. UNCHANGED <<handler, registry, read, ranOn, sent, routed, dropped, errorQ, errSent,
                  errAt, worker, flags, locks, deaths, lost>>
  BY DEF Finish
<1>3. /\ put' \in [Requests -> 0..MaxItems] /\ put'[r] = put[r] + 1
      /\ put[r] \in Nat /\ sent[r] \in Nat /\ routed[r] \in Nat /\ read[r] \in Nat
      /\ \A x \in Requests \ {r} : put'[x] = put[x]
      /\ finals' = finals \cup {r}
      /\ inflight' \in [Workers -> SUBSET Requests]
      /\ \A v \in Workers, x \in Requests \ {r} : x \in inflight'[v] <=> x \in inflight[v]
      /\ \A v \in Workers \ {w} : r \in inflight'[v] <=> r \in inflight[v]
      /\ r \notin inflight'[w]
  BY PathAssumption DEF Finish, IInv, TypeOK
<1>4. TypeOK'
  BY <1>1, <1>2, <1>3 DEF IInv, TypeOK
<1>5. /\ ReqOK(r) /\ ranOn[r] = w /\ w # NoWorker /\ r \notin finals \cup errorQ
      /\ errAt[r] = NoError
  BY PathAssumption DEF Finish, IInv, ReqOK
<1>6. handler[r] # "answered" /\ \A v \in Workers : r \notin inflight'[v]
  BY <1>3, <1>5 DEF ReqOK
<1>7. ReqOK(r)'
  BY <1>1, <1>2, <1>3, <1>5, <1>6 DEF ReqOK, Running
<1>8. \A x \in Requests \ {r} : Untouched(x)
  BY <1>1, <1>2, <1>3 DEF Untouched
<1> QED
  BY <1>1, <1>4, <1>7, <1>8, Preserved

LEMMA RaiseKeeps ==
    ASSUME IInv, NEW w \in Workers, NEW r \in Requests, Raise(w, r) PROVE IInv'
<1> USE DEF client, results, pool, locks
<1>1. /\ QueuesOK' /\ taskQ' \in Seq(Requests) /\ cancelQ' \in Seq(Requests)
      /\ \A x \in Requests : Queued(x)' <=> Queued(x)
  BY QueuesStay DEF Raise
<1>2. UNCHANGED <<handler, registry, read, ranOn, put, sent, finals, routed, dropped,
                  errSent, errAt, worker, flags, locks, deaths, lost>>
  BY DEF Raise
<1>3. /\ errorQ' = errorQ \cup {r}
      /\ inflight' \in [Workers -> SUBSET Requests]
      /\ \A v \in Workers, x \in Requests \ {r} : x \in inflight'[v] <=> x \in inflight[v]
      /\ \A v \in Workers \ {w} : r \in inflight'[v] <=> r \in inflight[v]
      /\ r \notin inflight'[w]
  BY DEF Raise, IInv, TypeOK
<1>4. TypeOK'
  BY <1>1, <1>2, <1>3 DEF IInv, TypeOK
<1>5. ReqOK(r) /\ ranOn[r] = w /\ w # NoWorker /\ r \notin finals \cup errorQ
  BY PathAssumption DEF Raise, IInv, ReqOK
<1>6. \A v \in Workers : r \notin inflight'[v]
  BY <1>3, <1>5 DEF ReqOK
<1>7. ReqOK(r)'
  BY <1>1, <1>2, <1>3, <1>5, <1>6 DEF ReqOK, Running
<1>8. \A x \in Requests \ {r} : Untouched(x)
  BY <1>1, <1>2, <1>3 DEF Untouched
<1> QED
  BY <1>1, <1>4, <1>7, <1>8, Preserved

\* The feeder thread writes what was put.
LEMMA SendKeeps ==
    ASSUME IInv, NEW w \in Workers, NEW r \in Requests, Send(w, r) PROVE IInv'
<1> USE DEF client, errors, pool, locks
<1>1. /\ QueuesOK' /\ taskQ' \in Seq(Requests) /\ cancelQ' \in Seq(Requests)
      /\ \A x \in Requests : Queued(x)' <=> Queued(x)
  BY QueuesStay DEF Send
<1>2. UNCHANGED <<handler, registry, read, ranOn, inflight, put, finals, routed, dropped,
                  errorQ, errSent, errAt, worker, flags, locks, deaths, lost>>
  BY DEF Send
<1>3. /\ put[r] \in 0..MaxItems /\ sent[r] \in Nat /\ routed[r] \in Nat /\ sent[r] < put[r]
      /\ sent' = [sent EXCEPT ![r] = @ + 1] /\ sent \in [Requests -> 0..MaxItems]
  BY DEF Send, IInv, TypeOK
<1>4. /\ sent' \in [Requests -> 0..MaxItems] /\ sent'[r] = sent[r] + 1
      /\ \A x \in Requests \ {r} : sent'[x] = sent[x]
  BY <1>3, PathAssumption
<1>5. TypeOK'
  BY <1>1, <1>2, <1>4 DEF IInv, TypeOK
<1>6. ReqOK(r)
  BY DEF IInv
<1>7. ReqOK(r)'
  BY <1>1, <1>2, <1>3, <1>4, <1>6 DEF ReqOK, Running
<1>8. \A x \in Requests \ {r} : Untouched(x)
  BY <1>1, <1>2, <1>4 DEF Untouched
<1> QED
  BY <1>1, <1>5, <1>7, <1>8, Preserved

LEMMA SendErrorKeeps ==
    ASSUME IInv, NEW w \in Workers, NEW r \in Requests, SendError(w, r) PROVE IInv'
<1> USE DEF client, results, pool, locks
<1>1. /\ QueuesOK' /\ taskQ' \in Seq(Requests) /\ cancelQ' \in Seq(Requests)
      /\ \A x \in Requests : Queued(x)' <=> Queued(x)
  BY QueuesStay DEF SendError
<1>2. /\ UNCHANGED <<handler, registry, read, ranOn, inflight, put, sent, finals, routed,
                     dropped, errorQ, errAt, worker, flags, locks, deaths, lost>>
      /\ errSent' = errSent \cup {r} /\ r \in errorQ
  BY DEF SendError
<1>3. TypeOK'
  BY <1>1, <1>2 DEF IInv, TypeOK
<1>4. ReqOK(r)
  BY DEF IInv
<1>5. ReqOK(r)'
  BY <1>1, <1>2, <1>4 DEF ReqOK, Running
<1>6. \A x \in Requests \ {r} : Untouched(x)
  BY <1>1, <1>2 DEF Untouched
<1> QED
  BY <1>1, <1>3, <1>5, <1>6, Preserved

\* The request that is aborted is one whose handler has ended.
LEMMA HearCancelKeeps == ASSUME IInv, NEW w \in Workers, HearCancel(w) PROVE IInv'
<1> USE DEF client, results, errors, pool, locks
<1>0. cancelQ \in Seq(Requests) /\ cancelQ # <<>>
  BY DEF HearCancel, IInv, TypeOK
<1>1. PICK r \in Requests : r = Head(cancelQ)
  BY <1>0, Tailed
<1>2. handler[r] \in Ended
  BY <1>0, <1>1, Tailed DEF IInv, QueuesOK, SignalsAreLate
<1>3. cancelQ' \in Seq(Requests) /\ SignalsAreLate'
  BY <1>0, SignalsKept DEF HearCancel
<1>4. UNCHANGED <<handler, registry, read, taskQ, ranOn, put, sent, finals, routed, dropped,
                  errorQ, errSent, errAt, worker, flags, locks, deaths, lost>>
  BY DEF HearCancel
<1>5. /\ NoDuplicates' /\ \A x \in Requests : Queued(x)' <=> Queued(x)
  BY <1>4 DEF IInv, QueuesOK, NoDuplicates, Queued
<1>6. /\ inflight' \in [Workers -> SUBSET Requests]
      /\ \A v \in Workers, x \in Requests \ {r} : x \in inflight'[v] <=> x \in inflight[v]
      /\ \A v \in Workers : r \in inflight'[v] => r \in inflight[v]
  BY <1>1 DEF HearCancel, IInv, TypeOK
<1>7. TypeOK'
  BY <1>3, <1>4, <1>6 DEF IInv, TypeOK
<1>8. ReqOK(r)
  BY DEF IInv
<1>9. ReqOK(r)'
  BY <1>2, <1>4, <1>5, <1>6, <1>8 DEF ReqOK, Ended
<1>a. \A x \in Requests \ {r} : Untouched(x)
  BY <1>4, <1>5, <1>6 DEF Untouched
<1> QED
  BY <1>3, <1>5, <1>7, <1>9, <1>a, Preserved DEF QueuesOK

\* What a dead worker loses is its own requests' alone, and an answer that was
\* read had left it.
LEMMA DieKeeps == ASSUME IInv, NEW w \in Workers, Die(w) PROVE IInv'
<1> USE DEF client
<1> DEFINE own == {x \in Requests : ranOn[x] = w}
<1>0. /\ put \in [Requests -> 0..MaxItems] /\ sent \in [Requests -> 0..MaxItems]
      /\ finals \subseteq Requests /\ errorQ \subseteq Requests
  BY DEF IInv, TypeOK
<1>1. /\ put' = [x \in Requests |-> IF x \in own THEN sent[x] ELSE put[x]]
      /\ finals' = {x \in finals : put'[x] = put[x]}
      /\ errorQ' = errorQ \ (own \ errSent)
      /\ lost' = lost \cup inflight[w] \cup (errorQ \ errorQ') \cup (finals \ finals')
      /\ inflight' = [inflight EXCEPT ![w] = {}]
      /\ UNCHANGED <<handler, registry, read, taskQ, ranOn, sent, routed, dropped, errSent,
                     errAt, cancelQ, flags>>
  BY DEF Die
<1>2. /\ put' \in [Requests -> 0..MaxItems]
      /\ \A x \in Requests : put'[x] = IF ranOn[x] = w THEN sent[x] ELSE put[x]
  BY <1>0, <1>1
<1>3. /\ QueuesOK' /\ taskQ' \in Seq(Requests) /\ cancelQ' \in Seq(Requests)
      /\ \A x \in Requests : Queued(x)' <=> Queued(x)
  BY <1>1, QueuesStay
<1>4. /\ wedged' \subseteq {"tasks", "cancels", "errors", "loop"}
      /\ mute' \subseteq Workers
  <2>1. /\ wedged \subseteq {"tasks", "cancels", "errors", "loop"}
        /\ mute \subseteq Workers
    BY DEF IInv, TypeOK
  <2>2. Locks(w) \ {"results"} \subseteq {"tasks", "cancels", "errors"}
    BY DEF Locks
  <2>3. Sharers(w) \subseteq Workers
    BY DEF Sharers
  <2>4. PICK held \in SUBSET Locks(w) :
          /\ wedged' = wedged \cup (held \ {"results"})
          /\ mute' = IF "results" \in held THEN mute \cup Sharers(w) ELSE mute
    BY DEF Die
  <2> QED
    BY <2>1, <2>2, <2>3, <2>4
<1>5. deaths' \in 0..MaxDeaths /\ worker' \in [Workers -> {"dead", "warming", "serving"}]
  BY PathAssumption DEF Die, IInv, TypeOK
<1>6. /\ inflight' \in [Workers -> SUBSET Requests] /\ lost' \subseteq Requests
      /\ finals' \subseteq Requests /\ errorQ' \subseteq Requests
  BY <1>1 DEF IInv, TypeOK
<1>7. TypeOK'
  BY <1>1, <1>2, <1>3, <1>4, <1>5, <1>6 DEF IInv, TypeOK
<1>8. ASSUME NEW x \in Requests PROVE ReqOK(x)'
  <2>1. ReqOK(x)
    BY DEF IInv
  <2>2. /\ inflight'[w] = {} /\ \A v \in Workers \ {w} : inflight'[v] = inflight[v]
        /\ put[x] \in Nat /\ sent[x] \in Nat /\ read[x] \in Nat /\ routed[x] \in Nat
    BY <1>1 DEF IInv, TypeOK
  <2>a. /\ x \in finals' <=> x \in finals /\ put'[x] = put[x]
        /\ x \in errorQ' <=> x \in errorQ /\ (ranOn[x] = w => x \in errSent)
        /\ x \in lost' <=> \/ x \in lost \cup inflight[w]
                           \/ x \in errorQ /\ x \notin errorQ'
                           \/ x \in finals /\ x \notin finals'
    BY <1>1
  <2>3. CASE ranOn[x] = w
    <3>1. \A v \in Workers : x \notin inflight'[v]
      BY <2>1, <2>2, <2>3 DEF ReqOK
    <3>2. Running(x) => x \in lost'
      BY <2>a, <2>1, <2>3 DEF ReqOK, Running
    <3>3. put'[x] = sent[x] /\ (read[x] = put[x] => put'[x] = put[x])
      BY <1>2, <2>1, <2>2, <2>3 DEF ReqOK
    <3>4. ranOn[x] # NoWorker
      BY <2>3, PathAssumption
    <3>5. handler[x] = "waiting" /\ x \notin lost' =>
            Queued(x)' \/ x \in finals' \cup errorQ' \/ errAt'[x] # NoError
      BY <1>1, <1>3, <2>a, <2>1, <3>2 DEF ReqOK
    <3>6. x \in errSent' => x \in errorQ'
      BY <1>1, <2>a, <2>1 DEF ReqOK
    <3> QED
      BY <1>1, <1>3, <2>a, <2>1, <2>2, <2>3, <3>1, <3>3, <3>4, <3>5, <3>6 DEF ReqOK
  <2>4. CASE ranOn[x] # w
    <3>1. x \notin inflight[w]
      BY <2>1, <2>4 DEF ReqOK
    <3>2. put'[x] = put[x]
      BY <1>2, <2>4
    <3>3. Untouched(x)
      BY <1>1, <1>3, <2>2, <2>a, <2>4, <3>1, <3>2 DEF Untouched
    <3> QED
      BY <2>1, <3>3, Frame
  <2> QED
    BY <2>3, <2>4
<1> QED
  BY <1>3, <1>7, <1>8 DEF IInv

\* A restart changes nothing about any request, nor does an event loop that stops.
LEMMA PoolKeeps ==
    ASSUME IInv, NEW w \in Workers, Restart(w) \/ ReportReady(w) \/ HalfRead(w) PROVE IInv'
<1>1. UNCHANGED <<handler, registry, read, taskQ, ranOn, inflight, put, sent, finals, routed,
                  dropped, errorQ, errSent, errAt, cancelQ, mute, deaths, lost>>
  BY DEF Restart, ReportReady, HalfRead, client, results, errors, locks
<1>2. /\ QueuesOK' /\ taskQ' \in Seq(Requests) /\ cancelQ' \in Seq(Requests)
      /\ \A x \in Requests : Queued(x)' <=> Queued(x)
  BY <1>1, QueuesStay
<1>3. /\ worker' \in [Workers -> {"dead", "warming", "serving"}] /\ flags' \subseteq Workers
      /\ wedged' \subseteq {"tasks", "cancels", "errors", "loop"}
  BY DEF Restart, ReportReady, HalfRead, locks, IInv, TypeOK
<1>4. TypeOK'
  BY <1>1, <1>2, <1>3 DEF IInv, TypeOK
<1>5. ASSUME NEW x \in Requests PROVE ReqOK(x)'
  <2>1. ReqOK(x) /\ Untouched(x)
    BY <1>1, <1>2 DEF IInv, Untouched
  <2> QED
    BY <2>1, Frame
<1> QED
  BY <1>2, <1>4, <1>5 DEF IInv

LEMMA StutterKeeps == ASSUME IInv, UNCHANGED vars PROVE IInv'
<1> USE DEF vars, client, results, errors, pool, locks
<1>1. /\ QueuesOK' /\ taskQ' \in Seq(Requests) /\ cancelQ' \in Seq(Requests)
      /\ \A x \in Requests : Queued(x)' <=> Queued(x)
  BY QueuesStay
<1>2. TypeOK'
  BY DEF IInv, TypeOK
<1>3. ASSUME NEW x \in Requests PROVE ReqOK(x)'
  <2>1. ReqOK(x) /\ Untouched(x)
    BY <1>1 DEF IInv, Untouched
  <2> QED
    BY <2>1, Frame
<1> QED
  BY <1>1, <1>2, <1>3 DEF IInv

LEMMA IInvNext == IInv /\ [Next]_vars => IInv'
<1> SUFFICES ASSUME IInv, [Next]_vars PROVE IInv'
  OBVIOUS
<1>1. ASSUME NEW r \in Requests, RequestStep(r) PROVE IInv'
  <2>1. CASE Submit(r)
    BY <2>1, SubmitKeeps
  <2>2. CASE TakeItem(r)
    BY <2>2, TakeItemKeeps
  <2>3. CASE TakeError(r) \/ Timeout(r) \/ Disconnect(r)
    BY <2>3, EndsKeeps DEF TakeError, Timeout, Disconnect
  <2>4. CASE RouteResult(r)
    BY <2>4, RouteResultKeeps
  <2>5. CASE RouteError(r)
    BY <2>5, RouteErrorKeeps
  <2> QED
    BY <1>1, <2>1, <2>2, <2>3, <2>4, <2>5 DEF RequestStep
<1>2. ASSUME NEW w \in Workers, WorkerStep(w) PROVE IInv'
  <2>1. CASE Take(w)
    BY <2>1, TakeKeeps
  <2>2. CASE HearCancel(w)
    BY <2>2, HearCancelKeeps
  <2>3. CASE Die(w)
    BY <2>3, DieKeeps
  <2>4. CASE Restart(w) \/ ReportReady(w) \/ HalfRead(w)
    BY <2>4, PoolKeeps
  <2>5. ASSUME NEW r \in Requests,
               PutChunk(w, r) \/ Finish(w, r) \/ Raise(w, r) \/ Send(w, r) \/ SendError(w, r)
        PROVE  IInv'
    BY <2>5, PutChunkKeeps, FinishKeeps, RaiseKeeps, SendKeeps, SendErrorKeeps
  <2> QED
    BY <1>2, <2>1, <2>2, <2>3, <2>4, <2>5 DEF WorkerStep
<1>3. CASE UNCHANGED vars
  BY <1>3, StutterKeeps
<1> QED
  BY <1>1, <1>2, <1>3 DEF Next

-----------------------------------------------------------------------------
(* Theorems.                                                               *)

THEOREM Inductive == Spec => []IInv
  BY IInvInit, IInvNext, PTL DEF Spec

\* The state of handlers, listeners, queues and workers keeps its shape: no runner
\* puts more items than it announced, no position runs past another's range.
THEOREM PathTypeCorrect == Spec => []TypeOK
<1>1. IInv => TypeOK
  BY DEF IInv
<1> QED
  BY <1>1, Inductive, PTL

\* The invariant that relates the handler, the queues, the workers and the two
\* listeners, for any number of each.
THEOREM PathInvHolds == Spec => []PathInv
  BY Inductive, Invariants, PTL

\* No waiting request disappears between handler, queue, worker and listeners,
\* unless it went down with a worker.
THEOREM AccountedHolds == Spec => []Accounted
<1>1. PathInv => Accounted
  BY DEF PathInv
<1> QED
  BY <1>1, PathInvHolds, PTL

\* An answered client has read the whole stream, whatever died meanwhile.
THEOREM StreamIntactHolds == Spec => []StreamIntact
<1>1. PathInv => StreamIntact
  BY DEF PathInv
<1> QED
  BY <1>1, PathInvHolds, PTL

\* The registry of result queues holds the waiting and the refused requests.
THEOREM RegistryExactHolds == Spec => []RegistryExact
<1>1. PathInv => RegistryExact
  BY DEF PathInv
<1> QED
  BY <1>1, PathInvHolds, PTL

\* No request is run twice: what a worker took is never queued again.
THEOREM StartedOnceHolds == Spec => StartedOnce
<1>1. ASSUME IInv, IInv', [Next]_vars, NEW r \in Requests, ranOn[r] # NoWorker
      PROVE  ranOn'[r] = ranOn[r]
  <2>1. ~Queued(r)
    BY <1>1 DEF IInv, ReqOK
  <2>2. CASE \E w \in Workers : Take(w)
    <3>1. PICK w \in Workers : Take(w)
      BY <2>2
    <3>2. Queued(Head(taskQ)) /\ Head(taskQ) \in Requests
      BY <1>1, <3>1, QueueShrinks DEF Take
    <3>3. Head(taskQ) # r
      BY <2>1, <3>2
    <3> QED
      BY <1>1, <3>1, <3>3 DEF Take, IInv, TypeOK
  <2>3. CASE ~\E w \in Workers : Take(w)
    <3>1. ranOn' = ranOn
      BY <1>1, <2>3 DEF Next, RequestStep, WorkerStep, Submit, TakeItem, TakeError, Timeout,
         Disconnect, Ends, RouteResult, RouteError, PutChunk, Finish, Raise, Send,
         SendError, HearCancel, HalfRead, Die, Restart, ReportReady, vars
    <3> QED
      BY <3>1
  <2> QED
    BY <2>2, <2>3
<1>2. ASSUME IInv, IInv', [Next]_vars
      PROVE  [\A r \in Requests : ranOn[r] # NoWorker => ranOn'[r] = ranOn[r] /\ ~Queued(r)']_vars
  <2> SUFFICES ASSUME NEW r \in Requests, ranOn[r] # NoWorker
               PROVE  ranOn'[r] = ranOn[r] /\ ~Queued(r)'
    OBVIOUS
  <2>1. ranOn'[r] = ranOn[r]
    BY <1>1, <1>2
  <2>2. (Queued(r) => ranOn[r] = NoWorker)'
    BY <1>2 DEF IInv, ReqOK
  <2> QED
    BY <2>1, <2>2
<1> QED
  BY <1>2, Inductive, PTL DEF Spec, StartedOnce

=============================================================================
