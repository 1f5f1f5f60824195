------------------------- MODULE BlockSchedulerProofs -------------------------
(***************************************************************************)
(* Proofs about the C++ LLM runner, for any number of worker processes,    *)
(* tasks and blocks: where a request is, that no pointer dangles, that the *)
(* reference counts and free lists of the block manager are exact and that *)
(* sequences have the blocks they need; and, while no more clients give up *)
(* than the workers keep marks for, that a cancellation is final.          *)
(***************************************************************************)
EXTENDS BlockScheduler, SequenceTheorems, FiniteSetTheorems, TLAPS

-----------------------------------------------------------------------------
(* The types of the variables the proofs speak of.                          *)

Shared ==
    /\ sent \subseteq Tasks
    /\ queue \in Seq(Copies)
    /\ cancelQ \in [Workers -> Seq(Tasks)]
Sequences3 ==
    /\ status \in [Workers -> [Tasks -> {"none", "WAITING", "RUNNING"}]]
    /\ gen \in [Workers -> [Tasks -> Nat]]
    /\ table \in [Workers -> [Tasks -> Seq(Blocks)]]
    /\ decodeQ \in [Workers -> Seq(Tasks)]
    /\ batch \in [Workers -> Seq(Tasks)]
Manager ==
    /\ ref \in [Workers -> [Blocks -> Int]]
    /\ free \in [Workers -> Seq(Blocks)]
Control ==
    /\ pc \in [Workers -> Steps]
    /\ task \in [Workers -> Tasks]
    /\ after \in [Workers -> {"erase", "preempt"}]
    /\ hold \in [Workers -> Seq(Copies)]
Shapes == Shared /\ Sequences3 /\ Manager /\ Control

-----------------------------------------------------------------------------
(* Lists.                                                                   *)

LEMMA ElemsAppend ==
    ASSUME NEW S, NEW s \in Seq(S), NEW e \in S
    PROVE  /\ Append(s, e) \in Seq(S) /\ Elems(Append(s, e)) = Elems(s) \cup {e}
           /\ Distinct(s) /\ e \notin Elems(s) => Distinct(Append(s, e))
<1>1. /\ DOMAIN Append(s, e) = 1..(Len(s) + 1) /\ DOMAIN s = 1..Len(s) /\ Len(s) \in Nat
      /\ \A i \in 1..Len(s) : Append(s, e)[i] = s[i]
      /\ Append(s, e)[Len(s) + 1] = e /\ Append(s, e) \in Seq(S)
  OBVIOUS
<1>2. Elems(Append(s, e)) = Elems(s) \cup {e}
  BY <1>1 DEF Elems
<1>3. Distinct(s) /\ e \notin Elems(s) => Distinct(Append(s, e))
  BY <1>1 DEF Elems, Distinct
<1> QED
  BY <1>1, <1>2, <1>3

LEMMA ElemsTail ==
    ASSUME NEW S, NEW s \in Seq(S), s # <<>>
    PROVE  /\ Head(s) \in Elems(s) /\ Head(s) \in S /\ Tail(s) \in Seq(S)
           /\ Elems(s) = {Head(s)} \cup Elems(Tail(s)) /\ Len(Tail(s)) = Len(s) - 1
           /\ Distinct(s) => Distinct(Tail(s)) /\ Head(s) \notin Elems(Tail(s))
<1>1. /\ Head(s) \in S /\ Tail(s) \in Seq(S) /\ Len(Tail(s)) = Len(s) - 1
      /\ Head(s) = s[1] /\ \A i \in 1..(Len(s) - 1) : Tail(s)[i] = s[i + 1]
  OBVIOUS
<1>2. PICK n \in Nat : n = Len(s) /\ n > 0
  OBVIOUS
<1>3. PICK t \in Seq(S) : t = Tail(s)
  BY <1>1
<1>4. DOMAIN s = 1..n /\ DOMAIN t = 1..(n - 1)
  BY <1>1, <1>2, <1>3
<1>5. \A i \in 1..(n - 1) : t[i] = s[i + 1] /\ i + 1 \in 1..n /\ i + 1 # 1
  BY <1>1, <1>2, <1>3
<1>6. \A i \in 1..n : i = 1 \/ (i - 1 \in 1..(n - 1) /\ t[i - 1] = s[i])
  <2> SUFFICES ASSUME NEW i \in 1..n, i # 1 PROVE i - 1 \in 1..(n - 1) /\ t[i - 1] = s[i]
    OBVIOUS
  <2>1. i - 1 \in 1..(n - 1) /\ (i - 1) + 1 = i
    BY <1>2
  <2> QED
    BY <1>5, <2>1
<1>7. Elems(s) = {s[i] : i \in 1..n} /\ Elems(t) = {t[i] : i \in 1..(n - 1)} /\ 1 \in 1..n
  BY <1>2, <1>4 DEF Elems
<1>8. Elems(s) = {s[1]} \cup Elems(t)
  BY <1>5, <1>6, <1>7
<1>9. ASSUME Distinct(s) PROVE Distinct(t) /\ s[1] \notin Elems(t)
  <2>1. \A i, j \in 1..n : s[i] = s[j] => i = j
    BY <1>4, <1>9 DEF Distinct
  <2>2. \A i, j \in 1..(n - 1) : t[i] = t[j] => i = j
    BY <1>5, <2>1
  <2>3. s[1] \notin Elems(t)
    BY <1>5, <1>7, <2>1
  <2> QED
    BY <1>4, <2>2, <2>3 DEF Distinct
<1> QED
  BY <1>1, <1>3, <1>8, <1>9

LEMMA ElemsFront ==
    ASSUME NEW S, NEW s \in Seq(S), s # <<>>
    PROVE  /\ LastOf(s) \in Elems(s) /\ LastOf(s) \in S /\ FrontOf(s) \in Seq(S)
           /\ Elems(s) = {LastOf(s)} \cup Elems(FrontOf(s)) /\ Len(FrontOf(s)) = Len(s) - 1
           /\ \A i \in 1..(Len(s) - 1) : FrontOf(s)[i] = s[i]
           /\ Distinct(s) => Distinct(FrontOf(s)) /\ LastOf(s) \notin Elems(FrontOf(s))
<1>1. Len(s) \in Nat /\ Len(s) > 0 /\ s[Len(s)] \in S
  OBVIOUS
<1>a. DOMAIN s = 1..Len(s)
  OBVIOUS
<1> DEFINE t == FrontOf(s)
<1>2. /\ t \in Seq(S)
      /\ Len(t) = Len(s) - 1
      /\ \A i \in 1..(Len(s) - 1) : t[i] = s[i]
  <2>1. PICK m \in Nat : m = Len(s) - 1
    BY <1>1
  <2>2. \A i \in 1..m : s[i] \in S
    BY <2>1, <1>1
  <2>3. /\ SubSeq(s, 1, m) \in Seq(S) /\ Len(SubSeq(s, 1, m)) = m
        /\ \A i \in 1..m : SubSeq(s, 1, m)[i] = s[i]
    BY <2>2
  <2> QED
    BY <2>1, <2>3 DEF FrontOf
<1>b. DOMAIN t = 1..(Len(s) - 1)
  BY <1>2
<1> HIDE DEF t
<1>3. PICK n \in Nat : n = Len(s) /\ n > 0 
  BY <1>1
<1>4. \A i \in 1..n : i \in 1..(n - 1) \/ i = n
  BY <1>3
<1>c. \A i \in 1..(n-1) : i \in 1..n /\ i # n
  BY <1>3
<1>5. Elems(s) = {LastOf(s)} \cup Elems(t)
  <2>1. Elems(s) = {s[i] : i \in 1..n} /\ Elems(t) = {t[i] : i \in 1..(n-1)} /\ LastOf(s) = s[n]
     BY <1>3, <1>a, <1>b DEF Elems, LastOf
  <2>2. \A i \in 1..(n - 1) : t[i] = s[i]
     BY <1>2, <1>3
  <2> QED
  BY <1>3, <1>4, <1>c, <2>1, <2>2
<1>6. ASSUME Distinct(s) PROVE Distinct(t) /\ LastOf(s) \notin Elems(t)
  <2>1. Elems(t) = {t[i] : i \in 1..(n-1)} /\ LastOf(s) = s[n]
     BY <1>3, <1>b DEF Elems, LastOf
  <2>2. \A i \in 1..(n - 1) : t[i] = s[i]
     BY <1>2, <1>3
  <2>3. \A i, j \in 1..n : s[i] = s[j] => i = j
     BY <1>3, <1>6, <1>a DEF Distinct
  <2>4. \A i, j \in 1..(n-1) : t[i] = t[j] => i = j
     BY <1>c, <2>2, <2>3
  <2>5. LastOf(s) \notin Elems(t)
     BY <1>3, <1>c, <2>1, <2>2, <2>3
  <2> QED
  BY <1>3, <1>b, <2>4, <2>5 DEF Distinct
<1> QED
  BY <1>1, <1>a, <1>2, <1>5, <1>6 DEF LastOf, t, Elems

LEMMA ElemsIn ==
    ASSUME NEW S, NEW s \in Seq(S)
    PROVE  Elems(s) \subseteq S
  BY DEF Elems

\* std::find and erase: of elements that are equal the first goes
LEMMA WithoutType ==
    ASSUME NEW S, NEW s \in Seq(S), NEW e
    PROVE  Without(s, e) \in Seq(S) /\ Len(Without(s, e)) >= Len(s) - 1
<1>1. CASE e \notin Elems(s)
  <2>1. Len(s) \in Nat
    OBVIOUS
  <2> QED
    BY <1>1, <2>1 DEF Without
<1>2. CASE e \in Elems(s)
  <2>1. PICK n \in Nat : n = Len(s)
    OBVIOUS
  <2>2. DOMAIN s = 1..n /\ \A i \in 1..n : s[i] \in S
    BY <2>1
  <2>3. PICK at \in 1..n : at = (CHOOSE i \in DOMAIN s : s[i] = e) /\ s[at] = e
    BY <1>2, <2>2 DEF Elems
  <2>4. PICK t : t = [i \in 1..(n - 1) |-> IF i < at THEN s[i] ELSE s[i + 1]]
    OBVIOUS
  <2>5. Without(s, e) = t
    BY <1>2, <2>1, <2>3, <2>4 DEF Without
  <2>6. n > 0 /\ \A i \in 1..(n - 1) : i \in 1..n /\ i + 1 \in 1..n
    BY <2>3
  <2>7. t \in [1..(n - 1) -> S]
    BY <2>2, <2>4, <2>6
  <2>8. t \in Seq(S) /\ Len(t) = n - 1
    BY <2>6, <2>7
  <2> QED
    BY <2>1, <2>5, <2>8
<1> QED
  BY <1>1, <1>2

LEMMA ElemsWithout ==
    ASSUME NEW S, NEW s \in Seq(S), NEW e, Distinct(s)
    PROVE  /\ Without(s, e) \in Seq(S) /\ Elems(Without(s, e)) = Elems(s) \ {e}
           /\ Distinct(Without(s, e))
           /\ Len(Without(s, e)) = IF e \in Elems(s) THEN Len(s) - 1 ELSE Len(s)
<1>1. CASE e \notin Elems(s)
  BY <1>1 DEF Without
<1>2. CASE e \in Elems(s)
  <2>1. PICK n \in Nat : n = Len(s)
    OBVIOUS
  <2>2. DOMAIN s = 1..n /\ \A i \in 1..n : s[i] \in S
    BY <2>1
  <2>3. PICK at \in 1..n : at = (CHOOSE i \in DOMAIN s : s[i] = e) /\ s[at] = e
    BY <1>2, <2>2 DEF Elems
  <2>4. PICK t : t = [i \in 1..(n - 1) |-> IF i < at THEN s[i] ELSE s[i + 1]]
    OBVIOUS
  <2>5. Without(s, e) = t
    BY <1>2, <2>1, <2>3, <2>4 DEF Without
  <2>6. \A i, j \in 1..n : s[i] = s[j] => i = j
    BY <2>2 DEF Distinct
  <2>7. n > 0 /\ at <= n /\ at >= 1
    BY <2>3
  <2>8. \A i \in 1..(n - 1) : i \in 1..n /\ i + 1 \in 1..n
    BY <2>7
  <2>9. \A i \in 1..(n - 1) : t[i] = IF i < at THEN s[i] ELSE s[i + 1]
    BY <2>4
  <2>10. t \in [1..(n - 1) -> S] /\ DOMAIN t = 1..(n - 1)
    BY <2>2, <2>4, <2>8
  <2>11. t \in Seq(S) /\ Len(t) = n - 1
    BY <2>7, <2>10
  <2>12. /\ Elems(s) = {s[i] : i \in 1..n} /\ Elems(t) = {t[i] : i \in 1..(n - 1)}
    BY <2>2, <2>10 DEF Elems
  <2>13. \A i \in 1..(n - 1) : \E j \in 1..n : t[i] = s[j] /\ j # at
                                              /\ j = IF i < at THEN i ELSE i + 1
    <3> SUFFICES ASSUME NEW i \in 1..(n - 1)
                 PROVE  \E j \in 1..n : t[i] = s[j] /\ j # at /\ j = IF i < at THEN i ELSE i + 1
      OBVIOUS
    <3>1. CASE i < at
      BY <3>1, <2>8, <2>9
    <3>2. CASE ~(i < at)
      <4>1. i + 1 # at /\ i + 1 \in 1..n
        BY <3>2, <2>7, <2>8
      <4> QED
        BY <3>2, <4>1, <2>9
    <3> QED
      BY <3>1, <3>2
  <2>14. \A j \in 1..n : j # at => \E i \in 1..(n - 1) : t[i] = s[j]
    <3> SUFFICES ASSUME NEW j \in 1..n, j # at PROVE \E i \in 1..(n - 1) : t[i] = s[j]
      OBVIOUS
    <3>1. CASE j < at
      <4>1. j \in 1..(n - 1)
        BY <3>1, <2>7
      <4> QED
        BY <3>1, <4>1, <2>9
    <3>2. CASE ~(j < at)
      <4>1. j - 1 \in 1..(n - 1) /\ ~(j - 1 < at) /\ (j - 1) + 1 = j
        BY <3>2, <2>7
      <4> QED
        BY <4>1, <2>9
    <3> QED
      BY <3>1, <3>2
  <2>15. Elems(t) = Elems(s) \ {e}
    <3>1. \A j \in 1..n : s[j] = e <=> j = at
      BY <2>3, <2>6
    <3>2. Elems(t) \subseteq Elems(s) \ {e}
      BY <2>12, <2>13, <3>1
    <3>3. Elems(s) \ {e} \subseteq Elems(t)
      BY <2>12, <2>14, <3>1
    <3> QED
      BY <3>2, <3>3
  <2>16. \A i, j \in 1..(n - 1) : t[i] = t[j] => i = j
    <3> SUFFICES ASSUME NEW i \in 1..(n - 1), NEW j \in 1..(n - 1), t[i] = t[j] PROVE i = j
      OBVIOUS
    <3>1. PICK p \in 1..n : t[i] = s[p] /\ p = IF i < at THEN i ELSE i + 1
      BY <2>13
    <3>2. PICK q \in 1..n : t[j] = s[q] /\ q = IF j < at THEN j ELSE j + 1
      BY <2>13
    <3>3. p = q
      BY <3>1, <3>2, <2>6
    <3> QED
      BY <3>1, <3>2, <3>3, <2>7
  <2>17. Distinct(t)
    BY <2>10, <2>16 DEF Distinct
  <2> QED
    BY <1>2, <2>1, <2>5, <2>11, <2>15, <2>17
<1> QED
  BY <1>1, <1>2

-----------------------------------------------------------------------------
(* The types are kept.                                                      *)

\* the check of trySchedulePrefill covers the blocks allocate has still to take
Room(w) ==
    pc[w] = "alloc" => Len(free[w]) + Len(table[w][task[w]]) >= BlocksFor(SizeOn(w, task[w]))

LEMMA BlocksForType == \A n \in Int : BlocksFor(n) \in Int
  BY SizesAssumption DEF BlocksFor

LEMMA SizeType ==
    ASSUME NEW t \in Tasks, NEW n \in Nat
    PROVE  Size(t, n) \in Nat /\ Size(t, n) > n
<1>1. Prompt[t] \in Seq(Nat) /\ Prompt[t] # <<>>
  BY PromptAssumption
<1>2. Len(Prompt[t]) \in Nat /\ Len(Prompt[t]) > 0
  BY <1>1
<1> QED
  BY <1>2 DEF Size

LEMMA MissHasBlock ==
    ASSUME Shapes, NEW w \in Workers, Room(w), Allocating(w)
    PROVE  free[w] # <<>> /\ Head(free[w]) \in Blocks
<1>1. /\ task[w] \in Tasks /\ free[w] \in Seq(Blocks) /\ table[w][task[w]] \in Seq(Blocks)
      /\ gen[w][task[w]] \in Nat
  BY DEF Shapes, Control, Manager, Sequences3
<1>2. BlocksFor(SizeOn(w, task[w])) \in Int
  <2>1. Size(task[w], gen[w][task[w]]) \in Int
    BY <1>1, SizeType
  <2> QED
    BY <2>1, BlocksForType DEF SizeOn
<1>3. Len(free[w]) > 0
  <2>1. Len(free[w]) \in Nat /\ Len(table[w][task[w]]) \in Nat
    BY <1>1
  <2>2. /\ Len(free[w]) + Len(table[w][task[w]]) >= BlocksFor(SizeOn(w, task[w]))
        /\ Len(table[w][task[w]]) < BlocksFor(SizeOn(w, task[w]))
    BY DEF Room, Allocating
  <2>3. \A a, b \in Nat, x \in Int : a + b >= x /\ b < x => a > 0
    OBVIOUS
  <2> QED
    BY <1>2, <2>1, <2>2, <2>3
<1> QED
  BY <1>1, <1>3

LEMMA SharedKept == Shapes /\ [Next]_vars => Shared'
<1> SUFFICES ASSUME Shapes, [Next]_vars PROVE Shared'
  OBVIOUS
<1> USE DEF Shapes, Shared
<1>1. ASSUME NEW t \in Tasks, Submit(t) PROVE Shared'
  <2>1. [task |-> t, gen |-> 0] \in Copies
    BY DEF Copies
  <2> QED
    BY <1>1, <2>1 DEF Submit
<1>2. ASSUME NEW t \in Tasks, Cancel(t) PROVE Shared'
  BY <1>2 DEF Cancel
<1>3. ASSUME NEW w \in Workers, Abort(w) PROVE Shared'
  BY <1>3 DEF Abort, serverVars
<1>4. ASSUME queue' = queue \/ (queue # <<>> /\ queue' = Tail(queue)), UNCHANGED <<sent, cancelQ>>
      PROVE  Shared'
  <2>1. queue # <<>> => Tail(queue) \in Seq(Copies)
    OBVIOUS
  <2> QED
    BY <1>4, <2>1
<1>5. ASSUME NEW w \in Workers, PushBack(w) PROVE Shared'
  BY <1>5 DEF PushBack, serverVars, Control
<1>6. ASSUME NEW w \in Workers, PutBack(w) PROVE Shared'
  <2>1. Head(queue) \in Copies /\ Tail(queue) \in Seq(Copies)
    BY <1>6 DEF PutBack
  <2> QED
    BY <1>6, <2>1 DEF PutBack, Returned, serverVars
<1>7. ASSUME NEW w \in Workers, Released(w) PROVE Shared'
  <2>1. [task |-> task[w], gen |-> gen[w][task[w]]] \in Copies
    BY DEF Copies, Control, Sequences3
  <2>2. queue' = queue \/ queue' = Append(queue, [task |-> task[w], gen |-> gen[w][task[w]]])
    BY <1>7 DEF Released
  <2>3. UNCHANGED <<sent, cancelQ>>
    BY <1>7 DEF Released, serverVars
  <2> QED
    BY <2>1, <2>2, <2>3
<1>8. ASSUME NEW w \in Workers, WorkerStep(w),
             ~Abort(w), ~PushBack(w), ~PutBack(w), ~Released(w)
      PROVE  Shared'
  BY <1>4, <1>8 DEF WorkerStep, Wait, Receive, Plan, SkipAborted, Take, PrefillEnds, AllocHit,
     AllocMiss, Allocated, Append1, Preempt, DecodeEnds, Launch, Token, Finish, Fail, Release,
     serverVars
<1>9. CASE UNCHANGED vars
  BY <1>9 DEF vars, serverVars
<1> QED
  BY <1>1, <1>2, <1>3, <1>5, <1>6, <1>7, <1>8, <1>9 DEF Next

LEMMA Sequences3Kept ==
    Shapes /\ (\A w \in Workers : Room(w)) /\ [Next]_vars => Sequences3'
<1> SUFFICES ASSUME Shapes, \A w \in Workers : Room(w), [Next]_vars PROVE Sequences3'
  OBVIOUS
<1>a. Sequences3 /\ Control /\ Shared /\ Manager
  BY DEF Shapes
<1> USE DEF Sequences3
<1>1. ASSUME NEW t \in Tasks, Submit(t) \/ Cancel(t) PROVE Sequences3'
  BY <1>1, <1>a DEF Submit, Cancel
<1> SUFFICES ASSUME NEW w \in Workers, WorkerStep(w) PROVE Sequences3'
  BY <1>1, <1>a DEF Next, vars
<1>b. /\ task[w] \in Tasks /\ decodeQ[w] \in Seq(Tasks) /\ batch[w] \in Seq(Tasks)
      /\ free[w] \in Seq(Blocks) /\ \A t \in Tasks : table[w][t] \in Seq(Blocks) /\ gen[w][t] \in Nat
  BY <1>a DEF Control, Manager
<1>2. CASE Release(w)
  <2>1. FrontOf(table[w][task[w]]) \in Seq(Blocks)
    BY <1>2, <1>b, ElemsFront DEF Release
  <2> QED
    BY <1>2, <1>a, <1>b, <2>1 DEF Release
<1>3. CASE Released(w)
  <2>1. PICK st \in {"none", "WAITING"} :
            status' = [status EXCEPT ![w] = [status[w] EXCEPT ![task[w]] = st]]
    BY <1>3 DEF Released
  <2>2. UNCHANGED <<gen, table, decodeQ, batch>>
    BY <1>3 DEF Released
  <2> QED
    BY <1>a, <1>b, <2>1, <2>2
<1>4. CASE Abort(w)
  <2>1. Without(decodeQ[w], Head(cancelQ[w])) \in Seq(Tasks)
    BY <1>b, WithoutType
  <2> QED
    BY <1>4, <1>a, <2>1 DEF Abort, Unlinked
<1>5. CASE Wait(w) \/ Receive(w) \/ PushBack(w) \/ Plan(w) \/ PutBack(w) \/ PrefillEnds(w)
           \/ DecodeEnds(w)
  BY <1>5, <1>a DEF Wait, Receive, PushBack, Plan, PutBack, PrefillEnds, DecodeEnds
<1>6. CASE SkipAborted(w)
  <2>1. Head(queue).task \in Tasks
    <3>1. Head(queue) \in Copies
      BY <1>6, <1>a DEF SkipAborted, Shared
    <3> QED
      BY <3>1 DEF Copies
  <2> QED
    BY <1>6, <1>a, <2>1 DEF SkipAborted
<1>7. CASE Take(w)
  <2>1. Head(queue).task \in Tasks /\ Head(queue).gen \in Nat
    <3>1. Head(queue) \in Copies
      BY <1>7, <1>a DEF Take, Shared
    <3> QED
      BY <3>1 DEF Copies
  <2>2. <<>> \in Seq(Blocks)
    OBVIOUS
  <2> QED
    BY <1>7, <1>a, <2>1, <2>2 DEF Take
<1>8. ASSUME NEW b \in Blocks, InTable(w, b), UNCHANGED <<status, gen, decodeQ, batch>>
      PROVE  Sequences3'
  <2>1. Append(table[w][task[w]], b) \in Seq(Blocks)
    BY <1>b
  <2> QED
    BY <1>8, <1>a, <1>b, <2>1 DEF InTable
<1>9. CASE AllocHit(w)
  BY <1>8, <1>9 DEF AllocHit, Hits
<1>10. CASE AllocMiss(w)
  <2>1. Head(free[w]) \in Blocks
    BY <1>10, MissHasBlock DEF AllocMiss
  <2> QED
    BY <1>8, <1>10, <2>1 DEF AllocMiss
<1>11. CASE Allocated(w)
  BY <1>11, <1>a, <1>b DEF Allocated
<1>12. CASE Append1(w)
  <2>1. Head(decodeQ[w]) \in Tasks /\ Tail(decodeQ[w]) \in Seq(Tasks)
        /\ Append(batch[w], Head(decodeQ[w])) \in Seq(Tasks)
    <3>1. decodeQ[w] # <<>>
      BY <1>12 DEF Append1, Decoding
    <3>2. Head(decodeQ[w]) \in Tasks /\ Tail(decodeQ[w]) \in Seq(Tasks)
      BY <1>b, <3>1
    <3> QED
      BY <1>b, <3>2
  <2>2. StartsBlock(w, Head(decodeQ[w])) =>
          Append(table[w][Head(decodeQ[w])], Head(free[w])) \in Seq(Blocks)
    <3>1. StartsBlock(w, Head(decodeQ[w])) => free[w] # <<>>
      BY <1>12 DEF Append1, CanAppend
    <3>2. free[w] # <<>> => Head(free[w]) \in Blocks
      BY <1>b
    <3> QED
      BY <1>b, <2>1, <3>1, <3>2
  <2>3. \/ table' = table
        \/ /\ StartsBlock(w, Head(decodeQ[w]))
           /\ table' = [table EXCEPT ![w] = [table[w] EXCEPT ![Head(decodeQ[w])] =
                           Append(table[w][Head(decodeQ[w])], Head(free[w]))]]
    BY <1>12 DEF Append1
  <2>4. /\ decodeQ' = [decodeQ EXCEPT ![w] = Tail(decodeQ[w])]
        /\ batch' = [batch EXCEPT ![w] = Append(batch[w], Head(decodeQ[w]))]
        /\ UNCHANGED <<status, gen>>
    BY <1>12 DEF Append1
  <2>5. table' \in [Workers -> [Tasks -> Seq(Blocks)]]
    <3>1. CASE table' = table
      BY <1>a, <3>1
    <3>2. CASE table' # table
      <4>1. PICK row \in [Tasks -> Seq(Blocks)] : table' = [table EXCEPT ![w] = row]
        <5>1. table[w] \in [Tasks -> Seq(Blocks)]
          BY <1>a
        <5>2. [table[w] EXCEPT ![Head(decodeQ[w])] =
                 Append(table[w][Head(decodeQ[w])], Head(free[w]))] \in [Tasks -> Seq(Blocks)]
          BY <5>1, <2>1, <2>2, <2>3, <3>2
        <5> QED
          BY <5>2, <2>3, <3>2
      <4> QED
        BY <1>a, <4>1
    <3> QED
      BY <3>1, <3>2
  <2> QED
    BY <1>a, <2>1, <2>4, <2>5
<1>13. CASE Preempt(w)
  <2>1. FrontOf(decodeQ[w]) \in Seq(Tasks)
    BY <1>13, <1>b, ElemsFront DEF Preempt, Decoding
  <2> QED
    BY <1>13, <1>a, <2>1 DEF Preempt
<1>14. CASE Launch(w)
  <2>1. <<>> \in Seq(Tasks)
    OBVIOUS
  <2> QED
    BY <1>14, <1>a, <2>1 DEF Launch
<1>15. CASE Token(w) \/ Finish(w) \/ Fail(w)
  <2>1. Head(batch[w]) \in Tasks /\ Tail(batch[w]) \in Seq(Tasks)
        /\ Append(decodeQ[w], Head(batch[w])) \in Seq(Tasks)
    BY <1>15, <1>b DEF Token, Finish, Fail
  <2>2. gen[w][Head(batch[w])] + 1 \in Nat
    BY <1>b, <2>1
  <2>3. gen' = gen \/ gen' = [gen EXCEPT ![w] = [gen[w] EXCEPT ![Head(batch[w])] = gen[w][Head(batch[w])] + 1]]
    BY <1>15 DEF Token, Finish, Fail, NextToken
  <2>4. gen' \in [Workers -> [Tasks -> Nat]]
    <3>1. \A n \in Nat : [gen EXCEPT ![w] = [gen[w] EXCEPT ![Head(batch[w])] = n]]
                         \in [Workers -> [Tasks -> Nat]]
      BY <1>a, <2>1
    <3> QED
      BY <1>a, <2>2, <2>3, <3>1
  <2>5. status' \in [Workers -> [Tasks -> {"none", "WAITING", "RUNNING"}]]
    <3>1. \/ status' = status
          \/ status' = [status EXCEPT ![w] = [status[w] EXCEPT ![Head(batch[w])] = "RUNNING"]]
      BY <1>15 DEF Token, Finish, Fail
    <3>2. [status[w] EXCEPT ![Head(batch[w])] = "RUNNING"]
            \in [Tasks -> {"none", "WAITING", "RUNNING"}]
      BY <1>a, <2>1
    <3>3. PICK f \in [Tasks -> {"none", "WAITING", "RUNNING"}] :
            f = [status[w] EXCEPT ![Head(batch[w])] = "RUNNING"]
      BY <3>2
    <3>4. status' = status \/ status' = [status EXCEPT ![w] = f]
      BY <3>1, <3>3
    <3> QED
      BY <1>a, <3>3, <3>4
  <2>6. /\ decodeQ' \in [Workers -> Seq(Tasks)] /\ batch' \in [Workers -> Seq(Tasks)]
        /\ table' = table
    BY <1>15, <1>a, <2>1 DEF Token, Finish, Fail
  <2> QED
    BY <1>a, <2>4, <2>5, <2>6
<1> QED
  BY <1>2, <1>3, <1>4, <1>5, <1>6, <1>7, <1>9, <1>10, <1>11, <1>12, <1>13, <1>14, <1>15
     DEF WorkerStep

LEMMA ManagerKept ==
    Shapes /\ (\A w \in Workers : Room(w)) /\ [Next]_vars => Manager'
<1> SUFFICES ASSUME Shapes, \A w \in Workers : Room(w), [Next]_vars PROVE Manager'
  OBVIOUS
<1>a. Sequences3 /\ Control /\ Manager
  BY DEF Shapes
<1> USE DEF Manager
<1>1. ASSUME NEW t \in Tasks, Submit(t) \/ Cancel(t) PROVE Manager'
  BY <1>1, <1>a DEF Submit, Cancel, blockVars
<1> SUFFICES ASSUME NEW w \in Workers, WorkerStep(w) PROVE Manager'
  BY <1>1, <1>a DEF Next, vars, blockVars
<1>b. /\ task[w] \in Tasks /\ decodeQ[w] \in Seq(Tasks) /\ free[w] \in Seq(Blocks)
      /\ \A t \in Tasks : table[w][t] \in Seq(Blocks)
      /\ \A b \in Blocks : ref[w][b] \in Int
  BY <1>a DEF Control, Sequences3
<1>2. CASE Release(w)
  <2> DEFINE b == LastOf(table[w][task[w]])
  <2>1. b \in Blocks
    BY <1>2, <1>b, ElemsFront DEF Release
  <2>2. ref[w][b] - 1 \in Int /\ Append(free[w], b) \in Seq(Blocks)
    BY <1>b, <2>1
  <2>3. /\ ref' = [ref EXCEPT ![w] = [ref[w] EXCEPT ![b] = ref[w][b] - 1]]
        /\ free' = free \/ free' = [free EXCEPT ![w] = Append(free[w], b)]
    BY <1>2 DEF Release
  <2> HIDE DEF b
  <2> QED
    BY <1>a, <1>b, <2>1, <2>2, <2>3
<1>3. CASE AllocHit(w)
  <2>1. PICK b \in Blocks :
          /\ ref' = [ref EXCEPT ![w] = [ref[w] EXCEPT ![b] = ref[w][b] + 1]]
          /\ free' = free \/ free' = [free EXCEPT ![w] = Without(free[w], b)]
    BY <1>3 DEF AllocHit, Hits, OneMore
  <2>2. ref[w][b] + 1 \in Int /\ Without(free[w], b) \in Seq(Blocks)
    BY <1>b, WithoutType
  <2> QED
    BY <1>a, <1>b, <2>1, <2>2
<1>4. CASE AllocMiss(w)
  <2>1. free[w] # <<>> /\ Head(free[w]) \in Blocks
    BY <1>4, MissHasBlock DEF AllocMiss
  <2>2. Tail(free[w]) \in Seq(Blocks)
    BY <1>b, <2>1
  <2> QED
    BY <1>4, <1>a, <1>b, <2>1, <2>2 DEF AllocMiss
<1>5. CASE Append1(w)
  <2>1. \/ UNCHANGED <<ref, free>>
        \/ /\ free[w] # <<>>
           /\ ref' = [ref EXCEPT ![w] = [ref[w] EXCEPT ![Head(free[w])] = 1]]
           /\ free' = [free EXCEPT ![w] = Tail(free[w])]
    BY <1>5 DEF Append1, CanAppend, blockVars
  <2>2. free[w] # <<>> => Head(free[w]) \in Blocks /\ Tail(free[w]) \in Seq(Blocks)
    BY <1>b
  <2>3. CASE UNCHANGED <<ref, free>>
    BY <1>a, <2>3
  <2>4. CASE ~UNCHANGED <<ref, free>>
    <3>1. PICK b \in Blocks : ref' = [ref EXCEPT ![w] = [ref[w] EXCEPT ![b] = 1]]
      BY <2>1, <2>2, <2>4
    <3>2. PICK rest \in Seq(Blocks) : free' = [free EXCEPT ![w] = rest]
      BY <2>1, <2>2, <2>4
    <3> QED
      BY <1>a, <3>1, <3>2
  <2> QED
    BY <2>3, <2>4
<1>6. CASE UNCHANGED <<ref, free>>
  BY <1>6, <1>a
<1> QED
  BY <1>2, <1>3, <1>4, <1>5, <1>6 DEF WorkerStep, Released, Abort, Wait, Receive, PushBack, Plan,
     SkipAborted, PutBack, Take, PrefillEnds, Allocated, Preempt, DecodeEnds, Launch, Token,
     Finish, Fail, blockVars

LEMMA ControlKept == Shapes /\ [Next]_vars => Control'
<1> SUFFICES ASSUME Shapes, [Next]_vars PROVE Control'
  OBVIOUS
<1>a. Sequences3 /\ Control /\ Shared
  BY DEF Shapes
<1> USE DEF Control
<1>1. ASSUME NEW t \in Tasks, Submit(t) \/ Cancel(t) PROVE Control'
  BY <1>1, <1>a DEF Submit, Cancel, localVars
<1> SUFFICES ASSUME NEW w \in Workers, WorkerStep(w) PROVE Control'
  BY <1>1, <1>a DEF Next, vars, localVars
<1>b. decodeQ[w] \in Seq(Tasks) /\ batch[w] \in Seq(Tasks)
  BY <1>a DEF Sequences3
<1>2. ASSUME NEW s \in Steps, pc' = [pc EXCEPT ![w] = s], UNCHANGED <<task, after, hold>>
      PROVE  Control'
  BY <1>2, <1>a
<1>3. ASSUME NEW t \in Tasks, NEW then \in {"erase", "preempt"}, ReleaseThen(w, t, then), hold' = hold
      PROVE  Control'
  BY <1>3, <1>a DEF ReleaseThen, Steps
<1>4. CASE UNCHANGED <<pc, task, after, hold>>
  BY <1>4, <1>a
<1>5. CASE Abort(w)
  <2>1. Head(cancelQ[w]) \in Tasks
    BY <1>5, <1>a DEF Abort, Shared
  <2> QED
    BY <1>3, <1>4, <1>5, <2>1 DEF Abort, localVars
<1>6. CASE Receive(w)
  <2>1. <<Head(queue)>> \in Seq(Copies)
    BY <1>6, <1>a DEF Receive, Shared
  <2> QED
    BY <1>6, <1>a, <2>1 DEF Receive, Steps
<1>7. CASE PushBack(w)
  <2>1. <<>> \in Seq(Copies)
    OBVIOUS
  <2> QED
    BY <1>7, <1>a, <2>1 DEF PushBack, Steps
<1>8. CASE Take(w)
  <2>1. Head(queue).task \in Tasks
    <3>1. Head(queue) \in Copies
      BY <1>8, <1>a DEF Take, Shared
    <3> QED
      BY <3>1 DEF Copies
  <2> QED
    BY <1>8, <1>a, <2>1 DEF Take, Steps
<1>9. CASE Preempt(w)
  <2>1. LastOf(decodeQ[w]) \in Tasks
    BY <1>9, <1>b, ElemsFront DEF Preempt, Decoding
  <2> QED
    BY <1>3, <1>9, <2>1 DEF Preempt, localVars
<1>10. CASE Finish(w) \/ Fail(w)
  <2>1. Head(batch[w]) \in Tasks
    BY <1>10, <1>b DEF Finish, Fail
  <2> QED
    BY <1>3, <1>10, <2>1 DEF Finish, Fail, localVars
<1>11. CASE Released(w) \/ Wait(w) \/ Plan(w) \/ PutBack(w) \/ PrefillEnds(w) \/ Allocated(w)
            \/ DecodeEnds(w) \/ Launch(w) \/ Token(w)
  <2>1. PICK s \in Steps : pc' = [pc EXCEPT ![w] = s]
    BY <1>11 DEF Released, Wait, Plan, PutBack, PrefillEnds, Allocated, DecodeEnds, Launch, Token,
       AfterPrefill, Steps
  <2>2. UNCHANGED <<task, after, hold>>
    BY <1>11 DEF Released, Wait, Plan, PutBack, PrefillEnds, Allocated, DecodeEnds, Launch, Token,
       localVars
  <2> QED
    BY <1>2, <2>1, <2>2
<1> QED
  BY <1>4, <1>5, <1>6, <1>7, <1>8, <1>9, <1>10, <1>11 DEF WorkerStep, SkipAborted, AllocHit,
     AllocMiss, Append1, Release, localVars

-----------------------------------------------------------------------------
(* A worker's step leaves the other workers alone.                          *)

Same(v) ==
    UNCHANGED <<status[v], gen[v], table[v], decodeQ[v], batch[v], ref[v], free[v], pc[v],
                task[v], after[v], hold[v]>>

LEMMA Elsewhere ==
    ASSUME Shapes, NEW w \in Workers, WorkerStep(w), NEW v \in Workers, v # w
    PROVE  Same(v)
<1> USE DEF Same, Shapes, Sequences3, Manager, Control
<1>1. CASE Release(w)
  BY <1>1 DEF Release, localVars
<1>2. CASE Released(w)
  BY <1>2 DEF Released, blockVars, localVars
<1>3. CASE Abort(w)
  BY <1>3 DEF Abort, ReleaseThen, blockVars, localVars
<1>4. CASE Wait(w) \/ Plan(w)
  BY <1>4 DEF Wait, Plan, blockVars, localVars
<1>5. CASE Receive(w) \/ PushBack(w)
  BY <1>5 DEF Receive, PushBack, blockVars
<1>6. CASE SkipAborted(w) \/ PutBack(w) \/ PrefillEnds(w)
  BY <1>6 DEF SkipAborted, PutBack, PrefillEnds, blockVars, localVars
<1>7. CASE Take(w)
  BY <1>7 DEF Take, blockVars
<1>8. CASE AllocHit(w)
  BY <1>8 DEF AllocHit, InTable
<1>9. CASE AllocMiss(w)
  BY <1>9 DEF AllocMiss, InTable
<1>10. CASE Allocated(w) \/ DecodeEnds(w)
  BY <1>10 DEF Allocated, DecodeEnds, blockVars, localVars
<1>11. CASE Append1(w)
  BY <1>11 DEF Append1, blockVars, localVars
<1>12. CASE Preempt(w)
  BY <1>12 DEF Preempt, ReleaseThen, blockVars, localVars
<1>13. CASE Launch(w)
  BY <1>13 DEF Launch, blockVars, localVars
<1>14. CASE Token(w)
  BY <1>14 DEF Token, NextToken, blockVars, localVars
<1>15. CASE Finish(w) \/ Fail(w)
  BY <1>15 DEF Finish, Fail, NextToken, ReleaseThen, blockVars, localVars
<1> QED
  BY <1>1, <1>2, <1>3, <1>4, <1>5, <1>6, <1>7, <1>8, <1>9, <1>10, <1>11, <1>12, <1>13, <1>14,
     <1>15 DEF WorkerStep

-----------------------------------------------------------------------------
(* Where a request is.                                                      *)

TasksOf(s) == {s[i].task : i \in DOMAIN s}
OnceIn(t, s) == \A i, j \in DOMAIN s : s[i].task = t /\ s[j].task = t => i = j

LEMMA TasksAppend ==
    ASSUME NEW s \in Seq(Copies), NEW c \in Copies
    PROVE  /\ TasksOf(Append(s, c)) = TasksOf(s) \cup {c.task}
           /\ \A t : OnceIn(t, s) /\ (t = c.task => t \notin TasksOf(s)) => OnceIn(t, Append(s, c))
<1>1. PICK n \in Nat : n = Len(s)
  OBVIOUS
<1>2. PICK a \in Seq(Copies) : a = Append(s, c)
  BY ElemsAppend
<1>3. DOMAIN s = 1..n /\ DOMAIN a = 1..(n + 1)
  BY <1>1, <1>2
<1>4. a[n + 1] = c /\ \A i \in 1..n : a[i] = s[i]
  BY <1>1, <1>2
<1>5. n + 1 \in 1..(n + 1) /\ \A i \in 1..(n + 1) : i \in 1..n \/ i = n + 1
  BY <1>1
<1>6. \A i \in 1..n : i \in 1..(n + 1)
  BY <1>1
<1>7. TasksOf(a) = TasksOf(s) \cup {c.task}
  BY <1>3, <1>4, <1>5, <1>6 DEF TasksOf
<1>8. ASSUME NEW t, OnceIn(t, s), t = c.task => t \notin TasksOf(s) PROVE OnceIn(t, a)
  BY <1>3, <1>4, <1>5, <1>8 DEF TasksOf, OnceIn
<1> QED
  BY <1>2, <1>7, <1>8

LEMMA TasksTail ==
    ASSUME NEW s \in Seq(Copies), s # <<>>
    PROVE  /\ Head(s) \in Copies /\ Tail(s) \in Seq(Copies)
           /\ TasksOf(s) = {Head(s).task} \cup TasksOf(Tail(s))
           /\ \A t : OnceIn(t, s) => OnceIn(t, Tail(s)) /\ ~(t = Head(s).task /\ t \in TasksOf(Tail(s)))
<1>1. /\ Head(s) \in Copies /\ Tail(s) \in Seq(Copies) /\ Len(Tail(s)) = Len(s) - 1
      /\ Head(s) = s[1] /\ \A i \in 1..(Len(s) - 1) : Tail(s)[i] = s[i + 1]
  OBVIOUS
<1>2. PICK n \in Nat : n = Len(s) /\ n > 0
  OBVIOUS
<1>3. PICK a \in Seq(Copies) : a = Tail(s)
  BY <1>1
<1>4. DOMAIN s = 1..n /\ DOMAIN a = 1..(n - 1)
  BY <1>1, <1>2, <1>3
<1>5. \A i \in 1..(n - 1) : a[i] = s[i + 1] /\ i + 1 \in 1..n /\ i + 1 # 1
  BY <1>1, <1>2, <1>3
<1>6. \A i \in 1..n : i = 1 \/ (i - 1 \in 1..(n - 1) /\ a[i - 1] = s[i])
  <2> SUFFICES ASSUME NEW i \in 1..n, i # 1 PROVE i - 1 \in 1..(n - 1) /\ a[i - 1] = s[i]
    OBVIOUS
  <2>1. i - 1 \in 1..(n - 1) /\ (i - 1) + 1 = i
    BY <1>2
  <2> QED
    BY <1>5, <2>1
<1>7. 1 \in 1..n
  BY <1>2
<1>8. TasksOf(s) = {s[1].task} \cup TasksOf(a)
  <2>1. TasksOf(s) \subseteq {s[1].task} \cup TasksOf(a)
    BY <1>4, <1>6 DEF TasksOf
  <2>2. TasksOf(a) \subseteq TasksOf(s)
    BY <1>4, <1>5 DEF TasksOf
  <2>3. s[1].task \in TasksOf(s)
    BY <1>4, <1>7 DEF TasksOf
  <2> QED
    BY <2>1, <2>2, <2>3
<1>9. ASSUME NEW t, OnceIn(t, s) PROVE OnceIn(t, a) /\ ~(t = s[1].task /\ t \in TasksOf(a))
  <2>1. \A i, j \in 1..n : s[i].task = t /\ s[j].task = t => i = j
    BY <1>4, <1>9 DEF OnceIn
  <2>2. OnceIn(t, a)
    <3> SUFFICES ASSUME NEW i \in 1..(n - 1), NEW j \in 1..(n - 1), a[i].task = t, a[j].task = t
                 PROVE  i = j
      BY <1>4 DEF OnceIn
    <3>1. i + 1 = j + 1
      BY <1>5, <2>1
    <3> QED
      BY <3>1
  <2>3. ~(t = s[1].task /\ t \in TasksOf(a))
    BY <1>4, <1>5, <1>7, <2>1 DEF TasksOf
  <2> QED
    BY <2>2, <2>3
<1> QED
  BY <1>1, <1>3, <1>8, <1>9

\* worker w has t in its queues, its blocks or its hands
Active(w, t) ==
    \/ t \in Elems(decodeQ[w]) \cup Elems(batch[w])
    \/ table[w][t] # <<>>
    \/ pc[w] = "alloc" /\ task[w] = t
    \/ pc[w] = "release" /\ after[w] = "preempt" /\ task[w] = t
Holds(w, t) == t \in TasksOf(hold[w])

\* t is in the task queue, or with one worker, or nowhere
Single(t) ==
    /\ OnceIn(t, queue)
    /\ t \in TasksOf(queue) => \A w \in Workers : ~Holds(w, t) /\ ~Active(w, t)
    /\ \A v, w \in Workers : (Holds(v, t) \/ Active(v, t)) /\ (Holds(w, t) \/ Active(w, t)) => v = w
    /\ \A w \in Workers : ~(Holds(w, t) /\ Active(w, t))
    /\ t \notin sent => /\ t \notin TasksOf(queue)
                       /\ \A w \in Workers : ~Holds(w, t) /\ ~Active(w, t)

\* the lists of a worker are of different sequences it tracks, and where its
\* loop is goes with what it holds
Loop(w) ==
    /\ pc[w] \in {"idle", "receive", "pushback", "plan"} => batch[w] = <<>>
    /\ IF pc[w] = "pushback" THEN Len(hold[w]) = 1 ELSE hold[w] = <<>>
    /\ pc[w] \in {"alloc", "release"} => task[w] \notin Elems(decodeQ[w]) \cup Elems(batch[w])
    /\ Distinct(decodeQ[w]) /\ Distinct(batch[w])
    /\ Elems(decodeQ[w]) \cap Elems(batch[w]) = {}
    /\ \A t \in Elems(decodeQ[w]) : status[w][t] = "RUNNING"
    /\ \A t \in Elems(batch[w]) : status[w][t] # "none"
    /\ pc[w] = "alloc" => status[w][task[w]] = "WAITING"
    /\ Room(w)

LEMMA LoopElsewhere ==
    ASSUME NEW v \in Workers, Same(v), Loop(v)
    PROVE  Loop(v)'
<1>1. Room(v)'
  BY DEF Same, Loop, Room, SizeOn
<1>2. /\ Elems(decodeQ[v])' = Elems(decodeQ[v]) /\ Elems(batch[v])' = Elems(batch[v])
      /\ Distinct(decodeQ[v])' /\ Distinct(batch[v])'
  BY DEF Same, Loop, Elems, Distinct
<1> QED
  BY <1>1, <1>2 DEF Same, Loop

\* a request that is in one place before and with w or in the queue after
LEMMA SingleMoves ==
    ASSUME NEW t \in Tasks, Single(t), NEW w \in Workers,
           \A v \in Workers : v # w => Same(v),
           sent \subseteq sent', OnceIn(t, queue)',
           ~(Holds(w, t)' /\ Active(w, t)'),
           t \in TasksOf(queue)' => ~Holds(w, t)' /\ ~Active(w, t)',
           t \in TasksOf(queue)' \/ Holds(w, t)' \/ Active(w, t)' =>
               t \in TasksOf(queue) \/ Holds(w, t) \/ Active(w, t)
    PROVE  Single(t)'
<1>1. \A v \in Workers : v # w => (Holds(v, t)' <=> Holds(v, t)) /\ (Active(v, t)' <=> Active(v, t))
  BY DEF Same, Holds, Active, Elems, TasksOf
<1> QED
  BY <1>1 DEF Single

LEMMA HeadCopy ==
    ASSUME Shapes, queue # <<>>
    PROVE  /\ Head(queue) \in Copies /\ Head(queue).task \in Tasks /\ Head(queue).gen \in Nat
           /\ Head(queue).task \in TasksOf(queue)
<1>1. Head(queue) \in Copies /\ TasksOf(queue) = {Head(queue).task} \cup TasksOf(Tail(queue))
  BY TasksTail DEF Shapes, Shared
<1> QED
  BY <1>1 DEF Copies

\* the types of what a worker has
LEMMA OfWorker ==
    ASSUME Shapes, NEW w \in Workers
    PROVE  /\ decodeQ[w] \in Seq(Tasks) /\ batch[w] \in Seq(Tasks) /\ free[w] \in Seq(Blocks)
           /\ task[w] \in Tasks /\ hold[w] \in Seq(Copies) /\ queue \in Seq(Copies)
           /\ \A t \in Tasks : table[w][t] \in Seq(Blocks) /\ gen[w][t] \in Nat
  BY DEF Shapes, Shared, Sequences3, Manager, Control

\* no worker has the request at the head of the queue
LEMMA HeadIsFree ==
    ASSUME Shapes, \A t \in Tasks : Single(t), queue # <<>>, NEW w \in Workers
    PROVE  ~Active(w, Head(queue).task) /\ ~Holds(w, Head(queue).task)
  BY HeadCopy DEF Single

-----------------------------------------------------------------------------
(* A worker's own lists.                                                    *)

Lists(dq, bt, st) ==
    /\ Distinct(dq) /\ Distinct(bt) /\ Elems(dq) \cap Elems(bt) = {}
    /\ \A t \in Elems(dq) : st[t] = "RUNNING"
    /\ \A t \in Elems(bt) : st[t] # "none"
Spots(p, t, dq, bt, hd) ==
    /\ p \in {"idle", "receive", "pushback", "plan"} => bt = <<>>
    /\ IF p = "pushback" THEN Len(hd) = 1 ELSE hd = <<>>
    /\ p \in {"alloc", "release"} => t \notin Elems(dq) \cup Elems(bt)

LEMMA LoopParts ==
    ASSUME NEW w \in Workers
    PROVE  Loop(w) <=> /\ Lists(decodeQ[w], batch[w], status[w])
                       /\ Spots(pc[w], task[w], decodeQ[w], batch[w], hold[w])
                       /\ pc[w] = "alloc" => status[w][task[w]] = "WAITING"
                       /\ Room(w)
  BY DEF Loop, Lists, Spots

\* the scheduling steps that leave the sequences alone
LEMMA LoopQuiet ==
    ASSUME Shapes, NEW w \in Workers, Loop(w),
           Wait(w) \/ Receive(w) \/ PushBack(w) \/ Plan(w) \/ PutBack(w) \/ PrefillEnds(w)
               \/ DecodeEnds(w) \/ Launch(w)
    PROVE  Loop(w)'
<1> USE DEF Shapes, Sequences3, Manager, Control
<1>1. UNCHANGED <<status[w], table[w], gen[w], decodeQ[w], task[w], free[w]>>
  BY DEF Wait, Receive, PushBack, Plan, PutBack, PrefillEnds, DecodeEnds, Launch, blockVars
<1>2. pc'[w] # "alloc" /\ pc'[w] # "release"
  BY DEF Wait, Receive, PushBack, Plan, PutBack, PrefillEnds, DecodeEnds, Launch, AfterPrefill
<1>3. batch'[w] = batch[w] \/ batch'[w] = <<>>
  BY DEF Wait, Receive, PushBack, Plan, PutBack, PrefillEnds, DecodeEnds, Launch
<1>4. pc'[w] \in {"idle", "receive", "pushback", "plan"} => batch'[w] = <<>>
  BY DEF Wait, Receive, PushBack, Plan, PutBack, PrefillEnds, DecodeEnds, Launch, AfterPrefill,
     Loop
<1>5. IF pc'[w] = "pushback" THEN Len(hold'[w]) = 1 ELSE hold'[w] = <<>>
  <2>1. CASE Receive(w)
    <3>1. hold'[w] = <<Head(queue)>> /\ pc'[w] = "pushback"
      BY <2>1 DEF Receive
    <3> QED
      BY <3>1
  <2>2. CASE PushBack(w)
    BY <2>2 DEF PushBack
  <2> QED
    BY <2>1, <2>2 DEF Wait, Plan, PutBack, PrefillEnds, DecodeEnds, Launch, AfterPrefill, Loop,
       localVars
<1>6. Lists(decodeQ'[w], batch'[w], status'[w])
  <2>1. Lists(decodeQ[w], batch[w], status[w])
    BY LoopParts
  <2>2. Elems(<<>>) = {} /\ Distinct(<<>>)
    BY DEF Elems, Distinct
  <2> QED
    BY <1>1, <1>3, <2>1, <2>2 DEF Lists
<1>7. Spots(pc'[w], task'[w], decodeQ'[w], batch'[w], hold'[w])
  BY <1>2, <1>4, <1>5 DEF Spots
<1> QED
  BY <1>2, <1>6, <1>7 DEF Loop, Room, Lists, Spots

LEMMA LoopPrefill ==
    ASSUME Shapes, \A t \in Tasks : Single(t), NEW w \in Workers, Loop(w),
           SkipAborted(w) \/ Take(w) \/ Allocated(w)
    PROVE  Loop(w)'
<1>a. Lists(decodeQ[w], batch[w], status[w])
  BY LoopParts
<1> USE OfWorker DEF Shapes, Sequences3, Manager, Control
<1>1. CASE SkipAborted(w)
  <2> DEFINE t == Head(queue).task
  <2>1. t \in Tasks /\ t \notin Elems(decodeQ[w]) \cup Elems(batch[w])
    BY <1>1, HeadCopy, HeadIsFree DEF SkipAborted, Active
  <2>2. UNCHANGED <<decodeQ[w], batch[w], pc[w], hold[w]>> /\ pc[w] = "prefill"
    BY <1>1 DEF SkipAborted, localVars
  <2>3. \A u \in Tasks : u # t => status'[w][u] = status[w][u]
    BY <1>1, <2>1 DEF SkipAborted
  <2> HIDE DEF t
  <2>4. Elems(decodeQ[w]) \subseteq Tasks /\ Elems(batch[w]) \subseteq Tasks
    BY ElemsIn
  <2>5. Lists(decodeQ'[w], batch'[w], status'[w])
    BY <1>a, <2>1, <2>2, <2>3, <2>4 DEF Lists
  <2> QED
    BY <2>2, <2>5 DEF Loop, Lists, Room
<1>2. CASE Take(w)
  <2> DEFINE t == Head(queue).task
             n == Head(queue).gen
  <2>1. t \in Tasks /\ n \in Nat /\ t \notin Elems(decodeQ[w]) \cup Elems(batch[w])
    BY <1>2, HeadCopy, HeadIsFree DEF Take, Active
  <2>2. /\ UNCHANGED <<decodeQ[w], batch[w], hold[w], free[w]>> /\ pc[w] = "prefill"
        /\ pc'[w] = "alloc" /\ task'[w] = t
    BY <1>2 DEF Take, blockVars
  <2>3. status'[w][t] = "WAITING" /\ \A u \in Tasks : u # t => status'[w][u] = status[w][u]
    BY <1>2, <2>1 DEF Take
  <2>4. table'[w][t] = <<>> /\ gen'[w][t] = n
    BY <1>2, <2>1 DEF Take
  <2>5. Len(free[w]) >= BlocksFor(Size(t, n))
    BY <1>2 DEF Take, Fits
  <2> HIDE DEF t, n
  <2>6. Elems(decodeQ[w]) \subseteq Tasks /\ Elems(batch[w]) \subseteq Tasks
    BY ElemsIn
  <2>7. Lists(decodeQ'[w], batch'[w], status'[w])
    BY <1>a, <2>1, <2>2, <2>3, <2>6 DEF Lists
  <2>8. Room(w)'
    <3>1. SizeOn(w, task[w])' = Size(t, n)
      BY <2>2, <2>4 DEF SizeOn
    <3>2. Len(table'[w][task'[w]]) = 0
      BY <2>2, <2>4
    <3>3. Len(free[w]) + 0 = Len(free[w])
      OBVIOUS
    <3> QED
      BY <2>2, <2>5, <3>1, <3>2, <3>3 DEF Room
  <2> QED
    BY <2>1, <2>2, <2>3, <2>7, <2>8 DEF Loop, Lists
<1>3. CASE Allocated(w)
  <2>1. /\ UNCHANGED <<decodeQ[w], hold[w], status[w]>> /\ pc[w] = "alloc" /\ pc'[w] = "prefill"
        /\ batch'[w] = Append(batch[w], task[w])
    BY <1>3 DEF Allocated, localVars
  <2>2. task[w] \notin Elems(decodeQ[w]) \cup Elems(batch[w]) /\ status[w][task[w]] = "WAITING"
    BY <2>1 DEF Loop
  <2>3. /\ Elems(batch'[w]) = Elems(batch[w]) \cup {task[w]}
        /\ Distinct(batch[w]) => Distinct(batch'[w])
    BY <2>1, <2>2, ElemsAppend
  <2>4. Lists(decodeQ'[w], batch'[w], status'[w])
    BY <1>a, <2>1, <2>2, <2>3 DEF Lists
  <2> QED
    BY <2>1, <2>4 DEF Loop, Lists, Room
<1> QED
  BY <1>1, <1>2, <1>3

\* a block for the batch: what leaves the free list is in the table
LEMMA LoopAlloc ==
    ASSUME Shapes, NEW w \in Workers, Loop(w), AllocHit(w) \/ AllocMiss(w)
    PROVE  Loop(w)'
<1> DEFINE t == task[w]
<1>1. /\ UNCHANGED <<decodeQ, batch, hold, status, gen, pc, task>>
      /\ pc[w] = "alloc"
  BY DEF AllocHit, AllocMiss, Allocating
<1>2. PICK b \in Blocks : /\ table' = [table EXCEPT ![w] = [table[w] EXCEPT ![t] = Append(table[w][t], b)]]
                          /\ \/ free'[w] = free[w]
                             \/ free'[w] = Without(free[w], b)
                             \/ free[w] # <<>> /\ free'[w] = Tail(free[w])
  <2>1. CASE AllocHit(w)
    BY <2>1 DEF AllocHit, Hits, InTable, Shapes, Manager
  <2>2. CASE AllocMiss(w)
    <3>1. free[w] # <<>> /\ Head(free[w]) \in Blocks
      BY <2>2, MissHasBlock DEF AllocMiss, Loop
    <3> QED
      BY <2>2, <3>1 DEF AllocMiss, InTable, Shapes, Manager
  <2> QED
    BY <2>1, <2>2
<1>3. Len(free'[w]) \in Nat /\ Len(free'[w]) >= Len(free[w]) - 1
  <2>1. free[w] \in Seq(Blocks)
    BY OfWorker
  <2>2. Without(free[w], b) \in Seq(Blocks) /\ Len(Without(free[w], b)) >= Len(free[w]) - 1
    BY <2>1, WithoutType
  <2>3. free[w] # <<>> => Tail(free[w]) \in Seq(Blocks) /\ Len(Tail(free[w])) = Len(free[w]) - 1
    BY <2>1, ElemsTail
  <2>4. PICK n \in Nat : n = Len(free[w])
    BY <2>1
  <2>5. free'[w] \in Seq(Blocks) /\ Len(free'[w]) >= n - 1
    <3>1. CASE free'[w] = free[w]
      BY <2>1, <2>4, <3>1
    <3>2. CASE free'[w] = Without(free[w], b)
      BY <2>2, <2>4, <3>2
    <3>3. CASE free[w] # <<>> /\ free'[w] = Tail(free[w])
      BY <2>3, <2>4, <3>3
    <3> QED
      BY <1>2, <3>1, <3>2, <3>3
  <2> QED
    BY <2>4, <2>5
<1>4. /\ t \in Tasks /\ Len(table[w][t]) \in Nat /\ Len(table'[w][t]) = Len(table[w][t]) + 1
      /\ Len(free[w]) \in Nat
  <2>1. t \in Tasks /\ table[w][t] \in Seq(Blocks) /\ free[w] \in Seq(Blocks)
    BY OfWorker
  <2>2. table'[w][t] = Append(table[w][t], b)
    BY <1>2, <2>1 DEF Shapes, Sequences3
  <2> QED
    BY <2>1, <2>2
<1>5. BlocksFor(SizeOn(w, t)) \in Int
  <2>1. Size(t, gen[w][t]) \in Int
    BY OfWorker, SizeType
  <2> QED
    BY <2>1, BlocksForType DEF SizeOn
<1>6. Len(free'[w]) + Len(table'[w][t]) >= BlocksFor(SizeOn(w, t))
  <2>1. Len(free[w]) + Len(table[w][t]) >= BlocksFor(SizeOn(w, t))
    BY <1>1 DEF Loop, Room
  <2>2. \A f, g, n \in Nat, x \in Int : g >= f - 1 /\ f + n >= x => g + (n + 1) >= x
    OBVIOUS
  <2> QED
    BY <1>3, <1>4, <1>5, <2>1, <2>2
<1>7. Room(w)'
  <2>1. SizeOn(w, t)' = SizeOn(w, t)
    BY <1>1 DEF SizeOn
  <2> QED
    BY <1>1, <1>6, <2>1 DEF Room, SizeOn
<1> QED
  BY <1>1, <1>7 DEF Loop

LEMMA LoopDecode ==
    ASSUME Shapes, NEW w \in Workers, Loop(w), Append1(w) \/ Preempt(w) \/ Abort(w)
    PROVE  Loop(w)'
<1>a. Lists(decodeQ[w], batch[w], status[w])
  BY LoopParts
<1>b. decodeQ[w] \in Seq(Tasks) /\ batch[w] \in Seq(Tasks)
  BY OfWorker
<1> USE DEF Shapes, Sequences3, Manager, Control
<1>1. CASE Append1(w)
  <2> DEFINE t == Head(decodeQ[w])
  <2>1. /\ UNCHANGED <<hold[w], status[w]>> /\ pc[w] = "decode" /\ pc'[w] = "decode"
        /\ decodeQ[w] # <<>> /\ decodeQ'[w] = Tail(decodeQ[w])
        /\ batch'[w] = Append(batch[w], t)
    BY <1>1 DEF Append1, Decoding, localVars
  <2>2. /\ t \in Tasks /\ t \in Elems(decodeQ[w])
        /\ Elems(decodeQ[w]) = {t} \cup Elems(decodeQ'[w])
        /\ Distinct(decodeQ'[w]) /\ t \notin Elems(decodeQ'[w])
    BY <1>a, <1>b, <2>1, ElemsTail DEF Lists
  <2>3. t \notin Elems(batch[w])
    BY <1>a, <2>2 DEF Lists
  <2>4. Elems(batch'[w]) = Elems(batch[w]) \cup {t} /\ Distinct(batch'[w])
    BY <1>a, <1>b, <2>1, <2>2, <2>3, ElemsAppend DEF Lists
  <2> HIDE DEF t
  <2>5. Lists(decodeQ'[w], batch'[w], status'[w])
    BY <1>a, <2>1, <2>2, <2>3, <2>4 DEF Lists
  <2> QED
    BY <2>1, <2>5 DEF Loop, Lists, Room
<1>2. CASE Preempt(w)
  <2> DEFINE t == LastOf(decodeQ[w])
  <2>1. /\ UNCHANGED <<hold[w], status[w], batch[w]>> /\ pc[w] = "decode" /\ pc'[w] = "release"
        /\ decodeQ[w] # <<>> /\ decodeQ'[w] = FrontOf(decodeQ[w]) /\ task'[w] = t
    BY <1>2 DEF Preempt, Decoding, ReleaseThen, localVars
  <2>2. /\ t \in Tasks /\ t \in Elems(decodeQ[w])
        /\ Elems(decodeQ[w]) = {t} \cup Elems(decodeQ'[w])
        /\ Distinct(decodeQ'[w]) /\ t \notin Elems(decodeQ'[w])
    <3>1. Distinct(decodeQ[w])
      BY <1>a DEF Lists
    <3>2. PICK s \in Seq(Tasks) : s = decodeQ[w] /\ s # <<>> /\ Distinct(s)
      BY <1>b, <2>1, <3>1
    <3>3. /\ LastOf(s) \in Tasks /\ LastOf(s) \in Elems(s)
          /\ Elems(s) = {LastOf(s)} \cup Elems(FrontOf(s))
          /\ Distinct(FrontOf(s)) /\ LastOf(s) \notin Elems(FrontOf(s))
      BY <3>2, ElemsFront
    <3> QED
      BY <2>1, <3>2, <3>3
  <2>3. t \notin Elems(batch[w])
    BY <1>a, <2>2 DEF Lists
  <2> HIDE DEF t
  <2>5. Lists(decodeQ'[w], batch'[w], status'[w])
    BY <1>a, <2>1, <2>2, <2>3 DEF Lists
  <2> QED
    BY <2>1, <2>2, <2>3, <2>5 DEF Loop, Lists, Room
<1>3. CASE Abort(w)
  <2> DEFINE t == Head(cancelQ[w])
  <2>1. /\ UNCHANGED <<hold[w], status[w], batch[w]>> /\ pc[w] = "idle" /\ batch[w] = <<>>
        /\ \/ UNCHANGED <<decodeQ[w], pc[w]>>
           \/ pc'[w] = "release" /\ task'[w] = t /\ decodeQ'[w] = Without(decodeQ[w], t)
    BY <1>3 DEF Abort, Unlinked, ReleaseThen, localVars, Loop
  <2>2. /\ Elems(Without(decodeQ[w], t)) = Elems(decodeQ[w]) \ {t}
        /\ Distinct(Without(decodeQ[w], t))
    BY <1>a, <1>b, ElemsWithout DEF Lists
  <2>3. Elems(<<>>) = {}
    BY DEF Elems
  <2> HIDE DEF t
  <2>4. Lists(decodeQ'[w], batch'[w], status'[w])
    BY <1>a, <2>1, <2>2, <2>3 DEF Lists
  <2> QED
    BY <2>1, <2>2, <2>3, <2>4 DEF Loop, Lists, Room
<1> QED
  BY <1>1, <1>2, <1>3

LEMMA LoopAnswer ==
    ASSUME Shapes, NEW w \in Workers, Loop(w), Token(w) \/ Finish(w) \/ Fail(w)
    PROVE  Loop(w)'
<1> DEFINE t == Head(batch[w])
<1>a. Lists(decodeQ[w], batch[w], status[w])
  BY LoopParts
<1>b. decodeQ[w] \in Seq(Tasks) /\ batch[w] \in Seq(Tasks)
  BY OfWorker
<1> USE DEF Shapes, Sequences3, Manager, Control
<1>1. /\ batch[w] # <<>> /\ batch'[w] = Tail(batch[w]) /\ pc[w] = "run" /\ hold'[w] = hold[w]
  BY DEF Token, Finish, Fail, localVars
<1>2. /\ t \in Tasks /\ t \in Elems(batch[w])
      /\ Elems(batch[w]) = {t} \cup Elems(batch'[w])
      /\ Distinct(batch'[w]) /\ t \notin Elems(batch'[w])
      /\ Len(batch'[w]) = Len(batch[w]) - 1 /\ batch'[w] \in Seq(Tasks)
  BY <1>a, <1>b, <1>1, ElemsTail DEF Lists
<1>3. t \notin Elems(decodeQ[w])
  BY <1>a, <1>2 DEF Lists
<1>4. Elems(decodeQ[w]) \subseteq Tasks /\ Elems(batch'[w]) \subseteq Tasks
  BY <1>b, <1>2, ElemsIn
<1>5. CASE Token(w)
  <2>1. /\ decodeQ'[w] = Append(decodeQ[w], t)
        /\ pc'[w] = IF Len(batch[w]) = 1 THEN "idle" ELSE "run"
    BY <1>5 DEF Token
  <2>2. status'[w][t] = "RUNNING" /\ \A u \in Tasks : u # t => status'[w][u] = status[w][u]
    BY <1>2, <1>5 DEF Token
  <2>3. Elems(decodeQ'[w]) = Elems(decodeQ[w]) \cup {t} /\ Distinct(decodeQ'[w])
    <3>1. Distinct(decodeQ[w]) /\ decodeQ[w] \in Seq(Tasks) /\ t \in Tasks
      BY <1>a, <1>b, <1>2 DEF Lists
    <3> HIDE DEF t
    <3> QED
      BY <1>3, <2>1, <3>1, ElemsAppend
  <2>4. Len(batch[w]) = 1 => batch'[w] = <<>>
    <3>1. Len(batch[w]) = 1 => Len(batch'[w]) = 0
      BY <1>2
    <3> QED
      BY <1>2, <3>1
  <2> HIDE DEF t
  <2>5. Lists(decodeQ'[w], batch'[w], status'[w])
    <3>1. \A u \in Elems(decodeQ'[w]) : status'[w][u] = "RUNNING"
      BY <1>a, <1>3, <1>4, <2>2, <2>3 DEF Lists
    <3>2. \A u \in Elems(batch'[w]) : status'[w][u] # "none"
      BY <1>a, <1>2, <1>4, <2>2 DEF Lists
    <3>3. Elems(decodeQ'[w]) \cap Elems(batch'[w]) = {}
      BY <1>a, <1>2, <2>3 DEF Lists
    <3> QED
      BY <1>2, <2>3, <3>1, <3>2, <3>3 DEF Lists
  <2> QED
    BY <1>1, <2>1, <2>4, <2>5 DEF Loop, Lists, Room
<1>6. CASE Finish(w) \/ Fail(w)
  <2>1. UNCHANGED <<decodeQ[w], status[w]>> /\ pc'[w] = "release" /\ task'[w] = t
    BY <1>6 DEF Finish, Fail, ReleaseThen
  <2> HIDE DEF t
  <2>5. Lists(decodeQ'[w], batch'[w], status'[w])
    BY <1>a, <1>2, <2>1 DEF Lists
  <2> QED
    BY <1>1, <1>2, <1>3, <2>1, <2>5 DEF Loop, Lists, Room
<1> QED
  BY <1>5, <1>6

LEMMA LoopRelease ==
    ASSUME Shapes, NEW w \in Workers, Loop(w), Release(w) \/ Released(w)
    PROVE  Loop(w)'
<1>a. Lists(decodeQ[w], batch[w], status[w])
  BY LoopParts
<1> USE DEF Shapes, Sequences3, Manager, Control
<1>1. /\ UNCHANGED <<decodeQ[w], batch[w], hold[w], task[w]>> /\ pc[w] = "release"
      /\ pc'[w] \in {"release", "decode", "idle", "run"}
      /\ pc'[w] = "idle" => batch[w] = <<>>
  BY DEF Release, Released, localVars
<1>2. task[w] \in Tasks /\ task[w] \notin Elems(decodeQ[w]) \cup Elems(batch[w])
  BY <1>1 DEF Loop
<1>3. \A u \in Tasks : u # task[w] => status'[w][u] = status[w][u]
  BY <1>2 DEF Release, Released
<1>4. Elems(decodeQ[w]) \subseteq Tasks /\ Elems(batch[w]) \subseteq Tasks
  BY OfWorker, ElemsIn
<1>5. Lists(decodeQ'[w], batch'[w], status'[w])
  BY <1>a, <1>1, <1>2, <1>3, <1>4 DEF Lists
<1> QED
  BY <1>1, <1>2, <1>5 DEF Loop, Lists, Room

LEMMA LoopKept ==
    ASSUME Shapes, \A t \in Tasks : Single(t), NEW w \in Workers, Loop(w), WorkerStep(w)
    PROVE  Loop(w)'
  BY LoopQuiet, LoopPrefill, LoopAlloc, LoopDecode, LoopAnswer, LoopRelease DEF WorkerStep

-----------------------------------------------------------------------------
(* A request has one place.                                                 *)

\* the steps within a worker bring it no request
LEMMA SingleWithin ==
    ASSUME Shapes, NEW t \in Tasks, Single(t), NEW w \in Workers, WorkerStep(w),
           UNCHANGED <<queue, hold>>, Active(w, t)' => Active(w, t)
    PROVE  Single(t)'
<1>1. \A v \in Workers : v # w => Same(v)
  BY Elsewhere
<1>2. sent' = sent
  BY DEF WorkerStep, Abort, Wait, Receive, PushBack, Plan, SkipAborted, PutBack, Take, PrefillEnds,
     AllocHit, AllocMiss, Allocated, Append1, Preempt, DecodeEnds, Launch, Token, Finish, Fail,
     Release, Released, serverVars
<1>3. Holds(w, t)' = Holds(w, t) /\ TasksOf(queue)' = TasksOf(queue) /\ OnceIn(t, queue)' = OnceIn(t, queue)
  BY DEF Holds, TasksOf, OnceIn
<1> QED
  BY <1>1, <1>2, <1>3, SingleMoves DEF Single

LEMMA ActiveLess ==
    ASSUME Shapes, NEW t \in Tasks, NEW w \in Workers, Loop(w),
           Abort(w) \/ Wait(w) \/ Plan(w) \/ PrefillEnds(w) \/ AllocHit(w) \/ AllocMiss(w)
               \/ Allocated(w) \/ Append1(w) \/ Preempt(w) \/ DecodeEnds(w) \/ Launch(w) \/ Token(w)
               \/ Finish(w) \/ Fail(w) \/ Release(w) \/ (Released(w) /\ after[w] = "erase")
    PROVE  UNCHANGED <<queue, hold>> /\ (Active(w, t)' => Active(w, t))
<1>a. /\ decodeQ[w] \in Seq(Tasks) /\ batch[w] \in Seq(Tasks) /\ task[w] \in Tasks
      /\ table[w][t] \in Seq(Blocks) /\ free[w] \in Seq(Blocks)
  BY OfWorker
<1> USE DEF Shapes, Sequences3, Manager, Control
<1>1. UNCHANGED <<queue, hold>>
  BY DEF Abort, Wait, Plan, PrefillEnds, AllocHit, AllocMiss, Allocated, Append1, Preempt,
     DecodeEnds, Launch, Token, Finish, Fail, Release, Released, localVars
<1>2. CASE Abort(w)
  <2>1. /\ UNCHANGED <<batch[w], table[w]>>
        /\ \/ UNCHANGED <<decodeQ[w], pc[w], after[w], task[w]>>
           \/ /\ after'[w] = "erase" /\ pc'[w] = "release"
              /\ decodeQ'[w] = Without(decodeQ[w], Head(cancelQ[w]))
    BY <1>2 DEF Abort, Unlinked, ReleaseThen
  <2>2. Elems(Without(decodeQ[w], Head(cancelQ[w]))) \subseteq Elems(decodeQ[w])
    BY <1>a, ElemsWithout DEF Loop
  <2> QED
    BY <1>1, <2>1, <2>2 DEF Active
<1>3. CASE Wait(w) \/ Plan(w) \/ PrefillEnds(w) \/ DecodeEnds(w) \/ Launch(w)
  <2>1. /\ UNCHANGED <<table[w], decodeQ[w]>> /\ (batch'[w] = batch[w] \/ batch'[w] = <<>>)
        /\ pc'[w] # "alloc" /\ pc'[w] # "release"
    BY <1>3 DEF Wait, Plan, PrefillEnds, DecodeEnds, Launch, AfterPrefill
  <2>2. Elems(<<>>) = {}
    BY DEF Elems
  <2> QED
    BY <1>1, <2>1, <2>2 DEF Active
<1>4. CASE AllocHit(w) \/ AllocMiss(w)
  <2>1. UNCHANGED <<decodeQ[w], batch[w], pc[w], task[w], after[w]>> /\ pc[w] = "alloc"
    BY <1>4 DEF AllocHit, AllocMiss, Allocating
  <2>2. t # task[w] => table'[w][t] = table[w][t]
    BY <1>4, <1>a DEF AllocHit, AllocMiss, InTable
  <2> QED
    BY <1>1, <2>1, <2>2 DEF Active
<1>5. CASE Allocated(w)
  <2>1. /\ UNCHANGED <<decodeQ[w], table[w]>> /\ pc[w] = "alloc" /\ pc'[w] = "prefill"
        /\ batch'[w] = Append(batch[w], task[w])
    BY <1>5 DEF Allocated
  <2>2. Elems(batch'[w]) = Elems(batch[w]) \cup {task[w]}
    BY <1>a, <2>1, ElemsAppend
  <2> QED
    BY <1>1, <2>1, <2>2 DEF Active
<1>6. CASE Append1(w)
  <2> DEFINE u == Head(decodeQ[w])
  <2>1. /\ UNCHANGED <<pc[w]>> /\ pc[w] = "decode"
        /\ decodeQ[w] # <<>> /\ decodeQ'[w] = Tail(decodeQ[w])
        /\ batch'[w] = Append(batch[w], u)
    BY <1>6 DEF Append1, Decoding
  <2>2. u \in Tasks /\ Elems(decodeQ[w]) = {u} \cup Elems(decodeQ'[w])
    BY <1>a, <2>1, ElemsTail
  <2>3. Elems(batch'[w]) = Elems(batch[w]) \cup {u}
    BY <1>a, <2>1, <2>2, ElemsAppend
  <2>4. t # u => table'[w][t] = table[w][t]
    <3>1. \/ table' = table
          \/ \E q : table' = [table EXCEPT ![w] = [table[w] EXCEPT ![u] = q]]
      BY <1>6 DEF Append1
    <3> QED
      BY <2>2, <3>1
  <2> QED
    BY <1>1, <2>1, <2>2, <2>3, <2>4 DEF Active
<1>7. CASE Preempt(w)
  <2>1. /\ UNCHANGED <<batch[w], table[w]>> /\ decodeQ[w] # <<>>
        /\ decodeQ'[w] = FrontOf(decodeQ[w])
        /\ pc'[w] = "release" /\ task'[w] = LastOf(decodeQ[w])
    BY <1>7 DEF Preempt, Decoding, ReleaseThen
  <2>2. PICK s \in Seq(Tasks) : s = decodeQ[w] /\ s # <<>>
    BY <1>a, <2>1
  <2>3. Elems(s) = {LastOf(s)} \cup Elems(FrontOf(s))
    BY <2>2, ElemsFront
  <2> QED
    BY <1>1, <2>1, <2>2, <2>3 DEF Active
<1>8. CASE Token(w) \/ Finish(w) \/ Fail(w)
  <2> DEFINE u == Head(batch[w])
  <2>1. /\ batch[w] # <<>> /\ batch'[w] = Tail(batch[w]) /\ UNCHANGED table[w]
        /\ decodeQ'[w] = decodeQ[w] \/ decodeQ'[w] = Append(decodeQ[w], u)
        /\ pc'[w] # "alloc" /\ (pc'[w] = "release" => after'[w] = "erase")
    BY <1>8 DEF Token, Finish, Fail, ReleaseThen
  <2>2. u \in Tasks /\ Elems(batch[w]) = {u} \cup Elems(batch'[w])
    BY <1>a, <2>1, ElemsTail
  <2>3. Elems(Append(decodeQ[w], u)) = Elems(decodeQ[w]) \cup {u}
    BY <1>a, <2>2, ElemsAppend
  <2> QED
    BY <1>1, <2>1, <2>2, <2>3 DEF Active
<1>9. CASE Release(w)
  <2>1. /\ UNCHANGED <<decodeQ[w], batch[w], pc[w], task[w], after[w]>>
        /\ table[w][task[w]] # <<>>
    BY <1>9 DEF Release
  <2>2. t # task[w] => table'[w][t] = table[w][t]
    BY <1>9, <1>a DEF Release
  <2> QED
    BY <1>1, <2>1, <2>2 DEF Active
<1>10. CASE Released(w) /\ after[w] = "erase"
  <2>1. /\ UNCHANGED <<decodeQ[w], batch[w], table[w], task[w], after[w]>>
        /\ pc'[w] # "alloc"
    BY <1>10 DEF Released
  <2> QED
    BY <1>1, <1>10, <2>1 DEF Active
<1> QED
  BY <1>2, <1>3, <1>4, <1>5, <1>6, <1>7, <1>8, <1>9, <1>10

\* the steps that move a request between the queue and the worker
LEMMA SingleAcross ==
    ASSUME Shapes, \A u \in Tasks : Single(u), NEW t \in Tasks, NEW w \in Workers, Loop(w),
           SkipAborted(w) \/ PutBack(w) \/ Take(w) \/ Receive(w) \/ PushBack(w)
               \/ (Released(w) /\ after[w] = "preempt")
    PROVE  Single(t)'
<1>a. \A v \in Workers : v # w => Same(v)
  BY Elsewhere DEF WorkerStep
<1>b. sent' = sent
  BY DEF Receive, PushBack, SkipAborted, PutBack, Take, Released, serverVars
<1>c. /\ decodeQ[w] \in Seq(Tasks) /\ batch[w] \in Seq(Tasks) /\ task[w] \in Tasks
      /\ table[w][t] \in Seq(Blocks) /\ hold[w] \in Seq(Copies) /\ queue \in Seq(Copies)
  BY OfWorker
<1>d. OnceIn(t, queue) /\ ~(Holds(w, t) /\ Active(w, t))
      /\ (t \in TasksOf(queue) => ~Holds(w, t) /\ ~Active(w, t))
  BY DEF Single
<1>e. queue # <<>> => /\ Head(queue) \in Copies /\ Tail(queue) \in Seq(Copies)
                      /\ TasksOf(queue) = {Head(queue).task} \cup TasksOf(Tail(queue))
                      /\ OnceIn(t, Tail(queue))
                      /\ ~(t = Head(queue).task /\ t \in TasksOf(Tail(queue)))
  BY <1>c, <1>d, TasksTail
<1> DEFINE Q == t \in TasksOf(queue')
           O == OnceIn(t, queue')
<1> SUFFICES /\ O /\ ~(Holds(w, t)' /\ Active(w, t)') /\ (Q => ~Holds(w, t)' /\ ~Active(w, t)')
             /\ Q \/ Holds(w, t)' \/ Active(w, t)' =>
                    t \in TasksOf(queue) \/ Holds(w, t) \/ Active(w, t)
  BY <1>a, <1>b, SingleMoves
<1>f. UNCHANGED hold => Holds(w, t)' = Holds(w, t)
  BY DEF Holds
<1>1. CASE SkipAborted(w)
  <2>1. /\ queue # <<>> /\ queue' = Tail(queue)
        /\ UNCHANGED <<hold, table, decodeQ, batch, pc, task, after>>
    BY <1>1 DEF SkipAborted, localVars
  <2>2. Active(w, t)' = Active(w, t)
    BY <2>1 DEF Active
  <2> QED
    BY <1>d, <1>e, <1>f, <2>1, <2>2
<1>2. CASE PutBack(w)
  <2>1. /\ queue # <<>> /\ queue' = Append(Tail(queue), Head(queue))
        /\ UNCHANGED <<hold, table, decodeQ, batch, task, after>>
        /\ pc[w] = "prefill" /\ pc'[w] \in {"decode", "start"}
    BY <1>2 DEF PutBack, Returned, AfterPrefill, localVars, Shapes, Control
  <2>2. Active(w, t)' = Active(w, t)
    BY <2>1 DEF Active
  <2>3. /\ TasksOf(queue') = TasksOf(Tail(queue)) \cup {Head(queue).task}
        /\ OnceIn(t, queue')
    BY <1>e, <2>1, TasksAppend
  <2> QED
    BY <1>d, <1>e, <1>f, <2>1, <2>2, <2>3
<1>3. CASE Take(w)
  <2>1. /\ queue # <<>> /\ queue' = Tail(queue)
        /\ UNCHANGED <<hold, decodeQ, batch>>
        /\ pc[w] = "prefill" /\ pc'[w] = "alloc" /\ task'[w] = Head(queue).task
    BY <1>3 DEF Take, Shapes, Control
  <2>2. Head(queue).task \in Tasks
    BY <2>1, HeadCopy
  <2>3. t # Head(queue).task => table'[w][t] = table[w][t]
    BY <1>3, <2>2 DEF Take, Shapes, Sequences3
  <2>4. t # Head(queue).task => Active(w, t)' = Active(w, t)
    BY <2>1, <2>3 DEF Active
  <2> QED
    BY <1>d, <1>e, <1>f, <2>1, <2>4
<1>4. CASE Receive(w)
  <2>1. /\ queue # <<>> /\ queue' = Tail(queue) /\ hold'[w] = <<Head(queue)>>
        /\ UNCHANGED <<table, decodeQ, batch, task, after>>
        /\ pc[w] = "receive" /\ pc'[w] = "pushback" /\ hold[w] = <<>>
    BY <1>4 DEF Receive, Loop, Shapes, Control
  <2>2. Active(w, t)' = Active(w, t)
    BY <2>1 DEF Active
  <2>3. Holds(w, t)' <=> t = Head(queue).task
    BY <2>1 DEF Holds, TasksOf
  <2> QED
    BY <1>d, <1>e, <2>1, <2>2, <2>3
<1>5. CASE PushBack(w)
  <2>1. /\ queue' = queue \o hold[w] /\ hold'[w] = <<>>
        /\ UNCHANGED <<table, decodeQ, batch, task, after>>
        /\ pc[w] = "pushback" /\ pc'[w] = "plan" /\ Len(hold[w]) = 1
    BY <1>5 DEF PushBack, Loop, Shapes, Control
  <2>2. PICK c \in Copies : hold[w] = <<c>>
    <3>1. hold[w][1] \in Copies /\ hold[w] = <<hold[w][1]>>
      BY <1>c, <2>1
    <3> QED
      BY <3>1
  <2>3. queue' = Append(queue, c)
    BY <1>c, <2>1, <2>2
  <2>4. Holds(w, t) <=> t = c.task
    BY <2>2 DEF Holds, TasksOf
  <2>5. ~Holds(w, t)'
    BY <2>1 DEF Holds, TasksOf
  <2>6. Active(w, t)' = Active(w, t)
    BY <2>1 DEF Active
  <2>7. TasksOf(queue') = TasksOf(queue) \cup {c.task} /\ OnceIn(t, queue')
    BY <1>c, <1>d, <2>3, <2>4, TasksAppend
  <2> QED
    BY <1>d, <2>4, <2>5, <2>6, <2>7
<1>6. CASE Released(w) /\ after[w] = "preempt"
  <2> DEFINE c == [task |-> task[w], gen |-> gen[w][task[w]]]
  <2>1. /\ queue' = Append(queue, c) /\ UNCHANGED <<hold, table, decodeQ, batch, task, after>>
        /\ pc[w] = "release" /\ pc'[w] = "decode" /\ table[w][task[w]] = <<>>
    BY <1>6 DEF Released, localVars, Shapes, Control
  <2>2. c \in Copies /\ c.task = task[w]
    BY <1>c, OfWorker DEF Copies
  <2>3. task[w] \notin Elems(decodeQ[w]) \cup Elems(batch[w])
    BY <2>1 DEF Loop
  <2>4. Active(w, t)' <=> Active(w, t) /\ t # task[w]
    BY <1>6, <2>1, <2>3 DEF Active
  <2>5. t = task[w] => Active(w, t)
    BY <1>6, <2>1 DEF Active
  <2> HIDE DEF c
  <2>6. TasksOf(queue') = TasksOf(queue) \cup {task[w]} /\ OnceIn(t, queue')
    BY <1>c, <1>d, <2>1, <2>2, <2>5, TasksAppend
  <2> QED
    BY <1>d, <1>f, <2>1, <2>4, <2>5, <2>6
<1> QED
  BY <1>1, <1>2, <1>3, <1>4, <1>5, <1>6

LEMMA SingleKept ==
    ASSUME Shapes, \A u \in Tasks : Single(u), NEW w \in Workers, Loop(w), WorkerStep(w),
           NEW t \in Tasks
    PROVE  Single(t)'
<1>1. after[w] \in {"erase", "preempt"}
  BY DEF Shapes, Control
<1> QED
  BY <1>1, ActiveLess, SingleWithin, SingleAcross DEF WorkerStep

-----------------------------------------------------------------------------
(* The pointers of the decode queue and of the batch.                       *)

Places == Shapes /\ (\A t \in Tasks : Single(t)) /\ \A w \in Workers : Loop(w)

LEMMA PlacesInit == Init => Places
<1> SUFFICES ASSUME Init PROVE Places
  OBVIOUS
<1> USE DEF Init
<1>1. Shapes
  <2>1. Shared
    BY DEF Shared
  <2>2. Sequences3
    BY DEF Sequences3
  <2>3. Manager
    <3>1. [i \in 1..NumBlocks |-> i] \in Seq(Blocks)
      BY SizesAssumption DEF Blocks
    <3>2. [b \in Blocks |-> 0] \in [Blocks -> Int]
      OBVIOUS
    <3> QED
      BY <3>1, <3>2 DEF Manager
  <2>4. Control
    <3>1. (CHOOSE t \in Tasks : TRUE) \in Tasks
      BY TasksAssumption
    <3>2. pc \in [Workers -> Steps] /\ after \in [Workers -> {"erase", "preempt"}]
      BY DEF Steps
    <3>3. hold \in [Workers -> Seq(Copies)] /\ task \in [Workers -> Tasks]
      BY <3>1
    <3> QED
      BY <3>2, <3>3 DEF Control
  <2> QED
    BY <2>1, <2>2, <2>3, <2>4 DEF Shapes
<1>2. Elems(<<>>) = {} /\ TasksOf(<<>>) = {} /\ Distinct(<<>>) /\ \A t : OnceIn(t, <<>>)
  BY DEF Elems, TasksOf, Distinct, OnceIn
<1>3. ASSUME NEW t \in Tasks PROVE Single(t)
  <2>1. \A w \in Workers : ~Holds(w, t) /\ ~Active(w, t)
    BY <1>2 DEF Holds, Active
  <2> QED
    BY <1>2, <2>1 DEF Single
<1>4. ASSUME NEW w \in Workers PROVE Loop(w)
  BY <1>2 DEF Loop, Room
<1> QED
  BY <1>1, <1>3, <1>4 DEF Places

LEMMA PlacesStep == Places /\ [Next]_vars => Places'
<1> SUFFICES ASSUME Places, [Next]_vars PROVE Places'
  OBVIOUS
<1>a. Shapes /\ (\A t \in Tasks : Single(t)) /\ \A w \in Workers : Loop(w)
  BY DEF Places
<1>1. Shapes'
  <2>1. \A w \in Workers : Room(w)
    BY <1>a DEF Loop
  <2> QED
    BY <1>a, <2>1, SharedKept, Sequences3Kept, ManagerKept, ControlKept DEF Shapes
<1>2. ASSUME \A w \in Workers : Same(w) PROVE \A w \in Workers : Loop(w)'
  BY <1>2, <1>a, LoopElsewhere
<1>3. ASSUME NEW u \in Tasks, Submit(u) PROVE Places'
  <2> DEFINE c == [task |-> u, gen |-> 0]
  <2>1. /\ u \notin sent /\ sent' = sent \cup {u} /\ queue' = Append(queue, c)
        /\ \A w \in Workers : Same(w)
    BY <1>3 DEF Submit, blockVars, localVars, Same
  <2>2. c \in Copies /\ c.task = u /\ queue \in Seq(Copies)
    BY <1>a DEF Copies, Shapes, Shared
  <2> HIDE DEF c
  <2>3. /\ TasksOf(queue') = TasksOf(queue) \cup {u}
        /\ \A t : OnceIn(t, queue) /\ (t = u => t \notin TasksOf(queue)) => OnceIn(t, queue')
    BY <2>1, <2>2, TasksAppend
  <2>4. ASSUME NEW t \in Tasks PROVE Single(t)'
    <3>1. /\ \A w \in Workers : Holds(w, t)' = Holds(w, t) /\ Active(w, t)' = Active(w, t)
      BY <2>1 DEF Same, Holds, Active, Elems, TasksOf
    <3> QED
      BY <1>a, <2>1, <2>3, <3>1 DEF Single
  <2> QED
    BY <1>1, <1>2, <2>1, <2>4 DEF Places
<1>4. ASSUME UNCHANGED <<sent, queue>>, \A w \in Workers : Same(w) PROVE Places'
  <2>1. ASSUME NEW t \in Tasks PROVE Single(t)'
    <3>1. \A w \in Workers : Holds(w, t)' = Holds(w, t) /\ Active(w, t)' = Active(w, t)
      BY <1>4 DEF Same, Holds, Active, Elems, TasksOf
    <3>2. OnceIn(t, queue)' = OnceIn(t, queue) /\ TasksOf(queue)' = TasksOf(queue)
      BY <1>4 DEF OnceIn, TasksOf
    <3> QED
      BY <1>a, <1>4, <3>1, <3>2 DEF Single
  <2> QED
    BY <1>1, <1>2, <1>4, <2>1 DEF Places
<1>5. ASSUME NEW u \in Tasks, Cancel(u) PROVE Places'
  BY <1>4, <1>5 DEF Cancel, blockVars, localVars, Same
<1>6. ASSUME NEW w \in Workers, WorkerStep(w) PROVE Places'
  <2>1. \A t \in Tasks : Single(t)'
    BY <1>a, <1>6, SingleKept
  <2>2. \A v \in Workers : Loop(v)'
    BY <1>a, <1>6, Elsewhere, LoopElsewhere, LoopKept
  <2> QED
    BY <1>1, <2>1, <2>2 DEF Places
<1>7. CASE UNCHANGED vars
  BY <1>4, <1>7 DEF vars, serverVars, blockVars, localVars, Same
<1> QED
  BY <1>3, <1>5, <1>6, <1>7 DEF Next

\* Every step of the runner keeps each request in one place: the task queue,
\* one worker's receive(), or one worker's lists and block tables.
THEOREM PlacesAlways == Spec => []Places
<1> QED
  BY PlacesInit, PlacesStep, PTL DEF Spec

LEMMA DistinctConcat ==
    ASSUME NEW S, NEW s \in Seq(S), NEW u \in Seq(S), Distinct(s), Distinct(u),
           Elems(s) \cap Elems(u) = {}
    PROVE  Distinct(s \o u)
<1>m. PICK m \in Nat : m = Len(s)
  OBVIOUS
<1>n. PICK n \in Nat : n = Len(u)
  OBVIOUS
<1>1. m \in Nat /\ n \in Nat /\ m = Len(s) /\ n = Len(u)
  BY <1>m, <1>n
<1>2. PICK r \in Seq(S) : r = s \o u
  BY ConcatProperties
<1>3. DOMAIN s = 1..m /\ DOMAIN u = 1..n /\ DOMAIN r = 1..(m + n)
  BY <1>1, <1>2
<1>4. \A i \in 1..(m + n) : r[i] = IF i \in 1..m THEN s[i] ELSE u[i - m]
  BY <1>1, <1>2
<1>5. \A i \in 1..(m + n) : i \in 1..m \/ (~(i \in 1..m) /\ i - m \in 1..n)
  BY <1>1
<1>6. \A i \in 1..m, j \in 1..n : s[i] # u[j]
  BY <1>3 DEF Elems
<1>7. /\ \A i, j \in 1..m : s[i] = s[j] => i = j
      /\ \A i, j \in 1..n : u[i] = u[j] => i = j
  BY <1>3 DEF Distinct
<1>8. ASSUME NEW i \in 1..(m + n), NEW j \in 1..(m + n), r[i] = r[j] PROVE i = j
  <2>1. CASE i \in 1..m /\ j \in 1..m
    BY <1>4, <1>7, <1>8, <2>1
  <2>2. CASE ~(i \in 1..m) /\ ~(j \in 1..m)
    <3>1. i - m \in 1..n /\ j - m \in 1..n /\ u[i - m] = u[j - m]
      BY <1>4, <1>5, <1>8, <2>2
    <3>2. i - m = j - m
      BY <1>7, <3>1
    <3> QED
      BY <1>1, <3>2
  <2>3. CASE i \in 1..m /\ ~(j \in 1..m)
    BY <1>4, <1>5, <1>6, <1>8, <2>3
  <2>4. CASE ~(i \in 1..m) /\ j \in 1..m
    BY <1>4, <1>5, <1>6, <1>8, <2>4
  <2> QED
    BY <2>1, <2>2, <2>3, <2>4
<1> QED
  BY <1>2, <1>3, <1>8 DEF Distinct

\* No pointer of the decode queue or of the batch is to a sequence that was
\* erased, and none is there twice (scheduler.cpp, llm_runner.cpp).
THEOREM NoDanglingHolds == Spec => []NoDangling
<1>1. Places => NoDangling
  <2> SUFFICES ASSUME Places, NEW w \in Workers
               PROVE  /\ Distinct(decodeQ[w] \o batch[w])
                      /\ \A t \in Elems(decodeQ[w]) : status[w][t] = "RUNNING"
                      /\ \A t \in Elems(batch[w]) : status[w][t] # "none"
    BY DEF NoDangling
  <2>1. Loop(w) /\ decodeQ[w] \in Seq(Tasks) /\ batch[w] \in Seq(Tasks)
    BY OfWorker DEF Places
  <2>2. Distinct(decodeQ[w] \o batch[w])
    BY <2>1, DistinctConcat DEF Loop
  <2> QED
    BY <2>1, <2>2 DEF Loop
<1> QED
  BY <1>1, PlacesAlways, PTL

-----------------------------------------------------------------------------
(* The places of a block in the block tables.                               *)

UsesIn(tab, b) ==
    UNION {{<<t, i>> : i \in {j \in DOMAIN tab[t] : tab[t][j] = b}} : t \in Tasks}

LEMMA UsesMembers ==
    ASSUME NEW tab, NEW b
    PROVE  \A p : p \in UsesIn(tab, b) <=>
                    \E t \in Tasks : \E i \in DOMAIN tab[t] : p = <<t, i>> /\ tab[t][i] = b
  BY DEF UsesIn

LEMMA UsesAppend ==
    ASSUME NEW tab \in [Tasks -> Seq(Blocks)], NEW t \in Tasks, NEW b \in Blocks
    PROVE  \E p : /\ p \notin UsesIn(tab, b)
                  /\ \A c \in Blocks :
                       UsesIn([tab EXCEPT ![t] = Append(tab[t], b)], c) =
                           IF c = b THEN UsesIn(tab, c) \cup {p} ELSE UsesIn(tab, c)
<1>1. PICK new : new = [tab EXCEPT ![t] = Append(tab[t], b)]
  OBVIOUS
<1>2. PICK n \in Nat : n = Len(tab[t])
  OBVIOUS
<1>3. /\ \A u \in Tasks : u # t => new[u] = tab[u]
      /\ DOMAIN tab[t] = 1..n /\ DOMAIN new[t] = 1..(n + 1)
      /\ \A i \in 1..n : new[t][i] = tab[t][i]
      /\ new[t][n + 1] = b
  <2>1. tab[t] \in Seq(Blocks) /\ new[t] = Append(tab[t], b)
    BY <1>1
  <2>2. DOMAIN new[t] = 1..(n + 1) /\ new[t][n + 1] = b /\ \A i \in 1..n : new[t][i] = tab[t][i]
    BY <1>2, <2>1
  <2> QED
    BY <1>1, <1>2, <2>1, <2>2
<1>4. /\ \A i \in 1..(n + 1) : i \in 1..n \/ i = n + 1
      /\ \A i \in 1..n : i \in 1..(n + 1) /\ i # n + 1
      /\ n + 1 \in 1..(n + 1)
  BY <1>2
<1> DEFINE p == <<t, n + 1>>
<1>5. p \notin UsesIn(tab, b)
  <2>1. ~(n + 1 \in 1..n)
    BY <1>4
  <2> QED
    BY <1>3, <2>1, UsesMembers
<1>6. ASSUME NEW c \in Blocks, NEW u \in Tasks, NEW i
      PROVE  (i \in DOMAIN new[u] /\ new[u][i] = c) <=>
               \/ i \in DOMAIN tab[u] /\ tab[u][i] = c
               \/ c = b /\ u = t /\ i = n + 1
  <2>1. CASE u # t
    BY <1>3, <2>1
  <2>2. CASE u = t
    BY <1>3, <1>4, <2>2
  <2> QED
    BY <2>1, <2>2
<1>7. ASSUME NEW c \in Blocks
      PROVE  UsesIn(new, c) = IF c = b THEN UsesIn(tab, c) \cup {p} ELSE UsesIn(tab, c)
  <2>1. \A q : q \in UsesIn(new, c) <=> \/ q \in UsesIn(tab, c)
                                        \/ c = b /\ q = p
    <3> SUFFICES ASSUME NEW q
                 PROVE  q \in UsesIn(new, c) <=> q \in UsesIn(tab, c) \/ (c = b /\ q = p)
      OBVIOUS
    <3>1. ASSUME q \in UsesIn(new, c) PROVE q \in UsesIn(tab, c) \/ (c = b /\ q = p)
      <4>1. PICK u, i : u \in Tasks /\ i \in DOMAIN new[u] /\ q = <<u, i>> /\ new[u][i] = c
        BY <3>1, UsesMembers
      <4>2. \/ i \in DOMAIN tab[u] /\ tab[u][i] = c
            \/ c = b /\ u = t /\ i = n + 1
        BY <1>6, <4>1
      <4> QED
        BY <4>1, <4>2, UsesMembers
    <3>2. ASSUME q \in UsesIn(tab, c) PROVE q \in UsesIn(new, c)
      <4>1. PICK u, i : u \in Tasks /\ i \in DOMAIN tab[u] /\ q = <<u, i>> /\ tab[u][i] = c
        BY <3>2, UsesMembers
      <4>2. i \in DOMAIN new[u] /\ new[u][i] = c
        BY <1>6, <4>1
      <4> QED
        BY <4>1, <4>2, UsesMembers
    <3>3. ASSUME c = b, q = p PROVE q \in UsesIn(new, c)
      <4>1. n + 1 \in DOMAIN new[t] /\ new[t][n + 1] = c
        BY <1>3, <1>4, <3>3
      <4> QED
        BY <3>3, <4>1, UsesMembers
    <3> QED
      BY <3>1, <3>2, <3>3
  <2> QED
    BY <2>1
<1> HIDE DEF p
<1> QED
  BY <1>1, <1>5, <1>7

\* in the tables new the block b has one place less than in tab
OneLess(tab, new, b) ==
    \E p : /\ p \in UsesIn(tab, b)
           /\ \A c \in Blocks :
                UsesIn(new, c) = IF c = b THEN UsesIn(tab, c) \ {p} ELSE UsesIn(tab, c)

LEMMA UsesFront ==
    ASSUME NEW tab \in [Tasks -> Seq(Blocks)], NEW t \in Tasks, tab[t] # <<>>,
           NEW b \in Blocks, b = LastOf(tab[t])
    PROVE  OneLess(tab, [tab EXCEPT ![t] = FrontOf(tab[t])], b)
<1>1. PICK new : new = [tab EXCEPT ![t] = FrontOf(tab[t])]
  OBVIOUS
<1>a. tab[t] \in Seq(Blocks)
  OBVIOUS
<1>2. PICK n \in Nat : n = Len(tab[t]) /\ n > 0
  BY <1>a
<1>3. /\ \A u \in Tasks : u # t => new[u] = tab[u]
      /\ DOMAIN tab[t] = 1..n /\ DOMAIN new[t] = 1..(n - 1)
      /\ \A i \in 1..(n - 1) : new[t][i] = tab[t][i]
      /\ tab[t][n] = b
  <2>1. PICK s \in Seq(Blocks) : s = tab[t] /\ s # <<>>
    BY <1>a
  <2>a. /\ FrontOf(s) \in Seq(Blocks) /\ Len(FrontOf(s)) = Len(s) - 1
        /\ \A i \in 1..(Len(s) - 1) : FrontOf(s)[i] = s[i]
    BY <2>1, ElemsFront
  <2>2. PICK f \in Seq(Blocks) : f = FrontOf(s) /\ Len(f) = Len(s) - 1
                                 /\ \A i \in 1..(Len(s) - 1) : f[i] = s[i]
    BY <2>a
  <2>3. new[t] = f /\ \A u \in Tasks : u # t => new[u] = tab[u]
    BY <1>1, <2>1, <2>2
  <2>4. DOMAIN f = 1..(n - 1) /\ \A i \in 1..(n - 1) : f[i] = s[i]
    BY <1>2, <2>1, <2>2
  <2>5. DOMAIN s = 1..n /\ s[n] = b
    BY <1>2, <2>1 DEF LastOf
  <2> QED
    BY <2>1, <2>3, <2>4, <2>5
<1>4. /\ \A i \in 1..n : i \in 1..(n - 1) \/ i = n
      /\ \A i \in 1..(n - 1) : i \in 1..n /\ i # n
      /\ n \in 1..n
  BY <1>2
<1> DEFINE p == <<t, n>>
<1>5. p \in UsesIn(tab, b)
  BY <1>3, <1>4, UsesMembers
<1>6. ASSUME NEW c \in Blocks, NEW u \in Tasks, NEW i
      PROVE  (i \in DOMAIN tab[u] /\ tab[u][i] = c /\ ~(u = t /\ i = n)) <=>
             (i \in DOMAIN new[u] /\ new[u][i] = c)
  <2>1. CASE u # t
    BY <1>3, <2>1
  <2>2. CASE u = t
    BY <1>3, <1>4, <2>2
  <2> QED
    BY <2>1, <2>2
<1>7. ASSUME NEW c \in Blocks
      PROVE  UsesIn(new, c) = IF c = b THEN UsesIn(tab, c) \ {p} ELSE UsesIn(tab, c)
  <2>1. \A q : q \in UsesIn(new, c) <=> q \in UsesIn(tab, c) /\ q # p
    <3> SUFFICES ASSUME NEW q
                 PROVE  q \in UsesIn(new, c) <=> q \in UsesIn(tab, c) /\ q # p
      OBVIOUS
    <3>1. ASSUME q \in UsesIn(new, c) PROVE q \in UsesIn(tab, c) /\ q # p
      <4>1. PICK u, i : u \in Tasks /\ i \in DOMAIN new[u] /\ q = <<u, i>> /\ new[u][i] = c
        BY <3>1, UsesMembers
      <4>2. i \in DOMAIN tab[u] /\ tab[u][i] = c /\ ~(u = t /\ i = n)
        BY <1>6, <4>1
      <4> QED
        BY <4>1, <4>2, UsesMembers
    <3>2. ASSUME q \in UsesIn(tab, c), q # p PROVE q \in UsesIn(new, c)
      <4>1. PICK u, i : u \in Tasks /\ i \in DOMAIN tab[u] /\ q = <<u, i>> /\ tab[u][i] = c
        BY <3>2, UsesMembers
      <4>2. i \in DOMAIN new[u] /\ new[u][i] = c
        BY <1>6, <3>2, <4>1
      <4> QED
        BY <4>1, <4>2, UsesMembers
    <3> QED
      BY <3>1, <3>2
  <2>2. c # b => p \notin UsesIn(tab, c)
    <3> SUFFICES ASSUME c # b, p \in UsesIn(tab, c) PROVE FALSE
      OBVIOUS
    <3>1. PICK u, i : u \in Tasks /\ i \in DOMAIN tab[u] /\ p = <<u, i>> /\ tab[u][i] = c
      BY UsesMembers
    <3> QED
      BY <1>3, <3>1
  <2> QED
    BY <2>1, <2>2
<1> HIDE DEF p
<1> QED
  BY <1>1, <1>5, <1>7 DEF OneLess

-----------------------------------------------------------------------------
(* The reference counts and the free list.                                  *)

Counted(tab, rf, fr) ==
    /\ Distinct(fr)
    /\ \A b \in Blocks : /\ IsFiniteSet(UsesIn(tab, b)) /\ rf[b] = Cardinality(UsesIn(tab, b))
                         /\ b \in Elems(fr) <=> UsesIn(tab, b) = {}

LEMMA CountedGains ==
    ASSUME NEW tab \in [Tasks -> Seq(Blocks)], NEW rf \in [Blocks -> Int], NEW fr \in Seq(Blocks),
           Counted(tab, rf, fr), NEW t \in Tasks, NEW b \in Blocks, NEW less,
           Distinct(less), Elems(less) = Elems(fr) \ {b}
    PROVE  Counted([tab EXCEPT ![t] = Append(tab[t], b)], [rf EXCEPT ![b] = rf[b] + 1], less)
<1> DEFINE new == [tab EXCEPT ![t] = Append(tab[t], b)]
<1>0. \E p : /\ p \notin UsesIn(tab, b)
             /\ \A c \in Blocks : UsesIn(new, c) =
                  IF c = b THEN UsesIn(tab, c) \cup {p} ELSE UsesIn(tab, c)
  BY UsesAppend
<1> HIDE DEF new
<1>1. PICK p : /\ p \notin UsesIn(tab, b)
               /\ \A c \in Blocks : UsesIn(new, c) =
                    IF c = b THEN UsesIn(tab, c) \cup {p} ELSE UsesIn(tab, c)
  BY <1>0
<1>b. PICK one : one = [rf EXCEPT ![b] = rf[b] + 1]
  OBVIOUS
<1>2. \A c \in Blocks : rf[c] \in Int /\ one[c] = IF c = b THEN rf[c] + 1 ELSE rf[c]
  BY <1>b
<1>3. ASSUME NEW c \in Blocks
      PROVE  /\ IsFiniteSet(UsesIn(new, c)) /\ one[c] = Cardinality(UsesIn(new, c))
             /\ c \in Elems(less) <=> UsesIn(new, c) = {}
  <2>1. /\ IsFiniteSet(UsesIn(tab, c)) /\ rf[c] = Cardinality(UsesIn(tab, c))
        /\ c \in Elems(fr) <=> UsesIn(tab, c) = {}
    BY DEF Counted
  <2>2. CASE c = b
    <3>1. UsesIn(new, c) = UsesIn(tab, c) \cup {p} /\ p \notin UsesIn(tab, c)
      BY <1>1, <2>2
    <3>2. /\ IsFiniteSet(UsesIn(new, c))
          /\ Cardinality(UsesIn(new, c)) = Cardinality(UsesIn(tab, c)) + 1
      <4>1. PICK S : S = UsesIn(tab, c) /\ IsFiniteSet(S) /\ p \notin S
        BY <2>1, <3>1
      <4>2. IsFiniteSet(S \cup {p}) /\ Cardinality(S \cup {p}) = Cardinality(S) + 1
        BY <4>1, FS_AddElement
      <4> QED
        BY <3>1, <4>1, <4>2
    <3>3. one[c] = rf[c] + 1
      BY <1>2, <2>2
    <3>4. UsesIn(new, c) # {} /\ c \notin Elems(less)
      BY <2>2, <3>1
    <3> QED
      BY <2>1, <3>2, <3>3, <3>4
  <2>3. CASE c # b
    BY <1>1, <1>2, <2>1, <2>3
  <2> QED
    BY <2>2, <2>3
<1> QED
  BY <1>b, <1>3 DEF Counted, new

LEMMA CountedLoses ==
    ASSUME NEW tab \in [Tasks -> Seq(Blocks)], NEW rf \in [Blocks -> Int], NEW fr \in Seq(Blocks),
           Counted(tab, rf, fr), NEW t \in Tasks, tab[t] # <<>>, NEW b \in Blocks, b = LastOf(tab[t])
    PROVE  Counted([tab EXCEPT ![t] = FrontOf(tab[t])], [rf EXCEPT ![b] = rf[b] - 1],
                   IF rf[b] = 1 THEN Append(fr, b) ELSE fr)
<1> DEFINE new == [tab EXCEPT ![t] = FrontOf(tab[t])]
<1>a. OneLess(tab, new, b)
  BY UsesFront
<1> HIDE DEF new
<1>1. PICK p : /\ p \in UsesIn(tab, b)
               /\ \A c \in Blocks : UsesIn(new, c) =
                    IF c = b THEN UsesIn(tab, c) \ {p} ELSE UsesIn(tab, c)
  BY <1>a DEF OneLess
<1>b. PICK one : one = [rf EXCEPT ![b] = rf[b] - 1]
  OBVIOUS
<1>2. \A c \in Blocks : rf[c] \in Int /\ one[c] = IF c = b THEN rf[c] - 1 ELSE rf[c]
  BY <1>b
<1>3. /\ IsFiniteSet(UsesIn(tab, b)) /\ rf[b] = Cardinality(UsesIn(tab, b))
      /\ b \notin Elems(fr) /\ Distinct(fr)
  BY <1>1 DEF Counted
<1>4. /\ IsFiniteSet(UsesIn(new, b)) /\ Cardinality(UsesIn(new, b)) = rf[b] - 1
      /\ UsesIn(new, b) = {} <=> rf[b] = 1
  <2>1. UsesIn(new, b) = UsesIn(tab, b) \ {p}
    BY <1>1
  <2>2. IsFiniteSet(UsesIn(new, b)) /\ Cardinality(UsesIn(new, b)) = rf[b] - 1
    <3>1. PICK S : S = UsesIn(tab, b) /\ IsFiniteSet(S) /\ p \in S
      BY <1>1, <1>3
    <3>2. IsFiniteSet(S \ {p}) /\ Cardinality(S \ {p}) = Cardinality(S) - 1
      BY <3>1, FS_RemoveElement
    <3> QED
      BY <1>3, <2>1, <3>1, <3>2
  <2>3. UsesIn(new, b) = {} <=> Cardinality(UsesIn(new, b)) = 0
    BY <2>2, FS_EmptySet
  <2> QED
    BY <2>2, <2>3
<1>c. PICK more : more = IF rf[b] = 1 THEN Append(fr, b) ELSE fr
  OBVIOUS
<1>5. /\ Distinct(more)
      /\ Elems(more) = IF rf[b] = 1 THEN Elems(fr) \cup {b} ELSE Elems(fr)
  <2>1. Distinct(Append(fr, b)) /\ Elems(Append(fr, b)) = Elems(fr) \cup {b}
    BY <1>3, ElemsAppend
  <2> QED
    BY <1>3, <1>c, <2>1
<1>6. ASSUME NEW c \in Blocks
      PROVE  /\ IsFiniteSet(UsesIn(new, c)) /\ one[c] = Cardinality(UsesIn(new, c))
             /\ c \in Elems(more) <=> UsesIn(new, c) = {}
  <2>1. CASE c = b
    BY <1>2, <1>3, <1>4, <1>5, <2>1
  <2>2. CASE c # b
    <3>1. /\ IsFiniteSet(UsesIn(tab, c)) /\ rf[c] = Cardinality(UsesIn(tab, c))
          /\ c \in Elems(fr) <=> UsesIn(tab, c) = {}
      BY DEF Counted
    <3> QED
      BY <1>1, <1>2, <1>5, <2>2, <3>1
  <2> QED
    BY <2>1, <2>2
<1> QED
  BY <1>b, <1>c, <1>5, <1>6 DEF Counted, new

\* BlocksAccounted, of one worker
Accounted(w) ==
    /\ Counted(table[w], ref[w], free[w])
    /\ \A t \in Tasks : status[w][t] = "none" => table[w][t] = <<>>

\* a new place for a block: in the table of a sequence that is tracked, and not
\* in the free list any more
LEMMA AccountedGains ==
    ASSUME Shapes, NEW w \in Workers, Accounted(w), NEW t \in Tasks, NEW b \in Blocks,
           status[w][t] # "none", status'[w] = status[w],
           table'[w] = [table[w] EXCEPT ![t] = Append(table[w][t], b)],
           ref'[w] = [ref[w] EXCEPT ![b] = ref[w][b] + 1],
           Distinct(free'[w]), Elems(free'[w]) = Elems(free[w]) \ {b}
    PROVE  Accounted(w)'
<1>1. /\ table[w] \in [Tasks -> Seq(Blocks)] /\ ref[w] \in [Blocks -> Int]
      /\ free[w] \in Seq(Blocks) /\ Counted(table[w], ref[w], free[w])
  BY DEF Shapes, Sequences3, Manager, Accounted
<1>2. Counted([table[w] EXCEPT ![t] = Append(table[w][t], b)],
              [ref[w] EXCEPT ![b] = ref[w][b] + 1], free'[w])
  BY <1>1, CountedGains
<1>3. \A u \in Tasks : status'[w][u] = "none" => table'[w][u] = <<>>
  BY <1>1 DEF Accounted
<1> QED
  BY <1>2, <1>3 DEF Accounted

LEMMA FreeBlockTaken ==
    ASSUME Shapes, NEW w \in Workers, Accounted(w), free[w] # <<>>
    PROVE  /\ Head(free[w]) \in Blocks /\ ref[w][Head(free[w])] = 0
           /\ Distinct(Tail(free[w])) /\ Elems(Tail(free[w])) = Elems(free[w]) \ {Head(free[w])}
<1>1. PICK s \in Seq(Blocks) : s = free[w] /\ s # <<>> /\ Distinct(s)
  BY OfWorker DEF Accounted, Counted
<1>2. /\ Head(s) \in Elems(s) /\ Head(s) \in Blocks
      /\ Elems(s) = {Head(s)} \cup Elems(Tail(s))
      /\ Distinct(Tail(s)) /\ Head(s) \notin Elems(Tail(s))
  BY <1>1, ElemsTail
<1>3. UsesIn(table[w], Head(s)) = {} /\ ref[w][Head(s)] = Cardinality(UsesIn(table[w], Head(s)))
  BY <1>1, <1>2 DEF Accounted, Counted
<1>4. ref[w][Head(s)] = 0
  BY <1>3, FS_EmptySet
<1> QED
  BY <1>1, <1>2, <1>4

LEMMA AccountedKept ==
    ASSUME Shapes, \A u \in Tasks : Single(u), NEW w \in Workers, Loop(w), WorkerStep(w), Accounted(w)
    PROVE  Accounted(w)'
<1>a. /\ decodeQ[w] \in Seq(Tasks) /\ batch[w] \in Seq(Tasks) /\ task[w] \in Tasks
      /\ free[w] \in Seq(Blocks)
      /\ table[w] \in [Tasks -> Seq(Blocks)] /\ ref[w] \in [Blocks -> Int]
      /\ status[w] \in [Tasks -> {"none", "WAITING", "RUNNING"}]
  BY DEF Shapes, Sequences3, Manager, Control
<1>b. /\ status \in [Workers -> [Tasks -> {"none", "WAITING", "RUNNING"}]]
      /\ table \in [Workers -> [Tasks -> Seq(Blocks)]]
      /\ ref \in [Workers -> [Blocks -> Int]] /\ free \in [Workers -> Seq(Blocks)]
  BY DEF Shapes, Sequences3, Manager
<1>1. ASSUME UNCHANGED <<table[w], ref[w], free[w]>>, NEW t \in Tasks,
             \A u \in Tasks : u # t => status'[w][u] = status[w][u],
             status'[w][t] = "none" => table[w][t] = <<>>
      PROVE  Accounted(w)'
  BY <1>1 DEF Accounted
<1>2. ASSUME UNCHANGED <<table[w], ref[w], free[w], status[w]>> PROVE Accounted(w)'
  BY <1>2 DEF Accounted
<1>3. CASE Abort(w) \/ Wait(w) \/ Receive(w) \/ PushBack(w) \/ Plan(w) \/ PutBack(w) \/ PrefillEnds(w)
           \/ Allocated(w) \/ Preempt(w) \/ DecodeEnds(w) \/ Launch(w) \/ Finish(w) \/ Fail(w)
  BY <1>2, <1>3 DEF Abort, Wait, Receive, PushBack, Plan, PutBack, PrefillEnds, Allocated, Preempt,
     DecodeEnds, Launch, Finish, Fail, blockVars
<1>4. CASE Token(w)
  <2>1. Head(batch[w]) \in Tasks
    BY <1>4, <1>a, ElemsTail DEF Token
  <2>2. /\ \A u \in Tasks : u # Head(batch[w]) => status'[w][u] = status[w][u]
        /\ status'[w][Head(batch[w])] = "RUNNING" /\ UNCHANGED <<table, ref, free>>
    BY <1>4, <1>b, <2>1 DEF Token, blockVars
  <2> QED
    BY <1>1, <2>1, <2>2
<1>5. CASE SkipAborted(w)
  <2>1. Head(queue).task \in Tasks /\ table[w][Head(queue).task] = <<>>
    BY <1>5, HeadCopy, HeadIsFree DEF SkipAborted, Active
  <2>2. /\ \A u \in Tasks : u # Head(queue).task => status'[w][u] = status[w][u]
        /\ UNCHANGED <<table, ref, free>>
    BY <1>5, <1>b, <2>1 DEF SkipAborted, blockVars
  <2> QED
    BY <1>1, <2>1, <2>2
<1>6. CASE Take(w)
  <2>1. Head(queue).task \in Tasks /\ table[w][Head(queue).task] = <<>>
    BY <1>6, HeadCopy, HeadIsFree DEF Take, Active
  <2>2. \A u \in Tasks : u # Head(queue).task => status'[w][u] = status[w][u]
    BY <1>6, <1>b, <2>1 DEF Take
  <2>3. table'[w] = [table[w] EXCEPT ![Head(queue).task] = <<>>] /\ UNCHANGED <<ref, free>>
    BY <1>6, <1>b DEF Take, blockVars
  <2>4. table'[w] = table[w]
    BY <1>a, <2>1, <2>3
  <2> QED
    BY <1>1, <2>1, <2>2, <2>3, <2>4
<1>7. CASE AllocHit(w)
  <2>1. PICK b \in Blocks :
          /\ status' = status /\ pc[w] = "alloc"
          /\ ref' = [ref EXCEPT ![w] = [ref[w] EXCEPT ![b] = ref[w][b] + 1]]
          /\ \/ b \notin Elems(free[w]) /\ UNCHANGED free
             \/ free' = [free EXCEPT ![w] = Without(free[w], b)]
          /\ table' = [table EXCEPT ![w] = [table[w] EXCEPT ![task[w]] = Append(table[w][task[w]], b)]]
    BY <1>7 DEF AllocHit, Hits, OneMore, InTable, Allocating
  <2>2. Distinct(free[w])
    BY DEF Accounted, Counted
  <2>3. /\ Distinct(Without(free[w], b)) /\ Elems(Without(free[w], b)) = Elems(free[w]) \ {b}
    BY <1>a, <2>2, ElemsWithout
  <2>4. Distinct(free'[w]) /\ Elems(free'[w]) = Elems(free[w]) \ {b}
    BY <1>b, <2>1, <2>2, <2>3
  <2>5. /\ table'[w] = [table[w] EXCEPT ![task[w]] = Append(table[w][task[w]], b)]
        /\ ref'[w] = [ref[w] EXCEPT ![b] = ref[w][b] + 1] /\ status'[w] = status[w]
    BY <1>b, <2>1
  <2>6. status[w][task[w]] # "none"
    BY <2>1 DEF Loop
  <2> QED
    BY <1>a, <2>4, <2>5, <2>6, AccountedGains
<1>8. ASSUME NEW t \in Tasks, free[w] # <<>>, status[w][t] # "none", UNCHANGED status,
             table' = [table EXCEPT ![w] = [table[w] EXCEPT ![t] = Append(table[w][t], Head(free[w]))]],
             ref' = [ref EXCEPT ![w] = [ref[w] EXCEPT ![Head(free[w])] = 1]],
             free' = [free EXCEPT ![w] = Tail(free[w])]
      PROVE  Accounted(w)'
  <2>1. PICK b \in Blocks : b = Head(free[w]) /\ ref[w][b] = 0
    BY <1>8, FreeBlockTaken
  <2>2. Distinct(free'[w]) /\ Elems(free'[w]) = Elems(free[w]) \ {b}
    BY <1>8, <1>b, <2>1, FreeBlockTaken
  <2>3. ref[w][b] + 1 = 1
    BY <2>1
  <2>4. /\ table'[w] = [table[w] EXCEPT ![t] = Append(table[w][t], b)]
        /\ ref'[w] = [ref[w] EXCEPT ![b] = ref[w][b] + 1] /\ status'[w] = status[w]
    BY <1>8, <1>b, <2>1, <2>3
  <2> QED
    BY <1>8, <2>2, <2>4, AccountedGains
<1>9. CASE AllocMiss(w)
  <2>1. free[w] # <<>>
    BY <1>9, MissHasBlock DEF AllocMiss, Loop
  <2>2. status[w][task[w]] # "none"
    BY <1>9 DEF AllocMiss, Allocating, Loop
  <2> QED
    BY <1>8, <1>9, <1>a, <2>1, <2>2 DEF AllocMiss, InTable
<1>10. CASE Append1(w)
  <2> DEFINE t == Head(decodeQ[w])
  <2>1. t \in Tasks /\ t \in Elems(decodeQ[w])
    BY <1>10, <1>a, ElemsTail DEF Append1, Decoding
  <2>2. status[w][t] # "none" /\ UNCHANGED status
    BY <1>10, <2>1 DEF Append1, Loop
  <2>3. CASE StartsBlock(w, t) /\ UNCHANGED index
    <3>1. \/ UNCHANGED <<ref, free, table>>
          \/ /\ table' = [table EXCEPT ![w] = [table[w] EXCEPT ![t] = Append(table[w][t], Head(free[w]))]]
             /\ ref' = [ref EXCEPT ![w] = [ref[w] EXCEPT ![Head(free[w])] = 1]]
             /\ free' = [free EXCEPT ![w] = Tail(free[w])]
      BY <1>10 DEF Append1, blockVars
    <3>2. free[w] # <<>>
      BY <1>10, <2>3 DEF Append1, CanAppend
    <3> QED
      BY <1>2, <1>8, <2>1, <2>2, <3>1, <3>2
  <2>4. CASE UNCHANGED <<ref, free, table>>
    BY <1>2, <2>2, <2>4
  <2> QED
    BY <1>10, <2>3, <2>4 DEF Append1, blockVars
<1>11. CASE Release(w)
  <2>1. PICK b \in Blocks : b = LastOf(table[w][task[w]])
    <3>1. table[w][task[w]] \in Seq(Blocks) /\ table[w][task[w]] # <<>>
      BY <1>11, <1>a DEF Release
    <3> QED
      BY <3>1, ElemsFront
  <2>2. /\ table[w][task[w]] # <<>> /\ status' = status
        /\ table'[w] = [table[w] EXCEPT ![task[w]] = FrontOf(table[w][task[w]])]
        /\ ref'[w] = [ref[w] EXCEPT ![b] = ref[w][b] - 1]
        /\ free'[w] = IF ref[w][b] = 1 THEN Append(free[w], b) ELSE free[w]
    BY <1>11, <1>b, <2>1 DEF Release
  <2>3. Counted([table[w] EXCEPT ![task[w]] = FrontOf(table[w][task[w]])],
                [ref[w] EXCEPT ![b] = ref[w][b] - 1],
                IF ref[w][b] = 1 THEN Append(free[w], b) ELSE free[w])
    <3>1. Counted(table[w], ref[w], free[w]) /\ b \in Blocks
      <4>1. table[w][task[w]] \in Seq(Blocks) /\ table[w][task[w]] # <<>>
        BY <1>a, <2>2
      <4> QED
        BY <2>1, <4>1, ElemsFront DEF Accounted
    <3>2. PICK tab \in [Tasks -> Seq(Blocks)], rf \in [Blocks -> Int] :
              tab = table[w] /\ rf = ref[w]
      BY <1>a
    <3>3. PICK fr \in Seq(Blocks), t \in Tasks : fr = free[w] /\ t = task[w]
      BY <1>a
    <3>4. Counted(tab, rf, fr) /\ tab[t] # <<>> /\ b = LastOf(tab[t])
      BY <2>1, <2>2, <3>1, <3>2, <3>3
    <3>5. Counted([tab EXCEPT ![t] = FrontOf(tab[t])], [rf EXCEPT ![b] = rf[b] - 1],
                  IF rf[b] = 1 THEN Append(fr, b) ELSE fr)
      BY <3>1, <3>4, CountedLoses
    <3> QED
      BY <3>2, <3>3, <3>5
  <2>4. \A u \in Tasks : status'[w][u] = "none" => table'[w][u] = <<>>
    <3>1. status[w][task[w]] # "none"
      BY <1>a, <2>2 DEF Accounted
    <3> QED
      BY <1>a, <2>2, <3>1 DEF Accounted
  <2> QED
    BY <2>2, <2>3, <2>4 DEF Accounted
<1>12. CASE Released(w)
  <2>1. /\ table[w][task[w]] = <<>> /\ UNCHANGED <<table, ref, free>>
        /\ \A u \in Tasks : u # task[w] => status'[w][u] = status[w][u]
    BY <1>12, <1>a, <1>b DEF Released, blockVars
  <2> QED
    BY <1>1, <1>a, <2>1
<1> QED
  BY <1>3, <1>4, <1>5, <1>6, <1>7, <1>9, <1>10, <1>11, <1>12 DEF WorkerStep

Exact == Places /\ \A w \in Workers : Accounted(w)

LEMMA ExactInit == Init => Exact
<1> SUFFICES ASSUME Init, NEW w \in Workers PROVE Accounted(w)
  BY PlacesInit DEF Exact
<1>1. /\ table[w] = [t \in Tasks |-> <<>>] /\ ref[w] = [b \in Blocks |-> 0]
      /\ free[w] = [i \in 1..NumBlocks |-> i]
  BY DEF Init
<1>2. \A b : UsesIn(table[w], b) = {}
  BY <1>1, UsesMembers
<1>3. DOMAIN free[w] = Blocks /\ \A i \in Blocks : free[w][i] = i
  BY <1>1 DEF Blocks
<1>4. Distinct(free[w]) /\ Elems(free[w]) = Blocks
  BY <1>3 DEF Distinct, Elems
<1>5. \A b \in Blocks : ref[w][b] = 0
  BY <1>1
<1> QED
  BY <1>1, <1>2, <1>4, <1>5, FS_EmptySet DEF Accounted, Counted

LEMMA ExactStep == Exact /\ [Next]_vars => Exact'
<1> SUFFICES ASSUME Exact, [Next]_vars, NEW w \in Workers PROVE Accounted(w)'
  BY PlacesStep DEF Exact
<1>1. Places /\ Accounted(w) /\ Shapes /\ Loop(w) /\ \A t \in Tasks : Single(t)
  BY DEF Exact, Places
<1>2. Same(w) => Accounted(w)'
  BY <1>1 DEF Same, Accounted
<1>3. ASSUME NEW v \in Workers, WorkerStep(v) PROVE Accounted(w)'
  BY <1>1, <1>2, <1>3, Elsewhere, AccountedKept
<1>4. ASSUME NEW t \in Tasks, Submit(t) \/ Cancel(t) PROVE Same(w)
  BY <1>4 DEF Submit, Cancel, blockVars, localVars, Same
<1>5. CASE UNCHANGED vars
  BY <1>2, <1>5 DEF vars, blockVars, localVars, Same
<1> QED
  BY <1>2, <1>3, <1>4, <1>5 DEF Next

\* Whatever is admitted, preempted, aborted, failed and finished, on any number
\* of workers and with any number of blocks: every reference count is the number
\* of places of its block, and the free list holds exactly the blocks nobody uses
\* (block_manager.cpp, allocate, deallocate, mayAppend).
THEOREM BlocksAccountedHolds == Spec => []BlocksAccounted
<1>1. Exact => BlocksAccounted
  <2> SUFFICES ASSUME Exact, NEW w \in Workers
               PROVE  /\ \A b \in Blocks :
                           /\ ref[w][b] = Cardinality(Uses(w, b))
                           /\ b \in Elems(free[w]) <=> Uses(w, b) = {}
                      /\ Distinct(free[w])
                      /\ \A t \in Tasks : status[w][t] = "none" => table[w][t] = <<>>
    BY DEF BlocksAccounted
  <2>1. Accounted(w)
    BY DEF Exact
  <2>2. \A b : Uses(w, b) = UsesIn(table[w], b)
    BY DEF Uses, UsesIn
  <2> QED
    BY <2>1, <2>2 DEF Accounted, Counted
<1> QED
  BY <1>1, ExactInit, ExactStep, PTL DEF Spec

-----------------------------------------------------------------------------
(* No request is lost, and each copy has the tokens its client has.         *)

\* worker w decodes or allocates t, or is about to push its copy
Working(w, t) ==
    \/ t \in Elems(decodeQ[w]) \cup Elems(batch[w])
    \/ pc[w] = "alloc" /\ task[w] = t
    \/ pc[w] = "release" /\ after[w] = "preempt" /\ task[w] = t
CopiesHave(s, t, n) == \A c \in Elems(s) : c.task = t => c.gen = n

\* the marks and messages of a worker are of requests that were cancelled
Marked ==
    /\ pending \in [Workers -> SUBSET Tasks] /\ cancelQ \in [Workers -> Seq(Tasks)]
    /\ \A w \in Workers : Elems(cancelQ[w]) \cup pending[w] \subseteq cancelled
    /\ dead \in [Workers -> BOOLEAN]
    /\ emitted \in [Tasks -> Nat]
Wanted(t) == t \in sent /\ t \notin ended \cup cancelled /\ \A w \in Workers : ~dead[w]
Somewhere(t) == t \in TasksOf(queue) \/ \E w \in Workers : Holds(w, t) \/ Working(w, t)
UpToDate(t) ==
    /\ CopiesHave(queue, t, emitted[t])
    /\ \A w \in Workers : CopiesHave(hold[w], t, emitted[t])
    /\ \A w \in Workers : Working(w, t) => gen[w][t] = emitted[t]
    /\ t \notin sent => emitted[t] = 0

Whole ==
    /\ Places /\ Marked
    /\ \A t \in Tasks : (Wanted(t) => Somewhere(t)) /\ UpToDate(t)

LEMMA MarkedKept == Shapes /\ Marked /\ [Next]_vars => Marked'
<1> SUFFICES ASSUME Shapes, Marked, [Next]_vars PROVE Marked'
  OBVIOUS
<1> USE DEF Marked
<1>1. ASSUME NEW t \in Tasks, Submit(t) PROVE Marked'
  BY <1>1 DEF Submit, outVars
<1>2. ASSUME NEW t \in Tasks, Cancel(t) PROVE Marked'
  <2>1. /\ UNCHANGED <<pending, dead, emitted>> /\ cancelled' = cancelled \cup {t}
        /\ cancelQ' = [w \in Workers |-> Append(cancelQ[w], t)]
    BY <1>2 DEF Cancel, outVars
  <2>2. \A w \in Workers : /\ Append(cancelQ[w], t) \in Seq(Tasks)
                           /\ Elems(Append(cancelQ[w], t)) = Elems(cancelQ[w]) \cup {t}
    BY ElemsAppend
  <2> QED
    BY <2>1, <2>2
<1>3. ASSUME NEW w \in Workers, Abort(w) PROVE Marked'
  <2> DEFINE t == Head(cancelQ[w])
  <2>1. /\ t \in Elems(cancelQ[w]) /\ t \in Tasks /\ Tail(cancelQ[w]) \in Seq(Tasks)
        /\ Elems(cancelQ[w]) = {t} \cup Elems(Tail(cancelQ[w]))
    BY <1>3, ElemsTail DEF Abort
  <2>2. /\ UNCHANGED <<cancelled, dead, emitted>>
        /\ cancelQ' = [cancelQ EXCEPT ![w] = Tail(cancelQ[w])]
        /\ pending' = pending \/ pending' = [pending EXCEPT ![w] = pending[w] \cup {t}]
    BY <1>3 DEF Abort, outVars, serverVars
  <2>3. pending[w] \cup {t} \in SUBSET Tasks /\ t \in cancelled
    BY <2>1
  <2> HIDE DEF t
  <2>4. /\ cancelQ' \in [Workers -> Seq(Tasks)]
        /\ \A v \in Workers : Elems(cancelQ'[v]) \subseteq cancelled
    <3>1. cancelQ' \in [Workers -> Seq(Tasks)]
      BY <2>1, <2>2
    <3>2. /\ cancelQ'[w] = Tail(cancelQ[w])
          /\ \A v \in Workers \ {w} : cancelQ'[v] = cancelQ[v]
      BY <2>2
    <3> QED
      BY <2>1, <3>1, <3>2
  <2>5. pending' \in [Workers -> SUBSET Tasks] /\ \A v \in Workers : pending'[v] \subseteq cancelled
    BY <2>2, <2>3
  <2> QED
    BY <2>2, <2>4, <2>5
<1>4. ASSUME NEW w \in Workers, NEW less \in SUBSET pending[w],
             pending' = [pending EXCEPT ![w] = less], UNCHANGED <<cancelQ, cancelled, dead, emitted>>
      PROVE  Marked'
  BY <1>4
<1>5. ASSUME NEW w \in Workers, SkipAborted(w) \/ DecodeEnds(w) PROVE Marked'
  <2>1. UNCHANGED <<cancelQ, cancelled, dead, emitted>>
    BY <1>5 DEF SkipAborted, DecodeEnds, outVars, serverVars
  <2>2. \/ pending' = pending
        \/ \E less \in SUBSET pending[w] : pending' = [pending EXCEPT ![w] = less]
    BY <1>5 DEF SkipAborted, DecodeEnds
  <2> QED
    BY <1>4, <2>1, <2>2
<1>6. ASSUME NEW w \in Workers, Launch(w) PROVE Marked'
  <2>1. UNCHANGED <<cancelQ, cancelled, pending, emitted>>
    BY <1>6 DEF Launch, serverVars
  <2>2. dead' = dead \/ dead' = [dead EXCEPT ![w] = TRUE]
    BY <1>6 DEF Launch
  <2> QED
    BY <2>1, <2>2
<1>7. ASSUME NEW w \in Workers, Token(w) \/ Finish(w) PROVE Marked'
  <2>1. Head(batch[w]) \in Tasks
    BY <1>7, OfWorker, ElemsTail DEF Token, Finish
  <2>2. /\ UNCHANGED <<cancelQ, cancelled, pending, dead>>
        /\ emitted' = [emitted EXCEPT ![Head(batch[w])] = emitted[Head(batch[w])] + 1]
    BY <1>7 DEF Token, Finish, NextToken, serverVars
  <2> QED
    BY <2>1, <2>2
<1>8. CASE UNCHANGED <<cancelQ, cancelled, pending, dead, emitted>>
  BY <1>8
<1>9. ASSUME NEW w \in Workers,
             Wait(w) \/ Receive(w) \/ PushBack(w) \/ Plan(w) \/ PutBack(w) \/ Take(w) \/ PrefillEnds(w)
      PROVE  Marked'
  BY <1>8, <1>9 DEF Wait, Receive, PushBack, Plan, PutBack, Take, PrefillEnds, serverVars, outVars
<1>10. ASSUME NEW w \in Workers,
              AllocHit(w) \/ AllocMiss(w) \/ Allocated(w) \/ Append1(w) \/ Preempt(w) \/ Fail(w)
                  \/ Release(w) \/ Released(w)
       PROVE  Marked'
  <2>1. UNCHANGED <<cancelQ, cancelled, pending, dead, emitted>>
    BY <1>10 DEF AllocHit, AllocMiss, Allocated, Append1, Preempt, Fail, Release, Released,
       serverVars, outVars
  <2> QED
    BY <1>8, <2>1
<1>11. CASE UNCHANGED vars
  BY <1>8, <1>11 DEF vars, serverVars, outVars
<1> QED
  BY <1>1, <1>2, <1>3, <1>5, <1>6, <1>7, <1>9, <1>10, <1>11 DEF Next, WorkerStep

\* what a step does to the lists of its worker
LEMMA WorkingStep ==
    ASSUME Shapes, NEW t \in Tasks, NEW w \in Workers, Loop(w), WorkerStep(w)
    PROVE  /\ Working(w, t)' => Working(w, t) \/ (Take(w) /\ t = Head(queue).task)
           /\ Working(w, t) => \/ Working(w, t)'
                               \/ Abort(w) /\ t = Head(cancelQ[w])
                               \/ t \in ended'
                               \/ dead[w]
                               \/ Released(w) /\ after[w] = "preempt" /\ t = task[w]
<1>a. /\ decodeQ[w] \in Seq(Tasks) /\ batch[w] \in Seq(Tasks) /\ task[w] \in Tasks
  BY OfWorker
<1> USE DEF Shapes, Sequences3, Manager, Control
<1>1. CASE Abort(w)
  <2>1. /\ UNCHANGED batch[w] /\ pc[w] = "idle"
        /\ \/ UNCHANGED <<decodeQ[w], pc[w], after[w], task[w]>>
           \/ /\ after'[w] = "erase" /\ pc'[w] = "release"
              /\ decodeQ'[w] = Without(decodeQ[w], Head(cancelQ[w]))
    BY <1>1 DEF Abort, Unlinked, ReleaseThen
  <2>2. Elems(Without(decodeQ[w], Head(cancelQ[w]))) = Elems(decodeQ[w]) \ {Head(cancelQ[w])}
    <3>1. Distinct(decodeQ[w])
      BY DEF Loop
    <3> QED
      BY <1>a, <3>1, ElemsWithout
  <2> QED
    BY <1>1, <2>1, <2>2 DEF Working
<1>2. CASE Wait(w) \/ Receive(w) \/ PushBack(w) \/ Plan(w) \/ SkipAborted(w) \/ PutBack(w)
           \/ PrefillEnds(w) \/ DecodeEnds(w)
  <2>1. /\ UNCHANGED <<decodeQ[w], batch[w]>>
        /\ pc[w] # "alloc" /\ pc[w] # "release" /\ pc'[w] # "alloc" /\ pc'[w] # "release"
    BY <1>2 DEF Wait, Receive, PushBack, Plan, SkipAborted, PutBack, PrefillEnds, DecodeEnds,
       AfterPrefill
  <2> QED
    BY <2>1 DEF Working
<1>3. CASE Launch(w)
  <2>1. /\ UNCHANGED decodeQ[w] /\ (batch'[w] = batch[w] \/ (dead[w] /\ batch'[w] = <<>>))
        /\ pc[w] # "alloc" /\ pc[w] # "release" /\ pc'[w] # "alloc" /\ pc'[w] # "release"
    BY <1>3 DEF Launch
  <2>2. Elems(<<>>) = {}
    BY DEF Elems
  <2> QED
    BY <2>1, <2>2 DEF Working
<1>4. CASE AllocHit(w) \/ AllocMiss(w) \/ Release(w)
  <2>1. UNCHANGED <<decodeQ[w], batch[w], pc[w], task[w], after[w]>>
    BY <1>4 DEF AllocHit, AllocMiss, Release
  <2> QED
    BY <2>1 DEF Working
<1>5. CASE Take(w)
  <2>1. /\ UNCHANGED <<decodeQ[w], batch[w]>> /\ pc[w] = "prefill" /\ pc'[w] = "alloc"
        /\ task'[w] = Head(queue).task
    BY <1>5 DEF Take
  <2> QED
    BY <1>5, <2>1 DEF Working
<1>6. CASE Allocated(w)
  <2>1. /\ UNCHANGED decodeQ[w] /\ pc[w] = "alloc" /\ pc'[w] = "prefill"
        /\ batch'[w] = Append(batch[w], task[w])
    BY <1>6 DEF Allocated
  <2>2. Elems(batch'[w]) = Elems(batch[w]) \cup {task[w]}
    BY <1>a, <2>1, ElemsAppend
  <2> QED
    BY <2>1, <2>2 DEF Working
<1>7. CASE Append1(w)
  <2> DEFINE u == Head(decodeQ[w])
  <2>1. /\ UNCHANGED <<pc[w]>> /\ pc[w] = "decode"
        /\ decodeQ[w] # <<>> /\ decodeQ'[w] = Tail(decodeQ[w])
        /\ batch'[w] = Append(batch[w], u)
    BY <1>7 DEF Append1, Decoding
  <2>2. u \in Tasks /\ Elems(decodeQ[w]) = {u} \cup Elems(decodeQ'[w])
    BY <1>a, <2>1, ElemsTail
  <2>3. Elems(batch'[w]) = Elems(batch[w]) \cup {u}
    BY <1>a, <2>1, <2>2, ElemsAppend
  <2> QED
    BY <2>1, <2>2, <2>3 DEF Working
<1>8. CASE Preempt(w)
  <2>1. /\ UNCHANGED batch[w] /\ decodeQ[w] # <<>> /\ decodeQ'[w] = FrontOf(decodeQ[w])
        /\ pc[w] = "decode" /\ pc'[w] = "release" /\ after'[w] = "preempt"
        /\ task'[w] = LastOf(decodeQ[w])
    BY <1>8 DEF Preempt, Decoding, ReleaseThen
  <2>2. PICK s \in Seq(Tasks) : s = decodeQ[w] /\ s # <<>>
    BY <1>a, <2>1
  <2>3. Elems(s) = {LastOf(s)} \cup Elems(FrontOf(s))
    BY <2>2, ElemsFront
  <2> QED
    BY <2>1, <2>2, <2>3 DEF Working
<1>9. CASE Token(w)
  <2> DEFINE u == Head(batch[w])
  <2>1. /\ batch[w] # <<>> /\ batch'[w] = Tail(batch[w]) /\ decodeQ'[w] = Append(decodeQ[w], u)
        /\ pc[w] = "run" /\ pc'[w] \in {"idle", "run"}
    BY <1>9 DEF Token
  <2>2. u \in Tasks /\ Elems(batch[w]) = {u} \cup Elems(batch'[w])
    BY <1>a, <2>1, ElemsTail
  <2>3. Elems(decodeQ'[w]) = Elems(decodeQ[w]) \cup {u}
    BY <1>a, <2>1, <2>2, ElemsAppend
  <2> HIDE DEF u
  <2>4. Elems(decodeQ'[w]) \cup Elems(batch'[w]) = Elems(decodeQ[w]) \cup Elems(batch[w])
    BY <2>2, <2>3
  <2>5. Working(w, t)' <=> Working(w, t)
    BY <2>1, <2>4 DEF Working
  <2> QED
    BY <2>5
<1>10. CASE Finish(w) \/ Fail(w)
  <2> DEFINE u == Head(batch[w])
  <2>1. /\ batch[w] # <<>> /\ batch'[w] = Tail(batch[w]) /\ UNCHANGED decodeQ[w] /\ u \in ended'
        /\ pc[w] = "run" /\ pc'[w] = "release" /\ after'[w] = "erase"
    BY <1>10 DEF Finish, Fail, ReleaseThen
  <2>2. u \in Tasks /\ Elems(batch[w]) = {u} \cup Elems(batch'[w])
    BY <1>a, <2>1, ElemsTail
  <2> QED
    BY <2>1, <2>2 DEF Working
<1>11. CASE Released(w)
  <2>1. /\ UNCHANGED <<decodeQ[w], batch[w], task[w], after[w]>> /\ pc[w] = "release"
        /\ pc'[w] \in {"decode", "idle", "run"}
    BY <1>11 DEF Released
  <2> QED
    BY <1>11, <2>1 DEF Working
<1> QED
  BY <1>1, <1>2, <1>3, <1>4, <1>5, <1>6, <1>7, <1>8, <1>9, <1>10, <1>11 DEF WorkerStep

LEMMA TasksElems == \A s : TasksOf(s) = {c.task : c \in Elems(s)}
  BY DEF TasksOf, Elems

\* what a step does to the task queue
LEMMA QueueStep ==
    ASSUME Shapes, NEW w \in Workers, Loop(w), WorkerStep(w)
    PROVE  \/ queue' = queue /\ UNCHANGED hold
           \/ /\ queue # <<>> /\ queue' = Tail(queue) /\ SkipAborted(w) /\ UNCHANGED hold
           \/ /\ queue # <<>> /\ queue' = Tail(queue) /\ Take(w) /\ UNCHANGED hold
           \/ /\ queue # <<>> /\ queue' = Tail(queue) /\ hold'[w] = <<Head(queue)>> /\ hold[w] = <<>>
           \/ /\ queue # <<>> /\ queue' = Append(Tail(queue), Head(queue)) /\ UNCHANGED hold
           \/ \E c \in Copies : hold[w] = <<c>> /\ queue' = Append(queue, c) /\ hold'[w] = <<>>
           \/ /\ Released(w) /\ after[w] = "preempt" /\ pc[w] = "release" /\ UNCHANGED hold
              /\ queue' = Append(queue, [task |-> task[w], gen |-> gen[w][task[w]]])
<1>1. CASE Receive(w)
  <2>1. /\ queue # <<>> /\ queue' = Tail(queue) /\ hold'[w] = <<Head(queue)>> /\ hold[w] = <<>>
    BY <1>1 DEF Receive, Loop, Shapes, Control
  <2> QED
    BY <2>1
<1>2. CASE PushBack(w)
  <2>1. /\ queue' = queue \o hold[w] /\ hold'[w] = <<>> /\ Len(hold[w]) = 1
    BY <1>2 DEF PushBack, Loop, Shapes, Control
  <2>2. queue \in Seq(Copies) /\ hold[w] \in Seq(Copies)
    BY OfWorker
  <2>3. PICK c \in Copies : hold[w] = <<c>>
    <3>1. hold[w][1] \in Copies /\ hold[w] = <<hold[w][1]>>
      BY <2>1, <2>2
    <3> QED
      BY <3>1
  <2>4. queue' = Append(queue, c)
    BY <2>1, <2>2, <2>3
  <2> QED
    BY <2>1, <2>3, <2>4
<1>3. CASE SkipAborted(w)
  BY <1>3 DEF SkipAborted, localVars
<1>4. CASE Take(w)
  BY <1>4 DEF Take
<1>5. CASE PutBack(w)
  BY <1>5 DEF PutBack, Returned, localVars
<1>6. CASE Released(w)
  BY <1>6 DEF Released, localVars
<1>7. CASE UNCHANGED <<queue, hold>>
  BY <1>7
<1> QED
  BY <1>1, <1>2, <1>3, <1>4, <1>5, <1>6, <1>7 DEF WorkerStep, Abort, Wait, Plan, PrefillEnds,
     AllocHit, AllocMiss, Allocated, Append1, Preempt, DecodeEnds, Launch, Token, Finish, Fail,
     Release, localVars

LEMMA SomewhereKept ==
    ASSUME Shapes, Marked, NEW w \in Workers, Loop(w), WorkerStep(w), NEW t \in Tasks,
           Wanted(t) => Somewhere(t), Wanted(t)'
    PROVE  Somewhere(t)'
<1>1. Wanted(t) /\ t \notin ended' \cup cancelled /\ \A v \in Workers : ~dead[v]
  <2>1. UNCHANGED <<sent, cancelled>>
    BY DEF WorkerStep, Abort, Wait, Receive, PushBack, Plan, SkipAborted, PutBack, Take,
       PrefillEnds, AllocHit, AllocMiss, Allocated, Append1, Preempt, DecodeEnds, Launch, Token,
       Finish, Fail, Release, Released, serverVars
  <2>2. ended \subseteq ended'
    BY DEF WorkerStep, Abort, Wait, Receive, PushBack, Plan, SkipAborted, PutBack, Take,
       PrefillEnds, AllocHit, AllocMiss, Allocated, Append1, Preempt, DecodeEnds, Launch, Token,
       Finish, Fail, Release, Released, outVars
  <2>3. dead' = dead \/ dead' = [dead EXCEPT ![w] = TRUE]
    BY DEF WorkerStep, Abort, Wait, Receive, PushBack, Plan, SkipAborted, PutBack, Take,
       PrefillEnds, AllocHit, AllocMiss, Allocated, Append1, Preempt, DecodeEnds, Launch, Token,
       Finish, Fail, Release, Released, outVars
  <2>4. \A v \in Workers : dead[v] => dead'[v]
    BY <2>3 DEF Marked
  <2> QED
    BY <2>1, <2>2, <2>4 DEF Wanted
<1>2. queue \in Seq(Copies) /\ task[w] \in Tasks /\ gen[w][task[w]] \in Nat
  BY OfWorker
<1>3. queue # <<>> => /\ Head(queue) \in Copies /\ Tail(queue) \in Seq(Copies)
                      /\ TasksOf(queue) = {Head(queue).task} \cup TasksOf(Tail(queue))
  BY <1>2, TasksTail
<1>4. ASSUME NEW v \in Workers, v # w, Holds(v, t) \/ Working(v, t) PROVE Somewhere(t)'
  <2>1. Same(v)
    BY <1>4, Elsewhere
  <2>2. Holds(v, t)' \/ Working(v, t)'
    BY <1>4, <2>1 DEF Same, Holds, Working, Elems, TasksOf
  <2> QED
    BY <2>2 DEF Somewhere
<1>5. CASE Working(w, t)
  <2>1. ~(Abort(w) /\ t = Head(cancelQ[w]))
    <3>1. Abort(w) => Head(cancelQ[w]) \in cancelled
      BY ElemsTail DEF Abort, Marked
    <3> QED
      BY <1>1, <3>1
  <2>2. CASE Working(w, t)'
    BY <2>2 DEF Somewhere
  <2>3. CASE Released(w) /\ after[w] = "preempt" /\ t = task[w]
    <3>1. PICK c \in Copies : c = [task |-> task[w], gen |-> gen[w][task[w]]]
      BY <1>2 DEF Copies
    <3>2. queue' = Append(queue, c) /\ c.task = t
      BY <2>3, <3>1 DEF Released
    <3> QED
      BY <1>2, <3>2, TasksAppend DEF Somewhere
  <2> QED
    BY <1>1, <1>5, <2>1, <2>2, <2>3, WorkingStep
<1>6. CASE Holds(w, t)
  <2>1. TasksOf(<<>>) = {}
    BY DEF TasksOf
  <2>2. ASSUME UNCHANGED hold PROVE Somewhere(t)'
    BY <1>6, <2>2 DEF Holds, Somewhere
  <2>3. ASSUME NEW c \in Copies, hold[w] = <<c>>, queue' = Append(queue, c) PROVE Somewhere(t)'
    <3>1. t = c.task
      BY <1>6, <2>3 DEF Holds, TasksOf
    <3> QED
      BY <1>2, <2>3, <3>1, TasksAppend DEF Somewhere
  <2> QED
    BY <1>6, <2>1, <2>2, <2>3, QueueStep DEF Holds
<1>7. CASE t \in TasksOf(queue)
  <2>0. queue # <<>>
    BY <1>7 DEF TasksOf
  <2>1. CASE queue' = queue
    BY <1>7, <2>1 DEF Somewhere
  <2>2. CASE queue' = Tail(queue) /\ SkipAborted(w)
    <3>1. Head(queue).task \in cancelled
      BY <2>2 DEF SkipAborted, Marked
    <3> QED
      BY <1>1, <1>3, <1>7, <2>0, <2>2, <3>1 DEF Somewhere
  <2>3. CASE queue' = Tail(queue) /\ Take(w)
    <3>1. t = Head(queue).task => Working(w, t)'
      BY <2>3 DEF Take, Working, Shapes, Control
    <3> QED
      BY <1>3, <1>7, <2>0, <2>3, <3>1 DEF Somewhere
  <2>4. CASE queue' = Tail(queue) /\ hold'[w] = <<Head(queue)>>
    <3>1. t = Head(queue).task => Holds(w, t)'
      BY <2>4 DEF Holds, TasksOf
    <3> QED
      BY <1>3, <1>7, <2>0, <2>4, <3>1 DEF Somewhere
  <2>5. CASE queue' = Append(Tail(queue), Head(queue))
    <3>1. TasksOf(queue') = TasksOf(Tail(queue)) \cup {Head(queue).task}
      BY <1>3, <2>0, <2>5, TasksAppend
    <3> QED
      BY <1>3, <1>7, <2>0, <3>1 DEF Somewhere
  <2>6. ASSUME NEW c \in Copies, queue' = Append(queue, c) PROVE Somewhere(t)'
    BY <1>2, <1>7, <2>6, TasksAppend DEF Somewhere
  <2>7. [task |-> task[w], gen |-> gen[w][task[w]]] \in Copies
    BY <1>2 DEF Copies
  <2> QED
    BY <2>1, <2>2, <2>3, <2>4, <2>5, <2>6, <2>7, QueueStep
<1> QED
  BY <1>1, <1>4, <1>5, <1>6, <1>7 DEF Somewhere

\* only a token of t changes what its client has, and only a copy of t that is
\* taken changes what its worker has otherwise
LEMMA TokensStep ==
    ASSUME Shapes, Marked, NEW w \in Workers, WorkerStep(w), NEW t \in Tasks
    PROVE  \/ /\ Token(w) \/ Finish(w)
              /\ t \in Elems(batch[w]) /\ emitted'[t] = emitted[t] + 1 /\ gen'[w][t] = gen[w][t] + 1
              /\ UNCHANGED <<queue, hold>>
           \/ emitted'[t] = emitted[t] /\ gen'[w][t] = gen[w][t]
           \/ /\ Take(w) /\ t = Head(queue).task /\ emitted'[t] = emitted[t]
              /\ gen'[w][t] = Head(queue).gen
<1> USE DEF Shapes, Sequences3
<1>1. CASE Token(w) \/ Finish(w)
  <2>1. Head(batch[w]) \in Elems(batch[w]) /\ Head(batch[w]) \in Tasks
    BY <1>1, OfWorker, ElemsTail DEF Token, Finish
  <2>2. NextToken(w, Head(batch[w])) /\ UNCHANGED <<queue, hold>>
    BY <1>1 DEF Token, Finish, localVars
  <2>3. CASE t = Head(batch[w])
    BY <1>1, <2>1, <2>2, <2>3 DEF NextToken, Marked
  <2>4. CASE t # Head(batch[w])
    BY <2>1, <2>2, <2>4 DEF NextToken, Marked
  <2> QED
    BY <2>3, <2>4
<1>2. CASE Take(w)
  <2>1. Head(queue).task \in Tasks
    BY <1>2, HeadCopy DEF Take
  <2>2. emitted' = emitted
        /\ gen' = [gen EXCEPT ![w] = [gen[w] EXCEPT ![Head(queue).task] = Head(queue).gen]]
    BY <1>2 DEF Take, outVars
  <2>3. CASE t = Head(queue).task
    BY <1>2, <2>1, <2>2, <2>3
  <2>4. CASE t # Head(queue).task
    BY <2>1, <2>2, <2>4
  <2> QED
    BY <2>3, <2>4
<1>3. CASE UNCHANGED <<emitted, gen>>
  BY <1>3
<1> QED
  BY <1>1, <1>2, <1>3 DEF WorkerStep, Abort, Wait, Receive, PushBack, Plan, SkipAborted, PutBack,
     PrefillEnds, AllocHit, AllocMiss, Allocated, Append1, Preempt, DecodeEnds, Launch, Fail,
     Release, Released, outVars

LEMMA UpToDateKept ==
    ASSUME Shapes, Marked, \A u \in Tasks : Single(u), NEW w \in Workers, Loop(w), WorkerStep(w),
           NEW t \in Tasks, UpToDate(t)
    PROVE  UpToDate(t)'
<1>a. sent' = sent
  BY DEF WorkerStep, Abort, Wait, Receive, PushBack, Plan, SkipAborted, PutBack, Take,
     PrefillEnds, AllocHit, AllocMiss, Allocated, Append1, Preempt, DecodeEnds, Launch, Token,
     Finish, Fail, Release, Released, serverVars
<1>b. \A v \in Workers : v # w => Same(v)
  BY Elsewhere
<1>c. ASSUME NEW v \in Workers, v # w
      PROVE  hold'[v] = hold[v] /\ (Working(v, t)' <=> Working(v, t)) /\ gen'[v][t] = gen[v][t]
  BY <1>b, <1>c DEF Same, Working, Elems
<1>d. queue \in Seq(Copies) /\ hold[w] \in Seq(Copies) /\ task[w] \in Tasks /\ gen[w][task[w]] \in Nat
  BY OfWorker
<1>e. /\ CopiesHave(queue, t, emitted[t]) /\ \A v \in Workers : CopiesHave(hold[v], t, emitted[t])
      /\ \A v \in Workers : Working(v, t) => gen[v][t] = emitted[t]
      /\ t \notin sent => emitted[t] = 0
  BY DEF UpToDate
<1>1. CASE /\ t \in Elems(batch[w]) /\ emitted'[t] = emitted[t] + 1 /\ gen'[w][t] = gen[w][t] + 1
           /\ UNCHANGED <<queue, hold>>
  <2>1. Active(w, t) /\ Working(w, t)
    BY <1>1 DEF Active, Working
  <2>2. /\ t \in sent /\ t \notin TasksOf(queue)
        /\ \A v \in Workers : ~Holds(v, t) /\ (v # w => ~Working(v, t))
    BY <2>1 DEF Single, Active, Working
  <2>3. CopiesHave(queue, t, emitted'[t]) /\ \A v \in Workers : CopiesHave(hold[v], t, emitted'[t])
    BY <2>2, TasksElems DEF CopiesHave, Holds
  <2>4. \A v \in Workers : Working(v, t)' => gen'[v][t] = emitted'[t]
    BY <1>1, <1>c, <1>e, <2>1, <2>2
  <2> QED
    BY <1>1, <1>a, <2>2, <2>3, <2>4 DEF UpToDate
<1>2. CASE /\ emitted'[t] = emitted[t]
           /\ \/ gen'[w][t] = gen[w][t] /\ ~(Take(w) /\ t = Head(queue).task)
              \/ Take(w) /\ t = Head(queue).task /\ gen'[w][t] = Head(queue).gen
  <2>1. queue # <<>> => /\ Head(queue) \in Copies /\ Tail(queue) \in Seq(Copies)
                        /\ Elems(queue) = {Head(queue)} \cup Elems(Tail(queue))
    BY <1>d, ElemsTail
  <2>2. CopiesHave(queue', t, emitted[t])
    <3>1. CASE queue' = queue
      BY <1>e, <3>1
    <3>2. CASE queue # <<>> /\ queue' = Tail(queue)
      BY <1>e, <2>1, <3>2 DEF CopiesHave
    <3>3. CASE queue # <<>> /\ queue' = Append(Tail(queue), Head(queue))
      <4>0. PICK s \in Seq(Copies), c \in Copies : s = Tail(queue) /\ c = Head(queue)
        BY <2>1, <3>3
      <4>1. Elems(Append(s, c)) = Elems(s) \cup {c}
        BY ElemsAppend
      <4>2. Elems(queue') = Elems(queue)
        BY <2>1, <3>3, <4>0, <4>1
      <4> QED
        BY <1>e, <4>2 DEF CopiesHave
    <3>4. ASSUME NEW c \in Copies, queue' = Append(queue, c), c.task = t => c.gen = emitted[t]
          PROVE  CopiesHave(queue', t, emitted[t])
      <4>1. Elems(queue') = Elems(queue) \cup {c}
        BY <1>d, <3>4, ElemsAppend
      <4> QED
        BY <1>e, <3>4, <4>1 DEF CopiesHave
    <3>5. ASSUME NEW c \in Copies, hold[w] = <<c>> PROVE c.task = t => c.gen = emitted[t]
      <4>1. c \in Elems(hold[w])
        BY <3>5 DEF Elems
      <4> QED
        BY <1>e, <4>1 DEF CopiesHave
    <3>6. CASE /\ Released(w) /\ after[w] = "preempt" /\ pc[w] = "release"
               /\ queue' = Append(queue, [task |-> task[w], gen |-> gen[w][task[w]]])
      <4>1. PICK c \in Copies : c = [task |-> task[w], gen |-> gen[w][task[w]]]
        BY <1>d DEF Copies
      <4>2. c.task = task[w] /\ c.gen = gen[w][task[w]]
        BY <4>1
      <4>3. t = task[w] => gen[w][t] = emitted[t]
        BY <1>e, <3>6 DEF Working
      <4> QED
        BY <3>4, <3>6, <4>1, <4>2, <4>3
    <3> QED
      BY <3>1, <3>2, <3>3, <3>4, <3>5, <3>6, QueueStep
  <2>3. CopiesHave(hold'[w], t, emitted[t])
    <3>1. CASE hold'[w] = <<>>
      BY <3>1 DEF CopiesHave, Elems
    <3>2. CASE queue # <<>> /\ hold'[w] = <<Head(queue)>>
      <4>1. Elems(hold'[w]) = {Head(queue)}
        BY <3>2 DEF Elems
      <4> QED
        BY <1>e, <2>1, <3>2, <4>1 DEF CopiesHave
    <3>3. CASE hold' = hold
      BY <1>e, <3>3
    <3> QED
      BY <3>1, <3>2, <3>3, QueueStep
  <2>4. Working(w, t)' => gen'[w][t] = emitted[t]
    <3>1. CASE Take(w) /\ t = Head(queue).task
      <4>1. Head(queue) \in Elems(queue)
        BY <2>1, <3>1 DEF Take
      <4> QED
        BY <1>2, <1>e, <3>1, <4>1 DEF CopiesHave
    <3>2. CASE ~(Take(w) /\ t = Head(queue).task)
      BY <1>2, <1>e, <3>2, WorkingStep
    <3> QED
      BY <3>1, <3>2
  <2>5. /\ \A v \in Workers : CopiesHave(hold'[v], t, emitted'[t])
        /\ \A v \in Workers : Working(v, t)' => gen'[v][t] = emitted'[t]
    BY <1>2, <1>c, <1>e, <2>3, <2>4
  <2> QED
    BY <1>2, <1>a, <1>e, <2>2, <2>5 DEF UpToDate, CopiesHave, Elems
<1>3. Take(w) /\ t = Head(queue).task => gen'[w][t] = Head(queue).gen
  BY HeadCopy DEF Take, Shapes, Sequences3
<1> QED
  BY <1>1, <1>2, <1>3, TokensStep

LEMMA WholeInit == Init => Whole
<1> SUFFICES ASSUME Init PROVE Whole
  OBVIOUS
<1> USE DEF Init
<1>1. Marked
  <2>1. Elems(<<>>) = {}
    BY DEF Elems
  <2> QED
    BY <2>1 DEF Marked
<1>2. ASSUME NEW t \in Tasks PROVE ~Wanted(t) /\ UpToDate(t)
  <2>1. \A n : CopiesHave(<<>>, t, n)
    BY DEF CopiesHave, Elems
  <2>2. \A w \in Workers : ~Working(w, t)
    BY DEF Working, Elems
  <2> QED
    BY <2>1, <2>2 DEF Wanted, UpToDate
<1> QED
  BY <1>1, <1>2, PlacesInit DEF Whole

LEMMA WholeStep == Whole /\ [Next]_vars => Whole'
<1> SUFFICES ASSUME Whole, [Next]_vars, NEW t \in Tasks
             PROVE  (Wanted(t)' => Somewhere(t)') /\ UpToDate(t)'
  BY PlacesStep, MarkedKept DEF Whole, Places
<1>1. /\ Marked /\ Shapes /\ (\A u \in Tasks : Single(u)) /\ \A w \in Workers : Loop(w)
  BY DEF Whole, Places
<1>2. (Wanted(t) => Somewhere(t)) /\ UpToDate(t)
  BY DEF Whole
<1>3. ASSUME NEW w \in Workers, WorkerStep(w) PROVE (Wanted(t)' => Somewhere(t)') /\ UpToDate(t)'
  BY <1>1, <1>2, <1>3, SomewhereKept, UpToDateKept
<1>4. ASSUME \A w \in Workers : Same(w)
      PROVE  /\ \A w \in Workers : Holds(w, t)' = Holds(w, t) /\ (Working(w, t)' <=> Working(w, t))
             /\ \A w \in Workers : hold'[w] = hold[w] /\ gen'[w][t] = gen[w][t]
  BY <1>4 DEF Same, Holds, Working, Elems, TasksOf
<1>5. ASSUME NEW u \in Tasks, Submit(u) PROVE (Wanted(t)' => Somewhere(t)') /\ UpToDate(t)'
  <2>1. /\ \A w \in Workers : Same(w)
        /\ sent' = sent \cup {u} /\ u \notin sent /\ UNCHANGED <<cancelled, ended, dead, emitted>>
    BY <1>5 DEF Submit, blockVars, localVars, outVars, Same
  <2>2. PICK c \in Copies : c = [task |-> u, gen |-> 0]
    BY DEF Copies
  <2>3. queue' = Append(queue, c) /\ c.task = u /\ c.gen = 0 /\ queue \in Seq(Copies)
    BY <1>1, <1>5, <2>2 DEF Submit, Shapes, Shared
  <2>4. TasksOf(queue') = TasksOf(queue) \cup {u} /\ Elems(queue') = Elems(queue) \cup {c}
    BY <2>3, TasksAppend, ElemsAppend
  <2>5. Wanted(t)' => Somewhere(t)'
    BY <1>2, <1>4, <2>1, <2>4 DEF Wanted, Somewhere
  <2>6. CopiesHave(queue, t, emitted[t])'
    BY <1>2, <2>1, <2>3, <2>4 DEF UpToDate, CopiesHave
  <2> QED
    BY <1>2, <1>4, <2>1, <2>5, <2>6 DEF UpToDate, CopiesHave, Elems
<1>6. ASSUME \A w \in Workers : Same(w), UNCHANGED <<sent, queue, ended, dead, emitted>>,
             cancelled \subseteq cancelled'
      PROVE  (Wanted(t)' => Somewhere(t)') /\ UpToDate(t)'
  <2>1. Wanted(t)' => Somewhere(t)'
    BY <1>2, <1>4, <1>6 DEF Wanted, Somewhere, TasksOf
  <2>2. UpToDate(t)'
    BY <1>2, <1>4, <1>6 DEF UpToDate, CopiesHave, Elems
  <2> QED
    BY <2>1, <2>2
<1>7. ASSUME NEW u \in Tasks, Cancel(u) PROVE (Wanted(t)' => Somewhere(t)') /\ UpToDate(t)'
  BY <1>6, <1>7 DEF Cancel, blockVars, localVars, outVars, Same
<1>8. CASE UNCHANGED vars
  BY <1>6, <1>8 DEF vars, serverVars, blockVars, localVars, outVars, Same
<1> QED
  BY <1>3, <1>5, <1>7, <1>8 DEF Next

\* With any number of workers: a request that is neither answered nor cancelled
\* is in exactly one place, with the tokens its client has been sent, as long as
\* no device runner has raised (scheduler.cpp, preempt, trySchedulePrefill).
THEOREM OneHomeHolds == Spec => []OneHome
<1>1. Whole => OneHome
  <2> SUFFICES ASSUME Whole, NEW t \in sent \ (ended \cup cancelled), \A w \in Workers : ~dead[w]
               PROVE  Cardinality(Homes(t)) = 1 /\ GenAt(t) = {emitted[t]}
    BY DEF OneHome
  <2>1. t \in Tasks
    BY DEF Whole, Places, Shapes, Shared
  <2>2. Somewhere(t) /\ UpToDate(t) /\ Single(t)
    BY <2>1 DEF Whole, Places, Wanted
  <2>3. \A w \in Workers : Working(w, t) => Active(w, t)
    BY DEF Working, Active
  <2>4. \A x : x \in Homes(t) <=>
          \/ \E i \in DOMAIN queue : queue[i].task = t /\ x = <<"queue", i>>
          \/ \E w \in Workers : Holds(w, t) /\ x = <<"held", w>>
          \/ \E w \in Workers : Working(w, t) /\ x = <<"worker", w>>
    BY TasksElems DEF Homes, Holds, Working
  <2>5. \E h : \A x : x \in Homes(t) <=> x = h
    <3>1. CASE t \in TasksOf(queue)
      <4>1. PICK i \in DOMAIN queue : queue[i].task = t
        BY <3>1 DEF TasksOf
      <4>2. \A j \in DOMAIN queue : queue[j].task = t <=> j = i
        BY <2>2, <4>1 DEF Single, OnceIn
      <4>3. \A w \in Workers : ~Holds(w, t) /\ ~Working(w, t)
        BY <2>2, <2>3, <3>1 DEF Single
      <4>h. PICK h : h = <<"queue", i>>
        OBVIOUS
      <4>4. \A x : x \in Homes(t) <=> x = h
        BY <2>4, <4>1, <4>2, <4>3, <4>h
      <4> QED
        BY <4>4
    <3>2. CASE t \notin TasksOf(queue)
      <4>1. PICK w \in Workers : Holds(w, t) \/ Working(w, t)
        BY <2>2, <3>2 DEF Somewhere
      <4>2. \A v \in Workers : Holds(v, t) \/ Working(v, t) => v = w
        BY <2>2, <2>3, <4>1 DEF Single
      <4>3. ~(Holds(w, t) /\ Working(w, t))
        BY <2>2, <2>3 DEF Single
      <4>4. \A i \in DOMAIN queue : queue[i].task # t
        BY <3>2 DEF TasksOf
      <4>5. CASE Holds(w, t)
        <5>1. \A v \in Workers : (Holds(v, t) <=> v = w) /\ ~Working(v, t)
          BY <4>2, <4>3, <4>5
        <5>h. PICK h : h = <<"held", w>>
          OBVIOUS
        <5>2. \A x : x \in Homes(t) <=> x = h
          BY <2>4, <4>4, <5>1, <5>h
        <5> QED
          BY <5>2
      <4>6. CASE Working(w, t)
        <5>1. \A v \in Workers : (Working(v, t) <=> v = w) /\ ~Holds(v, t)
          BY <4>2, <4>3, <4>6
        <5>h. PICK h : h = <<"worker", w>>
          OBVIOUS
        <5>2. \A x : x \in Homes(t) <=> x = h
          BY <2>4, <4>4, <5>1, <5>h
        <5> QED
          BY <5>2
      <4> QED
        BY <4>1, <4>5, <4>6
    <3> QED
      BY <3>1, <3>2
  <2>6. Cardinality(Homes(t)) = 1
    <3>1. PICK h : \A x : x \in Homes(t) <=> x = h
      BY <2>5
    <3>2. Homes(t) = {h}
      BY <3>1
    <3> QED
      BY <3>2, FS_Singleton
  <2>7. \A w \in Workers : <<"worker", w>> \in Homes(t) <=> Working(w, t)
    BY <2>4
  <2>8. \A g : g \in GenAt(t) <=>
          \/ \E i \in DOMAIN queue : queue[i].task = t /\ g = queue[i].gen
          \/ \E w \in Workers : \E c \in Elems(hold[w]) : c.task = t /\ g = c.gen
          \/ \E w \in Workers : Working(w, t) /\ g = gen[w][t]
    <3> DEFINE InQueue == {queue[i].gen : i \in {j \in DOMAIN queue : queue[j].task = t}}
               InHands == UNION {{c.gen : c \in {d \in Elems(hold[w]) : d.task = t}} : w \in Workers}
               InLists == {gen[w][t] : w \in {v \in Workers : <<"worker", v>> \in Homes(t)}}
    <3>1. \A g : g \in InQueue <=> \E i \in DOMAIN queue : queue[i].task = t /\ g = queue[i].gen
      OBVIOUS
    <3>2. \A g : g \in InHands <=>
            \E w \in Workers : \E c \in Elems(hold[w]) : c.task = t /\ g = c.gen
      OBVIOUS
    <3>3. \A g : g \in InLists <=> \E w \in Workers : Working(w, t) /\ g = gen[w][t]
      BY <2>7
    <3>4. GenAt(t) = InQueue \cup InHands \cup InLists
      BY DEF GenAt
    <3> HIDE DEF InQueue, InHands, InLists
    <3> QED
      BY <3>1, <3>2, <3>3, <3>4
  <2>9. \A g \in GenAt(t) : g = emitted[t]
    BY <2>2, <2>8 DEF UpToDate, CopiesHave, Elems
  <2>10. emitted[t] \in GenAt(t)
    <3>1. CASE t \in TasksOf(queue)
      BY <2>2, <2>8, <3>1 DEF UpToDate, CopiesHave, Elems, TasksOf
    <3>2. ASSUME NEW w \in Workers, Holds(w, t) PROVE emitted[t] \in GenAt(t)
      BY <2>2, <2>8, <3>2, TasksElems DEF UpToDate, CopiesHave, Holds
    <3>3. ASSUME NEW w \in Workers, Working(w, t) PROVE emitted[t] \in GenAt(t)
      BY <2>2, <2>8, <3>3 DEF UpToDate
    <3> QED
      BY <2>2, <3>1, <3>2, <3>3 DEF Somewhere
  <2> QED
    BY <2>6, <2>9, <2>10
<1> QED
  BY <1>1, WholeInit, WholeStep, PTL DEF Spec

-----------------------------------------------------------------------------
(* A sequence has the blocks its tokens need, and all variables their types. *)

LEMMA DivMod ==
    ASSUME NEW a \in Int, NEW b \in Nat \ {0}
    PROVE  a \div b \in Int /\ a % b \in 0..(b - 1) /\ a = b * (a \div b) + (a % b)
OBVIOUS

LEMMA Multiple ==
    ASSUME NEW n \in Int, NEW b \in Nat \ {0}, n >= 1
    PROVE  b * n >= b
OBVIOUS

LEMMA DivUnique ==
    ASSUME NEW b \in Nat \ {0}, NEW q \in Int, NEW r \in 0..(b - 1), NEW a \in Int, a = b * q + r
    PROVE  a \div b = q /\ a % b = r
<1>1. PICK d \in Int, m \in 0..(b - 1) : d = a \div b /\ m = a % b /\ a = b * d + m
  BY DivMod
<1>2. b * (d - q) = r - m /\ b * (q - d) = m - r
  BY <1>1
<1>3. ~(d - q >= 1)
  BY <1>1, <1>2, Multiple
<1>4. ~(q - d >= 1)
  BY <1>1, <1>2, Multiple
<1>5. d = q
  BY <1>3, <1>4
<1> QED
  BY <1>1, <1>2, <1>5

LEMMA Quotient ==
    ASSUME NEW a \in Int, NEW b \in Nat \ {0}
    PROVE  \E q \in Int, r \in 0..(b - 1) : a = b * q + r /\ q = a \div b /\ r = a % b
  BY DivMod

\* one token more needs a block more when it is the first one of a block
LEMMA NextBlock ==
    ASSUME NEW n \in Nat \ {0}
    PROVE  BlocksFor(n) = BlocksFor(n - 1) + (IF n % BlockSize = 1 THEN 1 ELSE 0)
<1>1. BlockSize \in Nat \ {0} /\ BlockSize > 1
  BY SizesAssumption
<1>a. n - 1 \in Int
  OBVIOUS
<1>2. PICK q \in Int, r \in 0..(BlockSize - 1) : n - 1 = BlockSize * q + r
  BY <1>1, <1>a, Quotient
<1>3. BlocksFor(n) = q + 1
  <2>1. n + BlockSize - 1 = BlockSize * (q + 1) + r
    BY <1>1, <1>2
  <2> QED
    BY <1>1, <2>1, DivUnique DEF BlocksFor
<1>4. CASE r = 0
  <2>1. (n - 1) + BlockSize - 1 = BlockSize * q + (BlockSize - 1) /\ n = BlockSize * q + 1
    BY <1>1, <1>2, <1>4
  <2>2. BlocksFor(n - 1) = q
    BY <1>1, <2>1, DivUnique DEF BlocksFor
  <2>3. n % BlockSize = 1
    <3>1. 1 \in 0..(BlockSize - 1) /\ n \in Int
      BY <1>1
    <3> QED
      BY <1>1, <2>1, <3>1, DivUnique
  <2> QED
    BY <1>3, <2>2, <2>3
<1>5. CASE r > 0
  <2>1. (n - 1) + BlockSize - 1 = BlockSize * (q + 1) + (r - 1)
    BY <1>1, <1>2
  <2>2. r - 1 \in 0..(BlockSize - 1)
    BY <1>1, <1>2, <1>5
  <2>3. BlocksFor(n - 1) = q + 1
    BY <1>1, <2>1, <2>2, DivUnique DEF BlocksFor
  <2>4. n % BlockSize # 1
    <3>1. CASE r + 1 < BlockSize
      <4>1. n = BlockSize * q + (r + 1) /\ r + 1 \in 0..(BlockSize - 1)
        BY <1>1, <1>2, <3>1
      <4>2. n % BlockSize = r + 1
        BY <1>1, <4>1, DivUnique
      <4> QED
        BY <1>5, <4>2
    <3>2. CASE r + 1 = BlockSize
      <4>1. n = BlockSize * (q + 1) + 0
        BY <1>1, <1>2, <3>2
      <4>2. n % BlockSize = 0
        BY <1>1, <4>1, DivUnique
      <4> QED
        BY <4>2
    <3> QED
      BY <1>1, <3>1, <3>2
  <2> QED
    BY <1>3, <2>3, <2>4
<1> QED
  BY <1>4, <1>5

LEMMA SomeBlock == \A n \in Nat \ {0} : BlocksFor(n) \in Nat \ {0}
<1> SUFFICES ASSUME NEW n \in Nat \ {0} PROVE BlocksFor(n) \in Nat \ {0}
  OBVIOUS
<1>1. BlockSize \in Nat \ {0}
  BY SizesAssumption
<1>a. n - 1 \in Int
  OBVIOUS
<1>2. PICK q \in Int, r \in 0..(BlockSize - 1) : n - 1 = BlockSize * q + r
  BY <1>1, <1>a, Quotient
<1>3. q >= 0
  <2>1. BlockSize * (-q) = r - (n - 1)
    BY <1>1, <1>2
  <2>2. ~(-q >= 1)
    BY <1>1, <2>1, Multiple
  <2> QED
    BY <2>2
<1>4. n + BlockSize - 1 = BlockSize * (q + 1) + r
  BY <1>1, <1>2
<1> QED
  BY <1>1, <1>3, <1>4, DivUnique DEF BlocksFor

\* The sequences of a batch have their blocks; those of the decode queue have
\* not yet the block of the token they got last.
Filled(tab, n, t) == Len(tab[t]) = BlocksFor(Size(t, n[t]))
Grown(tab, n, t) == Size(t, n[t]) > 1 /\ Len(tab[t]) = BlocksFor(Size(t, n[t]) - 1)
Sized(w) ==
    /\ \A t \in Elems(batch[w]) : Filled(table[w], gen[w], t)
    /\ \A t \in Elems(decodeQ[w]) : Grown(table[w], gen[w], t)
    /\ pc[w] = "alloc" =>
         Len(table[w][task[w]]) <= BlocksFor(Size(task[w], gen[w][task[w]]))

\* the steps that bring a worker's lists no sequence
LEMMA SizedLess ==
    ASSUME NEW w \in Workers, Sized(w), pc'[w] # "alloc",
           Elems(decodeQ'[w]) \subseteq Elems(decodeQ[w]), Elems(batch'[w]) \subseteq Elems(batch[w]),
           \A t \in Elems(decodeQ'[w]) \cup Elems(batch'[w]) :
               table'[w][t] = table[w][t] /\ gen'[w][t] = gen[w][t]
    PROVE  Sized(w)'
  BY DEF Sized, Filled, Grown

LEMMA SizedKept ==
    ASSUME Shapes, \A u \in Tasks : Single(u), NEW w \in Workers, Loop(w), Sized(w), WorkerStep(w)
    PROVE  Sized(w)'
<1>a. /\ decodeQ[w] \in Seq(Tasks) /\ batch[w] \in Seq(Tasks) /\ task[w] \in Tasks
      /\ Elems(decodeQ[w]) \subseteq Tasks /\ Elems(batch[w]) \subseteq Tasks
      /\ \A t \in Tasks : table[w][t] \in Seq(Blocks) /\ gen[w][t] \in Nat
  BY OfWorker, ElemsIn
<1>b. /\ Distinct(batch[w]) /\ Distinct(decodeQ[w]) /\ Elems(decodeQ[w]) \cap Elems(batch[w]) = {}
      /\ pc[w] \in {"alloc", "release"} => task[w] \notin Elems(decodeQ[w]) \cup Elems(batch[w])
  BY DEF Loop
<1>c. \A t \in Tasks, n \in Nat : Size(t, n) \in Nat \ {0} /\ Size(t, n + 1) = Size(t, n) + 1
  <2> SUFFICES ASSUME NEW t \in Tasks, NEW n \in Nat
               PROVE  Size(t, n) \in Nat \ {0} /\ Size(t, n + 1) = Size(t, n) + 1
    OBVIOUS
  <2>1. Len(Prompt[t]) \in Nat /\ Len(Prompt[t]) > 0
    <3>1. Prompt[t] \in Seq(Nat) /\ Prompt[t] # <<>>
      BY PromptAssumption
    <3> QED
      BY <3>1
  <2>2. PICK a \in Nat : a > 0 /\ Len(Prompt[t]) = a
    BY <2>1
  <2>3. Size(t, n) = a + n /\ Size(t, n + 1) = a + (n + 1)
    BY <2>2 DEF Size
  <2>4. a + n \in Nat \ {0} /\ a + (n + 1) = (a + n) + 1
    BY <2>2
  <2> HIDE <2>1, <2>2
  <2> QED
    BY <2>3, <2>4
<1>d. /\ \A t \in Elems(batch[w]) : Filled(table[w], gen[w], t)
      /\ \A t \in Elems(decodeQ[w]) : Grown(table[w], gen[w], t)
      /\ pc[w] = "alloc" =>
           Len(table[w][task[w]]) <= BlocksFor(Size(task[w], gen[w][task[w]]))
  BY DEF Sized
\* what is left alone keeps its size
<1>e. \A u : table'[w][u] = table[w][u] /\ gen'[w][u] = gen[w][u] =>
             /\ Filled(table[w], gen[w], u) => Filled(table'[w], gen'[w], u)
             /\ Grown(table[w], gen[w], u) => Grown(table'[w], gen'[w], u)
  BY DEF Filled, Grown
<1> USE DEF Shapes, Sequences3, Control
<1>1. CASE Wait(w) \/ Receive(w) \/ PushBack(w) \/ Plan(w) \/ SkipAborted(w) \/ PutBack(w)
           \/ PrefillEnds(w) \/ DecodeEnds(w) \/ Launch(w) \/ Released(w)
  <2>1. /\ UNCHANGED <<table, gen, decodeQ>> /\ pc'[w] # "alloc"
        /\ batch'[w] = batch[w] \/ batch'[w] = <<>>
    BY <1>1 DEF Wait, Receive, PushBack, Plan, SkipAborted, PutBack, PrefillEnds, DecodeEnds, Launch,
       Released, AfterPrefill
  <2>2. Elems(<<>>) = {}
    BY DEF Elems
  <2> QED
    BY <2>1, <2>2, SizedLess
<1>2. CASE Abort(w)
  <2>1. /\ UNCHANGED <<table, gen, batch>> /\ pc'[w] # "alloc"
        /\ decodeQ'[w] = decodeQ[w] \/ decodeQ'[w] = Without(decodeQ[w], Head(cancelQ[w]))
    BY <1>2 DEF Abort, ReleaseThen, Unlinked
  <2> QED
    BY <1>a, <1>b, <2>1, ElemsWithout, SizedLess
<1>3. CASE Preempt(w)
  <2>1. /\ UNCHANGED <<table, gen, batch>> /\ pc'[w] # "alloc" /\ decodeQ[w] # <<>>
        /\ decodeQ'[w] = FrontOf(decodeQ[w])
    BY <1>3 DEF Preempt, ReleaseThen, Decoding
  <2>2. Elems(decodeQ[w]) = {LastOf(decodeQ[w])} \cup Elems(FrontOf(decodeQ[w]))
    BY <1>a, <2>1, ElemsFront
  <2> QED
    BY <2>1, <2>2, SizedLess
<1>4. CASE Finish(w) \/ Fail(w)
  <2> DEFINE t == Head(batch[w])
  <2>1. /\ UNCHANGED <<table, decodeQ>> /\ pc'[w] # "alloc" /\ batch[w] # <<>>
        /\ batch'[w] = Tail(batch[w])
        /\ gen' = gen \/ gen' = [gen EXCEPT ![w] = [gen[w] EXCEPT ![t] = gen[w][t] + 1]]
    BY <1>4 DEF Finish, Fail, ReleaseThen, NextToken
  <2>2. /\ t \in Elems(batch[w]) /\ t \notin Elems(batch'[w])
        /\ Elems(batch'[w]) \subseteq Elems(batch[w])
    BY <1>a, <1>b, <2>1, ElemsTail
  <2> HIDE DEF t
  <2>3. \A u \in Tasks : u # t => gen'[w][u] = gen[w][u]
    BY <2>1
  <2> QED
    BY <1>a, <1>b, <2>1, <2>2, <2>3, SizedLess
<1>5. CASE Release(w)
  <2>1. /\ UNCHANGED <<gen, decodeQ, batch, pc>> /\ pc[w] = "release"
        /\ table' = [table EXCEPT ![w] = [table[w] EXCEPT ![task[w]] = FrontOf(table[w][task[w]])]]
    BY <1>5 DEF Release
  <2>2. \A u \in Tasks : u # task[w] => table'[w][u] = table[w][u]
    BY <2>1
  <2> QED
    BY <1>a, <1>b, <2>1, <2>2, SizedLess
<1>6. CASE Token(w)
  <2> DEFINE t == Head(batch[w])
  <2>1. /\ UNCHANGED table /\ pc'[w] # "alloc" /\ batch[w] # <<>>
        /\ batch'[w] = Tail(batch[w]) /\ decodeQ'[w] = Append(decodeQ[w], t)
        /\ gen' = [gen EXCEPT ![w] = [gen[w] EXCEPT ![t] = gen[w][t] + 1]]
    BY <1>6 DEF Token, NextToken
  <2>2. /\ t \in Elems(batch[w]) /\ t \in Tasks /\ t \notin Elems(batch'[w])
        /\ Elems(batch'[w]) \subseteq Elems(batch[w])
    BY <1>a, <1>b, <2>1, ElemsTail
  <2>3. Elems(decodeQ'[w]) = Elems(decodeQ[w]) \cup {t}
    BY <1>a, <2>1, <2>2, ElemsAppend
  <2>4. /\ gen'[w][t] = gen[w][t] + 1 /\ table'[w] = table[w]
        /\ \A u \in Tasks : u # t => gen'[w][u] = gen[w][u]
    BY <2>1, <2>2
  <2> HIDE DEF t
  <2>5. Grown(table'[w], gen'[w], t)
    <3>1. PICK k \in Nat \ {0} : k = Size(t, gen[w][t])
      BY <1>a, <1>c, <2>2
    <3>2. Size(t, gen'[w][t]) = k + 1
      BY <1>a, <1>c, <2>2, <2>4, <3>1
    <3>3. Len(table'[w][t]) = BlocksFor(k)
      BY <1>d, <2>2, <2>4, <3>1 DEF Filled
    <3>4. (k + 1) - 1 = k /\ k + 1 > 1
      BY <3>1
    <3>5. Size(t, gen'[w][t]) > 1 /\ Size(t, gen'[w][t]) - 1 = k
      BY <3>2, <3>4
    <3> QED
      BY <3>3, <3>5 DEF Grown
  <2>6. \A u \in Elems(batch'[w]) : Filled(table'[w], gen'[w], u)
    BY <1>a, <1>d, <1>e, <2>2, <2>4
  <2>7. \A u \in Elems(decodeQ'[w]) : Grown(table'[w], gen'[w], u)
    BY <1>a, <1>b, <1>d, <1>e, <2>2, <2>3, <2>4, <2>5
  <2> QED
    BY <2>1, <2>6, <2>7 DEF Sized
<1>7. CASE Take(w)
  <2> DEFINE t == Head(queue).task
             n == Head(queue).gen
  <2>1. t \in Tasks /\ n \in Nat /\ t \notin Elems(decodeQ[w]) \cup Elems(batch[w])
    BY <1>7, HeadCopy, HeadIsFree DEF Take, Active
  <2>2. /\ UNCHANGED <<decodeQ, batch>> /\ pc'[w] = "alloc" /\ task'[w] = t
        /\ table' = [table EXCEPT ![w] = [table[w] EXCEPT ![t] = <<>>]]
        /\ gen' = [gen EXCEPT ![w] = [gen[w] EXCEPT ![t] = n]]
    BY <1>7 DEF Take
  <2> HIDE DEF t, n
  <2>3. /\ table'[w][t] = <<>> /\ gen'[w][t] = n
        /\ \A u \in Tasks : u # t => table'[w][u] = table[w][u] /\ gen'[w][u] = gen[w][u]
    BY <2>1, <2>2
  <2>4. /\ \A u \in Elems(batch'[w]) : Filled(table'[w], gen'[w], u)
        /\ \A u \in Elems(decodeQ'[w]) : Grown(table'[w], gen'[w], u)
    BY <1>a, <1>d, <1>e, <2>1, <2>2, <2>3
  <2>5. Len(table'[w][task'[w]]) <= BlocksFor(Size(task'[w], gen'[w][task'[w]]))
    <3>1. PICK k \in Nat \ {0} : k = BlocksFor(Size(t, n))
      BY <1>c, <2>1, SomeBlock
    <3> QED
      BY <2>2, <2>3, <3>1
  <2> QED
    BY <2>4, <2>5 DEF Sized
<1>8. CASE AllocHit(w) \/ AllocMiss(w)
  <2> DEFINE t == task[w]
  <2>1. PICK b : /\ UNCHANGED <<decodeQ, batch, gen, pc, task>> /\ Allocating(w)
                 /\ table' = [table EXCEPT ![w] = [table[w] EXCEPT ![t] = Append(table[w][t], b)]]
    BY <1>8 DEF AllocHit, AllocMiss, InTable
  <2>2. /\ table'[w][t] = Append(table[w][t], b)
        /\ \A u \in Tasks : u # t => table'[w][u] = table[w][u]
    BY <1>a, <2>1
  <2>3. pc[w] = "alloc" /\ Len(table[w][t]) < BlocksFor(Size(t, gen[w][t]))
    BY <2>1 DEF Allocating, SizeOn
  <2>4. Len(table'[w][t]) <= BlocksFor(Size(t, gen[w][t]))
    <3>1. PICK k \in Nat \ {0} : k = BlocksFor(Size(t, gen[w][t]))
      BY <1>a, <1>c, SomeBlock
    <3>2. Len(table[w][t]) \in Nat /\ Len(table'[w][t]) = Len(table[w][t]) + 1
      BY <1>a, <2>2
    <3> QED
      BY <2>3, <3>1, <3>2
  <2>5. /\ \A u \in Elems(batch'[w]) : Filled(table'[w], gen'[w], u)
        /\ \A u \in Elems(decodeQ'[w]) : Grown(table'[w], gen'[w], u)
    BY <1>a, <1>b, <1>d, <1>e, <2>1, <2>2, <2>3
  <2> QED
    BY <2>1, <2>4, <2>5 DEF Sized
<1>9. CASE Allocated(w)
  <2> DEFINE t == task[w]
  <2>1. /\ UNCHANGED <<table, gen, decodeQ>> /\ pc'[w] = "prefill" /\ pc[w] = "alloc"
        /\ batch'[w] = Append(batch[w], t) /\ ~Allocating(w)
    BY <1>9 DEF Allocated
  <2>2. Elems(batch'[w]) = Elems(batch[w]) \cup {t}
    BY <1>a, <2>1, ElemsAppend
  <2>3. Filled(table[w], gen[w], t)
    <3>1. PICK k \in Nat \ {0} : k = BlocksFor(Size(t, gen[w][t]))
      BY <1>a, <1>c, SomeBlock
    <3>2. Len(table[w][t]) \in Nat /\ Len(table[w][t]) <= k /\ ~(Len(table[w][t]) < k)
      BY <1>a, <1>d, <2>1, <3>1 DEF Allocating, SizeOn
    <3> QED
      BY <3>1, <3>2 DEF Filled
  <2> QED
    BY <1>d, <2>1, <2>2, <2>3 DEF Sized
<1>10. CASE Append1(w)
  <2> DEFINE t == Head(decodeQ[w])
             k == Size(t, gen[w][t])
  <2>1. /\ UNCHANGED <<gen, pc>> /\ pc[w] = "decode" /\ decodeQ[w] # <<>>
        /\ decodeQ'[w] = Tail(decodeQ[w]) /\ batch'[w] = Append(batch[w], t)
    BY <1>10 DEF Append1, Decoding
  <2>2. /\ t \in Elems(decodeQ[w]) /\ t \in Tasks /\ t \notin Elems(decodeQ'[w])
        /\ Elems(decodeQ'[w]) \subseteq Elems(decodeQ[w])
    BY <1>a, <1>b, <2>1, ElemsTail
  <2>3. Elems(batch'[w]) = Elems(batch[w]) \cup {t}
    BY <1>a, <2>1, <2>2, ElemsAppend
  <2>4. k \in Nat \ {0} /\ Grown(table[w], gen[w], t)
    BY <1>a, <1>c, <1>d, <2>2
  <2>5. PICK m \in Int : m = k % BlockSize
    BY <2>4, SizesAssumption, DivMod
  <2>a. m = 0 => m # 1
    OBVIOUS
  <2>b. m > 1 => m # 1
    BY <2>5
  <2>c. \/ /\ k % BlockSize = 1
           /\ table' = [table EXCEPT ![w] =
                          [table[w] EXCEPT ![t] = Append(table[w][t], Head(free[w]))]]
        \/ k % BlockSize = 0 /\ table' = table
        \/ k % BlockSize > 1 /\ table' = table
    BY <1>10 DEF Append1, StartsBlock, SizeOn, blockVars
  <2>6. \/ m = 1 /\ \E b : table' = [table EXCEPT ![w] = [table[w] EXCEPT ![t] = Append(table[w][t], b)]]
        \/ m # 1 /\ table' = table
    <3> HIDE DEF t, k
    <3> QED
      BY <2>5, <2>a, <2>b, <2>c
  <2> HIDE DEF t
  <2>7. \A u \in Tasks : u # t => table'[w][u] = table[w][u]
    BY <2>6
  <2>8. Len(table'[w][t]) = Len(table[w][t]) + (IF m = 1 THEN 1 ELSE 0)
    <3>1. table[w][t] \in Seq(Blocks) /\ Len(table[w][t]) \in Nat
      BY <1>a, <2>2
    <3>2. CASE m = 1
      <4>1. PICK b : table' = [table EXCEPT ![w] = [table[w] EXCEPT ![t] = Append(table[w][t], b)]]
        BY <2>6, <3>2
      <4>2. table'[w][t] = Append(table[w][t], b)
        BY <2>2, <4>1
      <4> QED
        BY <3>1, <3>2, <4>2
    <3>3. CASE m # 1
      BY <2>6, <3>1, <3>3
    <3> QED
      BY <3>2, <3>3
  <2>9. Filled(table'[w], gen'[w], t)
    <3>1. BlocksFor(k) = BlocksFor(k - 1) + (IF m = 1 THEN 1 ELSE 0)
      BY <2>4, <2>5, NextBlock
    <3>2. Len(table[w][t]) = BlocksFor(k - 1)
      BY <2>4 DEF Grown
    <3> QED
      BY <2>1, <2>8, <3>1, <3>2 DEF Filled
  <2>10. \A u \in Elems(batch'[w]) : Filled(table'[w], gen'[w], u)
    BY <1>a, <1>b, <1>d, <1>e, <2>1, <2>2, <2>3, <2>7, <2>9
  <2>11. \A u \in Elems(decodeQ'[w]) : Grown(table'[w], gen'[w], u)
    BY <1>a, <1>d, <1>e, <2>1, <2>2, <2>7
  <2> QED
    BY <2>1, <2>10, <2>11 DEF Sized
<1> QED
  BY <1>1, <1>2, <1>3, <1>4, <1>5, <1>6, <1>7, <1>8, <1>9, <1>10 DEF WorkerStep

AllSized == Places /\ \A w \in Workers : Sized(w)

LEMMA SizedInit == Init => AllSized
<1> SUFFICES ASSUME Init PROVE AllSized
  OBVIOUS
<1>1. Elems(<<>>) = {}
  BY DEF Elems
<1> QED
  BY <1>1, PlacesInit DEF AllSized, Sized, Init

LEMMA SizedElsewhere ==
    ASSUME NEW w \in Workers, Same(w), Sized(w)
    PROVE  Sized(w)'
  BY DEF Same, Sized

LEMMA SizedStep == AllSized /\ [Next]_vars => AllSized'
<1> SUFFICES ASSUME AllSized, [Next]_vars, NEW w \in Workers PROVE Sized(w)'
  BY PlacesStep DEF AllSized
<1>1. /\ Shapes /\ (\A t \in Tasks : Single(t)) /\ \A v \in Workers : Loop(v) /\ Sized(v)
  BY DEF AllSized, Places
<1>2. ASSUME NEW v \in Workers, WorkerStep(v) PROVE Sized(w)'
  BY <1>1, <1>2, SizedKept, Elsewhere, SizedElsewhere
<1>3. ASSUME NEW u \in Tasks, Submit(u) \/ Cancel(u) PROVE Sized(w)'
  BY <1>1, <1>3, SizedElsewhere DEF Submit, Cancel, blockVars, localVars, Same
<1>4. CASE UNCHANGED vars
  BY <1>1, <1>4, SizedElsewhere DEF vars, blockVars, localVars, Same
<1> QED
  BY <1>2, <1>3, <1>4 DEF Next

\* A sequence in a batch has exactly the blocks its tokens need, one in the decode
\* queue exactly those of all tokens but the last: none is missing when the device
\* writes the cache of a token, none is kept too many (block_manager.cpp, allocate
\* and mayAppend).
BlocksFit ==
    \A w \in Workers :
        /\ \A t \in Elems(batch[w]) : Len(table[w][t]) = BlocksFor(SizeOn(w, t))
        /\ \A t \in Elems(decodeQ[w]) : Len(table[w][t]) = BlocksFor(SizeOn(w, t) - 1)
THEOREM BlocksFitHolds == Spec => []BlocksFit
<1>1. AllSized => BlocksFit
  BY DEF AllSized, Sized, BlocksFit, Filled, Grown, SizeOn
<1> QED
  BY <1>1, SizedInit, SizedStep, PTL DEF Spec

\* the variables no other proof needs
Others ==
    /\ policy \in Policies /\ cancelled \subseteq sent /\ ended \subseteq Tasks
    /\ hash \in [Workers -> [Blocks -> Seq(Nat)]]
    /\ index \in [Workers -> SUBSET (Seq(Nat) \X Blocks)]
    /\ miss \in [Workers -> BOOLEAN] /\ batched \in [Workers -> Int]

LEMMA TokensType ==
    ASSUME NEW t \in Tasks, NEW n \in Nat
    PROVE  Tokens(t, n) \in Seq(Nat) /\ Len(Tokens(t, n)) = Size(t, n)
<1>1. Prompt[t] \in Seq(Nat)
  BY PromptAssumption
<1>2. PICK zeros \in Seq(Nat) : zeros = [i \in 1..n |-> 0] /\ Len(zeros) = n
  <2>1. [i \in 1..n |-> 0] \in [1..n -> Nat]
    OBVIOUS
  <2>2. PICK zeros : zeros = [i \in 1..n |-> 0]
    OBVIOUS
  <2>a. zeros \in Seq(Nat)
    BY <2>1, <2>2, SeqDef
  <2>3. DOMAIN zeros = 1..n /\ DOMAIN zeros = 1..Len(zeros) /\ Len(zeros) \in Nat
    BY <2>2, <2>a
  <2> QED
    BY <2>2, <2>3, <2>a
<1> QED
  BY <1>1, <1>2, ConcatProperties DEF Tokens, Size

\* hashes are sequences of tokens
LEMMA HashType ==
    ASSUME Shapes, Others, NEW w \in Workers, Sized(w), Loop(w)
    PROVE  /\ pc[w] = "alloc" => NextHash(w) \in Seq(Nat)
           /\ \A t \in Elems(decodeQ[w]) :
                SizeOn(w, t) % BlockSize = 0 => TokensOf(Tokens(t, gen[w][t])) \in Seq(Nat)
<1>1. task[w] \in Tasks /\ Elems(decodeQ[w]) \subseteq Tasks
      /\ \A t \in Tasks : table[w][t] \in Seq(Blocks) /\ gen[w][t] \in Nat
  BY OfWorker, ElemsIn
<1>2. BlockSize \in Nat \ {0}
  BY SizesAssumption
<1>3. NextHash(w) \in Seq(Nat)
  <2> DEFINE t == task[w]
             m == (Len(table[w][t]) + 1) * BlockSize
  <2>1. CASE ~NextIsFull(w)
    BY <2>1 DEF NextHash
  <2>2. CASE NextIsFull(w)
    <3>1. Tokens(t, gen[w][t]) \in Seq(Nat) /\ Len(Tokens(t, gen[w][t])) = SizeOn(w, t)
      BY <1>1, TokensType DEF SizeOn
    <3>2. m \in Int /\ m <= SizeOn(w, t) /\ SizeOn(w, t) \in Nat
      BY <1>1, <1>2, <2>2, SizeType DEF NextIsFull, SizeOn
    <3>3. NextHash(w) = SubSeq(Tokens(t, gen[w][t]), 1, m)
      BY <2>2 DEF NextHash, Prefix
    <3> HIDE DEF t, m
    <3>4. \A i \in 1..m : Tokens(t, gen[w][t])[i] \in Nat
      BY <3>1, <3>2
    <3> QED
      BY <3>2, <3>3, <3>4, SubSeqProperties
  <2> QED
    BY <2>1, <2>2
<1>4. ASSUME NEW t \in Elems(decodeQ[w]), SizeOn(w, t) % BlockSize = 0
      PROVE  TokensOf(Tokens(t, gen[w][t])) \in Seq(Nat)
  <2>1. PICK s \in Seq(Nat) : s = Tokens(t, gen[w][t]) /\ Len(s) = SizeOn(w, t)
    BY <1>1, TokensType DEF SizeOn
  <2>2. SizeOn(w, t) \in Nat /\ SizeOn(w, t) >= 1
    <3>1. PICK n \in Nat, k \in Nat : n = gen[w][t] /\ k = SizeOn(w, t) /\ k > n
      BY <1>1, SizeType DEF SizeOn
    <3> QED
      BY <3>1
  <2>3. Len(s) >= BlockSize
    <3>1. PICK q \in Int : SizeOn(w, t) = BlockSize * q
      <4>1. PICK k \in Int : k = SizeOn(w, t)
        BY <2>2
      <4>2. PICK q \in Int, r \in 0..(BlockSize - 1) : k = BlockSize * q + r /\ r = k % BlockSize
        BY <1>2, Quotient
      <4> QED
        BY <1>2, <1>4, <4>1, <4>2
    <3>2. q >= 1
      <4>1. ~(-q >= 1)
        <5>1. PICK k \in Nat : k = SizeOn(w, t) /\ k >= 1 /\ k = BlockSize * q
          BY <2>2, <3>1
        <5>2. BlockSize * (-q) = -k
          BY <1>2, <5>1
        <5> QED
          BY <1>2, <5>1, <5>2, Multiple
      <4>2. q # 0
        BY <1>2, <2>2, <3>1
      <4> QED
        BY <4>1, <4>2
    <3> QED
      BY <1>2, <2>1, <3>1, <3>2, Multiple
  <2>4. \A i \in (Len(s) - BlockSize + 1)..Len(s) : s[i] \in Nat
    BY <1>2, <2>3
  <2>5. Len(s) - BlockSize + 1 \in Int /\ Len(s) \in Int
    BY <1>2
  <2> QED
    BY <2>1, <2>4, <2>5, SubSeqProperties DEF TokensOf
<1> QED
  BY <1>3, <1>4

LEMMA IndexedType ==
    ASSUME Others, NEW w \in Workers, NEW h \in Seq(Nat), NEW b \in Blocks
    PROVE  Indexed(w, h, b) \in SUBSET (Seq(Nat) \X Blocks)
  BY DEF Others, Indexed

\* a block gets a hash, and the hash an entry
LEMMA Remembered ==
    ASSUME Others, NEW w \in Workers, NEW h \in Seq(Nat), NEW b \in Blocks
    PROVE  /\ [hash EXCEPT ![w] = [hash[w] EXCEPT ![b] = h]] \in [Workers -> [Blocks -> Seq(Nat)]]
           /\ [index EXCEPT ![w] = Indexed(w, h, b)] \in [Workers -> SUBSET (Seq(Nat) \X Blocks)]
<1>1. /\ hash \in [Workers -> [Blocks -> Seq(Nat)]]
      /\ index \in [Workers -> SUBSET (Seq(Nat) \X Blocks)]
  BY DEF Others
<1>2. PICK x \in SUBSET (Seq(Nat) \X Blocks) : x = Indexed(w, h, b)
  BY IndexedType
<1>3. [hash[w] EXCEPT ![b] = h] \in [Blocks -> Seq(Nat)]
  BY <1>1
<1> QED
  BY <1>1, <1>2, <1>3

LEMMA OthersKept ==
    ASSUME Shapes, Others, NEW w \in Workers, Loop(w), Sized(w), WorkerStep(w)
    PROVE  Others'
<1>a. /\ free[w] \in Seq(Blocks) /\ decodeQ[w] \in Seq(Tasks) /\ batch[w] \in Seq(Tasks)
      /\ task[w] \in Tasks /\ \A t \in Tasks : table[w][t] \in Seq(Blocks) /\ gen[w][t] \in Nat
  BY OfWorker
<1>b. /\ policy \in Policies /\ cancelled \subseteq sent /\ ended \subseteq Tasks
      /\ hash \in [Workers -> [Blocks -> Seq(Nat)]]
      /\ index \in [Workers -> SUBSET (Seq(Nat) \X Blocks)]
      /\ miss \in [Workers -> BOOLEAN] /\ batched \in [Workers -> Int]
  BY DEF Others
<1>c. pc[w] = "alloc" => NextHash(w) \in Seq(Nat)
  BY HashType
<1>1. CASE Wait(w) \/ Receive(w) \/ PushBack(w) \/ SkipAborted(w) \/ PutBack(w) \/ Abort(w)
           \/ PrefillEnds(w) \/ DecodeEnds(w) \/ Launch(w) \/ Released(w) \/ Release(w)
           \/ Preempt(w) \/ Token(w) \/ Allocated(w)
  <2>1. UNCHANGED <<policy, cancelled, sent, ended, hash, index, miss, batched>>
    BY <1>1 DEF Wait, Receive, PushBack, SkipAborted, PutBack, Abort, PrefillEnds, DecodeEnds,
       Launch, Released, Release, Preempt, Token, Allocated, serverVars, blockVars, localVars, outVars
  <2> QED
    BY <1>b, <2>1 DEF Others
<1>2. CASE Plan(w)
  <2>1. /\ UNCHANGED <<policy, cancelled, sent, ended, hash, index, miss>>
        /\ batched' = [batched EXCEPT ![w] = 0]
    BY <1>2 DEF Plan, serverVars, blockVars, outVars
  <2> QED
    BY <1>b, <2>1 DEF Others
<1>3. CASE Finish(w) \/ Fail(w)
  <2>1. /\ UNCHANGED <<policy, cancelled, sent, hash, index, miss, batched>>
        /\ ended' = ended \cup {Head(batch[w])} /\ batch[w] # <<>>
    BY <1>3 DEF Finish, Fail, serverVars, blockVars, localVars
  <2> QED
    BY <1>a, <1>b, <2>1 DEF Others
<1>4. CASE Take(w)
  <2> DEFINE n == batched[w] + Size(Head(queue).task, Head(queue).gen)
  <2>1. /\ UNCHANGED <<policy, cancelled, sent, ended, hash, index>>
        /\ miss' = [miss EXCEPT ![w] = FALSE] /\ batched' = [batched EXCEPT ![w] = n]
        /\ queue # <<>>
    BY <1>4 DEF Take, serverVars, blockVars, outVars
  <2>2. n \in Int
    <3>1. PICK k \in Nat : k = Size(Head(queue).task, Head(queue).gen)
      BY <2>1, HeadCopy, SizeType
    <3> QED
      BY <1>b, <3>1
  <2> HIDE DEF n
  <2> QED
    BY <1>b, <2>1, <2>2 DEF Others
<1>5. CASE AllocHit(w)
  <2>1. PICK b \in Hits(w) :
          /\ Allocating(w) /\ UNCHANGED <<policy, cancelled, sent, ended, miss>>
          /\ batched' = [batched EXCEPT ![w] = batched[w] - BlockSize]
          /\ \/ UNCHANGED <<hash, index>>
             \/ /\ hash' = [hash EXCEPT ![w] = [hash[w] EXCEPT ![b] = NextHash(w)]]
                /\ index' = [index EXCEPT ![w] = Indexed(w, NextHash(w), b)]
    BY <1>5 DEF AllocHit, serverVars, outVars
  <2>2. b \in Blocks /\ NextHash(w) \in Seq(Nat)
    BY <1>c, <2>1 DEF Hits, Allocating
  <2>3. PICK hs \in [Workers -> [Blocks -> Seq(Nat)]],
             is \in [Workers -> SUBSET (Seq(Nat) \X Blocks)] :
          /\ hs = [hash EXCEPT ![w] = [hash[w] EXCEPT ![b] = NextHash(w)]]
          /\ is = [index EXCEPT ![w] = Indexed(w, NextHash(w), b)]
    BY <2>2, Remembered
  <2>5. /\ hash' \in [Workers -> [Blocks -> Seq(Nat)]]
        /\ index' \in [Workers -> SUBSET (Seq(Nat) \X Blocks)]
    BY <1>b, <2>1, <2>3
  <2>6. batched' \in [Workers -> Int]
    BY <1>b, <2>1, SizesAssumption
  <2> QED
    BY <1>b, <2>1, <2>5, <2>6 DEF Others
<1>6. CASE AllocMiss(w)
  <2> DEFINE b == Head(free[w])
  <2>1. /\ Allocating(w) /\ UNCHANGED <<policy, cancelled, sent, ended, batched>>
        /\ miss' = [miss EXCEPT ![w] = TRUE]
        /\ hash' = [hash EXCEPT ![w] = [hash[w] EXCEPT ![b] = NextHash(w)]]
        /\ index' = index \/ index' = [index EXCEPT ![w] = Indexed(w, NextHash(w), b)]
    BY <1>6 DEF AllocMiss, serverVars, outVars
  <2>2. b \in Blocks /\ NextHash(w) \in Seq(Nat)
    BY <1>c, <2>1, MissHasBlock DEF Allocating, Loop
  <2> HIDE DEF b
  <2>3. PICK hs \in [Workers -> [Blocks -> Seq(Nat)]],
             is \in [Workers -> SUBSET (Seq(Nat) \X Blocks)] :
          /\ hs = [hash EXCEPT ![w] = [hash[w] EXCEPT ![b] = NextHash(w)]]
          /\ is = [index EXCEPT ![w] = Indexed(w, NextHash(w), b)]
    BY <2>2, Remembered
  <2>5. /\ hash' \in [Workers -> [Blocks -> Seq(Nat)]]
        /\ index' \in [Workers -> SUBSET (Seq(Nat) \X Blocks)]
    BY <1>b, <2>1, <2>3
  <2> QED
    BY <1>b, <2>1, <2>5 DEF Others
<1>7. CASE Append1(w)
  <2> DEFINE t == Head(decodeQ[w])
             tab == table[w][t]
             before == IF Len(tab) > 1 THEN hash[w][tab[Len(tab) - 1]] ELSE <<>>
             h == before \o TokensOf(Tokens(t, gen[w][t]))
  <2>1. /\ UNCHANGED <<policy, cancelled, sent, ended, miss, batched>> /\ decodeQ[w] # <<>>
        /\ \/ /\ free[w] # <<>> /\ UNCHANGED index
              /\ hash' = [hash EXCEPT ![w] = [hash[w] EXCEPT ![Head(free[w])] = <<>>]]
           \/ /\ SizeOn(w, t) % BlockSize = 0
              /\ hash' = [hash EXCEPT ![w] = [hash[w] EXCEPT ![LastOf(tab)] = h]]
              /\ index' = [index EXCEPT ![w] = Indexed(w, h, LastOf(tab))]
           \/ UNCHANGED <<hash, index>>
    BY <1>7 DEF Append1, Decoding, CanAppend, serverVars, blockVars, localVars, outVars
  <2>2. t \in Elems(decodeQ[w]) /\ t \in Tasks
    BY <1>a, <2>1, ElemsTail
  <2> HIDE DEF t
  <2>3. Len(tab) \in Nat \ {0} /\ tab \in Seq(Blocks)
    <3>1. Grown(table[w], gen[w], t)
      BY <2>2 DEF Sized
    <3>2. PICK k \in Nat : k = Size(t, gen[w][t])
      BY <1>a, <2>2, SizeType
    <3>3. k - 1 \in Nat \ {0} /\ Len(tab) = BlocksFor(k - 1)
      BY <3>1, <3>2 DEF Grown
    <3> QED
      BY <1>a, <2>2, <3>3, SomeBlock
  <2> HIDE DEF tab
  <2>4. CASE /\ free[w] # <<>> /\ UNCHANGED index
             /\ hash' = [hash EXCEPT ![w] = [hash[w] EXCEPT ![Head(free[w])] = <<>>]]
    <3>1. Head(free[w]) \in Blocks /\ <<>> \in Seq(Nat)
      BY <1>a, <2>4
    <3>2. hash' \in [Workers -> [Blocks -> Seq(Nat)]]
      BY <1>b, <2>4, <3>1
    <3> QED
      BY <1>b, <2>1, <2>4, <3>2 DEF Others
  <2>5. CASE /\ SizeOn(w, t) % BlockSize = 0
             /\ hash' = [hash EXCEPT ![w] = [hash[w] EXCEPT ![LastOf(tab)] = h]]
             /\ index' = [index EXCEPT ![w] = Indexed(w, h, LastOf(tab))]
    <3>1. PICK b \in Blocks : b = LastOf(tab)
      BY <2>3 DEF LastOf
    <3>2. before \in Seq(Nat)
      <4>1. CASE Len(tab) > 1
        <5>1. tab[Len(tab) - 1] \in Blocks
          BY <2>3, <4>1
        <5> QED
          BY <1>b, <4>1, <5>1
      <4>2. CASE ~(Len(tab) > 1)
        BY <4>2
      <4> QED
        BY <4>1, <4>2
    <3>3. TokensOf(Tokens(t, gen[w][t])) \in Seq(Nat)
      BY <2>2, <2>5, HashType
    <3> HIDE DEF before
    <3>4. h \in Seq(Nat)
      BY <3>2, <3>3
    <3> HIDE DEF h
    <3>6. PICK hs \in [Workers -> [Blocks -> Seq(Nat)]],
               is \in [Workers -> SUBSET (Seq(Nat) \X Blocks)] :
            /\ hs = [hash EXCEPT ![w] = [hash[w] EXCEPT ![b] = h]]
            /\ is = [index EXCEPT ![w] = Indexed(w, h, b)]
      BY <3>4, Remembered
    <3>7. /\ hash' \in [Workers -> [Blocks -> Seq(Nat)]]
          /\ index' \in [Workers -> SUBSET (Seq(Nat) \X Blocks)]
      BY <2>5, <3>1, <3>6
    <3> QED
      BY <1>b, <2>1, <3>7 DEF Others
  <2>6. CASE UNCHANGED <<hash, index>>
    BY <1>b, <2>1, <2>6 DEF Others
  <2> HIDE DEF h
  <2> QED
    BY <2>1, <2>4, <2>5, <2>6
<1> QED
  BY <1>1, <1>2, <1>3, <1>4, <1>5, <1>6, <1>7 DEF WorkerStep

Typed == AllSized /\ Marked /\ Others

LEMMA TypedInit == Init => Typed
<1> SUFFICES ASSUME Init PROVE Typed
  OBVIOUS
<1>1. Others
  BY DEF Others, Init
<1> QED
  BY <1>1, SizedInit, WholeInit DEF Typed, Whole

LEMMA TypedStep == Typed /\ [Next]_vars => Typed'
<1> SUFFICES ASSUME Typed, [Next]_vars PROVE Others'
  BY SizedStep, MarkedKept DEF Typed, AllSized, Places
<1>1. /\ Shapes /\ Others /\ \A w \in Workers : Loop(w) /\ Sized(w)
  BY DEF Typed, AllSized, Places
<1>2. ASSUME NEW w \in Workers, WorkerStep(w) PROVE Others'
  BY <1>1, <1>2, OthersKept
<1>3. ASSUME NEW t \in Tasks, Submit(t) \/ Cancel(t) PROVE Others'
  BY <1>1, <1>3 DEF Others, Submit, Cancel, blockVars, localVars, outVars
<1>4. CASE UNCHANGED vars
  BY <1>1, <1>4 DEF Others, vars, serverVars, blockVars, localVars, outVars
<1> QED
  BY <1>2, <1>3, <1>4 DEF Next

\* Every variable has its type in every reachable state: the blocks handed out and
\* given a hash are blocks of the pool, the hashes are prefixes of tokens, which
\* needs that a sequence in the decode queue has a last block to hash
\* (block_manager.cpp, mayAppend).
THEOREM TypeCorrect == Spec => []TypeOK
<1>1. Typed => TypeOK
  BY DEF Typed, AllSized, Places, Shapes, Shared, Sequences3, Manager, Control, Marked, Others, TypeOK
<1> QED
  BY <1>1, TypedInit, TypedStep, PTL DEF Spec

-----------------------------------------------------------------------------
(* A cancellation is final.                                                 *)

\* Not more clients give up than the workers keep marks for: a worker takes no
\* more than twice MaxInFlight marks, and may forget them once it has more than
\* MaxInFlight and sees the task queue empty - while another worker may have a
\* copy in its hands.
FewAborts ==
    /\ IsFiniteSet(Cancellable) /\ Cardinality(Cancellable) <= 2 * MaxInFlight
    /\ Cardinality(Cancellable) <= MaxInFlight \/ \A v, w \in Workers : v = w

\* a sequence with status RUNNING is in the worker's lists, or was dropped by a
\* device runner that had raised: nobody has a copy of it
Tracked(w, t) ==
    status[w][t] = "RUNNING" => t \in sent /\ (Working(w, t) \/ ~Somewhere(t))
\* a worker that has taken the cancellation of a request is rid of it, and skips
\* its copy wherever that may come from
Skips(w, t) ==
    t \in cancelled /\ t \notin Elems(cancelQ[w]) =>
        ~Working(w, t) /\ (Somewhere(t) => t \in pending[w])
Final ==
    /\ Places /\ Marked /\ cancelled \subseteq sent \cap Cancellable
    /\ \A w \in Workers, t \in Tasks : Tracked(w, t) /\ Skips(w, t)

LEMMA MarksFit ==
    ASSUME FewAborts, Marked, cancelled \subseteq Cancellable, NEW w \in Workers
    PROVE  /\ \A t \in Cancellable \ pending[w] : Cardinality(pending[w]) < 2 * MaxInFlight
           /\ Cardinality(pending[w]) > MaxInFlight => \A u, v \in Workers : u = v
<1>1. pending[w] \in SUBSET Cancellable
  BY DEF Marked
<1>2. /\ IsFiniteSet(pending[w]) /\ Cardinality(pending[w]) <= Cardinality(Cancellable)
      /\ Cardinality(Cancellable) = Cardinality(pending[w]) => Cancellable = pending[w]
  BY <1>1, FS_Subset DEF FewAborts
<1>3. Cardinality(pending[w]) \in Nat /\ Cardinality(Cancellable) \in Nat
  BY <1>2, FS_CardinalityType DEF FewAborts
<1> QED
  BY <1>2, <1>3, SizesAssumption DEF FewAborts

\* where a request that a worker's step leaves somewhere was before it
LEMMA ComesFrom ==
    ASSUME Shapes, NEW w \in Workers, Loop(w), WorkerStep(w), NEW t \in Tasks
    PROVE  /\ t \in TasksOf(queue)' =>
                \/ t \in TasksOf(queue) \/ Holds(w, t)
                \/ Released(w) /\ after[w] = "preempt" /\ Working(w, t) /\ t = task[w]
           /\ Holds(w, t)' => t \in TasksOf(queue) \/ Holds(w, t)
           /\ Working(w, t)' =>
                Working(w, t) \/ (Take(w) /\ t \in TasksOf(queue) /\ t = Head(queue).task)
           /\ \A v \in Workers \ {w} : /\ Holds(v, t)' = Holds(v, t)
                                       /\ Working(v, t)' <=> Working(v, t)
<1>1. queue \in Seq(Copies) /\ hold[w] \in Seq(Copies) /\ task[w] \in Tasks /\ gen[w][task[w]] \in Nat
  BY OfWorker
<1>2. queue # <<>> => /\ Head(queue) \in Copies /\ Tail(queue) \in Seq(Copies)
                      /\ TasksOf(queue) = {Head(queue).task} \cup TasksOf(Tail(queue))
  BY <1>1, TasksTail
<1>3. \A c : TasksOf(<<c>>) = {c.task}
  BY DEF TasksOf
<1>4. TasksOf(<<>>) = {}
  BY DEF TasksOf
<1>5. \A v \in Workers \ {w} : /\ Holds(v, t)' = Holds(v, t)
                               /\ Working(v, t)' <=> Working(v, t)
  BY Elsewhere DEF Same, Holds, Working, Elems, TasksOf
<1>6. Working(w, t)' => Working(w, t) \/ (Take(w) /\ t \in TasksOf(queue) /\ t = Head(queue).task)
  BY WorkingStep, HeadCopy DEF Take
<1>7. /\ t \in TasksOf(queue)' =>
           \/ t \in TasksOf(queue) \/ Holds(w, t)
           \/ Released(w) /\ after[w] = "preempt" /\ Working(w, t) /\ t = task[w]
      /\ Holds(w, t)' => t \in TasksOf(queue) \/ Holds(w, t)
  <2>1. CASE queue' = queue /\ UNCHANGED hold
    BY <2>1 DEF Holds
  <2>2. CASE queue # <<>> /\ queue' = Tail(queue) /\ UNCHANGED hold
    BY <1>2, <2>2 DEF Holds
  <2>3. CASE queue # <<>> /\ queue' = Tail(queue) /\ hold'[w] = <<Head(queue)>>
    BY <1>2, <1>3, <2>3 DEF Holds
  <2>4. CASE queue # <<>> /\ queue' = Append(Tail(queue), Head(queue)) /\ UNCHANGED hold
    <3>1. TasksOf(queue') = TasksOf(Tail(queue)) \cup {Head(queue).task}
      BY <1>2, <2>4, TasksAppend
    <3> QED
      BY <1>2, <2>4, <3>1 DEF Holds
  <2>5. ASSUME NEW c \in Copies, hold[w] = <<c>>, queue' = Append(queue, c), hold'[w] = <<>>
        PROVE  /\ t \in TasksOf(queue)' => t \in TasksOf(queue) \/ Holds(w, t)
               /\ ~Holds(w, t)'
    <3>1. TasksOf(queue') = TasksOf(queue) \cup {c.task}
      BY <1>1, <2>5, TasksAppend
    <3> QED
      BY <1>3, <1>4, <2>5, <3>1 DEF Holds
  <2>6. CASE /\ Released(w) /\ after[w] = "preempt" /\ pc[w] = "release" /\ UNCHANGED hold
             /\ queue' = Append(queue, [task |-> task[w], gen |-> gen[w][task[w]]])
    <3>1. PICK c \in Copies : c = [task |-> task[w], gen |-> gen[w][task[w]]]
      BY <1>1 DEF Copies
    <3>2. TasksOf(queue') = TasksOf(queue) \cup {c.task} /\ c.task = task[w]
      BY <1>1, <2>6, <3>1, TasksAppend
    <3> QED
      BY <2>6, <3>2 DEF Holds, Working
  <2> QED
    BY <2>1, <2>2, <2>3, <2>4, <2>5, <2>6, QueueStep
<1> QED
  BY <1>5, <1>6, <1>7

\* no worker makes a request up
LEMMA NotFromNowhere ==
    ASSUME Shapes, NEW w \in Workers, Loop(w), WorkerStep(w), NEW t \in Tasks, Somewhere(t)'
    PROVE  Somewhere(t)
  BY ComesFrom DEF Somewhere

\* a request that leaves a worker's lists is gone, unless it was preempted
LEMMA GoneForGood ==
    ASSUME Shapes, NEW w \in Workers, Loop(w), WorkerStep(w), NEW t \in Tasks, Single(t),
           Working(w, t), ~Working(w, t)'
    PROVE  \/ ~Somewhere(t)'
           \/ Released(w) /\ after[w] = "preempt" /\ t = task[w]
<1>1. Active(w, t)
  BY DEF Working, Active
<1>2. t \notin TasksOf(queue) /\ \A v \in Workers : ~Holds(v, t)
  BY <1>1 DEF Single
<1>3. \A v \in Workers : v # w => ~Working(v, t)
  BY <1>1 DEF Single, Working, Active
<1> QED
  BY <1>2, <1>3, ComesFrom DEF Somewhere

\* the copy of an aborted request was the only one
LEMMA SkippedForGood ==
    ASSUME Shapes, NEW w \in Workers, SkipAborted(w), Loop(w), NEW t \in Tasks, Single(t),
           t = Head(queue).task
    PROVE  ~Somewhere(t)'
<1>1. /\ WorkerStep(w) /\ queue # <<>> /\ queue' = Tail(queue) /\ UNCHANGED hold
  BY DEF WorkerStep, SkipAborted, localVars
<1>2. t \in TasksOf(queue) /\ t \notin TasksOf(Tail(queue))
  BY <1>1, OfWorker, TasksTail DEF Single
<1>3. \A v \in Workers : ~Holds(v, t) /\ ~Working(v, t)
  BY <1>2 DEF Single, Working, Active
<1>4. ~Take(w)
  BY DEF Take, SkipAborted
<1>5. \A v \in Workers : ~Holds(v, t)' /\ ~Working(v, t)'
  BY <1>1, <1>3, <1>4, ComesFrom DEF Holds
<1> QED
  BY <1>1, <1>2, <1>5 DEF Somewhere

\* what a step does to the marks and cancellations of its worker
LEMMA MarksStep ==
    ASSUME Marked, NEW w \in Workers, WorkerStep(w)
    PROVE  /\ UNCHANGED <<sent, cancelled>>
           /\ \A v \in Workers \ {w} : UNCHANGED <<pending[v], cancelQ[v]>>
           /\ \/ Abort(w)
              \/ UNCHANGED <<pending[w], cancelQ[w]>>
              \/ /\ SkipAborted(w) /\ UNCHANGED cancelQ[w]
                 /\ pending'[w] = pending[w] \ {Head(queue).task}
              \/ /\ DecodeEnds(w) /\ UNCHANGED cancelQ[w]
                 /\ queue = <<>> /\ Cardinality(pending[w]) > MaxInFlight
<1> USE DEF Marked, serverVars
<1>1. CASE Abort(w)
  BY <1>1 DEF Abort
<1>2. CASE SkipAborted(w)
  BY <1>2 DEF SkipAborted
<1>3. CASE DecodeEnds(w)
  BY <1>3 DEF DecodeEnds
<1>4. CASE UNCHANGED <<sent, cancelled, pending, cancelQ>>
  BY <1>4
<1> QED
  BY <1>1, <1>2, <1>3, <1>4 DEF WorkerStep, Wait, Receive, PushBack, Plan, PutBack, Take, PrefillEnds,
     AllocHit, AllocMiss, Allocated, Append1, Preempt, Launch, Token, Finish, Fail, Release, Released

LEMMA TrackedKept ==
    ASSUME Shapes, \A u \in Tasks : Single(u), NEW w \in Workers, Loop(w), Marked, WorkerStep(w),
           NEW v \in Workers, NEW t \in Tasks, Tracked(v, t)
    PROVE  Tracked(v, t)'
<1>1. sent' = sent /\ (Somewhere(t)' => Somewhere(t))
  BY MarksStep, NotFromNowhere
<1>2. CASE v # w
  <2>1. status'[v] = status[v] /\ (Working(v, t)' <=> Working(v, t))
    BY <1>2, Elsewhere, ComesFrom DEF Same
  <2> QED
    BY <1>1, <2>1 DEF Tracked
<1>3. CASE v = w
  <2> SUFFICES ASSUME status'[w][t] = "RUNNING" PROVE t \in sent /\ (Working(w, t)' \/ ~Somewhere(t)')
    BY <1>1, <1>3 DEF Tracked
  <2>1. CASE status[w][t] = "RUNNING"
    <3>1. ~(Released(w) /\ after[w] = "preempt" /\ t = task[w])
      BY <2>1, OfWorker DEF Released, Shapes, Sequences3
    <3> QED
      BY <1>1, <1>3, <2>1, <3>1, GoneForGood DEF Tracked
  <2>2. CASE status[w][t] # "RUNNING"
    <3>1. Token(w) /\ t = Head(batch[w])
      <4>1. CASE Released(w)
        <5>1. status'[w][t] = status[w][t] \/ status'[w][t] \in {"WAITING", "none"}
          <6>1. PICK x \in {"WAITING", "none"} :
                  status' = [status EXCEPT ![w] = [status[w] EXCEPT ![task[w]] = x]]
            BY <4>1 DEF Released
          <6> QED
            BY <6>1, OfWorker DEF Shapes, Sequences3
        <5> QED
          BY <2>2, <5>1
      <4>2. CASE SkipAborted(w) \/ Take(w)
        BY <2>2, <4>2, HeadCopy DEF SkipAborted, Take, Shapes, Sequences3
      <4>3. CASE Token(w)
        <5>1. Head(batch[w]) \in Tasks
          BY <4>3, OfWorker, ElemsTail DEF Token
        <5> QED
          BY <2>2, <4>3, <5>1 DEF Token, Shapes, Sequences3
      <4>4. CASE UNCHANGED status
        BY <2>2, <4>4
      <4> QED
        BY <4>1, <4>2, <4>3, <4>4 DEF WorkerStep, Abort, Wait, Receive, PushBack, Plan, PutBack,
           PrefillEnds, AllocHit, AllocMiss, Allocated, Append1, Preempt, DecodeEnds, Launch,
           Finish, Fail, Release
    <3>2. t \in Elems(batch[w]) /\ decodeQ'[w] = Append(decodeQ[w], t)
      BY <3>1, OfWorker, ElemsTail DEF Token, Shapes, Sequences3
    <3>3. Active(w, t) /\ Working(w, t)'
      BY <3>2, OfWorker, ElemsAppend DEF Active, Working
    <3> QED
      BY <3>3 DEF Single
  <2> QED
    BY <2>1, <2>2
<1> QED
  BY <1>2, <1>3

\* a worker that takes a cancellation is rid of the request, and marks it if a
\* copy may come
LEMMA AbortSkips ==
    ASSUME FewAborts, Final, NEW w \in Workers, Abort(w), NEW t \in Tasks, t = Head(cancelQ[w])
    PROVE  ~Working(w, t)' /\ (Somewhere(t)' => t \in pending'[w])
<1>1. /\ WorkerStep(w) /\ Shapes /\ Loop(w) /\ Single(t) /\ Tracked(w, t) /\ Marked
      /\ cancelled \subseteq Cancellable
  BY DEF WorkerStep, Final, Places
<1>2. pc[w] = "idle" /\ batch[w] = <<>> /\ batch'[w] = <<>> /\ Elems(<<>>) = {}
  BY <1>1 DEF Abort, Loop, Elems
<1>3. decodeQ[w] \in Seq(Tasks) /\ Distinct(decodeQ[w])
  BY <1>1, OfWorker DEF Loop
<1>4. t \in Cancellable
  BY <1>1, ElemsTail DEF Abort, Marked
<1>5. ~Working(w, t)'
  <2>1. CASE status[w][t] = "none"
    <3>1. t \notin Elems(decodeQ[w]) /\ UNCHANGED <<decodeQ, pc>>
      BY <1>1, <2>1 DEF Abort, Loop
    <3> QED
      BY <1>2, <3>1 DEF Working
  <2>2. CASE status[w][t] # "none"
    <3>1. /\ decodeQ'[w] = Without(decodeQ[w], t) /\ pc'[w] = "release" /\ after'[w] = "erase"
      BY <1>1, <2>2 DEF Abort, Unlinked, ReleaseThen, Shapes, Sequences3, Control
    <3>2. t \notin Elems(decodeQ'[w])
      BY <1>3, <3>1, ElemsWithout
    <3> QED
      BY <1>2, <3>1, <3>2 DEF Working
  <2> QED
    BY <2>1, <2>2
<1>6. CASE status[w][t] = "RUNNING"
  <2>1. ~Released(w)
    BY <1>2 DEF Released
  <2> QED
    BY <1>1, <1>5, <1>6, <2>1, GoneForGood, NotFromNowhere DEF Tracked
<1>7. CASE status[w][t] # "RUNNING"
  <2>1. MayBeQueued(w, t)
    BY <1>1, <1>7 DEF MayBeQueued, Shapes, Sequences3
  <2>2. t \in pending'[w]
    BY <1>1, <1>4, <2>1, MarksFit DEF Abort, Marked
  <2> QED
    BY <1>5, <2>2
<1> QED
  BY <1>6, <1>7

LEMMA SkipsKept ==
    ASSUME FewAborts, Final, NEW w \in Workers, WorkerStep(w), NEW v \in Workers, NEW t \in Tasks
    PROVE  Skips(v, t)'
<1>1. /\ Shapes /\ Loop(w) /\ Single(t) /\ Marked /\ Skips(v, t) /\ cancelled \subseteq Cancellable
  BY DEF Final, Places
<1>2. cancelled' = cancelled /\ (Somewhere(t)' => Somewhere(t))
  BY <1>1, MarksStep, NotFromNowhere
<1>3. CASE v # w
  <2>1. UNCHANGED <<pending[v], cancelQ[v]>> /\ (Working(v, t)' <=> Working(v, t))
    BY <1>1, <1>3, MarksStep, ComesFrom
  <2>2. Elems(cancelQ[v])' = Elems(cancelQ[v])
    BY <2>1 DEF Elems
  <2> QED
    BY <1>1, <1>2, <2>1, <2>2 DEF Skips
<1>4. CASE v = w
  <2> SUFFICES ASSUME t \in cancelled, t \notin Elems(cancelQ'[w])
               PROVE  ~Working(w, t)' /\ (Somewhere(t)' => t \in pending'[w])
    BY <1>2, <1>4 DEF Skips, Elems
  <2>1. CASE Abort(w) /\ t = Head(cancelQ[w])
    BY <2>1, AbortSkips
  <2>2. CASE ~(Abort(w) /\ t = Head(cancelQ[w]))
    <3>1. t \notin Elems(cancelQ[w])
      <4>1. CASE Abort(w)
        <5>1. cancelQ'[w] = Tail(cancelQ[w]) /\ cancelQ[w] \in Seq(Tasks) /\ cancelQ[w] # <<>>
          BY <1>1, <4>1 DEF Abort, Marked
        <5> QED
          BY <2>2, <4>1, <5>1, ElemsTail
      <4>2. CASE UNCHANGED cancelQ[w]
        BY <4>2
      <4> QED
        BY <1>1, <4>1, <4>2, MarksStep
    <3>2. ~Working(w, t) /\ (Somewhere(t) => t \in pending[w])
      BY <1>1, <1>4, <3>1 DEF Skips
    <3>3. ~Working(w, t)'
      <4>1. Take(w) /\ t = Head(queue).task => t \notin pending[w]
        BY DEF Take
      <4> QED
        BY <1>1, <3>2, <4>1, ComesFrom DEF Somewhere
    <3>4. CASE DecodeEnds(w) /\ queue = <<>> /\ Cardinality(pending[w]) > MaxInFlight
      <4>1. \A u \in Workers : u = w
        BY <1>1, <3>4, MarksFit
      <4>2. hold[w] = <<>> /\ TasksOf(<<>>) = {}
        BY <1>1, <3>4 DEF DecodeEnds, Loop, TasksOf
      <4>3. ~Somewhere(t)
        BY <3>2, <3>4, <4>1, <4>2 DEF Somewhere, Holds
      <4> QED
        BY <1>2, <3>3, <4>3
    <3>5. CASE SkipAborted(w) /\ pending'[w] = pending[w] \ {Head(queue).task}
      BY <1>1, <1>2, <3>2, <3>3, <3>5, SkippedForGood
    <3>6. CASE Abort(w)
      <4>1. pending[w] \subseteq pending'[w]
        BY <1>1, <3>6 DEF Abort, Marked
      <4> QED
        BY <1>2, <3>2, <3>3, <4>1
    <3>7. CASE UNCHANGED pending[w]
      BY <1>2, <3>2, <3>3, <3>7
    <3> QED
      BY <1>1, <3>4, <3>5, <3>6, <3>7, MarksStep
  <2> QED
    BY <2>1, <2>2
<1> QED
  BY <1>3, <1>4

LEMMA FinalInit == Init => Final
<1> SUFFICES ASSUME Init PROVE Final
  OBVIOUS
<1>1. Places /\ Marked
  BY WholeInit DEF Whole
<1> QED
  BY <1>1 DEF Final, Init, Tracked, Skips

LEMMA FinalStep == FewAborts /\ Final /\ [Next]_vars => Final'
<1> SUFFICES ASSUME FewAborts, Final, [Next]_vars PROVE Final'
  OBVIOUS
<1>1. /\ Shapes /\ Marked /\ (\A t \in Tasks : Single(t)) /\ (\A w \in Workers : Loop(w))
      /\ cancelled \subseteq sent \cap Cancellable /\ sent \subseteq Tasks
      /\ \A w \in Workers, t \in Tasks : Tracked(w, t) /\ Skips(w, t)
  BY DEF Final, Places, Shapes, Shared
<1>2. Places' /\ Marked'
  BY <1>1, PlacesStep, MarkedKept DEF Final
<1>3. ASSUME NEW w \in Workers, WorkerStep(w) PROVE Final'
  <2>1. cancelled' \subseteq sent' \cap Cancellable
    BY <1>1, <1>3, MarksStep
  <2> QED
    BY <1>1, <1>2, <1>3, <2>1, TrackedKept, SkipsKept DEF Final
<1>4. ASSUME \A w \in Workers : Same(w), NEW t \in Tasks
      PROVE  \A w \in Workers : /\ Holds(w, t)' = Holds(w, t) /\ (Working(w, t)' <=> Working(w, t))
                                /\ status'[w] = status[w]
  BY <1>4 DEF Same, Holds, Working, Elems, TasksOf
<1>5. ASSUME NEW u \in Tasks, Submit(u) PROVE Final'
  <2>1. /\ \A w \in Workers : Same(w)
        /\ u \notin sent /\ sent' = sent \cup {u} /\ UNCHANGED <<cancelled, cancelQ, pending>>
    BY <1>5 DEF Submit, blockVars, localVars, Same
  <2>2. PICK c \in Copies : c = [task |-> u, gen |-> 0]
    BY DEF Copies
  <2>3. queue' = Append(queue, c) /\ c.task = u /\ queue \in Seq(Copies)
    BY <1>1, <1>5, <2>2 DEF Submit, Shapes, Shared
  <2>4. TasksOf(queue') = TasksOf(queue) \cup {u}
    BY <2>3, TasksAppend
  <2>5. ASSUME NEW t \in Tasks, t # u PROVE Somewhere(t)' <=> Somewhere(t)
    BY <1>4, <2>1, <2>4, <2>5 DEF Somewhere
  <2>6. ASSUME NEW w \in Workers, NEW t \in Tasks PROVE Tracked(w, t)' /\ Skips(w, t)'
    <3>1. Tracked(w, t) /\ Skips(w, t)
      BY <1>1
    <3>2. Elems(cancelQ[w])' = Elems(cancelQ[w])
      BY <2>1
    <3> QED
      BY <1>1, <1>4, <2>1, <2>5, <3>1, <3>2 DEF Tracked, Skips
  <2> QED
    BY <1>1, <1>2, <2>1, <2>6 DEF Final
<1>6. ASSUME UNCHANGED <<sent, queue, pending>>, \A w \in Workers : Same(w),
             cancelled' \subseteq sent \cap Cancellable,
             \A t \in cancelled' : t \in cancelled \/ \A w \in Workers : t \in Elems(cancelQ'[w]),
             \A w \in Workers : Elems(cancelQ[w]) \subseteq Elems(cancelQ'[w])
      PROVE  Final'
  <2>1. ASSUME NEW t \in Tasks PROVE Somewhere(t)' <=> Somewhere(t)
    BY <1>4, <1>6 DEF Somewhere, TasksOf
  <2>2. ASSUME NEW w \in Workers, NEW t \in Tasks PROVE Tracked(w, t)' /\ Skips(w, t)'
    <3>1. Tracked(w, t) /\ Skips(w, t)
      BY <1>1
    <3>2. Tracked(w, t)'
      BY <1>4, <1>6, <2>1, <3>1 DEF Tracked
    <3>3. Skips(w, t)'
      <4> SUFFICES ASSUME t \in cancelled', t \notin Elems(cancelQ[w])'
                   PROVE  ~Working(w, t)' /\ (Somewhere(t)' => t \in pending'[w])
        BY DEF Skips
      <4>1. t \in cancelled /\ t \notin Elems(cancelQ[w])
        BY <1>6
      <4> QED
        BY <1>4, <1>6, <2>1, <3>1, <4>1 DEF Skips
    <3> QED
      BY <3>2, <3>3
  <2> QED
    BY <1>2, <1>6, <2>2 DEF Final
<1>7. ASSUME NEW u \in Tasks, Cancel(u) PROVE Final'
  <2>1. /\ UNCHANGED <<sent, queue, pending>> /\ \A w \in Workers : Same(w)
        /\ cancelled' = cancelled \cup {u} /\ u \in sent \cap Cancellable
    BY <1>7 DEF Cancel, blockVars, localVars, Same
  <2>2. \A w \in Workers : Elems(cancelQ'[w]) = Elems(cancelQ[w]) \cup {u}
    <3>1. ASSUME NEW w \in Workers PROVE Elems(Append(cancelQ[w], u)) = Elems(cancelQ[w]) \cup {u}
      <4>1. cancelQ[w] \in Seq(Tasks)
        BY <1>1 DEF Marked
      <4> QED
        BY <4>1, ElemsAppend
    <3> QED
      BY <1>7, <3>1 DEF Cancel
  <2> QED
    BY <1>1, <1>6, <2>1, <2>2
<1>8. CASE UNCHANGED vars
  BY <1>1, <1>6, <1>8 DEF vars, serverVars, blockVars, localVars, Same
<1> QED
  BY <1>3, <1>5, <1>7, <1>8 DEF Next

\* Once the workers have taken a cancellation the request gets no token any more
\* (scheduler.cpp, abortRequest, trySchedulePrefill), with any number of workers
\* as long as no more clients give up than a worker never forgets marks for.
THEOREM AbortIsFinalHolds == ASSUME FewAborts PROVE Spec => AbortIsFinal
<1>1. ASSUME Final, [Next]_vars, NEW t \in cancelled, \A w \in Workers : t \notin Elems(cancelQ[w])
      PROVE  emitted'[t] = emitted[t]
  <2>1. t \in Tasks /\ Shapes /\ Marked /\ \A w \in Workers : ~Working(w, t)
    BY <1>1 DEF Final, Places, Skips, Shapes, Shared
  <2>2. ASSUME NEW w \in Workers, WorkerStep(w) PROVE emitted'[t] = emitted[t]
    <3>1. t \notin Elems(batch[w])
      BY <2>1 DEF Working
    <3> QED
      BY <2>1, <2>2, <3>1, TokensStep
  <2>3. CASE \E u \in Tasks : Submit(u) \/ Cancel(u)
    BY <2>3 DEF Submit, Cancel, outVars
  <2>4. CASE UNCHANGED vars
    BY <2>4 DEF vars, outVars
  <2> QED
    BY <1>1, <2>2, <2>3, <2>4 DEF Next
<1>2. Final /\ [Next]_vars =>
        [\A t \in cancelled :
           (\A w \in Workers : t \notin Elems(cancelQ[w])) => emitted'[t] = emitted[t]]_vars
  BY <1>1
<1>3. Final /\ [Next]_vars => Final'
  BY FinalStep
<1> QED
  BY <1>2, <1>3, FinalInit, PTL DEF Spec, AbortIsFinal

=============================================================================
