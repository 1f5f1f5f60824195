------------------------ MODULE PrefillGatewayProofs -------------------------
(***************************************************************************)
(* The prefill gateway, for any number of tasks, servers, keys, losses and *)
(* connections.  The heart of the invariant is HolderOK: as long as nobody *)
(* has settled a task exactly one of the table, the timer, the io thread   *)
(* and the decode thread has it, the last one alone or with the table, and *)
(* whoever has it agrees with the server whose count stands for it.        *)
(***************************************************************************)
EXTENDS PrefillGateway, TLAPS, FiniteSetTheorems

\* The threads are idle or in a step for some task and server.
ThreadsOK ==
    /\ decode = DecodeIdle \/ (decode.pc # "idle" /\ decode.task \in Tasks /\ decode.server \in Servers)
    /\ io = IoIdle \/ (io.task \in Tasks /\ io.server \in Servers)

\* Who has the task, and which server's count stands for it.
HolderOK(t) ==
    /\ entry[t] # NoServer => slot[t] = entry[t] /\ due[t] = NoServer /\ io.task # t
    /\ due[t] # NoServer => slot[t] = due[t] /\ io.task # t /\ decode.task # t
    /\ io.task = t => slot[t] = io.server /\ decode.task # t
    /\ decode.task = t => slot[t] = decode.server
    /\ decode.task = t /\ decode.pc = "record" => entry[t] = NoServer /\ t \notin orphaned
    /\ decode.task = t /\ decode.pc # "record" => entry[t] # NoServer \/ t \in orphaned
    /\ slot[t] # NoServer => Held(t) \/ t \in orphaned
    /\ stage[t] # "handled" => slot[t] = NoServer /\ ~Held(t) /\ t \notin orphaned \cup accepted

\* What decode has been told of the task.
VerdictOK(t) ==
    /\ forwarded[t] <= 1 /\ (forwarded[t] = 1 => failed[t] = 0)
    /\ failed[t] <= (IF t \in orphaned THEN 2 ELSE 1)
    /\ entry[t] # NoServer \/ due[t] # NoServer \/ io.task = t =>
          t \notin orphaned /\ failed[t] = 0
    /\ decode.task = t => failed[t] <= (IF t \in orphaned THEN 1 ELSE 0)
    /\ Held(t) \/ t \in accepted \/ stage[t] # "handled" => forwarded[t] = 0
    /\ t \in accepted \/ stage[t] # "handled" => failed[t] = 0
    /\ t \in accepted => ~Held(t)

\* Only the server that was asked answers.
Asked(t, s) == stage[t] = "handled" /\ decode.task # t /\ slot[t] \in {s, NoServer}
AnswersOK ==
    /\ \A w \in work : Asked(w[1], w[2])
    /\ \A m \in results : Asked(m.task, m.server)

\* DownServerHoldsNoTask, with the place of the decode thread.
LostOK ==
    \A t \in Tasks :
        /\ entry[t] # NoServer /\ peer[entry[t]] = 0
        /\ entry[t] \notin silent /\ downing # entry[t]
        => decode.task = t /\ decode.pc \in {"lookup", "drop"}

\* The tasks a server's count stands for, those failed with the server included.
On(s) == {t \in Tasks : slot[t] = s}
CountExact == \A s \in Servers : inFlight[s] = Cardinality(On(s))

WithinCapacity == MaxInFlight > 0 => \A s \in Servers : inFlight[s] <= MaxInFlight

TasksOK == \A t \in Tasks : HolderOK(t) /\ VerdictOK(t)

IInv == TypeOK /\ ThreadsOK /\ TasksOK /\ AnswersOK /\ LostOK
CountInv == CountExact /\ WithinCapacity

-----------------------------------------------------------------------------
(* The steps.                                                              *)

LEMMA DecrementType ==
    ASSUME NEW s \in Servers, inFlight \in [Servers -> Nat], Decrement(s)
    PROVE  inFlight' \in [Servers -> Nat]
<1>1. inFlight[s] > 0 => inFlight[s] - 1 \in Nat
  OBVIOUS
<1> QED
  BY <1>1 DEF Decrement

LEMMA FailType ==
    ASSUME NEW tasks, failed \in [Tasks -> Nat], Fail(tasks)
    PROVE  failed' \in [Tasks -> Nat]
  BY DEF Fail

LEMMA StrikeType ==
    ASSUME TypeOK, NEW s \in Servers, Strike(s)
    PROVE  /\ strikes' \in [Servers -> 0..(Threshold - 1)]
           /\ blocked' \in SUBSET Servers /\ accepting' \in [Servers -> BOOLEAN]
<1>1. PICK n \in 1..strikes[s] + 1 :
        IF n >= Threshold
        THEN /\ strikes' = [strikes EXCEPT ![s] = 0]
             /\ blocked' = blocked \cup {s}
             /\ accepting' = [accepting EXCEPT ![s] = FALSE]
        ELSE /\ strikes' = [strikes EXCEPT ![s] = n]
             /\ UNCHANGED <<blocked, accepting>>
  BY DEF Strike
<1>2. Threshold \in Nat \ {0} /\ strikes \in [Servers -> 0..(Threshold - 1)]
  BY GatewayAssumption DEF TypeOK
<1>3. CASE n >= Threshold
  <2>1. 0 \in 0..(Threshold - 1)
    BY <1>2
  <2>2. strikes' = [strikes EXCEPT ![s] = 0]
    BY <1>1, <1>3
  <2>3. strikes' \in [Servers -> 0..(Threshold - 1)]
    BY <1>2, <2>1, <2>2
  <2>4. blocked' \in SUBSET Servers
    BY <1>1, <1>3 DEF TypeOK
  <2>5. accepting' \in [Servers -> BOOLEAN]
    BY <1>1, <1>3 DEF TypeOK
  <2> QED
    BY <2>3, <2>4, <2>5
<1>4. CASE ~(n >= Threshold)
  <2>1. n \in 0..(Threshold - 1)
    BY <1>2, <1>4
  <2> QED
    BY <1>1, <1>2, <1>4, <2>1 DEF TypeOK
<1> QED
  BY <1>3, <1>4

LEMMA AskStep ==
    ASSUME IInv, NEW t \in Tasks, Ask(t) PROVE IInv'
<1>1. TypeOK'
  BY DEF IInv, TypeOK, Ask, verdicts, registry, watchdog, timer, prefills, history
<1>2. ThreadsOK'
  BY DEF IInv, ThreadsOK, Ask
<1>3. ASSUME NEW u \in Tasks PROVE HolderOK(u)'
  BY DEF IInv, TasksOK, HolderOK, Held, Ask, timer, history
<1>4. ASSUME NEW u \in Tasks PROVE VerdictOK(u)'
  BY DEF IInv, TasksOK, VerdictOK, Held, Ask, verdicts, timer, history
<1>5. AnswersOK'
  BY DEF IInv, AnswersOK, Asked, Ask, prefills, history
<1>6. LostOK'
  BY DEF IInv, LostOK, Ask, watchdog
<1> QED
  BY <1>1, <1>2, <1>3, <1>4, <1>5, <1>6 DEF IInv, TasksOK

LEMMA AbortStep ==
    ASSUME IInv, NEW t \in Tasks, Abort(t) PROVE IInv'
<1>1. TypeOK'
  BY DEF IInv, TypeOK, Abort, verdicts, registry, watchdog, timer, prefills, history
<1>2. ThreadsOK'
  BY DEF IInv, ThreadsOK, Abort
<1>3. ASSUME NEW u \in Tasks PROVE HolderOK(u)'
  BY DEF IInv, TasksOK, HolderOK, Held, Abort, timer, history
<1>4. ASSUME NEW u \in Tasks PROVE VerdictOK(u)'
  BY DEF IInv, TasksOK, VerdictOK, Held, Abort, verdicts, timer, history
<1>5. AnswersOK'
  BY DEF IInv, AnswersOK, Asked, Abort, prefills, history
<1>6. LostOK'
  BY DEF IInv, LostOK, Abort, watchdog
<1> QED
  BY <1>1, <1>2, <1>3, <1>4, <1>5, <1>6 DEF IInv, TasksOK

LEMMA SelectStep ==
    ASSUME IInv, NEW t \in Tasks, Select(t) PROVE IInv'
<1>1. TypeOK'
  BY DEF IInv, TypeOK, Target, Stages, Select, Increment, watchdog, timer, prefills, Fail,
     DecodeIdle, Selection
<1>2. ThreadsOK'
  BY DEF IInv, ThreadsOK, Select, Selection
<1>3. ASSUME NEW u \in Tasks PROVE HolderOK(u)'
  BY DEF IInv, TypeOK, TasksOK, HolderOK, Held, DecodeIdle, Select, timer
<1>4. ASSUME NEW u \in Tasks PROVE VerdictOK(u)'
  BY DEF IInv, TypeOK, TasksOK, HolderOK, VerdictOK, Held, Select, timer, Fail
<1>5. AnswersOK'
  BY DEF IInv, TypeOK, Result, AnswersOK, Asked, Select, prefills
<1>6. LostOK'
  BY DEF IInv, LostOK, DecodeIdle, Select, watchdog
<1> QED
  BY <1>1, <1>2, <1>3, <1>4, <1>5, <1>6 DEF IInv, TasksOK

LEMMA RecordStep ==
    ASSUME IInv, Record PROVE IInv'
<1>1. TypeOK'
  BY DEF IInv, TypeOK, Stages, Record, decodeSide, verdicts, registry, watchdog, timer,
     prefills, history, Goes
<1>2. ThreadsOK'
  BY DEF IInv, ThreadsOK, DecodeIdle, Record, Goes
<1>3. ASSUME NEW u \in Tasks PROVE HolderOK(u)'
  BY GatewayAssumption DEF IInv, TypeOK, ThreadsOK, TasksOK, HolderOK, Held, DecodeIdle,
     Record, decodeSide, timer, history, Goes
<1>4. ASSUME NEW u \in Tasks PROVE VerdictOK(u)'
  BY DEF IInv, TypeOK, TasksOK, HolderOK, VerdictOK, Held, Record, decodeSide, verdicts,
     timer, history, Goes
<1>5. AnswersOK'
  BY DEF IInv, AnswersOK, Asked, Record, decodeSide, prefills, history, Goes
<1>6. LostOK'
  BY DEF IInv, TypeOK, ThreadsOK, Target, LostOK, Record, watchdog, Goes, DecodeIdle
<1> QED
  BY <1>1, <1>2, <1>3, <1>4, <1>5, <1>6 DEF IInv, TasksOK

LEMMA LookupStep ==
    ASSUME IInv, Lookup PROVE IInv'
<1>1. TypeOK'
  <2>1. decode.server \in Servers
    BY DEF IInv, ThreadsOK, Lookup, DecodeIdle
  <2>2. decode' \in [pc : Stages, task : Tasks \cup {NoTask}, server : Target,
                     to : 0..MaxConnections]
    BY <2>1 DEF IInv, TypeOK, Lookup, Stages
  <2> QED
    BY <2>2 DEF IInv, TypeOK, Lookup, decodeSide, verdicts, registry, watchdog, timer,
       prefills, history
<1>2. ThreadsOK'
  BY DEF IInv, ThreadsOK, DecodeIdle, Lookup
<1>3. ASSUME NEW u \in Tasks PROVE HolderOK(u)'
  BY DEF IInv, TasksOK, HolderOK, Held, Lookup, decodeSide, timer, history
<1>4. ASSUME NEW u \in Tasks PROVE VerdictOK(u)'
  BY DEF IInv, TasksOK, VerdictOK, Held, Lookup, decodeSide, verdicts, timer, history
<1>5. AnswersOK'
  BY DEF IInv, AnswersOK, Asked, Lookup, decodeSide, prefills, history
<1>6. LostOK'
  BY DEF IInv, TasksOK, HolderOK, LostOK, Lookup, watchdog
<1> QED
  BY <1>1, <1>2, <1>3, <1>4, <1>5, <1>6 DEF IInv, TasksOK

LEMMA SendStep ==
    ASSUME IInv, Send PROVE IInv'
<1>1. TypeOK'
  <2>1. decode.task \in Tasks /\ decode.server \in Servers
    BY DEF IInv, TypeOK, ThreadsOK, Send, DecodeIdle
  <2>2. decode' \in [pc : Stages, task : Tasks \cup {NoTask}, server : Target,
                     to : 0..MaxConnections]
    BY GatewayAssumption DEF IInv, TypeOK, Send, Goes, DecodeIdle, Stages, Target
  <2>3. work' \in SUBSET (Tasks \X Servers)
    BY <2>1 DEF IInv, TypeOK, Send
  <2> QED
    BY <2>2, <2>3 DEF IInv, TypeOK, Send, decodeSide, verdicts, registry, watchdog, timer,
       history
<1>2. ThreadsOK'
  BY DEF IInv, TypeOK, ThreadsOK, DecodeIdle, Send, Goes
<1>3. ASSUME NEW u \in Tasks PROVE HolderOK(u)'
  BY GatewayAssumption DEF IInv, TypeOK, TasksOK, HolderOK, Held, DecodeIdle, Send,
     decodeSide, timer, history, Goes
<1>4. ASSUME NEW u \in Tasks PROVE VerdictOK(u)'
  BY DEF IInv, TypeOK, TasksOK, VerdictOK, Held, DecodeIdle, IoIdle, Send, decodeSide,
     verdicts, timer, history, Goes
<1>5. AnswersOK'
  BY GatewayAssumption DEF IInv, TypeOK, Result, ThreadsOK, TasksOK, HolderOK, AnswersOK,
     Asked, DecodeIdle, Send, decodeSide, history, Goes
<1>6. LostOK'
  BY DEF IInv, ThreadsOK, LostOK, Send, watchdog, Goes
<1> QED
  BY <1>1, <1>2, <1>3, <1>4, <1>5, <1>6 DEF IInv, TasksOK

LEMMA DropStep ==
    ASSUME IInv, Drop PROVE IInv'
<1>1. TypeOK'
  <2>1. decode.task \in Tasks /\ decode.server \in Servers /\ DecodeIdle.task = NoTask
    BY DEF IInv, ThreadsOK, Drop, DecodeIdle
  <2>2. inFlight' \in [Servers -> Nat] /\ failed' \in [Tasks -> Nat]
    BY <2>1, DecrementType, FailType DEF IInv, TypeOK, Drop
  <2>3. slot' \in [Tasks -> Target] /\ entry' \in [Tasks -> Target]
    BY <2>1 DEF IInv, TypeOK, Drop, Target
  <2>4. decode' \in [pc : Stages, task : Tasks \cup {NoTask}, server : Target,
                     to : 0..MaxConnections]
    BY GatewayAssumption DEF IInv, TypeOK, Drop, DecodeIdle, Stages, Target
  <2> QED
    BY <2>2, <2>3, <2>4 DEF IInv, TypeOK, Drop, decodeSide, watchdog, timer, prefills
<1>2. ThreadsOK'
  BY DEF IInv, ThreadsOK, Drop
<1>3. ASSUME NEW u \in Tasks PROVE HolderOK(u)'
  BY GatewayAssumption DEF IInv, TypeOK, TasksOK, HolderOK, Held, DecodeIdle, Drop,
     decodeSide, timer
<1>4. ASSUME NEW u \in Tasks PROVE VerdictOK(u)'
  BY GatewayAssumption DEF IInv, TypeOK, TasksOK, HolderOK, VerdictOK, Held, DecodeIdle,
     Drop, decodeSide, timer, Fail
<1>5. AnswersOK'
  BY GatewayAssumption DEF IInv, TypeOK, Result, AnswersOK, Asked, DecodeIdle, Drop,
     decodeSide, prefills
<1>6. LostOK'
  BY DEF IInv, TypeOK, LostOK, Drop, watchdog
<1> QED
  BY <1>1, <1>2, <1>3, <1>4, <1>5, <1>6 DEF IInv, TasksOK

LEMMA CancelStep ==
    ASSUME IInv, NEW t \in Tasks, Cancel(t) PROVE IInv'
<1>1. TypeOK'
  BY DEF IInv, TypeOK, Cancel, verdicts, watchdog, timer, Decrement, StopsMaybe,
     DecodeIdle
<1>2. ThreadsOK'
  BY DEF IInv, ThreadsOK, Cancel
<1>3. ASSUME NEW u \in Tasks PROVE HolderOK(u)'
  BY DEF IInv, TypeOK, TasksOK, HolderOK, Held, DecodeIdle, Cancel, timer
<1>4. ASSUME NEW u \in Tasks PROVE VerdictOK(u)'
  BY DEF IInv, TypeOK, TasksOK, HolderOK, VerdictOK, Held, DecodeIdle, Cancel, verdicts,
     timer
<1>5. AnswersOK'
  BY DEF IInv, TypeOK, Result, AnswersOK, Asked, Cancel, StopsMaybe
<1>6. LostOK'
  BY DEF IInv, TypeOK, LostOK, Cancel, watchdog
<1> QED
  BY <1>1, <1>2, <1>3, <1>4, <1>5, <1>6 DEF IInv, TasksOK

LEMMA RegisterStep ==
    ASSUME IInv, NEW s \in Servers, Register(s) PROVE IInv'
<1>1. TypeOK'
  BY DEF IInv, TypeOK, Register, decodeSide, verdicts, watchdog, timer, history
<1>2. ThreadsOK'
  BY DEF IInv, ThreadsOK, Register
<1>3. ASSUME NEW u \in Tasks PROVE HolderOK(u)'
  BY DEF IInv, TasksOK, HolderOK, Held, Register, decodeSide, timer, history
<1>4. ASSUME NEW u \in Tasks PROVE VerdictOK(u)'
  BY DEF IInv, TasksOK, VerdictOK, Held, Register, decodeSide, verdicts, timer, history
<1>5. AnswersOK'
  BY DEF IInv, AnswersOK, Asked, Register, decodeSide, history
<1>6. LostOK'
  BY DEF IInv, TypeOK, LostOK, Register, watchdog
<1> QED
  BY <1>1, <1>2, <1>3, <1>4, <1>5, <1>6 DEF IInv, TasksOK

LEMMA TakeResultStep ==
    ASSUME IInv, NEW m \in results, TakeResult(m) PROVE IInv'
<1>1. TypeOK'
  BY DEF IInv, TypeOK, Target, Result, TakeResult, decodeSide, verdicts, registry,
     watchdog, timer, history
<1>2. ThreadsOK'
  BY DEF IInv, TypeOK, Result, ThreadsOK, TakeResult
<1>3. ASSUME NEW u \in Tasks PROVE HolderOK(u)'
  BY DEF IInv, TypeOK, TasksOK, HolderOK, AnswersOK, Asked, Held, IoIdle, TakeResult,
     decodeSide, timer, history
<1>4. ASSUME NEW u \in Tasks PROVE VerdictOK(u)'
  BY DEF IInv, TypeOK, TasksOK, VerdictOK, Held, TakeResult, decodeSide, verdicts, timer,
     history
<1>5. AnswersOK'
  BY DEF IInv, AnswersOK, Asked, TakeResult, decodeSide, history
<1>6. LostOK'
  BY DEF IInv, TypeOK, LostOK, TakeResult, watchdog
<1> QED
  BY <1>1, <1>2, <1>3, <1>4, <1>5, <1>6 DEF IInv, TasksOK

LEMMA FinishResultStep ==
    ASSUME IInv, FinishResult PROVE IInv'
<1>1. TypeOK'
  <2>1. io.task \in Tasks /\ io.server \in Servers
    BY DEF IInv, ThreadsOK, FinishResult
  <2>2. inFlight' \in [Servers -> Nat]
    BY <2>1, DecrementType DEF IInv, TypeOK, FinishResult
  <2>3. slot' \in [Tasks -> Target] /\ forwarded' \in [Tasks -> Nat]
    BY <2>1 DEF IInv, TypeOK, FinishResult, Target
  <2>4. affinity' \in [Keys -> Target]
    BY <2>1, GatewayAssumption DEF IInv, TypeOK, FinishResult, RecordAffinity, Target
  <2>5. io' \in [task : Tasks \cup {NoTask}, server : Target]
    BY DEF FinishResult, IoIdle, Target
  <2> QED
    BY <2>2, <2>3, <2>4, <2>5 DEF IInv, TypeOK, FinishResult, decodeSide, watchdog, timer,
       prefills
<1>2. ThreadsOK'
  BY DEF IInv, ThreadsOK, FinishResult
<1>3. ASSUME NEW u \in Tasks PROVE HolderOK(u)'
  BY GatewayAssumption DEF IInv, TypeOK, TasksOK, HolderOK, Held, IoIdle, FinishResult,
     decodeSide, timer
<1>4. ASSUME NEW u \in Tasks PROVE VerdictOK(u)'
  BY GatewayAssumption DEF IInv, TasksOK, HolderOK, VerdictOK, Held, IoIdle,
     FinishResult, decodeSide, timer
<1>5. AnswersOK'
  BY DEF IInv, AnswersOK, Asked, FinishResult, decodeSide, prefills
<1>6. LostOK'
  BY DEF IInv, LostOK, FinishResult, watchdog
<1> QED
  BY <1>1, <1>2, <1>3, <1>4, <1>5, <1>6 DEF IInv, TasksOK

LEMMA TakeStaleStep ==
    ASSUME IInv, NEW stale \in SUBSET Servers, TakeStale(stale) PROVE IInv'
<1>1. TypeOK'
  BY GatewayAssumption DEF IInv, TypeOK, TakeStale, decodeSide, verdicts, registry,
     timer, prefills, history
<1>2. ThreadsOK'
  BY DEF IInv, ThreadsOK, TakeStale
<1>3. ASSUME NEW u \in Tasks PROVE HolderOK(u)'
  BY DEF IInv, TasksOK, HolderOK, Held, TakeStale, decodeSide, timer, history
<1>4. ASSUME NEW u \in Tasks PROVE VerdictOK(u)'
  BY DEF IInv, TasksOK, VerdictOK, Held, TakeStale, decodeSide, verdicts, timer, history
<1>5. AnswersOK'
  BY DEF IInv, AnswersOK, Asked, TakeStale, decodeSide, prefills, history
<1>6. LostOK'
  BY DEF IInv, TypeOK, Target, LostOK, TakeStale
<1> QED
  BY <1>1, <1>2, <1>3, <1>4, <1>5, <1>6 DEF IInv, TasksOK

LEMMA MarkDownStep ==
    ASSUME IInv, NEW s \in Servers, MarkDown(s) PROVE IInv'
<1>1. TypeOK'
  BY DEF IInv, TypeOK, Target, MarkDown, EvictPrefill, decodeSide, verdicts, timer,
     prefills, history
<1>2. ThreadsOK'
  BY DEF IInv, ThreadsOK, MarkDown
<1>3. ASSUME NEW u \in Tasks PROVE HolderOK(u)'
  BY DEF IInv, TasksOK, HolderOK, Held, MarkDown, decodeSide, timer, history
<1>4. ASSUME NEW u \in Tasks PROVE VerdictOK(u)'
  BY DEF IInv, TasksOK, VerdictOK, Held, MarkDown, decodeSide, verdicts, timer, history
<1>5. AnswersOK'
  BY DEF IInv, AnswersOK, Asked, MarkDown, decodeSide, prefills, history
<1>6. LostOK'
  BY DEF IInv, TypeOK, Target, LostOK, MarkDown, EvictPrefill
<1> QED
  BY <1>1, <1>2, <1>3, <1>4, <1>5, <1>6 DEF IInv, TasksOK

LEMMA FailOrphansStep ==
    ASSUME IInv, FailOrphans PROVE IInv'
<1>1. TypeOK'
  BY DEF IInv, TypeOK, Target, FailOrphans, decodeSide, registry, timer, prefills, Fail
<1>2. ThreadsOK'
  BY DEF IInv, ThreadsOK, FailOrphans
<1>3. ASSUME NEW u \in Tasks PROVE HolderOK(u)'
  BY DEF IInv, TasksOK, HolderOK, Held, FailOrphans, decodeSide, timer
<1>4. ASSUME NEW u \in Tasks PROVE VerdictOK(u)'
  BY DEF IInv, TasksOK, HolderOK, VerdictOK, Held, FailOrphans, decodeSide, timer, Fail
<1>5. AnswersOK'
  BY DEF IInv, AnswersOK, Asked, FailOrphans, decodeSide, prefills
<1>6. LostOK'
  BY DEF IInv, TypeOK, Target, LostOK, FailOrphans
<1> QED
  BY <1>1, <1>2, <1>3, <1>4, <1>5, <1>6 DEF IInv, TasksOK

LEMMA TickStep ==
    ASSUME IInv, NEW recovered \in SUBSET Servers, NEW overdue \in SUBSET Tasks, Tick(recovered, overdue) PROVE IInv'
<1>1. TypeOK'
  BY DEF IInv, TypeOK, Tick, decodeSide, verdicts, watchdog, prefills, history, Nowhere
<1>2. ThreadsOK'
  BY DEF IInv, ThreadsOK, Tick
<1>3. ASSUME NEW u \in Tasks PROVE HolderOK(u)'
  BY DEF IInv, TasksOK, HolderOK, Held, Tick, decodeSide, history, Nowhere
<1>4. ASSUME NEW u \in Tasks PROVE VerdictOK(u)'
  BY DEF IInv, TasksOK, VerdictOK, Held, Tick, decodeSide, verdicts, history
<1>5. AnswersOK'
  BY DEF IInv, AnswersOK, Asked, Tick, decodeSide, prefills, history
<1>6. LostOK'
  BY DEF IInv, TypeOK, LostOK, Tick, watchdog
<1> QED
  BY <1>1, <1>2, <1>3, <1>4, <1>5, <1>6 DEF IInv, TasksOK

LEMMA ExpireStep ==
    ASSUME IInv, NEW t \in Tasks, Expire(t) PROVE IInv'
<1>1. TypeOK'
  <2>1. due[t] \in Servers
    BY DEF IInv, TypeOK, Expire, Target
  <2>2. inFlight' \in [Servers -> Nat] /\ failed' \in [Tasks -> Nat]
    BY <2>1, DecrementType, FailType DEF IInv, TypeOK, Expire
  <2>3. slot' \in [Tasks -> Target] /\ due' \in [Tasks -> Target]
    BY DEF IInv, TypeOK, Expire, Target
  <2>4. /\ strikes' \in [Servers -> 0..(Threshold - 1)]
        /\ blocked' \in SUBSET Servers /\ accepting' \in [Servers -> BOOLEAN]
    BY <2>1, StrikeType DEF IInv, Expire
  <2>5. work' \in SUBSET (Tasks \X Servers)
    BY DEF IInv, TypeOK, Expire, StopsMaybe
  <2> QED
    BY <2>2, <2>3, <2>4, <2>5 DEF IInv, TypeOK, Expire, decodeSide, watchdog
<1>2. ThreadsOK'
  BY DEF IInv, ThreadsOK, Expire
<1>3. ASSUME NEW u \in Tasks PROVE HolderOK(u)'
  BY DEF IInv, TypeOK, TasksOK, HolderOK, Held, Expire, decodeSide
<1>4. ASSUME NEW u \in Tasks PROVE VerdictOK(u)'
  BY DEF IInv, TypeOK, TasksOK, HolderOK, VerdictOK, Held, Expire, decodeSide, Fail
<1>5. AnswersOK'
  BY DEF IInv, AnswersOK, Asked, Expire, decodeSide, StopsMaybe
<1>6. LostOK'
  BY DEF IInv, LostOK, Expire, watchdog
<1> QED
  BY <1>1, <1>2, <1>3, <1>4, <1>5, <1>6 DEF IInv, TasksOK

LEMMA RespondStep ==
    ASSUME IInv, NEW t \in Tasks, NEW s \in Servers, Respond(t, s) PROVE IInv'
<1>1. TypeOK'
  BY DEF IInv, TypeOK, Result, Respond, decodeSide, verdicts, registry, watchdog, timer,
     history
<1>2. ThreadsOK'
  BY DEF IInv, ThreadsOK, Respond
<1>3. ASSUME NEW u \in Tasks PROVE HolderOK(u)'
  BY DEF IInv, TasksOK, HolderOK, Held, Respond, decodeSide, timer, history
<1>4. ASSUME NEW u \in Tasks PROVE VerdictOK(u)'
  BY DEF IInv, TasksOK, VerdictOK, Held, Respond, decodeSide, verdicts, timer, history
<1>5. AnswersOK'
  BY DEF IInv, AnswersOK, Asked, Respond, decodeSide, history
<1>6. LostOK'
  BY DEF IInv, LostOK, Respond, watchdog
<1> QED
  BY <1>1, <1>2, <1>3, <1>4, <1>5, <1>6 DEF IInv, TasksOK

LEMMA ReconnectStep ==
    ASSUME IInv, NEW s \in Servers, Reconnect(s) PROVE IInv'
<1>1. TypeOK'
  BY GatewayAssumption DEF IInv, TypeOK, Reconnect, decodeSide, verdicts, registry,
     watchdog, timer, history
<1>2. ThreadsOK'
  BY DEF IInv, ThreadsOK, Reconnect
<1>3. ASSUME NEW u \in Tasks PROVE HolderOK(u)'
  BY DEF IInv, TasksOK, HolderOK, Held, Reconnect, decodeSide, timer, history
<1>4. ASSUME NEW u \in Tasks PROVE VerdictOK(u)'
  BY DEF IInv, TasksOK, VerdictOK, Held, Reconnect, decodeSide, verdicts, timer, history
<1>5. AnswersOK'
  BY DEF IInv, AnswersOK, Asked, Reconnect, decodeSide, history
<1>6. LostOK'
  BY DEF IInv, LostOK, Reconnect, watchdog
<1> QED
  BY <1>1, <1>2, <1>3, <1>4, <1>5, <1>6 DEF IInv, TasksOK

-----------------------------------------------------------------------------
(* The counts.                                                             *)

LEMMA OnFinite == ASSUME NEW s PROVE IsFiniteSet(On(s)) /\ Cardinality(On(s)) \in Nat
  BY GatewayAssumption, FS_Subset, FS_CardinalityType DEF On

\* A task that takes a unit of a server's count is counted there and nowhere else.
LEMMA CountGrows ==
    ASSUME TypeOK, CountExact, NEW t \in Tasks, NEW s \in Servers, slot[t] = NoServer,
           slot' = [slot EXCEPT ![t] = s], inFlight' = [inFlight EXCEPT ![s] = @ + 1]
    PROVE  CountExact'
<1>1. ASSUME NEW r \in Servers PROVE inFlight'[r] = Cardinality(On(r)')
  <2>1. inFlight[r] = Cardinality(On(r)) /\ slot \in [Tasks -> Target]
    BY DEF CountExact, On, TypeOK
  <2>2. CASE r = s
    <3>1. On(r)' = On(r) \cup {t} /\ t \notin On(r)
      BY <2>1, <2>2, GatewayAssumption DEF On
    <3>2. Cardinality(On(r)') = Cardinality(On(r)) + 1
      BY <3>1, OnFinite, FS_AddElement
    <3> QED
      BY <2>1, <2>2, <3>2 DEF TypeOK
  <2>3. CASE r # s
    <3>1. On(r)' = On(r)
      BY <2>1, <2>3, GatewayAssumption DEF On
    <3> QED
      BY <2>1, <2>3, <3>1 DEF TypeOK
  <2> QED
    BY <2>2, <2>3
<1> QED
  BY <1>1 DEF CountExact, On

\* A task that gives back its unit was counted: the count never sticks at zero.
LEMMA CountShrinks ==
    ASSUME TypeOK, CountExact, NEW t \in Tasks, NEW s \in Servers, slot[t] = s,
           slot' = [slot EXCEPT ![t] = NoServer], Decrement(s)
    PROVE  CountExact' /\ \A r \in Servers : inFlight'[r] <= inFlight[r]
<1>1. ASSUME NEW r \in Servers
      PROVE  inFlight'[r] = Cardinality(On(r)') /\ inFlight'[r] <= inFlight[r]
  <2>1. inFlight[r] = Cardinality(On(r)) /\ inFlight[r] \in Nat /\ slot \in [Tasks -> Target]
    BY DEF CountExact, On, TypeOK
  <2>2. CASE r = s
    <3>1. On(r)' = On(r) \ {t} /\ t \in On(r)
      BY <2>1, <2>2, GatewayAssumption DEF On
    <3>2. Cardinality(On(r)') = Cardinality(On(r)) - 1 /\ Cardinality(On(r)') \in Nat
      BY <3>1, OnFinite, FS_RemoveElement, FS_CardinalityType
    <3>3. inFlight'[r] = inFlight[r] - 1
      BY <2>1, <2>2, <3>2 DEF Decrement, TypeOK
    <3> QED
      BY <2>1, <3>2, <3>3
  <2>3. CASE r # s
    <3>1. On(r)' = On(r)
      BY <2>1, <2>3, GatewayAssumption DEF On
    <3> QED
      BY <2>1, <2>3, <3>1 DEF Decrement, TypeOK
  <2> QED
    BY <2>2, <2>3
<1> QED
  BY <1>1 DEF CountExact, On

\* Every other step leaves the counts alone.
LEMMA CountKept == ASSUME CountInv, UNCHANGED <<inFlight, slot>> PROVE CountInv'
  BY DEF CountInv, CountExact, WithinCapacity, On

LEMMA CountGivenBack ==
    ASSUME IInv, CountInv, NEW t \in Tasks, NEW s \in Servers, slot[t] = s,
           slot' = [slot EXCEPT ![t] = NoServer], Decrement(s), TypeOK'
    PROVE  CountInv'
<1>1. CountExact' /\ \A r \in Servers : inFlight'[r] <= inFlight[r]
  BY CountShrinks DEF IInv, CountInv
<1>2. WithinCapacity'
  BY <1>1, GatewayAssumption DEF CountInv, WithinCapacity, IInv, TypeOK
<1> QED
  BY <1>1, <1>2 DEF CountInv

LEMMA CountStep == ASSUME IInv, IInv', CountInv, [Next]_vars PROVE CountInv'
<1>1. ASSUME NEW t \in Tasks, Select(t) PROVE CountInv'
  <2>1. CASE UNCHANGED <<inFlight, slot>>
    BY <2>1, CountKept
  <2>2. CASE ~UNCHANGED <<inFlight, slot>>
    <3>1. PICK s \in Selection(KeyOf[t]) :
             inFlight' = [inFlight EXCEPT ![s] = @ + 1] /\ slot' = [slot EXCEPT ![t] = s]
      BY <1>1, <2>2 DEF Select, Increment
    <3>2. s \in Servers /\ Eligible(s)
      BY <3>1 DEF Selection
    <3>3. slot[t] = NoServer
      BY <1>1 DEF IInv, TasksOK, HolderOK, Select
    <3>4. CountExact'
      BY <3>1, <3>2, <3>3, CountGrows DEF IInv, CountInv
    <3>5. WithinCapacity'
      BY <3>1, <3>2, GatewayAssumption DEF CountInv, WithinCapacity, Eligible, IInv, TypeOK
    <3> QED
      BY <3>4, <3>5 DEF CountInv
  <2> QED
    BY <2>1, <2>2
<1>2. CASE Drop
  <2>1. /\ decode.task \in Tasks /\ decode.server \in Servers
        /\ slot[decode.task] = decode.server
    BY <1>2 DEF IInv, ThreadsOK, TasksOK, HolderOK, Drop, DecodeIdle
  <2> QED
    BY <1>2, <2>1, CountGivenBack DEF IInv, Drop
<1>3. ASSUME NEW t \in Tasks, Cancel(t) PROVE CountInv'
  <2>1. CASE entry[t] = NoServer
    BY <1>3, <2>1, CountKept DEF Cancel
  <2>2. CASE entry[t] # NoServer
    <3>1. entry[t] \in Servers /\ slot[t] = entry[t]
      BY <2>2 DEF IInv, TypeOK, Target, TasksOK, HolderOK
    <3> QED
      BY <1>3, <2>2, <3>1, CountGivenBack DEF IInv, Cancel
  <2> QED
    BY <2>1, <2>2
<1>4. CASE FinishResult
  <2>1. io.task \in Tasks /\ io.server \in Servers /\ slot[io.task] = io.server
    BY <1>4 DEF IInv, ThreadsOK, TasksOK, HolderOK, FinishResult
  <2> QED
    BY <1>4, <2>1, CountGivenBack DEF IInv, FinishResult
<1>5. ASSUME NEW t \in Tasks, Expire(t) PROVE CountInv'
  <2>1. due[t] \in Servers /\ slot[t] = due[t]
    BY <1>5 DEF IInv, TypeOK, Target, TasksOK, HolderOK, Expire
  <2> QED
    BY <1>5, <2>1, CountGivenBack DEF IInv, Expire
<1>6. CASE \E t \in Tasks : Ask(t) \/ Abort(t)
  BY <1>6, CountKept DEF Ask, Abort, registry, history
<1>7. CASE Record \/ Lookup \/ Send
  BY <1>7, CountKept DEF Record, Lookup, Send, registry, history
<1>8. CASE (\E s \in Servers : Register(s)) \/ (\E m \in results : TakeResult(m))
  BY <1>8, CountKept DEF Register, TakeResult, registry, history
<1>9. CASE Watchdog
  BY <1>9, CountKept DEF Watchdog, TakeStale, MarkDown, FailOrphans, registry, history
<1>10. CASE \E recovered \in SUBSET Servers, overdue \in SUBSET Tasks : Tick(recovered, overdue)
  BY <1>10, CountKept DEF Tick, history
<1>11. CASE Prefills
  BY <1>11, CountKept DEF Prefills, Respond, Reconnect, registry, history
<1>12. CASE UNCHANGED vars
  BY <1>12, CountKept DEF vars, registry, history
<1> QED
  BY <1>1, <1>2, <1>3, <1>4, <1>5, <1>6, <1>7, <1>8, <1>9, <1>10, <1>11, <1>12
     DEF Next, Decode, DecodeThread, IoThread, Timer

-----------------------------------------------------------------------------
(* The theorems.                                                           *)

LEMMA Begin == ASSUME Init PROVE IInv /\ CountInv
<1>1. TypeOK /\ ThreadsOK
  BY GatewayAssumption DEF Init, TypeOK, ThreadsOK, Target, Nowhere, DecodeIdle, IoIdle, Stages,
     Result
<1>2. TasksOK /\ AnswersOK /\ LostOK
  BY GatewayAssumption DEF Init, TasksOK, HolderOK, VerdictOK, AnswersOK, LostOK, Held, Nowhere,
     DecodeIdle, IoIdle
<1>3. CountInv
  <2>1. ASSUME NEW s \in Servers PROVE On(s) = {} /\ inFlight[s] = 0
    BY GatewayAssumption DEF Init, Nowhere, On
  <2>2. ASSUME NEW s \in Servers PROVE Cardinality(On(s)) = 0
    BY <2>1, FS_EmptySet
  <2> QED
    BY <2>1, <2>2, GatewayAssumption DEF CountInv, CountExact, WithinCapacity, On
<1> QED
  BY <1>1, <1>2, <1>3 DEF IInv

LEMMA Invariance == Spec => [](IInv /\ CountInv)
<1>1. ASSUME IInv, CountInv, [Next]_vars PROVE IInv' /\ CountInv'
  <2>1. IInv'
    <3>1. CASE \E t \in Tasks : Ask(t) \/ Abort(t)
      BY <1>1, <3>1, AskStep, AbortStep
    <3>2. CASE DecodeThread
      BY <1>1, <3>2, SelectStep, CancelStep, RecordStep, LookupStep, SendStep, DropStep
         DEF DecodeThread
    <3>3. CASE IoThread
      BY <1>1, <3>3, RegisterStep, TakeResultStep, FinishResultStep DEF IoThread
    <3>4. CASE Watchdog
      BY <1>1, <3>4, TakeStaleStep, MarkDownStep, FailOrphansStep DEF Watchdog
    <3>5. CASE Timer
      BY <1>1, <3>5, TickStep, ExpireStep DEF Timer
    <3>6. CASE Prefills
      BY <1>1, <3>6, ReconnectStep, RespondStep DEF Prefills
    <3>7. CASE UNCHANGED vars
      BY <1>1, <3>7 DEF vars, decodeSide, verdicts, registry, watchdog, timer, prefills, history,
         IInv, TypeOK, ThreadsOK, TasksOK, HolderOK, VerdictOK, AnswersOK, Asked, LostOK, Held,
         Target, Result, Stages, DecodeIdle, IoIdle
    <3> QED
      BY <1>1, <3>1, <3>2, <3>3, <3>4, <3>5, <3>6, <3>7 DEF Next, Decode
  <2> QED
    BY <1>1, <2>1, CountStep
<1> QED
  BY <1>1, Begin, PTL DEF Spec

\* The tables and the messages stay of their types, and the strikes of a server below
\* the threshold that blocks it.
THEOREM GatewayTypeCorrect == Spec => []TypeOK
<1>1. IInv => TypeOK
  BY DEF IInv
<1> QED
  BY <1>1, Invariance, PTL

\* One verdict per task: whoever takes it out of the table is the one to tell decode.
THEOREM OneVerdictPerTask == Spec => []OneVerdict
<1>1. IInv => OneVerdict
  BY DEF IInv, TasksOK, VerdictOK, OneVerdict
<1> QED
  BY <1>1, Invariance, PTL

\* Decode is told of a failure twice only when the server was lost under a failing send.
THEOREM SecondFailureNeedsLoss == Spec => []FailedTwiceOnlyByLoss
<1>1. IInv => FailedTwiceOnlyByLoss
  BY DEF IInv, TasksOK, VerdictOK, FailedTwiceOnlyByLoss
<1> QED
  BY <1>1, Invariance, PTL

\* After a cancel that found its task decode hears nothing more of it.
THEOREM CancelIsFinal == Spec => []AcceptedCancelIsFinal
<1>1. IInv => AcceptedCancelIsFinal
  BY DEF IInv, TypeOK, TasksOK, VerdictOK, AcceptedCancelIsFinal
<1> QED
  BY <1>1, Invariance, PTL

\* No task stays assigned to a server the watchdog is done with.
THEOREM NothingLeftAtLostServer == Spec => []DownServerHoldsNoTask
<1>1. IInv => DownServerHoldsNoTask
  BY DEF IInv, LostOK, DownServerHoldsNoTask
<1> QED
  BY <1>1, Invariance, PTL

\* No count runs short, whatever the order of the threads: a unit is given back once, by
\* whoever took the task, and the clamp at zero never acts.
THEOREM CountsCover == Spec => []CountCovers
<1>1. ASSUME IInv, CountInv, NEW s \in Servers
      PROVE  Cardinality({t \in Tasks : Holds(t, s)}) <= inFlight[s]
  <2>1. ASSUME NEW t \in Tasks, Holds(t, s) PROVE slot[t] = s
    <3>1. HolderOK(t)
      BY <1>1 DEF IInv, TasksOK
    <3>2. s # NoServer
      BY GatewayAssumption
    <3> QED
      BY <2>1, <3>1, <3>2 DEF Holds, HolderOK
  <2>2. {t \in Tasks : Holds(t, s)} \subseteq On(s)
    BY <2>1 DEF On
  <2>3. Cardinality({t \in Tasks : Holds(t, s)}) <= Cardinality(On(s))
    BY <2>2, OnFinite, FS_Subset
  <2> QED
    BY <1>1, <2>3 DEF CountInv, CountExact
<1>2. IInv /\ CountInv => CountCovers
  BY <1>1 DEF CountCovers
<1> QED
  BY <1>2, Invariance, PTL

\* Nobody but the loss of a server loses a unit of its count.
THEOREM CapacityLostOnlyWithServer == Spec => []CapacityLostOnlyByLoss
<1>1. IInv => CapacityLostOnlyByLoss
  BY DEF IInv, TasksOK, HolderOK, CapacityLostOnlyByLoss
<1> QED
  BY <1>1, Invariance, PTL

\* No server is given more tasks at a time than it registered for.
THEOREM CapacityIsRespected == Spec => []CapacityRespected
<1>1. ASSUME IInv, CountInv, MaxInFlight > 0, NEW s \in Servers
      PROVE  Cardinality({t \in Tasks : entry[t] = s}) <= MaxInFlight
  <2>1. {t \in Tasks : entry[t] = s} \subseteq On(s)
    BY <1>1, GatewayAssumption DEF IInv, TasksOK, HolderOK, On
  <2>2. /\ Cardinality({t \in Tasks : entry[t] = s}) <= Cardinality(On(s))
        /\ Cardinality({t \in Tasks : entry[t] = s}) \in Nat
    BY <2>1, OnFinite, FS_Subset, FS_CardinalityType
  <2>3. Cardinality(On(s)) <= MaxInFlight /\ Cardinality(On(s)) \in Nat
    BY <1>1, OnFinite DEF CountInv, CountExact, WithinCapacity, On
  <2> QED
    BY <2>2, <2>3, GatewayAssumption
<1>2. IInv /\ CountInv => CapacityRespected
  BY <1>1 DEF CapacityRespected
<1> QED
  BY <1>2, Invariance, PTL

=============================================================================
