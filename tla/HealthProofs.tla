---------------------------- MODULE HealthProofs ----------------------------
(***************************************************************************)
(* Proofs about the two monitors of the server's health, WorkerPool and    *)
(* CanaryMonitor.                                                          *)
(*                                                                         *)
(* WorkerPool, for every number of workers, budget of restarts and finite  *)
(* set of device resets: type correctness, NoOrphan, RestartBudget and     *)
(* OneProcessPerWorker.  The inductive invariant LoopInv says where the    *)
(* loop can be; WorkerInv relates, for one worker no device reset has      *)
(* touched, the processes it had to the counter in its record and to the   *)
(* restart that is under way.  PaidFor counts the live processes beside    *)
(* the supervised one against the device resets spent on the worker.  A    *)
(* process that outlives the join of its restart is out of the code's      *)
(* hands, and of these counts (Counted).                                   *)
(*                                                                         *)
(* CanaryMonitor, for every cadence, threshold and capacity: type          *)
(* correctness, StateMatchesMisses and OwnTierClears.  The first two make  *)
(* the inductive invariant MissesInv.                                      *)
(***************************************************************************)
EXTENDS WorkerPool, CanaryMonitor, FiniteSetTheorems, SequenceTheorems, TLAPS

\* The three parts of a step that the event loop, the processes and the
\* restarters take.
ProcStep == \E p \in DOMAIN proc : WarmUp(p) \/ InitFails(p) \/ Die(p) \/ RequestFails(p)

Jobs == [pc : {"idle", "clean", "start", "count", "done"},
         w : 0..N, old : Nat, count : Nat, errs : Int]

Records == [ready : BOOLEAN, restarts : Nat, errs : Int]

\* Starting a process keeps the types of what names it.
LEMMA SpawnType ==
    ASSUME TypeOK, NEW w \in Workers, Spawn(w)
    PROVE  /\ proc' \in Seq([owner : Workers, life : {"warming", "up", "dead"}, outlived : BOOLEAN])
           /\ info' \in [Workers -> 0..Len(proc')]
           /\ \A v \in Workers : info'[v] # 0 => proc'[info'[v]].owner = v
           /\ rec' \in [Workers -> Records]
<1> DEFINE P == [owner : Workers, life : {"warming", "up", "dead"}, outlived : BOOLEAN]
<1>1. [owner |-> w, life |-> "warming", outlived |-> FALSE] \in P
  OBVIOUS
<1>2. proc \in Seq(P)
  BY DEF TypeOK
<1>3. proc' = Append(proc, [owner |-> w, life |-> "warming", outlived |-> FALSE])
  BY DEF Spawn
<1>4. /\ proc' \in Seq(P)
      /\ Len(proc') = Len(proc) + 1
      /\ proc'[Len(proc) + 1] = [owner |-> w, life |-> "warming", outlived |-> FALSE]
      /\ \A i \in 1..Len(proc) : proc'[i] = proc[i]
  <2> HIDE DEF P
  <2> QED BY <1>1, <1>2, <1>3
<1>5. Len(proc) \in Nat
  BY <1>2
<1>6. info' = [info EXCEPT ![w] = Len(proc) + 1] /\ info \in [Workers -> 0..Len(proc)]
  BY DEF Spawn, TypeOK
<1>7. info' \in [Workers -> 0..Len(proc')]
  BY <1>4, <1>5, <1>6
<1>8. ASSUME NEW v \in Workers, info'[v] # 0
      PROVE  proc'[info'[v]].owner = v
  <2>1. CASE v = w
    <3>1. info'[w] = Len(proc) + 1
      BY <1>6
    <3> QED BY <2>1, <3>1, <1>4
  <2>2. CASE v # w
    <3>1. info'[v] = info[v] /\ info[v] \in 1..Len(proc) /\ info[v] # 0
      BY <2>2, <1>5, <1>6, <1>8
    <3>2. proc[info[v]].owner = v
      BY <3>1 DEF TypeOK
    <3>3. proc'[info[v]] = proc[info[v]]
      BY <3>1, <1>4
    <3> QED BY <3>1, <3>2, <3>3
  <2> QED BY <2>1, <2>2
<1>9. rec' \in [Workers -> Records]
  <2>1. Blank \in Records
    BY DEF Blank, Records
  <2>2. rec \in [Workers -> Records]
    BY DEF TypeOK, Records
  <2> QED BY <2>1, <2>2 DEF Spawn
<1> QED BY <1>4, <1>7, <1>8, <1>9

\* So does a change of what processes live.
LEMMA LivesType ==
    ASSUME TypeOK, UNCHANGED info,
           DOMAIN proc' = DOMAIN proc,
           proc' \in Seq([owner : Workers, life : {"warming", "up", "dead"}, outlived : BOOLEAN]),
           \A p \in DOMAIN proc : proc'[p].owner = proc[p].owner
    PROVE  /\ info' \in [Workers -> 0..Len(proc')]
           /\ \A v \in Workers : info'[v] # 0 => proc'[info'[v]].owner = v
<1> DEFINE P == [owner : Workers, life : {"warming", "up", "dead"}, outlived : BOOLEAN]
<1>1. proc \in Seq(P) /\ proc' \in Seq(P)
  BY DEF TypeOK
<1>2. Len(proc') = Len(proc) /\ Len(proc) \in Nat /\ DOMAIN proc = 1..Len(proc)
  <2> HIDE DEF P
  <2> QED BY <1>1
<1>3. info' \in [Workers -> 0..Len(proc')]
  BY <1>2 DEF TypeOK
<1>4. ASSUME NEW v \in Workers, info'[v] # 0  PROVE proc'[info'[v]].owner = v
  <2>1. info'[v] = info[v] /\ info[v] \in DOMAIN proc
    <3>1. info[v] \in 0..Len(proc)
      BY DEF TypeOK
    <3> QED BY <1>2, <1>4, <3>1
  <2>2. proc[info[v]].owner = v
    BY <2>1, <1>4 DEF TypeOK
  <2>3. proc'[info[v]].owner = proc[info[v]].owner
    BY <2>1
  <2> QED BY <2>1, <2>2, <2>3
<1> QED BY <1>3, <1>4

\* A process that is alive and that no restart has left behind.
Counted(p) == IsAlive(p) /\ ~proc[p].outlived

\* The steps that change one process: a restart lets it go when it has ended, or
\* when the join has given up on it.
LetGo(p) ==
    \/ proc' = [proc EXCEPT ![p] = Ended(@)]
    \/ proc' = [proc EXCEPT ![p].outlived = TRUE]

OneProc(p) == LetGo(p) \/ proc' = [proc EXCEPT ![p].life = "up"]

\* Ending, warming up or leaving behind one process, as an update of the sequence.
LEMMA OneProcType ==
    ASSUME TypeOK, NEW p \in DOMAIN proc, OneProc(p)
    PROVE  /\ proc' \in Seq([owner : Workers, life : {"warming", "up", "dead"}, outlived : BOOLEAN])
           /\ DOMAIN proc' = DOMAIN proc
           /\ \A q \in DOMAIN proc : proc'[q].owner = proc[q].owner
           /\ \A q \in DOMAIN proc : q # p => proc'[q] = proc[q]
           /\ LetGo(p) => ~Counted(p)'
           /\ IsAlive(p) => (Counted(p)' => Counted(p))
<1> DEFINE P == [owner : Workers, life : {"warming", "up", "dead"}, outlived : BOOLEAN]
<1>1. proc \in Seq(P)
  BY DEF TypeOK
<1>2. proc[p] \in P
  <2> HIDE DEF P
  <2> QED BY <1>1
<1>3. PICK e \in P : /\ proc' = [proc EXCEPT ![p] = e] /\ e.owner = proc[p].owner
                     /\ LetGo(p) => (e.life = "dead" \/ e.outlived)
                     /\ e.outlived = proc[p].outlived \/ e.life = "dead" \/ e.outlived
  <2>1. CASE proc' = [proc EXCEPT ![p] = Ended(@)]
    <3> DEFINE e == Ended(proc[p])
    <3>1. e \in P /\ e.owner = proc[p].owner /\ e.life = "dead"
      BY <1>2 DEF Ended
    <3>2. proc' = [proc EXCEPT ![p] = e]
      BY <2>1
    <3> HIDE DEF e, P
    <3> QED BY <3>1, <3>2
  <2>2. CASE proc' = [proc EXCEPT ![p].outlived = TRUE]
    <3> DEFINE e == [proc[p] EXCEPT !.outlived = TRUE]
    <3>1. e \in P /\ e.owner = proc[p].owner /\ e.outlived
      BY <1>2
    <3>2. proc' = [proc EXCEPT ![p] = e]
      BY <2>2
    <3> HIDE DEF e, P
    <3> QED BY <3>1, <3>2
  <2>3. CASE ~LetGo(p)
    <3> DEFINE e == [proc[p] EXCEPT !.life = "up"]
    <3>1. e \in P /\ e.owner = proc[p].owner /\ e.outlived = proc[p].outlived
      BY <1>2
    <3>2. proc' = [proc EXCEPT ![p] = e]
      BY <2>3 DEF OneProc
    <3> HIDE DEF e, P
    <3> QED BY <2>3, <3>1, <3>2
  <2> QED BY <2>1, <2>2, <2>3 DEF LetGo
<1>4. proc' \in Seq(P)
  <2> HIDE DEF P
  <2> QED BY <1>1, <1>3
<1>5. DOMAIN proc' = DOMAIN proc /\ proc'[p] = e /\ \A q \in DOMAIN proc : q # p => proc'[q] = proc[q]
  <2> HIDE DEF P
  <2> QED BY <1>1, <1>3
<1>6. LetGo(p) => ~Counted(p)'
  BY <1>3, <1>5 DEF Counted, IsAlive
<1>7. IsAlive(p) => (Counted(p)' => Counted(p))
  BY <1>3, <1>5 DEF Counted, IsAlive
<1> QED BY <1>3, <1>4, <1>5, <1>6, <1>7

\* And so does killing what worker_info names.
LEMMA KillAllType ==
    ASSUME TypeOK, KillAll
    PROVE  /\ proc' \in Seq([owner : Workers, life : {"warming", "up", "dead"}, outlived : BOOLEAN])
           /\ DOMAIN proc' = DOMAIN proc
           /\ \A q \in DOMAIN proc : proc'[q].owner = proc[q].owner
           /\ \A q \in DOMAIN proc : Counted(q)' => Counted(q)
           /\ \A q \in DOMAIN proc : info[proc[q].owner] = q => ~Counted(q)'
<1> DEFINE P == [owner : Workers, life : {"warming", "up", "dead"}, outlived : BOOLEAN]
<1>1. proc \in Seq(P)
  BY DEF TypeOK
<1>2. \A q \in DOMAIN proc : proc[q] \in P
  <2> HIDE DEF P
  <2> QED BY <1>1
<1>3. /\ DOMAIN proc' = DOMAIN proc
      /\ \A q \in DOMAIN proc : proc'[q] \in {proc[q], Ended(proc[q])}
      /\ \A q \in DOMAIN proc : info[proc[q].owner] = q =>
            proc'[q] = Ended(proc[q])
      /\ proc' = [q \in DOMAIN proc |-> proc'[q]]
  BY DEF KillAll
<1>4. ASSUME NEW q \in DOMAIN proc PROVE proc'[q] \in P /\ proc'[q].owner = proc[q].owner
  <2>1. proc[q] \in P /\ proc'[q] \in {proc[q], Ended(proc[q])}
    BY <1>2, <1>3
  <2>2. Ended(proc[q]) \in P /\ Ended(proc[q]).owner = proc[q].owner
    BY <2>1 DEF Ended
  <2> HIDE DEF P
  <2> QED BY <2>1, <2>2
<1>5. proc' \in Seq(P)
  <2>1. Len(proc) \in Nat /\ DOMAIN proc = 1..Len(proc)
    <3> HIDE DEF P
    <3> QED BY <1>1
  <2>2. proc' \in [1..Len(proc) -> P]
    <3> HIDE DEF P
    <3> QED BY <1>3, <1>4, <2>1
  <2> HIDE DEF P
  <2> QED BY <2>1, <2>2
<1>6. \A q \in DOMAIN proc : Counted(q)' => Counted(q)
  BY <1>3 DEF Counted, IsAlive, Ended
<1>7. \A q \in DOMAIN proc : info[proc[q].owner] = q => ~Counted(q)'
  BY <1>3 DEF Counted, IsAlive, Ended
<1> QED BY <1>3, <1>4, <1>5, <1>6, <1>7

-----------------------------------------------------------------------------
(* Type correctness. *)

\* A restart that begins or ends leaves a well-typed table of restarts.
LEMMA JobType ==
    ASSUME TypeOK, NEW x \in Restarters
    PROVE  /\ \A w \in Workers : BeginRestart(x, w) =>
                /\ job' \in [Restarters -> Jobs]
                /\ \A y \in Restarters : job'[y].pc # "idle" => job'[y].w \in Workers
           /\ (job[x].pc # "idle" /\ Finish(x)) =>
                /\ job' \in [Restarters -> Jobs]
                /\ \A y \in Restarters : job'[y].pc # "idle" => job'[y].w \in Workers
           /\ \A c \in {"start", "count"} :
                (job[x].pc # "idle" /\ job' = [job EXCEPT ![x].pc = c]) =>
                /\ job' \in [Restarters -> Jobs]
                /\ \A y \in Restarters : job'[y].pc # "idle" => job'[y].w \in Workers
<1>1. /\ job \in [Restarters -> Jobs]
      /\ \A y \in Restarters : job[y].pc # "idle" => job[y].w \in Workers
  BY DEF TypeOK, Jobs
<1>2. Workers \subseteq 0..N
  BY PoolAssumption DEF Workers
<1>3. ASSUME NEW w \in Workers, BeginRestart(x, w)
      PROVE  /\ job' \in [Restarters -> Jobs]
             /\ \A y \in Restarters : job'[y].pc # "idle" => job'[y].w \in Workers
  <2>1. info[w] \in Nat /\ rec[w].restarts + 1 \in Nat
    <3>1. info[w] \in 0..Len(proc)
      BY DEF TypeOK
    <3>2. rec[w].restarts \in Nat
      BY DEF TypeOK
    <3> QED BY <3>1, <3>2
  <2> DEFINE j == [pc |-> "clean", w |-> w, old |-> info[w],
                   count |-> rec[w].restarts + 1, errs |-> 0]
  <2>2. j \in Jobs /\ j.w = w
    BY <1>2, <2>1 DEF Jobs
  <2>3. job' = [job EXCEPT ![x] = j]
    BY <1>3 DEF BeginRestart
  <2> HIDE DEF j
  <2> QED BY <1>1, <2>2, <2>3
<1>4. ASSUME job[x].pc # "idle", Finish(x)
      PROVE  /\ job' \in [Restarters -> Jobs]
             /\ \A y \in Restarters : job'[y].pc # "idle" => job'[y].w \in Workers
  <2> DEFINE j == IF x = "monitor" THEN Idle
                  ELSE [pc |-> "done", w |-> job[x].w, old |-> 0, count |-> 0, errs |-> 0]
  <2>1. job[x].w \in Workers
    BY <1>1, <1>4
  <2>a. 0 \in 0..N /\ job[x].w \in 0..N
    BY <1>2, <2>1, PoolAssumption DEF Workers
  <2>2. j \in Jobs /\ (j.pc # "idle" => j.w \in Workers)
    <3>1. CASE x = "monitor"
      BY <2>a, <3>1 DEF Jobs, Idle
    <3>2. CASE x # "monitor"
      <4>1. j = [pc |-> "done", w |-> job[x].w, old |-> 0, count |-> 0, errs |-> 0]
        BY <3>2 DEF Idle
      <4> HIDE DEF j
      <4> QED BY <2>a, <2>1, <4>1 DEF Jobs
    <3> QED BY <3>1, <3>2
  <2>3. job' = [job EXCEPT ![x] = j]
    BY <1>4 DEF Finish
  <2> HIDE DEF j
  <2> QED BY <1>1, <2>2, <2>3
<1>5. ASSUME NEW c \in {"start", "count"}, job[x].pc # "idle", job' = [job EXCEPT ![x].pc = c]
      PROVE  /\ job' \in [Restarters -> Jobs]
             /\ \A y \in Restarters : job'[y].pc # "idle" => job'[y].w \in Workers
  <2> DEFINE j == [job[x] EXCEPT !.pc = c]
  <2>1. job[x] \in Jobs /\ job[x].w \in Workers
    BY <1>1, <1>5
  <2>2. j \in Jobs /\ j.w = job[x].w
    BY <2>1 DEF Jobs
  <2>3. job' = [job EXCEPT ![x] = j]
    BY <1>1, <1>5
  <2> HIDE DEF j
  <2> QED BY <1>1, <2>1, <2>2, <2>3
<1> QED BY <1>3, <1>4, <1>5

\* A restarter's start hands the error count of the replaced record to whoever
\* still holds it.
LEMMA StartNewType ==
    ASSUME TypeOK, NEW x \in Restarters, StartNew(x)
    PROVE  /\ job[x].w \in Workers /\ Spawn(job[x].w)
           /\ job' \in [Restarters -> Jobs]
           /\ job'[x].pc = "count"
           /\ \A y \in Restarters : y # x => job'[y].pc = job[y].pc
           /\ \A y \in Restarters : /\ job'[y].w = job[y].w
                                    /\ job'[y].count = job[y].count
<1>1. job \in [Restarters -> Jobs]
  BY DEF TypeOK, Jobs
<1>2. job[x].w \in Workers /\ Spawn(job[x].w)
  BY DEF TypeOK, StartNew
<1> DEFINE w == job[x].w
<1>3. rec[w].errs \in Int
  BY <1>2 DEF TypeOK
<1> DEFINE J(y) == IF job[y].pc \in {"clean", "start"} /\ job[y].w = w /\ job[y].old = info[w]
                   THEN [job[y] EXCEPT !.errs = rec[w].errs,
                                       !.pc = IF y = x THEN "count" ELSE @]
                   ELSE IF y = x THEN [job[y] EXCEPT !.pc = "count"] ELSE job[y]
<1>4. job' = [y \in Restarters |-> J(y)]
  BY DEF StartNew
<1>5. ASSUME NEW y \in Restarters
      PROVE  /\ J(y) \in Jobs /\ J(y).w = job[y].w /\ J(y).count = job[y].count
             /\ J(y).pc = IF y = x THEN "count" ELSE job[y].pc
  <2>1. job[y] \in Jobs
    BY <1>1
  <2> QED BY <1>3, <2>1 DEF Jobs
<1> HIDE DEF J
<1> QED BY <1>2, <1>4, <1>5

LEMMA InitTypeOK == Init => TypeOK
<1> SUFFICES ASSUME Init PROVE TypeOK
  OBVIOUS
<1>1. N \in Nat
  BY PoolAssumption
<1>2. proc = <<>> /\ Len(proc) = 0
  BY DEF Init
<1>3. job \in [Restarters -> Jobs] /\ \A x \in Restarters : job[x].pc = "idle"
  BY <1>1 DEF Init, Idle, Jobs
<1>4. info \in [Workers -> 0..Len(proc)] /\ \A w \in Workers : info[w] = 0
  BY <1>2 DEF Init
<1>5. rec \in [Workers -> [ready : BOOLEAN, restarts : Nat, errs : Int]]
  BY DEF Init, Blank
<1>6. todo \in [dead : SUBSET Workers, failing : SUBSET Workers]
  BY DEF Init, NoWork
<1>7. errQ \in [Workers -> Nat] /\ signals \in Seq(Workers) /\ proc \in Seq([owner : Workers, life : {"warming", "up", "dead"}, outlived : BOOLEAN])
  BY DEF Init
<1>8. deep \in BOOLEAN
  BY PoolAssumption DEF Init
<1> QED BY <1>3, <1>4, <1>5, <1>6, <1>7, <1>8 DEF Init, TypeOK, Jobs

\* No step breaks the types.
LEMMA NextTypeOK == TypeOK /\ [Next]_vars => TypeOK'
<1> SUFFICES ASSUME TypeOK, [Next]_vars PROVE TypeOK'
  OBVIOUS
<1> DEFINE P == [owner : Workers, life : {"warming", "up", "dead"}, outlived : BOOLEAN]
<1> DEFINE T == [dead : SUBSET Workers, failing : SUBSET Workers]
<1>a. rec \in [Workers -> Records]
  BY DEF TypeOK, Records
<1>b. errQ \in [Workers -> Nat]
  BY DEF TypeOK
<1>c. signals \in Seq(Workers)
  BY DEF TypeOK
<1>d. job \in [Restarters -> Jobs] /\ \A x \in Restarters : job[x].pc # "idle" => job[x].w \in Workers
  BY DEF TypeOK, Jobs
<1>e. info \in [Workers -> 0..Len(proc)] /\ Len(proc) \in Nat /\ DOMAIN proc = 1..Len(proc)
  <2>1. proc \in Seq(P) /\ info \in [Workers -> 0..Len(proc)]
    BY DEF TypeOK
  <2> HIDE DEF P
  <2> QED BY <2>1
<1>1. CASE StartNext
  <2>1. PICK w \in toOpen : toOpen' = toOpen \ {w} /\ Spawn(w)
    BY <1>1 DEF StartNext
  <2>2. w \in Workers
    BY <2>1 DEF TypeOK
  <2> QED BY <1>1, <2>1, <2>2, SpawnType DEF StartNext, TypeOK, Records, Jobs
<1>2. CASE StartNextFails
  BY <1>2 DEF StartNextFails, TypeOK
<1>3. CASE ProcStep
  <2> PICK p \in DOMAIN proc : WarmUp(p) \/ InitFails(p) \/ Die(p) \/ RequestFails(p)
    BY <1>3 DEF ProcStep
  <2>0. proc[p].owner \in Workers
    <3> HIDE DEF P
    <3>1. proc \in Seq(P)
      BY DEF TypeOK, P
    <3>2. proc[p] \in P
      BY <3>1
    <3> QED BY <3>2 DEF P
  <2>1. CASE WarmUp(p)
    <3>1. OneProc(p) /\ UNCHANGED info
      BY <2>1 DEF WarmUp, OneProc
    <3>2. signals' \in Seq(Workers)
      <4>1. signals \in Seq(Workers)
        BY DEF TypeOK
      <4>2. signals' = signals \/ signals' = Append(signals, proc[p].owner)
        BY <2>1 DEF WarmUp
      <4> QED BY <2>0, <4>1, <4>2
    <3>3. proc' \in Seq(P) /\ info' \in [Workers -> 0..Len(proc')]
          /\ \A v \in Workers : info'[v] # 0 => proc'[info'[v]].owner = v
      BY <3>1, OneProcType, LivesType
    <3> QED BY <2>1, <3>2, <3>3 DEF WarmUp, TypeOK, Records, Jobs
  <2>2. CASE InitFails(p)
    <3>1. OneProc(p) /\ UNCHANGED info
      BY <2>2 DEF InitFails, OneProc, LetGo
    <3>2. errQ' \in [Workers -> Nat]
      BY <1>b, <2>0, <2>2 DEF InitFails
    <3>3. proc' \in Seq(P) /\ info' \in [Workers -> 0..Len(proc')]
          /\ \A v \in Workers : info'[v] # 0 => proc'[info'[v]].owner = v
      BY <3>1, OneProcType, LivesType
    <3> QED BY <2>2, <3>2, <3>3 DEF InitFails, TypeOK, Records, Jobs
  <2>3. CASE Die(p)
    <3>1. OneProc(p) /\ UNCHANGED info
      BY <2>3 DEF Die, OneProc, LetGo
    <3>3. proc' \in Seq(P) /\ info' \in [Workers -> 0..Len(proc')]
          /\ \A v \in Workers : info'[v] # 0 => proc'[info'[v]].owner = v
      BY <3>1, OneProcType, LivesType
    <3> QED BY <2>3, <3>3 DEF Die, TypeOK, Records, Jobs
  <2>4. CASE RequestFails(p)
    <3>2. errQ' \in [Workers -> Nat]
      BY <1>b, <2>0, <2>4 DEF RequestFails
    <3> QED BY <2>4, <3>2 DEF RequestFails, TypeOK, Records, Jobs
  <2> QED BY <2>1, <2>2, <2>3, <2>4
<1>4. CASE HearReady
  <2>1. Head(signals) \in Workers /\ signals' \in Seq(Workers)
    BY <1>c, <1>4 DEF HearReady
  <2>2. rec' \in [Workers -> Records]
    <3> DEFINE w == Head(signals)
    <3>1. [rec[w] EXCEPT !.ready = TRUE] \in Records
      <4>1. rec[w] \in Records
        BY <1>a, <2>1
      <4> QED BY <4>1 DEF Records
    <3>2. rec' = [rec EXCEPT ![w] = [rec[w] EXCEPT !.ready = TRUE]]
      BY <1>4, <1>a DEF HearReady
    <3> HIDE DEF w
    <3> QED BY <1>a, <3>1, <3>2
  <2> QED BY <1>4, <2>1, <2>2 DEF HearReady, TypeOK, Records, Jobs
<1>5. ASSUME NEW w \in Workers, HearError(w) PROVE TypeOK'
  <2>1. errQ' \in [Workers -> Nat]
    BY <1>b, <1>5 DEF HearError
  <2>2. rec' \in [Workers -> Records]
    <3>1. [rec[w] EXCEPT !.errs = @ + 1] \in Records
      <4>1. rec[w] \in Records
        BY <1>a
      <4> QED BY <4>1 DEF Records
    <3>2. rec' = [rec EXCEPT ![w] = [rec[w] EXCEPT !.errs = @ + 1]]
      BY <1>5, <1>a DEF HearError
    <3> QED BY <1>a, <3>1, <3>2
  <2> QED BY <1>5, <2>1, <2>2 DEF HearError, TypeOK, Records, Jobs
<1>6. ASSUME NEW x \in Restarters, Restart(x) PROVE TypeOK'
  <2>0. UNCHANGED loopVars /\ UNCHANGED errQ /\ job[x].pc # "idle" /\ job[x].w \in Workers
    <3>1. UNCHANGED loopVars /\ UNCHANGED errQ /\ job[x].pc # "idle"
      <4>1. Clean(x) \/ StartNew(x) \/ Count(x) \/ StartFails(x)
        BY <1>6 DEF Restart
      <4>2. ASSUME Clean(x) PROVE UNCHANGED loopVars /\ UNCHANGED errQ /\ job[x].pc # "idle"
        BY <4>2 DEF Clean
      <4>3. ASSUME StartNew(x) PROVE UNCHANGED loopVars /\ UNCHANGED errQ /\ job[x].pc # "idle"
        BY <4>3 DEF StartNew
      <4>4. ASSUME Count(x) PROVE UNCHANGED loopVars /\ UNCHANGED errQ /\ job[x].pc # "idle"
        BY <4>4 DEF Count
      <4>5. ASSUME StartFails(x) PROVE UNCHANGED loopVars /\ UNCHANGED errQ /\ job[x].pc # "idle"
        BY <4>5 DEF StartFails
      <4> QED BY <4>1, <4>2, <4>3, <4>4, <4>5
    <3>2. job[x].w \in Workers
      BY <1>6, <3>1 DEF TypeOK
    <3> QED BY <3>1, <3>2
  <2>1. CASE Clean(x)
    <3> DEFINE p == info[job[x].w]
    <3>1. UNCHANGED info /\ UNCHANGED rec
      BY <2>1 DEF Clean
    <3>2. proc' \in Seq(P) /\ info' \in [Workers -> 0..Len(proc')]
          /\ \A v \in Workers : info'[v] # 0 => proc'[info'[v]].owner = v
      <4>1. CASE p = 0
        BY <2>1, <3>1, <4>1 DEF Clean, TypeOK
      <4>2. CASE p # 0
        <5>1. OneProc(p)
          BY <2>1, <4>2 DEF Clean, OneProc, LetGo
        <5>2. p \in DOMAIN proc
          <6>1. p \in 0..Len(proc)
            BY <1>e, <2>0
          <6> QED BY <1>e, <4>2, <6>1
        <5> QED BY <3>1, <5>1, <5>2, OneProcType, LivesType
      <4> QED BY <4>1, <4>2
    <3>3. job' \in [Restarters -> Jobs] /\ \A y \in Restarters : job'[y].pc # "idle" => job'[y].w \in Workers
      BY <2>0, <2>1, JobType DEF Clean
    <3> QED BY <2>0, <3>1, <3>2, <3>3 DEF loopVars, TypeOK, Records, Jobs
  <2>2. CASE StartNew(x)
    <3>1. /\ Spawn(job[x].w)
          /\ job' \in [Restarters -> Jobs]
          /\ \A y \in Restarters : job'[y].w = job[y].w
          /\ \A y \in Restarters : y # x => job'[y].pc = job[y].pc
      BY <2>2, StartNewType
    <3>2. \A y \in Restarters : job'[y].pc # "idle" => job'[y].w \in Workers
      BY <2>0, <3>1 DEF TypeOK
    <3> QED BY <2>0, <3>1, <3>2, SpawnType DEF loopVars, TypeOK, Records, Jobs
  <2>3. CASE Count(x)
    <3>1. UNCHANGED info /\ UNCHANGED proc /\ Finish(x)
      BY <2>3 DEF Count
    <3>2. rec' \in [Workers -> Records]
      <4> DEFINE w == job[x].w
      <4> DEFINE e == [ready |-> rec[w].ready, restarts |-> job[x].count, errs |-> job[x].errs - 1]
      <4>0. rec[w] \in Records /\ job[x] \in Jobs
        BY <1>a, <1>d, <2>0
      <4>1. e \in Records
        BY <4>0 DEF Records, Jobs
      <4>2. rec' = rec \/ rec' = [rec EXCEPT ![w] = e]
        BY <2>3 DEF Count
      <4> HIDE DEF e, w
      <4> QED BY <1>a, <2>0, <4>1, <4>2
    <3>3. job' \in [Restarters -> Jobs] /\ \A y \in Restarters : job'[y].pc # "idle" => job'[y].w \in Workers
      BY <2>0, <3>1, JobType
    <3> QED BY <2>0, <3>1, <3>2, <3>3 DEF loopVars, TypeOK, Records, Jobs
  <2>4. CASE StartFails(x)
    <3>1. UNCHANGED info /\ UNCHANGED proc /\ Finish(x)
      BY <2>4 DEF StartFails
    <3>2. rec' \in [Workers -> Records]
      <4> DEFINE w == job[x].w
      <4> DEFINE e == [ready |-> FALSE, restarts |-> rec[w].restarts + 1, errs |-> rec[w].errs]
      <4>0. rec[w] \in Records
        BY <1>a, <2>0
      <4>1. e \in Records
        BY <4>0 DEF Records
      <4>2. rec' = rec \/ rec' = [rec EXCEPT ![w] = e]
        BY <2>4 DEF StartFails
      <4> HIDE DEF e, w
      <4> QED BY <1>a, <2>0, <4>1, <4>2
    <3>3. job' \in [Restarters -> Jobs] /\ \A y \in Restarters : job'[y].pc # "idle" => job'[y].w \in Workers
      BY <2>0, <3>1, JobType
    <3> QED BY <2>0, <3>1, <3>2, <3>3 DEF loopVars, TypeOK, Records, Jobs
  <2> QED BY <1>6, <2>1, <2>2, <2>3, <2>4 DEF Restart
<1>7. ASSUME NEW x \in Resets, NEW w \in Workers, DeviceReset(x, w) PROVE TypeOK'
  <2>1. job' \in [Restarters -> Jobs] /\ \A y \in Restarters : job'[y].pc # "idle" => job'[y].w \in Workers
    BY <1>7, JobType DEF DeviceReset, Restarters
  <2> QED BY <1>7, <2>1 DEF DeviceReset, loopVars, TypeOK, Records, Jobs
<1>8. CASE Tick
  BY <1>8 DEF Tick, TypeOK
<1>9. CASE TickDone
  BY <1>9 DEF TickDone, TypeOK
<1>10. ASSUME NEW w \in Workers, RestartNext(w) \/ GiveUp(w) PROVE TypeOK'
  <2>1. Rest(w) \in T
    BY DEF Rest, TypeOK
  <2>2. CASE RestartNext(w)
    <3>1. job' \in [Restarters -> Jobs] /\ \A y \in Restarters : job'[y].pc # "idle" => job'[y].w \in Workers
      BY <2>2, JobType DEF RestartNext, Restarters
    <3> QED BY <2>1, <2>2, <3>1 DEF RestartNext, TypeOK, Records, Jobs
  <2>3. CASE GiveUp(w)
    BY <2>1, <2>3 DEF GiveUp, TypeOK
  <2> QED BY <1>10, <2>2, <2>3
<1>11. ASSUME KillAll, phase' \in {"stopping", "giving_up"}, UNCHANGED <<toOpen, info, rec, signals, errQ, job, deep>>
       PROVE  TypeOK'
  <2>1. proc' \in Seq(P) /\ info' \in [Workers -> 0..Len(proc')]
        /\ \A v \in Workers : info'[v] # 0 => proc'[info'[v]].owner = v
    BY <1>11, KillAllType, LivesType
  <2>2. isReady' \in BOOLEAN /\ mon' \in {"off", "sleep", "work", "ended"} /\ todo' \in T
    BY <1>11 DEF KillAll, NoWork
  <2> QED BY <1>11, <2>1, <2>2 DEF TypeOK, Records, Jobs
<1>12. CASE Stop
  BY <1>11, <1>12 DEF Stop, KillAll
<1>13. ASSUME NEW w \in Workers, GiveUpDeep(w) PROVE TypeOK'
  BY <1>11, <1>13 DEF GiveUpDeep, KillAll
<1>14. CASE Forget \/ Reopen
  <2>1. rec' \in [Workers -> Records] /\ info' \in [Workers -> 0..Len(proc')] /\ \A v \in Workers : info'[v] = 0
    <3>1. Len(proc) \in Nat /\ proc' = proc
      BY <1>e, <1>14 DEF Forget, Reopen
    <3>2. info' = [w \in Workers |-> 0] /\ rec' = [w \in Workers |-> Blank]
      BY <1>14 DEF Forget, Reopen
    <3>3. Blank \in Records
      BY DEF Blank, Records
    <3> QED BY <3>1, <3>2, <3>3
  <2>2. errQ' \in [Workers -> Nat] /\ signals' \in Seq(Workers)
    <3>1. CASE Forget
      <4>1. signals' = <<>> /\ errQ' = [w \in Workers |-> 0]
        BY <3>1 DEF Forget
      <4> QED BY <4>1
    <3>2. CASE Reopen
      BY <1>b, <1>c, <3>2 DEF Reopen
    <3> QED BY <1>14, <3>1, <3>2
  <2> QED BY <1>14, <2>1, <2>2 DEF Forget, Reopen, TypeOK, Records, Jobs
<1>15. CASE UNCHANGED vars
  BY <1>15 DEF vars, TypeOK
<1> QED BY <1>1, <1>2, <1>3, <1>4, <1>5, <1>6, <1>7, <1>8, <1>9, <1>10, <1>12, <1>13, <1>14, <1>15
        DEF Next, ProcStep, Monitor

\* Every reachable state is well typed, for every pool.
THEOREM TypeCorrect == Spec => []TypeOK
<1> QED BY InitTypeOK, NextTypeOK, PTL DEF Spec

-----------------------------------------------------------------------------
(* NoOrphan and RestartBudget. *)

OnIt(w) == job["monitor"].pc # "idle" /\ job["monitor"].w = w

\* Where the loop is: the monitor works only before a stop, on workers that
\* worker_info holds, and nothing is left to open after a deep restart.
LoopInv ==
    /\ mon = "work" => phase = "run"
    /\ job["monitor"].pc # "idle" => mon = "work" /\ info[job["monitor"].w] # 0
    /\ job["monitor"].pc # "done"
    /\ mon = "work" => \A w \in todo.dead \cup todo.failing : info[w] # 0
    /\ phase = "reopened" => toOpen = {}
    /\ \A x \in Resets : job[x].pc = "idle" => job[x].w = 0

\* The processes w had, against its counter and the restart under way: the
\* monitor's count runs one ahead of them until it has started the next.
Within(w) ==
    IF OnIt(w)
    THEN /\ job["monitor"].count <= MaxRestarts
         /\ job["monitor"].pc = "count" =>
               Cardinality(Procs(w)) <= job["monitor"].count + 1
         /\ job["monitor"].pc # "count" =>
               /\ rec[w].restarts + 1 = job["monitor"].count
               /\ Cardinality(Procs(w)) <= job["monitor"].count
         /\ job["monitor"].pc = "start" => ~Counted(info[w])
    ELSE /\ rec[w].restarts <= MaxRestarts
         /\ Cardinality(Procs(w)) <= rec[w].restarts + 1

WorkerInv(w) ==
    ResetsOf(w) = {} =>
        /\ w \in toOpen => Procs(w) = {}
        /\ \A p \in Procs(w) : Counted(p) => info[w] = p \/ phase = "reopened"
        /\ phase \in {"stopping", "giving_up"} => \A p \in Procs(w) : ~Counted(p)
        /\ Cardinality(Procs(w)) <= MaxRestarts + 1
        /\ info[w] # 0 => Within(w)

IInv == TypeOK /\ LoopInv /\ \A w \in Workers : WorkerInv(w)

\* The processes of a worker are finitely many, and worker_info names one of them.
LEMMA ProcsFacts ==
    ASSUME TypeOK, NEW w \in Workers
    PROVE  /\ IsFiniteSet(Procs(w)) /\ Cardinality(Procs(w)) \in Nat
           /\ info[w] # 0 => info[w] \in Procs(w)
           /\ rec[w].restarts \in Nat
           /\ job["monitor"].count \in Nat
           /\ Len(proc) \in Nat /\ DOMAIN proc = 1..Len(proc)
           /\ MaxRestarts \in Nat
<1> DEFINE P == [owner : Workers, life : {"warming", "up", "dead"}, outlived : BOOLEAN]
<1>1. proc \in Seq(P) /\ info[w] \in 0..Len(proc)
  BY DEF TypeOK
<1>2. Len(proc) \in Nat /\ DOMAIN proc = 1..Len(proc)
  <2> HIDE DEF P
  <2> QED BY <1>1
<1>3. IsFiniteSet(Procs(w))
  <2>1. IsFiniteSet(1..Len(proc))
    BY <1>2, FS_Interval
  <2>2. Procs(w) \subseteq 1..Len(proc)
    BY <1>2 DEF Procs
  <2> QED BY <2>1, <2>2, FS_Subset
<1>4. info[w] # 0 => info[w] \in Procs(w)
  <2> SUFFICES ASSUME info[w] # 0 PROVE info[w] \in Procs(w)
    OBVIOUS
  <2>1. info[w] \in DOMAIN proc
    BY <1>1, <1>2
  <2>2. proc[info[w]].owner = w
    BY DEF TypeOK
  <2> QED BY <2>1, <2>2 DEF Procs
<1>5. rec[w].restarts \in Nat /\ job["monitor"].count \in Nat
  <2>1. rec \in [Workers -> Records] /\ job \in [Restarters -> Jobs] /\ "monitor" \in Restarters
    BY DEF TypeOK, Records, Jobs, Restarters
  <2>2. rec[w] \in Records /\ job["monitor"] \in Jobs
    BY <2>1
  <2> QED BY <2>2 DEF Records, Jobs
<1> QED BY <1>2, <1>3, <1>4, <1>5, FS_CardinalityType, PoolAssumption

\* What does not touch a worker, or only ends a process of it, keeps its part of
\* the invariant.
LEMMA Frame ==
    ASSUME TypeOK, NEW w \in Workers, WorkerInv(w),
           ResetsOf(w)' = {} => ResetsOf(w) = {},
           Procs(w)' = Procs(w),
           \A p \in Procs(w) : Counted(p)' => Counted(p),
           info'[w] = info[w], rec'[w].restarts = rec[w].restarts,
           OnIt(w)' <=> OnIt(w),
           OnIt(w) => /\ job'["monitor"].pc = job["monitor"].pc
                      /\ job'["monitor"].count = job["monitor"].count,
           toOpen' \subseteq toOpen, phase' = phase
    PROVE  WorkerInv(w)'
<1> SUFFICES ASSUME ResetsOf(w)' = {}
             PROVE  /\ w \in toOpen' => Procs(w)' = {}
                    /\ \A p \in Procs(w)' : Counted(p)' => info'[w] = p \/ phase' = "reopened"
                    /\ phase' \in {"stopping", "giving_up"} => \A p \in Procs(w)' : ~Counted(p)'
                    /\ Cardinality(Procs(w)') <= MaxRestarts + 1
                    /\ info'[w] # 0 => Within(w)'
  BY DEF WorkerInv
<1>1. /\ w \in toOpen => Procs(w) = {}
      /\ \A p \in Procs(w) : Counted(p) => info[w] = p \/ phase = "reopened"
      /\ phase \in {"stopping", "giving_up"} => \A p \in Procs(w) : ~Counted(p)
      /\ Cardinality(Procs(w)) <= MaxRestarts + 1
      /\ info[w] # 0 => Within(w)
  BY DEF WorkerInv
<1>2. info'[w] # 0 => Within(w)'
  <2> SUFFICES ASSUME info[w] # 0 PROVE Within(w)'
    OBVIOUS
  <2>1. Within(w) /\ info[w] \in Procs(w)
    BY <1>1, ProcsFacts
  <2>2. Counted(info[w])' => Counted(info[w])
    BY <2>1 DEF Counted, IsAlive
  <2>3. CASE OnIt(w)
    BY <2>1, <2>2, <2>3 DEF Within
  <2>4. CASE ~OnIt(w)
    BY <2>1, <2>4 DEF Within
  <2> QED BY <2>3, <2>4
<1> QED BY <1>1, <1>2

\* What starting a process of w does to the processes of every worker.
LEMMA SpawnProcs ==
    ASSUME TypeOK, NEW w \in Workers, Spawn(w)
    PROVE  /\ Procs(w)' = Procs(w) \cup {Len(proc) + 1}
           /\ Cardinality(Procs(w)') = Cardinality(Procs(w)) + 1
           /\ info'[w] = Len(proc) + 1 /\ info'[w] # 0
           /\ rec'[w] = Blank
           /\ \A p \in Procs(w) : Counted(p)' <=> Counted(p)
           /\ \A v \in Workers \ {w} :
                /\ Procs(v)' = Procs(v)
                /\ info'[v] = info[v] /\ rec'[v] = rec[v]
                /\ \A p \in Procs(v) : Counted(p)' <=> Counted(p)
<1> DEFINE P == [owner : Workers, life : {"warming", "up", "dead"}, outlived : BOOLEAN]
<1> DEFINE new == [owner |-> w, life |-> "warming", outlived |-> FALSE]
<1>1. proc \in Seq(P) /\ info \in [Workers -> 0..Len(proc)] /\ rec \in [Workers -> Records]
  BY DEF TypeOK, Records
<1>2. proc' = Append(proc, new) /\ info' = [info EXCEPT ![w] = Len(proc) + 1] /\ rec' = [rec EXCEPT ![w] = Blank]
  BY DEF Spawn
<1>3. /\ Len(proc) \in Nat
      /\ DOMAIN proc = 1..Len(proc)
      /\ DOMAIN proc' = 1..(Len(proc) + 1)
      /\ proc'[Len(proc) + 1] = new
      /\ \A i \in 1..Len(proc) : proc'[i] = proc[i]
  <2> HIDE DEF P, new
  <2> QED BY <1>1, <1>2
<1>4. DOMAIN proc' = DOMAIN proc \cup {Len(proc) + 1} /\ Len(proc) + 1 \notin DOMAIN proc
  BY <1>3
<1>5. Procs(w)' = Procs(w) \cup {Len(proc) + 1} /\ Len(proc) + 1 \notin Procs(w)
  BY <1>3, <1>4 DEF Procs
<1>6. Cardinality(Procs(w)') = Cardinality(Procs(w)) + 1
  BY <1>5, ProcsFacts, FS_AddElement
<1>7. \A p \in DOMAIN proc : Counted(p)' <=> Counted(p)
  BY <1>3 DEF Counted, IsAlive
<1>8. \A v \in Workers \ {w} : Procs(v)' = Procs(v)
  BY <1>3, <1>4 DEF Procs
<1>9. \A v \in Workers : Procs(v) \subseteq DOMAIN proc
  BY DEF Procs
<1>10. info'[w] = Len(proc) + 1 /\ info'[w] # 0 /\ rec'[w] = Blank
  BY <1>1, <1>2, <1>3
<1>11. \A v \in Workers \ {w} : info'[v] = info[v] /\ rec'[v] = rec[v]
  BY <1>1, <1>2
<1> HIDE DEF P, new
<1> QED BY <1>5, <1>6, <1>7, <1>8, <1>9, <1>10, <1>11

\* What ending or warming up a process does to them.
LEMMA LivesProcs ==
    ASSUME TypeOK, DOMAIN proc' = DOMAIN proc,
           \A p \in DOMAIN proc : proc'[p].owner = proc[p].owner
    PROVE  \A v \in Workers : Procs(v)' = Procs(v) /\ Procs(v) \subseteq DOMAIN proc
BY DEF Procs

\* What a restarter's step does to the table of restarts.
LEMMA RestartJobs ==
    ASSUME TypeOK, NEW x \in Restarters, Restart(x)
    PROVE  /\ UNCHANGED loopVars
           /\ x # "monitor" => job'["monitor"].pc = job["monitor"].pc
           /\ x # "monitor" => job'["monitor"].w = job["monitor"].w
           /\ x # "monitor" => job'["monitor"].count = job["monitor"].count
           /\ \A y \in Resets : job'[y].w = job[y].w
           /\ \A y \in Resets : job'[y].pc = "idle" => job[y].pc = "idle"
           /\ x = "monitor" => job'["monitor"].pc \in {"idle", "start", "count"}
           /\ (x = "monitor" /\ job'["monitor"].pc # "idle") =>
                /\ job'["monitor"].w = job["monitor"].w
                /\ job'["monitor"].count = job["monitor"].count
           /\ job[x].pc # "idle"
<1>1. job \in [Restarters -> Jobs] /\ "monitor" \in Restarters /\ Resets \subseteq Restarters
      /\ "monitor" \notin Resets
  BY PoolAssumption DEF TypeOK, Jobs, Restarters
<1>2. UNCHANGED loopVars /\ job[x].pc # "idle"
  BY DEF Restart, Clean, StartNew, Count, StartFails
<1>3. CASE Clean(x)
  <2>1. job' = [job EXCEPT ![x].pc = "start"]
    BY <1>3 DEF Clean
  <2>2. \A y \in Restarters : y # x => job'[y] = job[y]
    BY <1>1, <2>1
  <2>3. job'[x].pc = "start" /\ job'[x].w = job[x].w /\ job'[x].count = job[x].count
    <3>1. job[x] \in Jobs /\ job'[x] = [job[x] EXCEPT !.pc = "start"]
      BY <1>1, <2>1
    <3> QED BY <3>1 DEF Jobs
  <2> QED BY <1>1, <1>2, <2>2, <2>3
<1>4. CASE StartNew(x)
  BY <1>1, <1>2, <1>4, StartNewType
<1>5. CASE Count(x) \/ StartFails(x)
  <2>1. Finish(x)
    BY <1>5 DEF Count, StartFails
  <2>2. \A y \in Restarters : y # x => job'[y] = job[y]
    BY <1>1, <2>1 DEF Finish
  <2>3. CASE x = "monitor"
    <3>1. job'[x] = Idle
      BY <1>1, <2>1, <2>3 DEF Finish
    <3> QED BY <1>1, <1>2, <2>2, <2>3, <3>1 DEF Idle
  <2>4. CASE x # "monitor"
    <3>1. job'[x].w = job[x].w /\ job'[x].pc = "done"
      BY <1>1, <2>1, <2>4 DEF Finish
    <3> QED BY <1>1, <1>2, <2>2, <2>4, <3>1
  <2> QED BY <2>3, <2>4
<1> QED BY <1>3, <1>4, <1>5 DEF Restart

\* A restarter forgets no worker.
LEMMA RestartInfo ==
    ASSUME TypeOK, NEW x \in Restarters, Restart(x), NEW w \in Workers, info[w] # 0
    PROVE  info'[w] # 0
<1>1. CASE StartNew(x)
  <2>1. job[x].w \in Workers /\ Spawn(job[x].w)
    BY <1>1, StartNewType
  <2> QED BY <2>1, SpawnProcs
<1>2. CASE ~StartNew(x)
  BY <1>2 DEF Restart, Clean, Count, StartFails
<1> QED BY <1>1, <1>2

\* No step takes the loop where it cannot be.
LEMMA NextLoopInv == TypeOK /\ LoopInv /\ [Next]_vars => LoopInv'
<1> SUFFICES ASSUME TypeOK, LoopInv, [Next]_vars PROVE LoopInv'
  OBVIOUS
<1>0. "monitor" \in Restarters /\ "monitor" \notin Resets /\ job \in [Restarters -> Jobs]
      /\ Resets \subseteq Restarters
  BY PoolAssumption DEF TypeOK, Jobs, Restarters
<1>t. todo.dead \subseteq Workers /\ todo.failing \subseteq Workers
      /\ (job["monitor"].pc # "idle" => job["monitor"].w \in Workers)
  BY <1>0 DEF TypeOK
<1>1. CASE StartNext
  <2>1. PICK w \in toOpen : toOpen' = toOpen \ {w} /\ Spawn(w)
    BY <1>1 DEF StartNext
  <2>2. w \in Workers
    BY <2>1 DEF TypeOK
  <2>3. mon # "work" /\ UNCHANGED <<mon, job, phase>>
    BY <1>1 DEF StartNext, LoopFree
  <2> QED BY <2>1, <2>3 DEF LoopInv
<1>2. CASE StartNextFails
  BY <1>2 DEF StartNextFails, LoopInv
<1>3. CASE ProcStep
  BY <1>3 DEF ProcStep, WarmUp, InitFails, Die, RequestFails, LoopInv
<1>4. CASE HearReady
  BY <1>4 DEF HearReady, Listening, LoopFree, LoopInv
<1>5. ASSUME NEW w \in Workers, HearError(w) PROVE LoopInv'
  BY <1>5 DEF HearError, LoopInv
<1>6. ASSUME NEW x \in Restarters, Restart(x) PROVE LoopInv'
  <2>1. \A w \in Workers : info[w] # 0 => info'[w] # 0
    BY <1>6, RestartInfo
  <2>2. UNCHANGED <<toOpen, mon, todo, phase>>
    BY <1>6, RestartJobs DEF loopVars
  <2>3. job'["monitor"].pc # "idle" => job["monitor"].pc # "idle" /\ job'["monitor"].w = job["monitor"].w
    BY <1>6, RestartJobs
  <2>4. /\ job'["monitor"].pc # "done"
        /\ \A y \in Resets : job'[y].pc = "idle" => job'[y].w = 0
    BY <1>6, RestartJobs DEF LoopInv
  <2> QED BY <1>t, <2>1, <2>2, <2>3, <2>4 DEF LoopInv
<1>7. ASSUME NEW x \in Resets, NEW w \in Workers, DeviceReset(x, w) PROVE LoopInv'
  <2>1. job'["monitor"] = job["monitor"] /\ job'[x].pc = "clean"
        /\ \A y \in Resets : y # x => job'[y] = job[y]
    BY <1>0, <1>7 DEF DeviceReset, BeginRestart
  <2> QED BY <1>7, <2>1 DEF DeviceReset, loopVars, LoopInv
<1>8. CASE Tick
  BY <1>8 DEF Tick, IsDead, IsFailing, LoopInv
<1>9. CASE TickDone
  BY <1>9 DEF TickDone, Working, LoopInv
<1>10. ASSUME NEW w \in Workers, RestartNext(w) \/ GiveUp(w) PROVE LoopInv'
  <2>1. mon = "work" /\ mon' = mon /\ UNCHANGED <<info, phase, toOpen>> /\ todo' = Rest(w)
        /\ w \in todo.dead \cup todo.failing
    BY <1>10 DEF RestartNext, GiveUp, Working, IsNext, IsFirst
  <2>2. info[w] # 0
    BY <2>1 DEF LoopInv
  <2>3. todo'.dead \subseteq todo.dead /\ todo'.failing \subseteq todo.failing
    BY <2>1 DEF Rest, TypeOK
  <2>4. CASE RestartNext(w)
    <3>1. job'["monitor"].pc = "clean" /\ job'["monitor"].w = w
          /\ \A y \in Resets : job'[y] = job[y]
      BY <1>0, <2>4 DEF RestartNext, BeginRestart
    <3> QED BY <2>1, <2>2, <2>3, <3>1 DEF LoopInv
  <2>5. CASE GiveUp(w)
    <3>1. UNCHANGED job
      BY <2>5 DEF GiveUp
    <3> QED BY <2>1, <2>3, <3>1 DEF LoopInv
  <2> QED BY <1>10, <2>4, <2>5
<1>11. CASE Stop
  BY <1>11 DEF Stop, KillAll, Listening, LoopFree, LoopInv
<1>12. ASSUME NEW w \in Workers, GiveUpDeep(w) PROVE LoopInv'
  BY <1>12 DEF GiveUpDeep, KillAll, Working, LoopInv
<1>13. CASE Forget
  BY <1>13 DEF Forget, LoopInv
<1>14. CASE Reopen
  BY <1>14 DEF Reopen, LoopInv
<1>15. CASE UNCHANGED vars
  BY <1>15 DEF vars, LoopInv
<1> QED BY <1>1, <1>2, <1>3, <1>4, <1>5, <1>6, <1>7, <1>8, <1>9, <1>10, <1>11, <1>12, <1>13, <1>14, <1>15
        DEF Next, ProcStep, Monitor

\* A worker the monitor's restart is for, and no device reset has touched: each
\* step of restart_worker keeps its part of the invariant.
LEMMA MonitorStep ==
    ASSUME IInv, Restart("monitor"), NEW w \in Workers, OnIt(w), ResetsOf(w)' = {}
    PROVE  WorkerInv(w)'
<1> DEFINE m == job["monitor"]
<1> DEFINE p == info[w]
<1>0. /\ TypeOK /\ LoopInv /\ WorkerInv(w) /\ "monitor" \in Restarters
      /\ job \in [Restarters -> Jobs] /\ rec \in [Workers -> Records]
      /\ "monitor" \notin Resets
  BY PoolAssumption DEF IInv, Restarters, TypeOK, Jobs, Records
<1>1. UNCHANGED loopVars /\ m.w = w /\ m.pc # "idle"
  BY <1>0, RestartJobs DEF OnIt
<1>2. ResetsOf(w) = {} /\ phase = "run" /\ info[w] # 0
  BY <1>0, <1>1, RestartJobs DEF ResetsOf, LoopInv
<1>3. /\ w \in toOpen => Procs(w) = {}
      /\ \A q \in Procs(w) : Counted(q) => p = q
      /\ Cardinality(Procs(w)) <= MaxRestarts + 1
      /\ Within(w)
  BY <1>0, <1>2 DEF WorkerInv
<1>4. /\ m.count <= MaxRestarts
      /\ m.pc = "count" => Cardinality(Procs(w)) <= m.count + 1
      /\ m.pc # "count" => rec[w].restarts + 1 = m.count /\ Cardinality(Procs(w)) <= m.count
      /\ m.pc = "start" => ~Counted(p)
  BY <1>3 DEF Within, OnIt
<1>5. /\ Cardinality(Procs(w)) \in Nat /\ p \in Procs(w) /\ p \in DOMAIN proc
      /\ rec[w].restarts \in Nat /\ m.count \in Nat /\ MaxRestarts \in Nat
      /\ Len(proc) \in Nat /\ DOMAIN proc = 1..Len(proc)
  BY <1>0, <1>2, ProcsFacts DEF Procs
<1>6. w \notin toOpen /\ toOpen' = toOpen /\ phase' = "run"
  BY <1>1, <1>2, <1>3, <1>5 DEF loopVars
<1>7. CASE Clean("monitor")
  <2>1. LetGo(p) /\ OneProc(p) /\ UNCHANGED <<info, rec>>
    BY <1>1, <1>2, <1>7 DEF Clean, LetGo, OneProc
  <2>2. /\ DOMAIN proc' = DOMAIN proc
        /\ \A q \in DOMAIN proc : proc'[q].owner = proc[q].owner
        /\ \A q \in DOMAIN proc : q # p => proc'[q] = proc[q]
        /\ \A q \in DOMAIN proc : q = p => ~Counted(q)'
    BY <1>0, <1>5, <2>1, OneProcType
  <2>3. Procs(w)' = Procs(w) /\ Procs(w) \subseteq DOMAIN proc
    BY <1>0, <2>2, LivesProcs
  <2>4. ASSUME NEW q \in Procs(w) PROVE ~Counted(q)'
    <3>1. CASE q = p
      BY <2>2, <2>3, <3>1
    <3>2. CASE q # p
      <4>1. ~Counted(q) /\ proc'[q] = proc[q]
        BY <1>3, <2>2, <2>3, <3>2
      <4> QED BY <4>1 DEF Counted, IsAlive
    <3> QED BY <3>1, <3>2
  <2>5. job'["monitor"].pc = "start" /\ job'["monitor"].w = w /\ job'["monitor"].count = m.count
    <3>1. job' = [job EXCEPT !["monitor"].pc = "start"]
      BY <1>7 DEF Clean
    <3>2. m \in Jobs /\ job'["monitor"] = [m EXCEPT !.pc = "start"]
      BY <1>0, <3>1
    <3> QED BY <1>1, <3>2 DEF Jobs
  <2>6. m.pc = "clean"
    BY <1>7 DEF Clean
  <2>7. Within(w)'
    BY <1>4, <1>5, <2>1, <2>3, <2>4, <2>5, <2>6 DEF Within, OnIt
  <2> QED BY <1>3, <1>6, <2>3, <2>4, <2>7 DEF WorkerInv
<1>8. CASE StartNew("monitor")
  <2>1. Spawn(w)
    BY <1>0, <1>1, <1>8, StartNewType
  <2>2. /\ Procs(w)' = Procs(w) \cup {Len(proc) + 1}
        /\ Cardinality(Procs(w)') = Cardinality(Procs(w)) + 1
        /\ info'[w] = Len(proc) + 1
        /\ \A q \in Procs(w) : Counted(q)' <=> Counted(q)
    BY <1>0, <2>1, SpawnProcs
  <2>3. m.pc = "start" /\ job'["monitor"].pc = "count"
        /\ job'["monitor"].w = w /\ job'["monitor"].count = m.count
    BY <1>0, <1>1, <1>8, StartNewType DEF StartNew
  <2>4. \A q \in Procs(w)' : Counted(q)' => info'[w] = q
    BY <1>3, <1>4, <2>2, <2>3
  <2>5. Within(w)'
    BY <1>4, <1>5, <2>2, <2>3 DEF Within, OnIt
  <2>6. Cardinality(Procs(w)') <= MaxRestarts + 1
    BY <1>4, <1>5, <2>2, <2>3
  <2> QED BY <1>6, <2>4, <2>5, <2>6 DEF WorkerInv
<1>9. CASE Count("monitor") \/ StartFails("monitor")
  <2>1. Finish("monitor") /\ UNCHANGED <<proc, info>>
    BY <1>9 DEF Count, StartFails
  <2>2. job'["monitor"] = Idle
    BY <1>0, <2>1 DEF Finish
  <2>3. Procs(w)' = Procs(w) /\ \A q \in Procs(w) : Counted(q)' <=> Counted(q)
    BY <2>1 DEF Procs, Counted, IsAlive
  <2>4. rec'[w].restarts = m.count /\ Cardinality(Procs(w)) <= m.count + 1
    <3>1. CASE Count("monitor")
      <4>1. rec' = [rec EXCEPT ![w] = [ready |-> rec[w].ready, restarts |-> m.count,
                                       errs |-> m.errs - 1]]
        BY <1>1, <1>2, <3>1 DEF Count
      <4>2. m.pc = "count"
        BY <3>1 DEF Count
      <4> QED BY <1>0, <1>4, <4>1, <4>2
    <3>2. CASE StartFails("monitor")
      <4>1. rec' = [rec EXCEPT ![w] = [ready |-> FALSE, restarts |-> rec[w].restarts + 1,
                                       errs |-> rec[w].errs]]
        BY <1>1, <3>2 DEF StartFails
      <4>2. m.pc = "start"
        BY <3>2 DEF StartFails
      <4> QED BY <1>0, <1>4, <1>5, <4>1, <4>2
    <3> QED BY <1>9, <3>1, <3>2
  <2>5. Within(w)'
    BY <1>4, <2>2, <2>3, <2>4 DEF Within, OnIt, Idle
  <2> QED BY <1>3, <1>6, <2>1, <2>3, <2>5 DEF WorkerInv
<1> QED BY <1>7, <1>8, <1>9 DEF Restart

\* A step of a restarter that is at work on another worker, or on one a device
\* reset has touched.
LEMMA RestartStep ==
    ASSUME IInv, NEW x \in Restarters, Restart(x), NEW w \in Workers
    PROVE  WorkerInv(w)'
<1> SUFFICES ASSUME ResetsOf(w)' = {}
             PROVE  WorkerInv(w)'
  BY DEF WorkerInv
<1>0. /\ TypeOK /\ LoopInv /\ WorkerInv(w) /\ "monitor" \in Restarters
      /\ "monitor" \notin Resets /\ Resets \subseteq Restarters
      /\ Restarters = Resets \cup {"monitor"}
  BY PoolAssumption DEF IInv, Restarters
<1>1. ResetsOf(w) = {}
  BY <1>0, RestartJobs DEF ResetsOf
<1>2. CASE x = "monitor" /\ OnIt(w)
  BY <1>2, MonitorStep
<1>3. CASE ~(x = "monitor" /\ OnIt(w))
  <2> DEFINE v == job[x].w
  <2>1. v # w /\ v \in Workers /\ job[x].pc # "idle"
    <3>1. job[x].pc # "idle" /\ v \in Workers
      BY <1>0, RestartJobs DEF TypeOK
    <3>2. CASE x = "monitor"
      BY <1>3, <3>1, <3>2 DEF OnIt
    <3>3. CASE x # "monitor"
      <4>1. x \in Resets /\ job[x].w # w
        BY <1>0, <1>1, <3>3 DEF ResetsOf
      <4> QED BY <3>1, <4>1
    <3> QED BY <3>1, <3>2, <3>3
  <2>2. OnIt(w)' <=> OnIt(w)
    BY <1>0, <1>3, <2>1, RestartJobs DEF OnIt
  <2>3. OnIt(w) => /\ job'["monitor"].pc = job["monitor"].pc
                   /\ job'["monitor"].count = job["monitor"].count
    BY <1>0, <1>3, RestartJobs
  <2>4. toOpen' = toOpen /\ phase' = phase
    BY <1>0, RestartJobs DEF loopVars
  <2>5. /\ Procs(w)' = Procs(w)
        /\ \A p \in Procs(w) : Counted(p)' => Counted(p)
        /\ info'[w] = info[w] /\ rec'[w].restarts = rec[w].restarts
    <3>1. CASE Clean(x)
      <4> DEFINE q == info[v]
      <4>0. UNCHANGED <<info, rec>>
        BY <3>1 DEF Clean
      <4>1. CASE q = 0
        <5>1. UNCHANGED proc
          BY <3>1, <4>1 DEF Clean
        <5> QED BY <4>0, <5>1 DEF Procs, Counted, IsAlive
      <4>2. CASE q # 0
        <5>1. OneProc(q)
          BY <3>1, <4>2 DEF Clean, LetGo, OneProc
        <5>2. q \in Procs(v) /\ q \in DOMAIN proc
          BY <1>0, <2>1, <4>2, ProcsFacts DEF Procs
        <5>3. /\ DOMAIN proc' = DOMAIN proc
              /\ \A r \in DOMAIN proc : proc'[r].owner = proc[r].owner
              /\ \A r \in DOMAIN proc : r # q => proc'[r] = proc[r]
          BY <1>0, <5>1, <5>2, OneProcType
        <5>4. q \notin Procs(w)
          BY <2>1, <5>2 DEF Procs
        <5>5. Procs(w)' = Procs(w) /\ Procs(w) \subseteq DOMAIN proc
          BY <1>0, <5>3, LivesProcs
        <5>6. \A r \in Procs(w) : r # q /\ r \in DOMAIN proc
          BY <5>4, <5>5
        <5>7. \A r \in Procs(w) : Counted(r)' => Counted(r)
          BY <5>3, <5>6 DEF Counted, IsAlive
        <5> QED BY <4>0, <5>5, <5>7
      <4> QED BY <4>1, <4>2
    <3>2. CASE StartNew(x)
      <4>1. Spawn(v)
        BY <1>0, <3>2, StartNewType
      <4> QED BY <1>0, <2>1, <4>1, SpawnProcs
    <3>3. CASE Count(x) \/ StartFails(x)
      <4>1. UNCHANGED <<proc, info>>
        BY <3>3 DEF Count, StartFails
      <4>2. rec'[w] = rec[w]
        <5>1. rec \in [Workers -> Records]
          BY <1>0 DEF TypeOK, Records
        <5>2. rec' = rec \/ \E e : rec' = [rec EXCEPT ![v] = e]
          BY <3>3 DEF Count, StartFails
        <5> QED BY <2>1, <5>1, <5>2
      <4> QED BY <4>1, <4>2 DEF Procs, Counted, IsAlive
    <3> QED BY <3>1, <3>2, <3>3 DEF Restart
  <2> QED BY <1>0, <1>1, <2>2, <2>3, <2>4, <2>5, Frame
<1> QED BY <1>2, <1>3

\* stop_workers kills what the invariant says is alive.
LEMMA KillAllStep ==
    ASSUME IInv, KillAll, phase = "run", phase' \in {"stopping", "giving_up"},
           job["monitor"].pc = "idle", NEW w \in Workers
    PROVE  WorkerInv(w)'
<1> SUFFICES ASSUME ResetsOf(w)' = {}
             PROVE  WorkerInv(w)'
  BY DEF WorkerInv
<1>0. TypeOK /\ WorkerInv(w) /\ UNCHANGED <<toOpen, info, rec, job>>
  BY DEF IInv, KillAll
<1>1. ResetsOf(w) = {}
  BY <1>0 DEF ResetsOf
<1>2. /\ w \in toOpen => Procs(w) = {}
      /\ \A p \in Procs(w) : Counted(p) => info[w] = p
      /\ Cardinality(Procs(w)) <= MaxRestarts + 1
      /\ info[w] # 0 => Within(w)
  BY <1>0, <1>1 DEF WorkerInv
<1>3. /\ DOMAIN proc' = DOMAIN proc
      /\ \A q \in DOMAIN proc : proc'[q].owner = proc[q].owner
      /\ \A q \in DOMAIN proc : Counted(q)' => Counted(q)
      /\ \A q \in DOMAIN proc : info[proc[q].owner] = q => ~Counted(q)'
  BY <1>0, KillAllType
<1>4. Procs(w)' = Procs(w) /\ Procs(w) \subseteq DOMAIN proc
      /\ \A q \in Procs(w) : proc[q].owner = w
  BY <1>0, <1>3, LivesProcs DEF Procs
<1>5. \A q \in Procs(w) : ~Counted(q)'
  BY <1>2, <1>3, <1>4 DEF Counted, IsAlive
<1>6. info'[w] # 0 => Within(w)'
  BY <1>0, <1>2, <1>4 DEF Within, OnIt
<1> QED BY <1>0, <1>2, <1>4, <1>5, <1>6 DEF WorkerInv

\* No step breaks a worker's part of the invariant.
LEMMA NextWorkerInv ==
    ASSUME IInv, [Next]_vars, NEW w \in Workers
    PROVE  WorkerInv(w)'
<1>0. /\ TypeOK /\ LoopInv /\ WorkerInv(w) /\ "monitor" \in Restarters
      /\ "monitor" \notin Resets /\ job \in [Restarters -> Jobs] /\ Resets \subseteq Restarters
  BY PoolAssumption DEF IInv, Restarters, TypeOK, Jobs
<1>a. ASSUME UNCHANGED <<toOpen, proc, info, rec, job, phase>> PROVE WorkerInv(w)'
  BY <1>0, <1>a, Frame DEF ResetsOf, Procs, Counted, IsAlive, OnIt
<1>1. CASE StartNext
  <2>1. PICK v \in toOpen : toOpen' = toOpen \ {v} /\ Spawn(v)
    BY <1>1 DEF StartNext
  <2>2. v \in Workers /\ UNCHANGED <<mon, job, phase>> /\ phase \notin {"stopping", "giving_up"}
        /\ job["monitor"].pc = "idle"
    BY <1>0, <1>1, <2>1 DEF StartNext, LoopFree, LoopInv, TypeOK
  <2>3. CASE v # w
    <3>1. /\ Procs(w)' = Procs(w) /\ info'[w] = info[w] /\ rec'[w] = rec[w]
          /\ \A p \in Procs(w) : Counted(p)' <=> Counted(p)
      BY <1>0, <2>1, <2>2, <2>3, SpawnProcs
    <3> QED BY <1>0, <2>1, <2>2, <3>1, Frame DEF ResetsOf, OnIt
  <2>4. CASE v = w
    <3> SUFFICES ASSUME ResetsOf(w)' = {} PROVE WorkerInv(w)'
      BY DEF WorkerInv
    <3>1. Procs(w) = {} /\ ResetsOf(w) = {}
      BY <1>0, <2>1, <2>2, <2>4 DEF WorkerInv, ResetsOf
    <3>2. /\ Procs(w)' = Procs(w) \cup {Len(proc) + 1}
          /\ Cardinality(Procs(w)') = Cardinality(Procs(w)) + 1
          /\ info'[w] = Len(proc) + 1 /\ rec'[w] = Blank
      BY <1>0, <2>1, <2>2, <2>4, SpawnProcs
    <3>3. Cardinality(Procs(w)') = 1 /\ MaxRestarts \in Nat
      BY <3>1, <3>2, FS_EmptySet, PoolAssumption
    <3>4. Within(w)'
      <4>1. ~OnIt(w)'
        BY <2>2 DEF OnIt
      <4>2. rec'[w].restarts = 0
        BY <3>2 DEF Blank
      <4> QED BY <3>3, <4>1, <4>2 DEF Within
    <3>5. w \notin toOpen'
      BY <2>1, <2>4
    <3>6. \A p \in Procs(w)' : info'[w] = p
      BY <3>1, <3>2
    <3>7. Cardinality(Procs(w)') <= MaxRestarts + 1
      BY <3>3
    <3>8. phase' \notin {"stopping", "giving_up"}
      BY <2>2
    <3> QED BY <3>4, <3>5, <3>6, <3>7, <3>8 DEF WorkerInv
  <2> QED BY <2>3, <2>4
<1>2. CASE StartNextFails
  BY <1>0, <1>2, Frame DEF StartNextFails, ResetsOf, Procs, Counted, IsAlive, OnIt
<1>3. CASE ProcStep
  <2> PICK p \in DOMAIN proc : WarmUp(p) \/ InitFails(p) \/ Die(p) \/ RequestFails(p)
    BY <1>3 DEF ProcStep
  <2>1. CASE RequestFails(p)
    BY <1>a, <2>1 DEF RequestFails
  <2>2. CASE ~RequestFails(p)
    <3>1. OneProc(p) /\ IsAlive(p)
      BY <2>2 DEF WarmUp, InitFails, Die, IsAlive, OneProc, LetGo
    <3>2. UNCHANGED <<toOpen, info, rec, job, phase>>
      BY <2>2 DEF WarmUp, InitFails, Die
    <3>3. /\ DOMAIN proc' = DOMAIN proc
          /\ \A q \in DOMAIN proc : proc'[q].owner = proc[q].owner
          /\ \A q \in DOMAIN proc : q # p => proc'[q] = proc[q]
          /\ Counted(p)' => Counted(p)
      BY <1>0, <3>1, OneProcType
    <3>4. Procs(w)' = Procs(w) /\ Procs(w) \subseteq DOMAIN proc
      BY <1>0, <3>3, LivesProcs
    <3>5. \A q \in DOMAIN proc : Counted(q)' => Counted(q)
      BY <3>1, <3>3 DEF Counted, IsAlive
    <3> QED BY <1>0, <3>2, <3>4, <3>5, Frame DEF ResetsOf, OnIt
  <2> QED BY <2>1, <2>2
<1>4. CASE HearReady \/ \E v \in Workers : HearError(v)
  <2>1. UNCHANGED <<toOpen, proc, info, job, phase>>
    BY <1>4 DEF HearReady, HearError
  <2>2. rec'[w].restarts = rec[w].restarts
    <3>1. rec \in [Workers -> Records] /\ rec[w] \in Records
      BY <1>0 DEF TypeOK, Records
    <3>2. \E v : rec' = [rec EXCEPT ![v].ready = TRUE] \/ rec' = [rec EXCEPT ![v].errs = @ + 1]
      BY <1>4 DEF HearReady, HearError
    <3> QED BY <3>1, <3>2 DEF Records
  <2> QED BY <1>0, <2>1, <2>2, Frame DEF ResetsOf, Procs, Counted, IsAlive, OnIt
<1>6. ASSUME NEW x \in Restarters, Restart(x) PROVE WorkerInv(w)'
  BY <1>6, RestartStep
<1>7. ASSUME NEW x \in Resets, NEW v \in Workers, DeviceReset(x, v) PROVE WorkerInv(w)'
  <2>1. job'["monitor"] = job["monitor"]
    BY <1>0, <1>7 DEF DeviceReset, BeginRestart
  <2>2. ResetsOf(w)' = {} => ResetsOf(w) = {}
    <3> SUFFICES ASSUME NEW y \in ResetsOf(w), ResetsOf(w)' = {} PROVE FALSE
      OBVIOUS
    <3>1. CASE y # x
      <4>1. y \in ResetsOf(w)'
        BY <1>0, <1>7, <3>1 DEF ResetsOf, DeviceReset, BeginRestart
      <4> QED BY <4>1
    <3>2. CASE y = x
      <4>1. job[x].w = w /\ job[x].w = 0
        BY <1>0, <1>7, <3>2 DEF ResetsOf, DeviceReset, LoopInv
      <4> QED BY <4>1 DEF Workers
    <3> QED BY <3>1, <3>2
  <2> QED BY <1>0, <1>7, <2>1, <2>2, Frame DEF DeviceReset, loopVars, Procs, Counted, IsAlive, OnIt
<1>8. CASE Tick \/ TickDone \/ \E v \in Workers : GiveUp(v)
  BY <1>a, <1>8 DEF Tick, TickDone, GiveUp
<1>10. ASSUME NEW v \in Workers, RestartNext(v) PROVE WorkerInv(w)'
  <2>1. /\ UNCHANGED <<toOpen, proc, info, rec, phase>>
        /\ job["monitor"].pc = "idle" /\ rec[v].restarts < MaxRestarts
        /\ job'["monitor"] = [pc |-> "clean", w |-> v, old |-> info[v],
                              count |-> rec[v].restarts + 1, errs |-> 0]
        /\ \A x \in Resets : job'[x] = job[x]
    BY <1>0, <1>10 DEF RestartNext, Working, BeginRestart
  <2>2. ResetsOf(w)' = ResetsOf(w)
    BY <2>1 DEF ResetsOf
  <2>3. CASE v # w
    BY <1>0, <2>1, <2>2, <2>3, Frame DEF Procs, Counted, IsAlive, OnIt
  <2>4. CASE v = w
    <3>1. Procs(w)' = Procs(w) /\ \A p \in Procs(w) : Counted(p)' <=> Counted(p)
      BY <2>1 DEF Procs, Counted, IsAlive
    <3>2. (ResetsOf(w) = {} /\ info[w] # 0) => Within(w)'
      <4> SUFFICES ASSUME Within(w) PROVE Within(w)'
        BY <1>0 DEF WorkerInv
      <4>1. rec[w].restarts <= MaxRestarts /\ Cardinality(Procs(w)) <= rec[w].restarts + 1
        BY <2>1 DEF Within, OnIt
      <4>2. rec[w].restarts \in Nat /\ MaxRestarts \in Nat
        BY <1>0, ProcsFacts
      <4> QED BY <2>1, <2>4, <3>1, <4>1, <4>2 DEF Within, OnIt
    <3> QED BY <1>0, <2>1, <2>2, <3>1, <3>2 DEF WorkerInv
  <2> QED BY <2>3, <2>4
<1>11. CASE Stop
  BY <1>0, <1>11, KillAllStep DEF Stop, Listening, LoopFree, LoopInv
<1>12. ASSUME NEW v \in Workers, GiveUpDeep(v) PROVE WorkerInv(w)'
  BY <1>0, <1>12, KillAllStep DEF GiveUpDeep, Working, LoopInv
<1>13. CASE Forget \/ Reopen
  <2> SUFFICES ASSUME ResetsOf(w)' = {} PROVE WorkerInv(w)'
    BY DEF WorkerInv
  <2>1. UNCHANGED <<proc, job>> /\ info'[w] = 0 /\ toOpen' \subseteq toOpen
        /\ phase' \notin {"stopping", "giving_up"}
    BY <1>13 DEF Forget, Reopen
  <2>2. ResetsOf(w) = {} /\ Procs(w)' = Procs(w) /\ \A p \in Procs(w) : Counted(p)' <=> Counted(p)
    BY <2>1 DEF ResetsOf, Procs, Counted, IsAlive
  <2>3. /\ w \in toOpen => Procs(w) = {}
        /\ phase \in {"stopping", "giving_up"} => \A p \in Procs(w) : ~Counted(p)
        /\ Cardinality(Procs(w)) <= MaxRestarts + 1
    BY <1>0, <2>2 DEF WorkerInv
  <2>4. phase' = "reopened" \/ phase \in {"stopping", "giving_up"}
    BY <1>13 DEF Forget, Reopen
  <2> QED BY <2>1, <2>2, <2>3, <2>4 DEF WorkerInv
<1>14. CASE UNCHANGED vars
  BY <1>a, <1>14 DEF vars
<1> QED BY <1>1, <1>2, <1>3, <1>4, <1>6, <1>7, <1>8, <1>10, <1>11, <1>12, <1>13, <1>14
        DEF Next, ProcStep, Monitor

LEMMA InitIInv == Init => IInv
<1> SUFFICES ASSUME Init PROVE IInv
  OBVIOUS
<1>1. "monitor" \in Restarters /\ job["monitor"].pc = "idle"
  BY DEF Init, Restarters, Idle
<1>2. LoopInv
  BY <1>1 DEF Init, LoopInv, Restarters, Idle
<1>3. ASSUME NEW w \in Workers PROVE WorkerInv(w)
  <2>1. Procs(w) = {} /\ info[w] = 0 /\ phase = "run"
    BY DEF Init, Procs
  <2>2. Cardinality(Procs(w)) = 0 /\ MaxRestarts \in Nat
    BY <2>1, FS_EmptySet, PoolAssumption
  <2> QED BY <2>1, <2>2 DEF WorkerInv
<1> QED BY <1>2, <1>3, InitTypeOK DEF IInv

LEMMA NextIInv == IInv /\ [Next]_vars => IInv'
BY NextTypeOK, NextLoopInv, NextWorkerInv DEF IInv

\* Whatever dies, fails, is reset or stopped, and however the monitor's restarts
\* fail: a worker no device reset has touched is restarted at most MaxRestarts
\* times (the budget the health monitor reads in worker_info).
THEOREM BudgetHolds == Spec => []RestartBudget
<1>1. IInv => RestartBudget
  BY DEF IInv, WorkerInv, RestartBudget
<1> QED BY <1>1, InitIInv, NextIInv, PTL DEF Spec

\* A live process that worker_info does not name has outlived the join of its
\* restart, or was left by a device reset of its worker, or by a deep restart over
\* HTTP during the start sequence.
THEOREM OrphansHaveACause == Spec => []NoOrphan
<1>1. IInv => NoOrphan
  BY DEF IInv, WorkerInv, NoOrphan, Alive, Outlived, Counted
<1> QED BY <1>1, InitIInv, NextIInv, PTL DEF Spec

-----------------------------------------------------------------------------
(* OneProcessPerWorker. *)

\* The live processes of w but those a restart has left behind.
Bound(w) == {p \in Procs(w) : Counted(p)}

LEMMA BoundIs == \A w \in Workers : Bound(w) = Alive(w) \ Outlived(w)
BY DEF Bound, Alive, Outlived, Counted

\* The resets of w that have started their process, or failed to.
Spent(w) == {x \in ResetsOf(w) : job[x].pc \in {"count", "done"}}

\* The process worker_info names may be replaced or forgotten although it is
\* alive: the monitor has cleaned up before it, or the pool is forgetting it.
AtRisk(w) ==
    \/ job["monitor"].pc = "start" /\ job["monitor"].w = w
    \/ phase \in {"stopping", "giving_up", "reopened"}

\* The processes beside the one that is supervised.
Loose(w) == {p \in Bound(w) : p # info[w] \/ AtRisk(w)}

\* Each of them is the doing of one reset, or of a deep restart that ended while
\* workers were being opened.
PaidFor(w) ==
    /\ w \in toOpen => ResetsOf(w) = {}
    /\ Cardinality(Loose(w)) <= Cardinality(Spent(w)) + (IF phase = "reopened" THEN 1 ELSE 0)

LooseInv == IInv /\ \A w \in Workers : PaidFor(w)

LEMMA LooseFinite ==
    ASSUME TypeOK, NEW w \in Workers
    PROVE  /\ IsFiniteSet(Loose(w)) /\ Cardinality(Loose(w)) \in Nat
           /\ IsFiniteSet(Bound(w)) /\ Cardinality(Bound(w)) \in Nat
           /\ IsFiniteSet(Spent(w)) /\ Cardinality(Spent(w)) \in Nat
           /\ IsFiniteSet(ResetsOf(w)) /\ Cardinality(ResetsOf(w)) \in Nat
<1>1. IsFiniteSet(Procs(w)) /\ IsFiniteSet(Resets)
  BY ProcsFacts, PoolAssumption
<1>2. /\ Bound(w) \subseteq Procs(w) /\ Loose(w) \subseteq Procs(w)
      /\ ResetsOf(w) \subseteq Resets /\ Spent(w) \subseteq Resets
  BY DEF Bound, Loose, ResetsOf, Spent
<1>3. IsFiniteSet(Bound(w)) /\ IsFiniteSet(Loose(w)) /\ IsFiniteSet(ResetsOf(w)) /\ IsFiniteSet(Spent(w))
  BY <1>1, <1>2, FS_Subset
<1> QED BY <1>3, FS_CardinalityType

\* A set that gains at most one element grows by at most one.
LEMMA OneMore ==
    ASSUME NEW S, NEW T, NEW e, IsFiniteSet(S), T \subseteq S \cup {e}
    PROVE  /\ IsFiniteSet(T) /\ Cardinality(T) \in Nat /\ Cardinality(S) \in Nat
           /\ Cardinality(T) <= Cardinality(S) + 1
<1>1. /\ IsFiniteSet(S \cup {e}) /\ Cardinality(S) \in Nat
      /\ Cardinality(S \cup {e}) \in Nat
  BY FS_AddElement, FS_CardinalityType
<1>2. Cardinality(S \cup {e}) <= Cardinality(S) + 1
  <2>1. Cardinality(S \cup {e}) = IF e \in S THEN Cardinality(S) ELSE Cardinality(S) + 1
    BY FS_AddElement
  <2> QED BY <1>1, <2>1
<1>3. IsFiniteSet(T) /\ Cardinality(T) <= Cardinality(S \cup {e})
  BY <1>1, FS_Subset
<1>4. Cardinality(T) \in Nat
  BY <1>3, FS_CardinalityType
<1> QED BY <1>1, <1>2, <1>3, <1>4

\* What one step does to the loose processes of a worker.
Same(w)  == Loose(w)' \subseteq Loose(w)
Paid(w)  == /\ \E p : Loose(w)' \subseteq Loose(w) \cup {p}
            /\ \E x \in Spent(w)' : x \notin Spent(w)
Left(w)  == /\ \E p : Loose(w)' \subseteq Loose(w) \cup {p}
            /\ phase # "reopened" /\ phase' = "reopened"

\* A step that does nothing to the processes of w but end some.
LEMMA LooseFrame ==
    ASSUME NEW w \in Workers, Procs(w)' = Procs(w),
           \A p \in Procs(w) : Counted(p)' => Counted(p),
           info'[w] = info[w], AtRisk(w)' => AtRisk(w)
    PROVE  Same(w)
BY DEF Same, Loose, Bound

\* The loose processes through the steps of restart_worker.
LEMMA RestartLoose ==
    ASSUME IInv, NEW x \in Restarters, Restart(x), NEW w \in Workers
    PROVE  Spent(w) \subseteq Spent(w)' /\ (Same(w) \/ Paid(w))
<1> DEFINE v == job[x].w
<1>0. /\ TypeOK /\ LoopInv /\ "monitor" \in Restarters
      /\ "monitor" \notin Resets /\ Resets \subseteq Restarters
      /\ Restarters = Resets \cup {"monitor"}
      /\ job \in [Restarters -> Jobs] /\ v \in Workers
  BY PoolAssumption, RestartJobs DEF IInv, Restarters, TypeOK, Jobs
<1>1. UNCHANGED loopVars /\ phase' = phase
  BY <1>0, RestartJobs DEF loopVars
<1>2. CASE Clean(x)
  <2> DEFINE q == info[v]
  <2>1. UNCHANGED <<info, rec>> /\ job' = [job EXCEPT ![x].pc = "start"] /\ job[x].pc = "clean"
    BY <1>2 DEF Clean
  <2>2. /\ \A y \in Restarters : y # x => job'[y] = job[y]
        /\ job'[x].pc = "start" /\ job'[x].w = v
    <3>1. job[x] \in Jobs /\ job'[x] = [job[x] EXCEPT !.pc = "start"]
      BY <1>0, <2>1
    <3> QED BY <1>0, <2>1, <3>1 DEF Jobs
  <2>3. Spent(w) \subseteq Spent(w)'
    BY <1>0, <2>1, <2>2 DEF Spent, ResetsOf
  <2>4. /\ Procs(w)' = Procs(w)
        /\ \A p \in Procs(w) : Counted(p)' => Counted(p) /\ ~(v = w /\ p = q)
    <3>1. CASE q = 0
      <4>1. UNCHANGED proc
        BY <1>2, <3>1 DEF Clean
      <4>2. 0 \notin Procs(w)
        BY <1>0, ProcsFacts DEF Procs
      <4> QED BY <3>1, <4>1, <4>2 DEF Procs, Counted, IsAlive
    <3>2. CASE q # 0
      <4>1. LetGo(q) /\ OneProc(q)
        BY <1>2, <3>2 DEF Clean, LetGo, OneProc
      <4>2. q \in DOMAIN proc
        BY <1>0, <3>2, ProcsFacts DEF Procs
      <4>3. /\ DOMAIN proc' = DOMAIN proc
            /\ \A r \in DOMAIN proc : proc'[r].owner = proc[r].owner
            /\ \A r \in DOMAIN proc : r # q => proc'[r] = proc[r]
            /\ \A r \in DOMAIN proc : r = q => ~Counted(r)'
        BY <1>0, <4>1, <4>2, OneProcType
      <4>4. Procs(w)' = Procs(w) /\ Procs(w) \subseteq DOMAIN proc
        BY <1>0, <4>3, LivesProcs
      <4>5. ASSUME NEW p \in Procs(w), Counted(p)' PROVE Counted(p) /\ p # q
        <5>1. p # q /\ proc'[p] = proc[p]
          BY <4>3, <4>4, <4>5
        <5> QED BY <4>5, <5>1 DEF Counted, IsAlive
      <4> QED BY <4>4, <4>5
    <3> QED BY <3>1, <3>2
  <2>5. CASE x = "monitor" /\ v = w
    <3>1. q # 0
      BY <1>0, <2>1, <2>5 DEF LoopInv
    <3> QED BY <2>1, <2>3, <2>4, <2>5, <3>1 DEF Same, Loose, Bound
  <2>6. CASE ~(x = "monitor" /\ v = w)
    <3>1. AtRisk(w)' => AtRisk(w)
      BY <1>0, <1>1, <2>2, <2>6 DEF AtRisk
    <3> QED BY <2>1, <2>3, <2>4, <3>1, LooseFrame
  <2> QED BY <2>5, <2>6
<1>3. CASE StartNew(x)
  <2>1. Spawn(v) /\ job[x].pc = "start" /\ job'[x].pc = "count" /\ job'[x].w = v
        /\ \A y \in Restarters : y # x => job'[y].pc = job[y].pc /\ job'[y].w = job[y].w
    <3>1. job[x].pc = "start"
      BY <1>3 DEF StartNew
    <3>2. /\ Spawn(v) /\ job'[x].pc = "count"
          /\ \A y \in Restarters : y # x => job'[y].pc = job[y].pc
          /\ \A y \in Restarters : job'[y].w = job[y].w
      BY <1>0, <1>3, StartNewType
    <3> QED BY <3>1, <3>2
  <2>2. Spent(w) \subseteq Spent(w)'
    BY <1>0, <2>1 DEF Spent, ResetsOf
  <2>3. CASE v # w
    <3>1. /\ Procs(w)' = Procs(w) /\ info'[w] = info[w]
          /\ \A p \in Procs(w) : Counted(p)' <=> Counted(p)
      BY <1>0, <2>1, <2>3, SpawnProcs
    <3>2. AtRisk(w)' => AtRisk(w)
      BY <1>0, <1>1, <2>1, <2>3 DEF AtRisk
    <3> QED BY <2>2, <3>1, <3>2, LooseFrame
  <2>4. CASE v = w
    <3>1. /\ Procs(w)' = Procs(w) \cup {Len(proc) + 1}
          /\ info'[w] = Len(proc) + 1
          /\ \A p \in Procs(w) : Counted(p)' <=> Counted(p)
      BY <1>0, <2>1, <2>4, SpawnProcs
    <3>2. Bound(w)' \subseteq Bound(w) \cup {info'[w]}
      BY <3>1 DEF Bound
    <3>3. CASE x = "monitor"
      <4>1. AtRisk(w) /\ ~AtRisk(w)'
        BY <1>0, <1>1, <2>1, <2>4, <3>3 DEF AtRisk, LoopInv
      <4> QED BY <2>2, <3>2, <4>1 DEF Same, Loose
    <3>4. CASE x # "monitor"
      <4>1. AtRisk(w)' <=> AtRisk(w)
        BY <1>0, <1>1, <2>1, <3>4 DEF AtRisk
      <4>2. x \in Spent(w)' /\ x \notin Spent(w)
        BY <1>0, <2>1, <2>4, <3>4 DEF Spent, ResetsOf
      <4>3. CASE AtRisk(w)
        <5>1. Loose(w)' \subseteq Loose(w) \cup {info'[w]}
          BY <3>2, <4>1, <4>3 DEF Loose
        <5> QED BY <2>2, <4>2, <5>1 DEF Paid
      <4>4. CASE ~AtRisk(w)
        <5>1. Loose(w)' \subseteq Loose(w) \cup {info[w]}
          BY <3>2, <4>1, <4>4 DEF Loose
        <5> QED BY <2>2, <4>2, <5>1 DEF Paid
      <4> QED BY <4>3, <4>4
    <3> QED BY <3>3, <3>4
  <2> QED BY <2>3, <2>4
<1>4. CASE Count(x) \/ StartFails(x)
  <2>1. Finish(x) /\ UNCHANGED <<proc, info>>
    BY <1>4 DEF Count, StartFails
  <2>2. \A y \in Restarters : y # x => job'[y] = job[y]
    BY <1>0, <2>1 DEF Finish
  <2>3. x = "monitor" => job'[x] = Idle
    BY <1>0, <2>1 DEF Finish
  <2>4. x # "monitor" => job'[x].pc = "done" /\ job'[x].w = v
    BY <1>0, <2>1 DEF Finish
  <2>5. Spent(w) \subseteq Spent(w)'
    BY <1>0, <2>2, <2>4 DEF Spent, ResetsOf
  <2>6. AtRisk(w)' => AtRisk(w)
    BY <1>0, <1>1, <2>2, <2>3 DEF AtRisk, Idle
  <2>7. Procs(w)' = Procs(w) /\ \A p \in Procs(w) : Counted(p)' <=> Counted(p)
    BY <2>1 DEF Procs, Counted, IsAlive
  <2> QED BY <2>1, <2>5, <2>6, <2>7, LooseFrame
<1> QED BY <1>2, <1>3, <1>4 DEF Restart

\* Every step keeps, pays for or leaves behind the loose processes of a worker.
LEMMA NextLoose ==
    ASSUME LooseInv, [Next]_vars, NEW w \in Workers
    PROVE  /\ Spent(w) \subseteq Spent(w)'
           /\ phase = "reopened" => phase' = "reopened"
           /\ Same(w) \/ Paid(w) \/ Left(w)
<1>0. /\ IInv /\ TypeOK /\ LoopInv /\ WorkerInv(w) /\ PaidFor(w) /\ "monitor" \in Restarters
      /\ "monitor" \notin Resets /\ job \in [Restarters -> Jobs] /\ Resets \subseteq Restarters
  BY PoolAssumption DEF LooseInv, IInv, Restarters, TypeOK, Jobs
<1>a. ASSUME UNCHANGED <<proc, info, job, phase>>
      PROVE  Spent(w) \subseteq Spent(w)' /\ phase' = phase /\ Same(w)
  <2>1. Procs(w)' = Procs(w) /\ \A p \in Procs(w) : Counted(p)' <=> Counted(p)
    BY <1>a DEF Procs, Counted, IsAlive
  <2> QED BY <1>a, <2>1, LooseFrame DEF Spent, ResetsOf, AtRisk
<1>1. CASE StartNext
  <2>1. PICK v \in toOpen : toOpen' = toOpen \ {v} /\ Spawn(v)
    BY <1>1 DEF StartNext
  <2>2. /\ v \in Workers /\ UNCHANGED <<mon, job, phase>> /\ job["monitor"].pc = "idle"
        /\ phase \notin {"stopping", "giving_up", "reopened"}
    BY <1>0, <1>1, <2>1 DEF StartNext, LoopFree, LoopInv, TypeOK
  <2>3. Spent(w)' = Spent(w) /\ ~AtRisk(w) /\ ~AtRisk(w)'
    BY <2>2 DEF Spent, ResetsOf, AtRisk
  <2>4. CASE v # w
    <3>1. /\ Procs(w)' = Procs(w) /\ info'[w] = info[w]
          /\ \A p \in Procs(w) : Counted(p)' <=> Counted(p)
      BY <1>0, <2>1, <2>2, <2>4, SpawnProcs
    <3> QED BY <2>2, <2>3, <3>1, LooseFrame
  <2>5. CASE v = w
    <3>1. Procs(w) = {}
      BY <1>0, <2>1, <2>5 DEF WorkerInv, PaidFor
    <3>2. Procs(w)' = Procs(w) \cup {Len(proc) + 1} /\ info'[w] = Len(proc) + 1
      BY <1>0, <2>1, <2>2, <2>5, SpawnProcs
    <3> QED BY <2>2, <2>3, <3>1, <3>2 DEF Same, Loose, Bound
  <2> QED BY <2>4, <2>5
<1>2. CASE StartNextFails
  BY <1>a, <1>2 DEF StartNextFails
<1>3. CASE ProcStep
  <2> PICK p \in DOMAIN proc : WarmUp(p) \/ InitFails(p) \/ Die(p) \/ RequestFails(p)
    BY <1>3 DEF ProcStep
  <2>1. CASE RequestFails(p)
    BY <1>a, <2>1 DEF RequestFails
  <2>2. CASE ~RequestFails(p)
    <3>1. OneProc(p) /\ IsAlive(p)
      BY <2>2 DEF WarmUp, InitFails, Die, IsAlive, OneProc, LetGo
    <3>2. UNCHANGED <<info, job, phase>>
      BY <2>2 DEF WarmUp, InitFails, Die
    <3>3. /\ DOMAIN proc' = DOMAIN proc
          /\ \A q \in DOMAIN proc : proc'[q].owner = proc[q].owner
          /\ \A q \in DOMAIN proc : q # p => proc'[q] = proc[q]
          /\ Counted(p)' => Counted(p)
      BY <1>0, <3>1, OneProcType
    <3>4. Procs(w)' = Procs(w) /\ Procs(w) \subseteq DOMAIN proc
      BY <1>0, <3>3, LivesProcs
    <3>5. \A q \in DOMAIN proc : Counted(q)' => Counted(q)
      BY <3>1, <3>3 DEF Counted, IsAlive
    <3> QED BY <3>2, <3>4, <3>5, LooseFrame DEF Spent, ResetsOf, AtRisk
  <2> QED BY <2>1, <2>2
<1>4. CASE HearReady \/ \E v \in Workers : HearError(v)
  BY <1>a, <1>4 DEF HearReady, HearError
<1>5. ASSUME NEW x \in Restarters, Restart(x)
      PROVE  Spent(w) \subseteq Spent(w)' /\ phase' = phase /\ (Same(w) \/ Paid(w))
  BY <1>0, <1>5, RestartLoose, RestartJobs DEF loopVars
<1>6. ASSUME NEW x \in Resets, NEW v \in Workers, DeviceReset(x, v)
      PROVE  Spent(w) \subseteq Spent(w)' /\ phase' = phase /\ Same(w)
  <2>1. /\ UNCHANGED <<proc, info, phase>> /\ job[x].pc = "idle"
        /\ \A y \in Restarters : y # x => job'[y] = job[y]
    BY <1>0, <1>6 DEF DeviceReset, BeginRestart, loopVars
  <2>2. Spent(w) \subseteq Spent(w)'
    BY <1>0, <2>1 DEF Spent, ResetsOf
  <2>3. AtRisk(w)' <=> AtRisk(w)
    BY <1>0, <2>1 DEF AtRisk
  <2> QED BY <2>1, <2>2, <2>3, LooseFrame DEF Procs, Counted, IsAlive
<1>7. CASE Tick \/ TickDone \/ \E v \in Workers : GiveUp(v)
  BY <1>a, <1>7 DEF Tick, TickDone, GiveUp
<1>8. ASSUME NEW v \in Workers, RestartNext(v)
      PROVE  Spent(w) \subseteq Spent(w)' /\ phase' = phase /\ Same(w)
  <2>1. /\ UNCHANGED <<proc, info, phase>> /\ job'["monitor"].pc = "clean"
        /\ \A x \in Resets : job'[x] = job[x]
    BY <1>0, <1>8 DEF RestartNext, BeginRestart
  <2> QED BY <2>1, LooseFrame DEF Procs, Counted, IsAlive, Spent, ResetsOf, AtRisk
<1>9. CASE Stop \/ \E v \in Workers : GiveUpDeep(v)
  <2>1. KillAll /\ phase = "run" /\ phase' \in {"stopping", "giving_up"}
    BY <1>0, <1>9 DEF Stop, GiveUpDeep, Listening, Working, LoopInv
  <2>2. UNCHANGED <<info, job>>
    BY <2>1 DEF KillAll
  <2>3. /\ DOMAIN proc' = DOMAIN proc
        /\ \A q \in DOMAIN proc : proc'[q].owner = proc[q].owner
        /\ \A q \in DOMAIN proc : Counted(q)' => Counted(q)
        /\ \A q \in DOMAIN proc : info[proc[q].owner] = q => ~Counted(q)'
    BY <1>0, <2>1, KillAllType
  <2>4. Procs(w)' = Procs(w) /\ Procs(w) \subseteq DOMAIN proc
        /\ \A q \in Procs(w) : proc[q].owner = w
    BY <1>0, <2>3, LivesProcs DEF Procs
  <2>5. \A q \in Procs(w) : Counted(q)' => Counted(q) /\ q # info[w]
    BY <2>3, <2>4 DEF Counted, IsAlive
  <2>6. Same(w)
    BY <2>4, <2>5 DEF Same, Loose, Bound
  <2> QED BY <2>1, <2>2, <2>6 DEF Spent, ResetsOf
<1>10. CASE Forget
  <2>1. UNCHANGED <<proc, job>> /\ phase \in {"stopping", "giving_up"} /\ AtRisk(w)
    BY <1>10 DEF Forget, AtRisk
  <2>2. Bound(w)' = Bound(w) /\ Spent(w)' = Spent(w)
    BY <2>1 DEF Bound, Procs, Counted, IsAlive, Spent, ResetsOf
  <2> QED BY <2>1, <2>2 DEF Same, Loose
<1>11. CASE Reopen
  <2>1. UNCHANGED <<proc, job>> /\ phase = "resetting" /\ phase' = "reopened"
    BY <1>11 DEF Reopen
  <2>2. Bound(w)' = Bound(w) /\ Spent(w)' = Spent(w)
    BY <2>1 DEF Bound, Procs, Counted, IsAlive, Spent, ResetsOf
  <2>3. Loose(w)' \subseteq Loose(w) \cup {info[w]}
    BY <2>2 DEF Loose
  <2> QED BY <2>1, <2>2, <2>3 DEF Left
<1>12. CASE UNCHANGED vars
  BY <1>a, <1>12 DEF vars
<1> QED BY <1>1, <1>2, <1>3, <1>4, <1>5, <1>6, <1>7, <1>8, <1>9, <1>10, <1>11, <1>12
        DEF Next, ProcStep, Monitor

\* A worker that is still to be opened has not been reset.
LEMMA NextFresh ==
    ASSUME LooseInv, [Next]_vars, NEW w \in Workers, w \in toOpen'
    PROVE  ResetsOf(w)' = {}
<1>0. /\ TypeOK /\ LoopInv /\ WorkerInv(w) /\ PaidFor(w)
      /\ "monitor" \notin Resets /\ job \in [Restarters -> Jobs] /\ Resets \subseteq Restarters
  BY PoolAssumption DEF LooseInv, IInv, Restarters, TypeOK, Jobs
<1>1. CASE \E x \in Resets, v \in Workers : DeviceReset(x, v)
  <2>1. PICK x \in Resets, v \in Workers : DeviceReset(x, v)
    BY <1>1
  <2>2. toOpen' = toOpen /\ info[v] # 0 /\ job'[x].w = v
        /\ \A y \in Resets : y # x => job'[y] = job[y]
    BY <1>0, <2>1 DEF DeviceReset, BeginRestart, loopVars
  <2>3. ResetsOf(w) = {} /\ Procs(w) = {}
    BY <1>0, <2>2 DEF PaidFor, WorkerInv
  <2>4. v # w
    BY <1>0, <2>2, <2>3, ProcsFacts
  <2> QED BY <2>2, <2>3, <2>4 DEF ResetsOf
<1>2. CASE ~\E x \in Resets, v \in Workers : DeviceReset(x, v)
  <2>1. w \in toOpen
    <3>1. CASE \E x \in Restarters : Restart(x)
      BY <1>0, <3>1, RestartJobs DEF loopVars
    <3>2. CASE ~\E x \in Restarters : Restart(x)
      BY <1>2, <3>2 DEF Next, Monitor, vars, StartNext, StartNextFails, WarmUp, InitFails, Die,
            RequestFails, HearReady, HearError, Tick, TickDone, RestartNext, GiveUp, GiveUpDeep,
            Stop, KillAll, Forget, Reopen
    <3> QED BY <3>1, <3>2
  <2>2. \A y \in Resets : job'[y].w = job[y].w
    <3>1. CASE \E x \in Restarters : Restart(x)
      BY <1>0, <3>1, RestartJobs
    <3>2. CASE \E v \in Workers : RestartNext(v)
      BY <1>0, <3>2 DEF RestartNext, BeginRestart
    <3>3. CASE ~(\E x \in Restarters : Restart(x)) /\ ~\E v \in Workers : RestartNext(v)
      <4>1. job' = job
        BY <1>2, <3>3 DEF Next, Monitor, vars, StartNext, StartNextFails, WarmUp, InitFails, Die,
            RequestFails, HearReady, HearError, Tick, TickDone, GiveUp, GiveUpDeep,
            Stop, KillAll, Forget, Reopen
      <4> QED BY <4>1
    <3> QED BY <3>1, <3>2, <3>3
  <2> QED BY <1>0, <2>1, <2>2 DEF PaidFor, ResetsOf
<1> QED BY <1>1, <1>2

LEMMA NextLooseInv == LooseInv /\ [Next]_vars => LooseInv'
<1> SUFFICES ASSUME LooseInv, [Next]_vars, NEW w \in Workers PROVE PaidFor(w)'
  BY NextIInv DEF LooseInv
<1>1. TypeOK /\ PaidFor(w)
  BY DEF LooseInv, IInv
<1>2. /\ Spent(w) \subseteq Spent(w)'
      /\ phase = "reopened" => phase' = "reopened"
      /\ Same(w) \/ Paid(w) \/ Left(w)
  BY NextLoose
<1>3. /\ IsFiniteSet(Loose(w)) /\ IsFiniteSet(Spent(w))
      /\ IsFiniteSet(Loose(w)') /\ IsFiniteSet(Spent(w)')
  <2>1. IsFiniteSet(Loose(w)) /\ IsFiniteSet(Spent(w))
    BY <1>1, LooseFinite
  <2>2. \E p : Loose(w)' \subseteq Loose(w) \cup {p}
    BY <1>2 DEF Same, Paid, Left
  <2>3. IsFiniteSet(Loose(w)')
    BY <2>1, <2>2, OneMore
  <2>4. Spent(w)' \subseteq Resets
    BY DEF Spent, ResetsOf
  <2> QED BY <2>1, <2>3, <2>4, PoolAssumption, FS_Subset
<1> DEFINE l == Cardinality(Loose(w))
<1> DEFINE k == Cardinality(Loose(w)')
<1> DEFINE s == Cardinality(Spent(w))
<1> DEFINE t == Cardinality(Spent(w)')
<1>4. l \in Nat /\ k \in Nat /\ s \in Nat /\ t \in Nat /\ s <= t
  BY <1>3, <1>2, FS_CardinalityType, FS_Subset
<1>5. l <= s + (IF phase = "reopened" THEN 1 ELSE 0)
  BY <1>1 DEF PaidFor
<1>6. k <= t + (IF phase' = "reopened" THEN 1 ELSE 0)
  <2>1. CASE Same(w)
    <3>1. k <= l
      BY <1>3, <2>1, FS_Subset DEF Same
    <3> HIDE DEF l, k, s, t
    <3> QED BY <1>2, <1>4, <1>5, <3>1
  <2>2. ASSUME \E p : Loose(w)' \subseteq Loose(w) \cup {p} PROVE k <= l + 1
    BY <1>3, <2>2, OneMore
  <2>3. CASE Paid(w)
    <3>1. PICK x \in Spent(w)' : x \notin Spent(w)
      BY <2>3 DEF Paid
    <3>2. s + 1 <= t
      <4>1. Spent(w) \cup {x} \subseteq Spent(w)'
        BY <1>2, <3>1
      <4>2. Cardinality(Spent(w) \cup {x}) = s + 1 /\ IsFiniteSet(Spent(w) \cup {x})
        BY <1>3, <3>1, FS_AddElement
      <4> QED BY <1>3, <4>1, <4>2, FS_Subset
    <3>3. k <= l + 1
      BY <2>2, <2>3 DEF Paid
    <3> HIDE DEF l, k, s, t
    <3> QED BY <1>2, <1>4, <1>5, <3>2, <3>3
  <2>4. CASE Left(w)
    <3>1. k <= l + 1 /\ phase # "reopened" /\ phase' = "reopened"
      BY <2>2, <2>4 DEF Left
    <3> HIDE DEF l, k, s, t
    <3> QED BY <1>4, <1>5, <3>1
  <2> QED BY <1>2, <2>1, <2>3, <2>4
<1>7. w \in toOpen' => ResetsOf(w)' = {}
  BY NextFresh
<1> QED BY <1>6, <1>7 DEF PaidFor

\* A worker has one live process, whatever dies, fails or stops while the monitor
\* restarts it, and at most one more for each device reset of it, besides those
\* that have outlived the join of a restart.
THEOREM OneProcessHolds == Spec => []OneProcessPerWorker
<1>1. Init => LooseInv
  <2> SUFFICES ASSUME Init, NEW w \in Workers PROVE PaidFor(w)
    BY InitIInv DEF LooseInv
  <2>1. ResetsOf(w) = {}
    BY PoolAssumption DEF Init, ResetsOf, Restarters, Idle, Workers
  <2>2. Loose(w) = {} /\ Spent(w) = {} /\ phase = "run"
    BY <2>1 DEF Init, Loose, Bound, Procs, Spent
  <2> QED BY <2>1, <2>2, FS_EmptySet DEF PaidFor
<1>2. LooseInv => OneProcessPerWorker
  <2> SUFFICES ASSUME LooseInv, NEW w \in Workers
               PROVE  Cardinality(Bound(w)) <= 1 + Cardinality(ResetsOf(w))
    BY BoundIs DEF OneProcessPerWorker
  <2>1. TypeOK /\ PaidFor(w)
    BY DEF LooseInv, IInv
  <2>2. /\ IsFiniteSet(Loose(w)) /\ Cardinality(Loose(w)) \in Nat
        /\ IsFiniteSet(Bound(w)) /\ Cardinality(Bound(w)) \in Nat
        /\ IsFiniteSet(Spent(w)) /\ Cardinality(Spent(w)) \in Nat
        /\ IsFiniteSet(ResetsOf(w)) /\ Cardinality(ResetsOf(w)) \in Nat
    BY <2>1, LooseFinite
  <2>3. Cardinality(Spent(w)) <= Cardinality(ResetsOf(w))
    <3>1. Spent(w) \subseteq ResetsOf(w)
      BY DEF Spent
    <3> QED BY <2>2, <3>1, FS_Subset
  <2>4. CASE phase = "reopened"
    <3>1. Bound(w) = Loose(w)
      BY <2>4 DEF Loose, AtRisk
    <3> QED BY <2>1, <2>2, <2>3, <2>4, <3>1 DEF PaidFor
  <2>5. CASE phase # "reopened"
    <3>1. Bound(w) \subseteq Loose(w) \cup {info[w]}
      BY DEF Loose
    <3>2. Cardinality(Bound(w)) <= Cardinality(Loose(w)) + 1
      BY <2>2, <3>1, OneMore
    <3> QED BY <2>1, <2>2, <2>3, <2>5, <3>2 DEF PaidFor
  <2> QED BY <2>4, <2>5
<1> QED BY <1>1, <1>2, NextLooseInv, PTL DEF Spec

-----------------------------------------------------------------------------
(* The canary monitor.                                                      *)

MissesInv == CanaryTypeOK /\ StateMatchesMisses

USE DEF monitor, plumbing, Tiers, None

LEMMA SeverityIsState ==
    ASSUME NEW m
    PROVE  Severity(m) \in {"dead", "suspect", "healthy"}
  BY DEF Severity

LEMMA NoMissesIsHealthy ==
    NoMisses \in [Tiers -> 0..DeadMisses] /\ Severity(NoMisses) = "healthy"
  BY CanaryAssumption DEF Severity, NoMisses

LEMMA CadenceTurns ==
    ASSUME CanaryTypeOK
    PROVE  NextCadence \in Nat /\ (DeepEvery > 0 => NextCadence < DeepEvery)
<1>1. CASE DeepEvery = 0
  BY <1>1, CanaryAssumption DEF NextCadence, CanaryTypeOK
<1>2. CASE DeepEvery # 0
  <2>1. DeepEvery \in Nat \ {0} /\ cadence + 1 \in Nat
    BY <1>2, CanaryAssumption DEF CanaryTypeOK
  <2>2. (cadence + 1) % DeepEvery \in 0..(DeepEvery - 1)
    BY <2>1
  <2> QED
    BY <1>2, <2>1, <2>2 DEF NextCadence
<1> QED
  BY <1>1, <1>2

LEMMA QueueAppended ==
    ASSUME NEW T, NEW q \in Seq(T), NEW e \in T
    PROVE  Append(q, e) \in Seq(T) /\ Len(Append(q, e)) = Len(q) + 1
  BY AppendProperties

LEMMA QueueTailed ==
    ASSUME NEW T, NEW q \in Seq(T), q # <<>>
    PROVE  Tail(q) \in Seq(T) /\ Len(Tail(q)) = Len(q) - 1 /\ Head(q) \in T /\ Len(q) \in Nat \ {0}
  BY HeadTailProperties, EmptySeq, LenProperties

LEMMA MissesInvInit == CanaryInit => MissesInv
<1>1. <<>> \in Seq(Tiers) /\ <<>> \in Seq(Answer) /\ Len(<<>>) = 0
  BY EmptySeq
<1>2. NoMisses \in [Tiers -> 0..Threads] /\ 0 \in 0..MaxBusy
  BY CanaryAssumption DEF NoMisses
<1>3. ASSUME CanaryInit PROVE CanaryTypeOK
  <2>1. /\ misses \in [Tiers -> 0..DeadMisses] /\ held \in [Tiers -> 0..Threads]
        /\ busy \in 0..MaxBusy
    BY <1>2, <1>3, NoMissesIsHealthy DEF CanaryInit
  <2>2. /\ taskQ \in Seq(Tiers) /\ Len(taskQ) <= QueueSize
        /\ answers \in Seq(Answer) /\ Len(answers) <= MaxAnswers
    BY <1>1, <1>3, CanaryAssumption DEF CanaryInit
  <2>3. cadence \in Nat /\ (DeepEvery > 0 => cadence < DeepEvery)
    BY <1>3, CanaryAssumption DEF CanaryInit
  <2> QED
    BY <1>3, <2>1, <2>2, <2>3 DEF CanaryInit, CanaryTypeOK
<1>4. ASSUME CanaryInit PROVE StateMatchesMisses
  BY <1>4 DEF CanaryInit, StateMatchesMisses
<1> QED
  BY <1>3, <1>4 DEF MissesInv

\* Whatever ends a probe, the state is the one the new misses say.
LEMMA ProbeEndsKeeps ==
    ASSUME MissesInv, NEW says \in Verdict, ProbeEnds(says) PROVE MissesInv'
<1>0. probe \in Tiers /\ misses \in [Tiers -> 0..DeadMisses] /\ misses[probe] \in 0..DeadMisses
  <2>1. probe \in Tiers /\ misses \in [Tiers -> 0..DeadMisses]
    BY DEF ProbeEnds, MissesInv, CanaryTypeOK
  <2> QED
    BY <2>1
<1>1. misses' \in [Tiers -> 0..DeadMisses] /\ rested' \in BOOLEAN /\ state' = Severity(misses')
  <2>1. CASE busy > 0 /\ OnRealActivity
    BY <2>1, NoMissesIsHealthy DEF OnRealActivity
  <2>2. CASE OnProbeSuccess(probe)
    <3>1. misses' \in [Tiers -> 0..DeadMisses]
      <4>1. misses' = [misses EXCEPT ![probe] = 0] /\ 0 \in 0..DeadMisses
        BY <2>2, CanaryAssumption DEF OnProbeSuccess
      <4> QED
        BY <1>0, <4>1
    <3> QED
      BY <2>2, <3>1 DEF OnProbeSuccess
  <2>3. CASE OnProbeMiss(probe)
    <3>1. misses' \in [Tiers -> 0..DeadMisses]
      <4> DEFINE new == IF misses[probe] < DeadMisses THEN misses[probe] + 1 ELSE misses[probe]
      <4>1. new \in 0..DeadMisses
        BY <1>0, CanaryAssumption
      <4>2. misses' = [misses EXCEPT ![probe] = new]
        BY <2>3 DEF OnProbeMiss
      <4> HIDE DEF new
      <4> QED
        BY <1>0, <4>1, <4>2
    <3> QED
      BY <2>3, <3>1 DEF OnProbeMiss, MissesInv, CanaryTypeOK
  <2> QED
    BY <2>1, <2>2, <2>3 DEF ProbeEnds
<1>2. StateMatchesMisses'
  BY <1>1 DEF ProbeEnds, StateMatchesMisses
<1>3. CanaryTypeOK'
  BY <1>1, SeverityIsState DEF ProbeEnds, MissesInv, CanaryTypeOK
<1> QED
  BY <1>2, <1>3 DEF MissesInv

LEMMA TickProbeKeeps == ASSUME MissesInv, TickProbe PROVE MissesInv'
<1>1. NextTier \in Tiers
  BY DEF NextTier
<1>2. cadence' \in Nat /\ (DeepEvery > 0 => cadence' < DeepEvery)
  BY CadenceTurns DEF MissesInv, TickProbe
<1>3. taskQ' \in Seq(Tiers) /\ Len(taskQ') <= QueueSize
  <2>1. CASE Len(taskQ) < QueueSize
    <3>1. taskQ' = Append(taskQ, NextTier) /\ taskQ \in Seq(Tiers) /\ Len(taskQ) \in Nat
      BY <2>1, LenProperties DEF TickProbe, MissesInv, CanaryTypeOK
    <3>2. taskQ' \in Seq(Tiers) /\ Len(taskQ') = Len(taskQ) + 1
      BY <1>1, <3>1, QueueAppended
    <3> QED
      BY <2>1, <3>1, <3>2, CanaryAssumption
  <2>2. CASE ~(Len(taskQ) < QueueSize)
    BY <2>2 DEF TickProbe, MissesInv, CanaryTypeOK
  <2> QED
    BY <2>1, <2>2
<1>4. CanaryTypeOK'
  BY <1>1, <1>2, <1>3 DEF TickProbe, MissesInv, CanaryTypeOK
<1>5. StateMatchesMisses'
  BY <1>1 DEF TickProbe, MissesInv, StateMatchesMisses
<1> QED
  BY <1>4, <1>5 DEF MissesInv

LEMMA TakeProbeKeeps == ASSUME MissesInv, TakeProbe PROVE MissesInv'
<1>1. /\ taskQ' \in Seq(Tiers) /\ Len(taskQ') <= QueueSize /\ Head(taskQ) \in Tiers
  <2>1. taskQ \in Seq(Tiers) /\ taskQ # <<>> /\ taskQ' = Tail(taskQ) /\ Len(taskQ) <= QueueSize
    BY DEF TakeProbe, MissesInv, CanaryTypeOK
  <2>2. /\ Tail(taskQ) \in Seq(Tiers) /\ Len(Tail(taskQ)) = Len(taskQ) - 1
        /\ Head(taskQ) \in Tiers /\ Len(taskQ) \in Nat \ {0}
    BY <2>1, QueueTailed
  <2> QED
    BY <2>1, <2>2, CanaryAssumption
<1>2. held' \in [Tiers -> 0..Threads]
  <2>1. /\ held \in [Tiers -> 0..Threads]
        /\ held["shallow"] \in 0..Threads /\ held["deep"] \in 0..Threads
        /\ held[Head(taskQ)] \in 0..Threads
    BY <1>1 DEF MissesInv, CanaryTypeOK
  <2>2. held[Head(taskQ)] + 1 \in 0..Threads
    BY <1>1, <2>1, CanaryAssumption DEF TakeProbe
  <2>3. held' = [held EXCEPT ![Head(taskQ)] = held[Head(taskQ)] + 1]
    BY DEF TakeProbe
  <2> QED
    BY <1>1, <2>1, <2>2, <2>3
<1>3. CanaryTypeOK' /\ StateMatchesMisses'
  BY <1>1, <1>2 DEF TakeProbe, MissesInv, CanaryTypeOK, StateMatchesMisses
<1> QED
  BY <1>3 DEF MissesInv

LEMMA HealthCheckKeeps == ASSUME MissesInv, NEW t \in Tiers, HealthCheck(t) PROVE MissesInv'
<1>1. PICK v \in Verdicts(t) : answers' = Append(answers, [tier |-> t, says |-> v])
  BY DEF HealthCheck
<1>2. [tier |-> t, says |-> v] \in Answer
  BY DEF Verdicts, Verdict, Answer
<1>3. answers \in Seq(Answer) /\ Len(answers) \in Nat /\ Len(answers) < MaxAnswers
  BY LenProperties DEF HealthCheck, MissesInv, CanaryTypeOK
<1>4. answers' \in Seq(Answer) /\ Len(answers') = Len(answers) + 1
  BY <1>1, <1>2, <1>3, QueueAppended
<1>5. Len(answers') <= MaxAnswers
  BY <1>3, <1>4, CanaryAssumption
<1>6. held' \in [Tiers -> 0..Threads]
  BY CanaryAssumption DEF HealthCheck, MissesInv, CanaryTypeOK
<1>7. CanaryTypeOK' /\ StateMatchesMisses'
  BY <1>4, <1>5, <1>6 DEF HealthCheck, MissesInv, CanaryTypeOK, StateMatchesMisses
<1> QED
  BY <1>7 DEF MissesInv

LEMMA RouteAnswerKeeps == ASSUME MissesInv, RouteAnswer PROVE MissesInv'
<1>1. /\ answers \in Seq(Answer) /\ answers # <<>> /\ answers' = Tail(answers)
      /\ Len(answers) <= MaxAnswers
  BY DEF RouteAnswer, MissesInv, CanaryTypeOK
<1>2. /\ Tail(answers) \in Seq(Answer) /\ Len(Tail(answers)) = Len(answers) - 1
      /\ Head(answers) \in Answer /\ Len(answers) \in Nat \ {0}
  BY <1>1, QueueTailed
<1>3. answers' \in Seq(Answer) /\ Len(answers') <= MaxAnswers /\ Head(answers).says \in Verdict
  BY <1>1, <1>2, CanaryAssumption DEF Answer
<1>4. CanaryTypeOK' /\ StateMatchesMisses'
  BY <1>3 DEF RouteAnswer, MissesInv, CanaryTypeOK, StateMatchesMisses
<1> QED
  BY <1>4 DEF MissesInv

LEMMA MissesInvNext == MissesInv /\ [CanaryNext]_canaryVars => MissesInv'
<1> SUFFICES ASSUME MissesInv, [CanaryNext]_canaryVars PROVE MissesInv'
  OBVIOUS
<1>1. CASE TickBusy
  <2>1. misses' = NoMisses /\ misses' \in [Tiers -> 0..DeadMisses] /\ state' = Severity(misses')
    BY <1>1, NoMissesIsHealthy DEF TickBusy, OnRealActivity
  <2> QED
    BY <1>1, <2>1 DEF TickBusy, OnRealActivity, MissesInv, CanaryTypeOK, StateMatchesMisses
<1>2. CASE TickProbe
  BY <1>2, TickProbeKeeps
<1>3. CASE TakeAnswer
  BY <1>3, ProbeEndsKeeps DEF TakeAnswer, MissesInv, CanaryTypeOK
<1>4. CASE Timeout
  BY <1>4, ProbeEndsKeeps DEF Timeout, Verdict
<1>5. CASE GraceEnds \/ TimePasses
  BY <1>5 DEF GraceEnds, TimePasses, MissesInv, CanaryTypeOK, StateMatchesMisses
<1>6. CASE TakeProbe
  BY <1>6, TakeProbeKeeps
<1>7. CASE \E t \in Tiers : HealthCheck(t)
  BY <1>7, HealthCheckKeeps
<1>8. CASE RouteAnswer
  BY <1>8, RouteAnswerKeeps
<1>9. CASE RequestArrives \/ RequestEnds
  <2>1. busy' \in 0..MaxBusy
    BY <1>9, CanaryAssumption DEF RequestArrives, RequestEnds, MissesInv, CanaryTypeOK
  <2> QED
    BY <1>9, <2>1 DEF RequestArrives, RequestEnds, MissesInv, CanaryTypeOK, StateMatchesMisses
<1>a. CASE ModelChanges
  BY <1>a DEF ModelChanges, MissesInv, CanaryTypeOK, StateMatchesMisses
<1>b. CASE UNCHANGED canaryVars
  BY <1>b DEF canaryVars, MissesInv, CanaryTypeOK, StateMatchesMisses
<1> QED
  BY <1>1, <1>2, <1>3, <1>4, <1>5, <1>6, <1>7, <1>8, <1>9, <1>a, <1>b
     DEF CanaryNext, MonitorMoves, Server, Environment

THEOREM MissesInductive == CanarySpec => []MissesInv
  BY MissesInvInit, MissesInvNext, PTL DEF CanarySpec

\* The monitor's state, the queues and what the worker holds keep their shape.
THEOREM CanaryTypeCorrect == CanarySpec => []CanaryTypeOK
<1>1. MissesInv => CanaryTypeOK
  BY DEF MissesInv
<1> QED
  BY <1>1, MissesInductive, PTL

\* Between probes the monitor reports what the misses of both tiers say.
THEOREM StateMatchesMissesHolds == CanarySpec => []StateMatchesMisses
<1>1. MissesInv => StateMatchesMisses
  BY DEF MissesInv
<1> QED
  BY <1>1, MissesInductive, PTL

\* No shallow success ever clears a deep streak, nor the reverse.
THEOREM OwnTierClearsHolds == CanarySpec => OwnTierClears
<1>1. ASSUME MissesInv, [CanaryNext]_canaryVars
      PROVE  [\A t \in Tiers : misses'[t] < misses[t] =>
                 busy > 0 \/ (probe = t /\ inbox = "up")]_canaryVars
  <2> SUFFICES ASSUME NEW t \in Tiers, misses'[t] < misses[t]
               PROVE  busy > 0 \/ (probe = t /\ inbox = "up")
    OBVIOUS
  <2>1. misses \in [Tiers -> 0..DeadMisses] /\ misses[t] \in Nat /\ misses' # misses
    BY <1>1, CanaryAssumption DEF MissesInv, CanaryTypeOK
  <2>2. CASE TickBusy
    BY <2>2 DEF TickBusy
  <2>3. CASE TakeAnswer \/ Timeout
    <3>1. PICK says \in {inbox, "down"} : ProbeEnds(says)
      BY <2>3 DEF TakeAnswer, Timeout
    <3>2. CASE busy > 0
      BY <3>2
    <3>3. CASE says = "up" /\ OnProbeSuccess(probe)
      BY <2>1, <3>1, <3>3 DEF OnProbeSuccess
    <3>4. CASE OnProbeMiss(probe)
      BY <2>1, <3>4, CanaryAssumption DEF OnProbeMiss
    <3> QED
      BY <3>1, <3>2, <3>3, <3>4 DEF ProbeEnds
  <2>4. CASE ~(TickBusy \/ TakeAnswer \/ Timeout)
    BY <1>1, <2>1, <2>4 DEF CanaryNext, MonitorMoves, Server, Environment, TickProbe, GraceEnds,
       TimePasses, TakeProbe, HealthCheck, RouteAnswer, RequestArrives, RequestEnds, ModelChanges, canaryVars
  <2> QED
    BY <2>2, <2>3, <2>4
<1> QED
  BY <1>1, MissesInductive, PTL DEF CanarySpec, OwnTierClears

=============================================================================
