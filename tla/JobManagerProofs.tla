-------------------------- MODULE JobManagerProofs --------------------------
(***************************************************************************)
(* Proofs about JobManager, for every set of jobs and every bound.  The    *)
(* typing step comes first, then what the shared helpers do, then one      *)
(* lemma per action for the inductive invariant JobInv.                    *)
(***************************************************************************)
EXTENDS JobManager, TLAPS

\* A refused write counts as one outage, within the bound.
LEMMA LossyType ==
    ASSUME TypeOK, NEW S, NEW lost, Lossy(S, lost)
    PROVE  outages' \in 0..MaxOutages
BY JobAssumption DEF TypeOK, Lossy

\* What MarkAndSync does to memory and rows: it creates no row.
LEMMA SyncFacts ==
    ASSUME TypeOK, NEW S \in SUBSET Jobs, NEW s \in Statuses \ {NoJob},
           MarkAndSync(S, s)
    PROVE  /\ status' \in [Jobs -> Statuses] /\ db' \in [Jobs -> Statuses]
           /\ outages' \in 0..MaxOutages
           /\ \A j \in Jobs :
                 /\ status'[j] = IF j \in S THEN s ELSE status[j]
                 /\ db'[j] = db[j] \/ (j \in S /\ j \in Rows /\ db'[j] = s)
<1>1. status' = Put(status, S, s)
  BY DEF MarkAndSync
<1>2. PICK lost \in SUBSET S :
          Lossy(S, lost) /\ db' = Put(db, (S \ lost) \cap Rows, s)
  BY DEF MarkAndSync
<1>3. outages' \in 0..MaxOutages
  BY <1>2, LossyType
<1>4. s \in Statuses /\ status \in [Jobs -> Statuses] /\ db \in [Jobs -> Statuses]
  BY DEF TypeOK
<1>5. /\ status' \in [Jobs -> Statuses]
      /\ \A j \in Jobs : status'[j] = IF j \in S THEN s ELSE status[j]
  BY <1>1, <1>4 DEF Put
<1>6. /\ db' \in [Jobs -> Statuses]
      /\ \A j \in Jobs : db'[j] = IF j \in (S \ lost) \cap Rows THEN s ELSE db[j]
  BY <1>2, <1>4 DEF Put
<1> QED
  BY <1>3, <1>5, <1>6

\* The statuses the code writes.
LEMMA StatusNames ==
    /\ {"queued", "in_progress", "cancelling"} \subseteq Statuses \ {NoJob}
    /\ {"completed", "failed", "cancelled"} \subseteq Statuses \ {NoJob}
    /\ NoJob \in Statuses /\ NoJob \notin Terminal
BY DEF Statuses, Terminal, Active, NoJob

\* What the deletion of rows does.
LEMMA DeleteFacts ==
    ASSUME TypeOK, NEW old \in SUBSET Jobs, DeleteRows(old)
    PROVE  /\ db' \in [Jobs -> Statuses] /\ saved' \in [Jobs -> 0..MaxItems]
           /\ outages' \in 0..MaxOutages
           /\ \A j \in Jobs : \/ db'[j] = db[j] \/ db'[j] = NoJob
                              \/ db'[j] = "failed" /\ j \in Rows
<1>1. PICK lost \in SUBSET old :
          /\ Lossy(old, lost)
          /\ db' = Put(Put(db, Stuck \cap Rows, "failed"), old \ lost, NoJob)
          /\ saved' = Put(saved, old \ lost, 0)
  BY DEF DeleteRows
<1>2. outages' \in 0..MaxOutages
  BY <1>1, LossyType
<1> DEFINE mid == Put(db, Stuck \cap Rows, "failed")
<1>3. /\ mid \in [Jobs -> Statuses]
      /\ \A j \in Jobs : mid[j] = IF j \in Stuck \cap Rows THEN "failed" ELSE db[j]
  BY StatusNames DEF TypeOK, Put
<1> HIDE DEF mid
<1>4. /\ db' \in [Jobs -> Statuses]
      /\ \A j \in Jobs : db'[j] = IF j \in old \ lost THEN NoJob ELSE mid[j]
  BY <1>1, <1>3, StatusNames DEF mid, Put
<1>5. 0 \in 0..MaxItems
  BY JobAssumption
<1>6. saved' \in [Jobs -> 0..MaxItems]
  BY <1>1, <1>5 DEF TypeOK, Put
<1> QED
  BY <1>2, <1>3, <1>4, <1>6

\* A restored status is a terminal one, and completed only if the row says so.
LEMMA RestoredFacts ==
    ASSUME NEW s \in Statuses
    PROVE  /\ RestoredStatus(s) \in Terminal /\ RestoredStatus(s) \in Statuses
           /\ RestoredStatus(s) = "completed" <=> s = "completed"
BY DEF RestoredStatus, Terminal, Statuses, Active, NoJob

\* The finally block keeps the types.
LEMMA FinallyType ==
    ASSUME TypeOK, NEW j \in Jobs, Finally(j)
    PROVE  /\ monitor' \subseteq Jobs
           /\ task' \in [Jobs -> {"none", "awaiting", "closing", "done"}]
BY DEF TypeOK, Finally

LEMMA TypeInit == ASSUME Init PROVE TypeOK
<1>1. 0 \in 0..MaxItems /\ 0 \in 0..MaxCrashes /\ 0 \in 0..MaxOutages
  BY JobAssumption
<1> QED
  BY <1>1, StatusNames DEF Init, TypeOK

\* PowerOff keeps the types.
LEMMA PowerOffType ==
    ASSUME TypeOK, PowerOff
    PROVE  /\ server' = "off" /\ {gathered', tracked', cancelReq', monitor', persister', broken',
                started', cancelEv', aged', expired', promised'} \subseteq SUBSET Jobs
           /\ status' \in [Jobs -> Statuses]
           /\ task' \in [Jobs -> {"none", "awaiting", "closing", "done"}]
           /\ runner' \in [Jobs -> {"none", "waiting", "running", "stopped"}]
           /\ produced' \in [Jobs -> 0..MaxItems]
<1>1. 0 \in 0..MaxItems
  BY JobAssumption
<1> QED
  BY <1>1, StatusNames DEF PowerOff, TypeOK, Put, clock

LEMMA TypeStep == ASSUME TypeOK, [Next]_vars PROVE TypeOK'
<1> USE DEF memory, phase, device, disk, clock
<1>1. ASSUME NEW j \in Jobs, CreateJob(j) PROVE TypeOK'
  BY <1>1, StatusNames DEF CreateJob, TypeOK
<1>2. ASSUME NEW j \in Jobs, CreateJobFails(j) PROVE TypeOK'
  BY <1>2, StatusNames, JobAssumption DEF CreateJobFails, TypeOK
<1>3. ASSUME NEW j \in Jobs, CancelJob(j) PROVE TypeOK'
  <2> DEFINE s == IF CancelsNow(j) THEN "cancelled" ELSE "cancelling"
  <2>1. MarkAndSync({j}, s) /\ s \in Statuses \ {NoJob} /\ {j} \in SUBSET Jobs
    BY <1>3, StatusNames DEF CancelJob
  <2> HIDE DEF s
  <2>2. cancelEv' \subseteq Jobs /\ cancelReq' \subseteq Jobs
    BY <1>3 DEF CancelJob, CleanupJobs, TypeOK
  <2>3. /\ status' \in [Jobs -> Statuses] /\ db' \in [Jobs -> Statuses]
        /\ outages' \in 0..MaxOutages
    BY <2>1, SyncFacts
  <2> QED
    BY <1>3, <2>2, <2>3 DEF CancelJob, TypeOK
<1>4. ASSUME NEW j \in Jobs, MarkJobInProgress(j) PROVE TypeOK'
  <2>1. MarkAndSync({j}, "in_progress") /\ {j} \in SUBSET Jobs
    BY <1>4 DEF MarkJobInProgress
  <2>3. /\ status' \in [Jobs -> Statuses] /\ db' \in [Jobs -> Statuses]
        /\ outages' \in 0..MaxOutages
    BY <2>1, SyncFacts, StatusNames
  <2> QED
    BY <1>4, <2>3 DEF MarkJobInProgress, TypeOK
<1>5. ASSUME NEW j \in Jobs, PersistJobData(j) PROVE TypeOK'
  BY <1>5 DEF PersistJobData, SavePass, TypeOK
<1>6. ASSUME NEW j \in Jobs, PersistFails(j) PROVE TypeOK'
  BY <1>6, JobAssumption DEF PersistFails, TypeOK
<1>7. ASSUME NEW j \in Jobs, TaskReturns(j) PROVE TypeOK'
  <2> DEFINE s == IF status[j] = "cancelling" THEN "cancelled" ELSE "completed"
  <2>1. MarkAndSync({j}, s) /\ s \in Statuses \ {NoJob} /\ {j} \in SUBSET Jobs
    BY <1>7, StatusNames DEF TaskReturns
  <2> HIDE DEF s
  <2>3. /\ status' \in [Jobs -> Statuses] /\ db' \in [Jobs -> Statuses]
        /\ outages' \in 0..MaxOutages
    BY <2>1, SyncFacts
  <2> QED
    BY <1>7, <2>3, FinallyType DEF TaskReturns, TypeOK
<1>8. ASSUME NEW j \in Jobs, TaskRaises(j) PROVE TypeOK'
  <2>1. MarkAndSync({j}, "failed") /\ {j} \in SUBSET Jobs
    BY <1>8 DEF TaskRaises
  <2>3. /\ status' \in [Jobs -> Statuses] /\ db' \in [Jobs -> Statuses]
        /\ outages' \in 0..MaxOutages
    BY <2>1, SyncFacts, StatusNames
  <2> QED
    BY <1>8, <2>3, FinallyType DEF TaskRaises, EventsSetOnError, TypeOK
<1>9. ASSUME NEW j \in Jobs, TaskCancelled(j) PROVE TypeOK'
  <2>1. /\ status' \in [Jobs -> Statuses] /\ db' \in [Jobs -> Statuses]
        /\ outages' \in 0..MaxOutages
    <3>1. CASE Over(j)
      BY <1>9, <3>1 DEF TaskCancelled, TypeOK
    <3>2. CASE ~Over(j)
      BY <1>9, <3>2, SyncFacts, StatusNames DEF TaskCancelled
    <3> QED BY <3>1, <3>2
  <2> QED
    BY <1>9, <2>1, FinallyType DEF TaskCancelled, TypeOK
<1>10. ASSUME NEW j \in Jobs, TaskCloses(j) PROVE TypeOK'
  BY <1>10 DEF TaskCloses, TypeOK
<1>11. ASSUME NEW j \in Jobs, RunnerStarts(j) PROVE TypeOK'
  BY <1>11 DEF RunnerStarts, TypeOK
<1>12. ASSUME NEW j \in Jobs, RunnerProduces(j) PROVE TypeOK'
  <2>1. produced[j] + 1 \in 0..MaxItems
    BY <1>12, JobAssumption DEF RunnerProduces, TypeOK
  <2> QED
    BY <1>12, <2>1 DEF RunnerProduces, TypeOK
<1>13. ASSUME NEW j \in Jobs, RunnerStops(j) PROVE TypeOK'
  BY <1>13 DEF RunnerStops, TypeOK
<1>14. ASSUME NEW j \in Jobs, GrowsOld(j) \/ Expires(j) PROVE TypeOK'
  BY <1>14 DEF GrowsOld, Expires, TypeOK
<1>15. ASSUME NEW j \in Jobs, CrashInCreate(j) PROVE TypeOK'
  <2>1. PowerOff /\ issued' \subseteq Jobs /\ db' \in [Jobs -> Statuses]
        /\ crashes' \in 0..MaxCrashes /\ UNCHANGED <<saved, asset, outages>>
    BY <1>15, StatusNames, JobAssumption DEF CrashInCreate, TypeOK
  <2> QED
    BY <2>1, PowerOffType DEF TypeOK
<1>16. ASSUME CleanupOldJobs PROVE TypeOK'
  <2> DEFINE old == OldTerminal \cup Stuck
  <2>1. DeleteRows(old) /\ old \in SUBSET Jobs
    BY <1>16 DEF CleanupOldJobs, OldTerminal, Stuck, TypeOK
  <2>2. cancelEv' \subseteq Jobs /\ cancelReq' \subseteq Jobs
    BY <1>16 DEF CleanupOldJobs, CleanupJobs, Stuck, TypeOK
  <2>3. status' \in [Jobs -> Statuses]
    BY <1>16, StatusNames DEF CleanupOldJobs, TypeOK, Put
  <2> QED
    BY <1>16, <2>1, <2>2, <2>3, DeleteFacts DEF CleanupOldJobs, TypeOK
<1>17. ASSUME CrashInCleanup PROVE TypeOK'
  <2>1. PICK left \in SUBSET (OldTerminal \cup Stuck) :
          /\ db' = Put(Put(db, Stuck \cap Rows, "failed"), (OldTerminal \cup Stuck) \ left, NoJob)
          /\ saved' = Put(saved, (OldTerminal \cup Stuck) \ left, 0)
    BY <1>17 DEF CrashInCleanup
  <2>2. Put(db, Stuck \cap Rows, "failed") \in [Jobs -> Statuses]
    BY StatusNames DEF TypeOK, Put
  <2>3. db' \in [Jobs -> Statuses]
    BY <2>1, <2>2, StatusNames DEF Put
  <2>4. saved' \in [Jobs -> 0..MaxItems]
    BY <2>1, JobAssumption DEF Put, TypeOK
  <2>5. /\ PowerOff /\ asset' \subseteq Jobs /\ crashes' \in 0..MaxCrashes
        /\ UNCHANGED <<issued, outages>>
    BY <1>17, JobAssumption DEF CrashInCleanup, TypeOK
  <2> QED
    BY <2>3, <2>4, <2>5, PowerOffType DEF TypeOK
<1>18. ASSUME Shutdown PROVE TypeOK'
  <2> DEFINE live == {j \in tracked : ~Over(j)}
  <2>1. MarkAndSync(live, "cancelling") /\ live \in SUBSET Jobs
    BY <1>18 DEF Shutdown, TypeOK
  <2>2. cancelEv' \subseteq Jobs /\ cancelReq' \subseteq Jobs
    BY <1>18 DEF Shutdown, CleanupJobs, TypeOK
  <2>3. /\ status' \in [Jobs -> Statuses] /\ db' \in [Jobs -> Statuses]
        /\ outages' \in 0..MaxOutages
    BY <2>1, SyncFacts, StatusNames
  <2> QED
    BY <1>18, <2>2, <2>3 DEF Shutdown, TypeOK
<1>19. ASSUME Exit \/ Crash PROVE TypeOK'
  <2>1. /\ PowerOff /\ crashes' \in 0..MaxCrashes
        /\ UNCHANGED <<issued, db, saved, asset, outages>>
    BY <1>19, JobAssumption DEF Exit, Crash, TypeOK
  <2> QED
    BY <2>1, PowerOffType DEF TypeOK
<1>20. ASSUME Restart PROVE TypeOK'
  <2>1. status' \in [Jobs -> Statuses]
    BY <1>20, RestoredFacts, StatusNames DEF Restart, TypeOK
  <2>2. PICK lost : /\ Lossy(Rows, lost)
                    /\ db' = [j \in Jobs |-> IF j \in Rows \ lost
                                             THEN RestoredStatus(db[j]) ELSE db[j]]
    BY <1>20 DEF Restart
  <2>3. db' \in [Jobs -> Statuses]
    BY <2>2, RestoredFacts DEF TypeOK
  <2>4. outages' \in 0..MaxOutages
    BY <2>2, LossyType
  <2> QED
    BY <1>20, <2>1, <2>3, <2>4 DEF Restart, Rows, TypeOK
<1>21. CASE UNCHANGED vars
  BY <1>21 DEF vars, TypeOK
<1> QED
  BY <1>1, <1>2, <1>3, <1>4, <1>5, <1>6, <1>7, <1>8, <1>9, <1>10, <1>11, <1>12,
     <1>13, <1>14, <1>15, <1>16, <1>17, <1>18, <1>19, <1>20, <1>21
     DEF Next, JobStep, TaskEnds

\* Type correctness of the job manager, under every crash and outage.
THEOREM JobTypeCorrect == Spec => []TypeOK
BY TypeInit, TypeStep, PTL DEF Spec

-----------------------------------------------------------------------------
(* The inductive invariant, job by job.                                     *)

JobOK(k) ==
    /\ ~Up => /\ k \notin tracked \cup monitor \cup persister
              /\ task[k] = "none" /\ runner[k] = "none" /\ status[k] = NoJob
    /\ k \notin issued =>
          /\ k \notin promised \cup monitor \cup persister \cup tracked
          /\ status[k] = NoJob /\ db[k] = NoJob /\ task[k] = "none" /\ runner[k] = "none"
    /\ k \in monitor => task[k] = "awaiting" /\ (status[k] = "queued" \/ k \in cancelReq)
    /\ task[k] = "awaiting" /\ k \in promised => status[k] = "cancelling" \/ k \in cancelReq
    /\ task[k] = "awaiting" /\ Over(k) => status[k] # "completed" /\ k \in cancelReq
    /\ task[k] = "closing" => Over(k)
    /\ db[k] = "completed" => status[k] \in {"completed", NoJob}
    /\ task[k] = "awaiting" => status[k] # NoJob
    /\ k \in tracked /\ ~Over(k) => task[k] = "awaiting"
    /\ k \in promised => status[k] # "completed" /\ db[k] # "completed"
    /\ k \in Training /\ Over(k) /\ runner[k] \in {"waiting", "running"} => k \in cancelEv

\* The two forms say the same.
LEMMA JobByJob == TypeOK => (JobInv <=> \A k \in Jobs : JobOK(k))
<1> SUFFICES ASSUME TypeOK PROVE JobInv <=> \A k \in Jobs : JobOK(k)
  OBVIOUS
<1>1. ASSUME JobInv, NEW k \in Jobs PROVE JobOK(k)
  BY <1>1 DEF TypeOK, JobOK, JobInv, OffIsEmpty, KnownIds, MonitorOwned, CancelPending,
              ClosingIsOver, RowNotAhead, ActiveHasTask, CancelNeverCompletes, NoRunawayRunner
<1>2. ASSUME \A k \in Jobs : JobOK(k) PROVE JobInv
  <2>1. OffIsEmpty
    BY <1>2 DEF JobOK, OffIsEmpty, TypeOK
  <2>2. KnownIds
    BY <1>2 DEF JobOK, KnownIds, TypeOK
  <2>3. MonitorOwned /\ CancelPending /\ ClosingIsOver /\ RowNotAhead
    BY <1>2 DEF JobOK, MonitorOwned, CancelPending, ClosingIsOver, RowNotAhead, TypeOK
  <2>4. ActiveHasTask /\ CancelNeverCompletes /\ NoRunawayRunner
    BY <1>2, JobAssumption DEF JobOK, ActiveHasTask, CancelNeverCompletes, NoRunawayRunner, TypeOK
  <2> QED
    BY <2>1, <2>2, <2>3, <2>4 DEF JobInv
<1> QED
  BY <1>1, <1>2

AllOK == \A k \in Jobs : JobOK(k)

LEMMA JobByJobNext == TypeOK' => (JobInv' <=> AllOK')
<1>1. TypeOK => (JobInv <=> AllOK)
  BY JobByJob DEF AllOK
<1> QED
  BY <1>1, PTL

\* A step leaves a job alone.
Untouched(k) ==
    /\ status'[k] = status[k] /\ db'[k] = db[k]
    /\ task'[k] = task[k] /\ runner'[k] = runner[k]
    /\ (k \in tracked') = (k \in tracked) /\ (k \in monitor') = (k \in monitor)
    /\ (k \in persister') = (k \in persister) /\ (k \in cancelReq') = (k \in cancelReq)
    /\ (k \in cancelEv') = (k \in cancelEv) /\ (k \in promised') = (k \in promised)
    /\ (k \in issued') = (k \in issued)

LEMMA UntouchedOK ==
    ASSUME NEW k \in Jobs, JobOK(k), Untouched(k), server' = server
    PROVE  JobOK(k)'
BY DEF JobOK, Untouched, Up, Over

\* Marking one job leaves the others' statuses and rows alone.
LEMMA MarkOne ==
    ASSUME TypeOK, NEW j \in Jobs,
           NEW s \in {"in_progress", "cancelling", "cancelled", "failed", "completed"},
           MarkAndSync({j}, s)
    PROVE  /\ \A k \in Jobs \ {j} : status'[k] = status[k] /\ db'[k] = db[k]
           /\ status'[j] = s
           /\ db'[j] = db[j] \/ (db[j] # NoJob /\ db'[j] = s)
<1>1. {j} \in SUBSET Jobs /\ s \in Statuses \ {NoJob}
  BY StatusNames
<1> DEFINE S == {j}
<1>2. S \in SUBSET Jobs /\ MarkAndSync(S, s)
  OBVIOUS
<1> HIDE DEF S
<1>3. \A k \in Jobs : /\ status'[k] = IF k \in S THEN s ELSE status[k]
                      /\ db'[k] = db[k] \/ (k \in S /\ k \in Rows /\ db'[k] = s)
  BY <1>1, <1>2, SyncFacts
<1> QED
  BY <1>3 DEF Rows, S

\* The step of one job: it leaves the others alone and keeps its own part.
LEMMA OneJobStep ==
    ASSUME TypeOK, JobInv, NEW j \in Jobs, JobStep(j), ~CrashInCreate(j)
    PROVE  \A k \in Jobs : JobOK(k)'
<1> USE DEF memory, phase, device, disk, clock
<1>0. \A k \in Jobs : JobOK(k)
  BY JobByJob
<1> DEFINE Rest == \A k \in Jobs \ {j} : Untouched(k)
<1>1. ASSUME server' = server, Rest, JobOK(j)' PROVE \A k \in Jobs : JobOK(k)'
  BY <1>0, <1>1, UntouchedOK
<1> HIDE DEF Rest
<1>2. CASE CreateJob(j)
  <2>1. Rest
    BY <1>2 DEF Rest, Untouched, CreateJob, TypeOK
  <2>2. JobOK(j)'
    BY <1>0, <1>2 DEF CreateJob, TypeOK, JobOK, Up, Over, Terminal, NoJob
  <2> QED BY <1>1, <1>2, <2>1, <2>2 DEF CreateJob
<1>3. CASE CreateJobFails(j)
  <2>1. Rest
    BY <1>3 DEF Rest, Untouched, CreateJobFails, TypeOK
  <2>2. JobOK(j)'
    BY <1>0, <1>3 DEF CreateJobFails, TypeOK, JobOK, Up, Over, Terminal, NoJob
  <2> QED BY <1>1, <1>3, <2>1, <2>2 DEF CreateJobFails
<1>4. CASE CancelJob(j)
  <2> DEFINE s == IF CancelsNow(j) THEN "cancelled" ELSE "cancelling"
  <2>1. task[j] = "awaiting" /\ j \in tracked /\ ~Over(j)
    BY <1>0, <1>4 DEF CancelJob, JobOK
  <2>2. MarkAndSync({j}, s) /\ s \in {"cancelling", "cancelled"}
    BY <1>4 DEF CancelJob
  <2> HIDE DEF s
  <2>3. /\ \A k \in Jobs \ {j} : status'[k] = status[k] /\ db'[k] = db[k]
        /\ status'[j] = s
        /\ db'[j] = db[j] \/ (db[j] # NoJob /\ db'[j] = s)
    BY <2>2, MarkOne
  <2>4. {k \in {j} : TaskLive(k)} = {j}
    BY <2>1 DEF TaskLive
  <2>5. /\ cancelEv' = cancelEv \cup ({j} \cap Training)
        /\ cancelReq' = cancelReq \cup (IF CancelsNow(j) THEN {j} ELSE {j} \ Training)
    BY <1>4, <2>4 DEF CancelJob, CleanupJobs
  <2>6. Rest
    BY <1>4, <2>3, <2>5 DEF Rest, Untouched, CancelJob, TypeOK
  <2>7. JobOK(j)'
    <3>1. CASE CancelsNow(j)
      BY <1>0, <1>4, <2>1, <2>3, <2>5, <3>1 DEF s, CancelJob, JobOK, Up, Over, Terminal, NoJob
    <3>2. CASE ~CancelsNow(j)
      BY <1>0, <1>4, <2>1, <2>3, <2>5, <3>2 DEF s, CancelJob, CancelsNow, JobOK, Up, Over, Terminal, NoJob
    <3> QED BY <3>1, <3>2
  <2> QED BY <1>1, <1>4, <2>6, <2>7 DEF CancelJob
<1>5. CASE MarkJobInProgress(j)
  <2>1. /\ \A k \in Jobs \ {j} : status'[k] = status[k] /\ db'[k] = db[k]
        /\ status'[j] = "in_progress"
        /\ db'[j] = db[j] \/ (db[j] # NoJob /\ db'[j] = "in_progress")
    BY <1>5, MarkOne DEF MarkJobInProgress
  <2>2. Rest
    BY <1>5, <2>1 DEF Rest, Untouched, MarkJobInProgress, TypeOK
  <2>3. JobOK(j)'
    BY <1>0, <1>5, <2>1 DEF MarkJobInProgress, TypeOK, JobOK, Up, Over, Terminal, NoJob
  <2> QED BY <1>1, <1>5, <2>2, <2>3 DEF MarkJobInProgress
<1>6. CASE PersistJobData(j) \/ PersistFails(j)
  <2>1. Rest
    BY <1>6 DEF Rest, Untouched, PersistJobData, PersistFails, TypeOK
  <2>2. JobOK(j)'
    BY <1>0, <1>6 DEF PersistJobData, PersistFails, TypeOK, JobOK, Up, Over, Terminal, NoJob
  <2> QED BY <1>1, <1>6, <2>1, <2>2 DEF PersistJobData, PersistFails
<1>7. CASE TaskReturns(j)
  <2> DEFINE s == IF status[j] = "cancelling" THEN "cancelled" ELSE "completed"
  <2>1. MarkAndSync({j}, s) /\ s \in {"cancelled", "completed"}
    BY <1>7 DEF TaskReturns
  <2> HIDE DEF s
  <2>2. /\ \A k \in Jobs \ {j} : status'[k] = status[k] /\ db'[k] = db[k]
        /\ status'[j] = s
        /\ db'[j] = db[j] \/ (db[j] # NoJob /\ db'[j] = s)
    BY <2>1, MarkOne
  <2>3. Rest
    BY <1>7, <2>2 DEF Rest, Untouched, TaskReturns, Finally, TypeOK
  <2>4. JobOK(j)'
    BY <1>0, <1>7, <2>1, <2>2 DEF s, TaskReturns, Finally, TypeOK, JobOK, Up, Over, Terminal, NoJob
  <2> QED BY <1>1, <1>7, <2>3, <2>4 DEF TaskReturns
<1>8. CASE TaskRaises(j)
  <2>1. /\ \A k \in Jobs \ {j} : status'[k] = status[k] /\ db'[k] = db[k]
        /\ status'[j] = "failed"
        /\ db'[j] = db[j] \/ (db[j] # NoJob /\ db'[j] = "failed")
    BY <1>8, MarkOne DEF TaskRaises
  <2>2. cancelEv' = cancelEv \cup ({j} \cap Training)
    BY <1>8 DEF TaskRaises, EventsSetOnError
  <2>3. Rest
    BY <1>8, <2>1, <2>2 DEF Rest, Untouched, TaskRaises, Finally, TypeOK
  <2>4. JobOK(j)'
    BY <1>0, <1>8, <2>1, <2>2 DEF TaskRaises, Finally, TypeOK, JobOK, Up, Over, Terminal, NoJob
  <2> QED BY <1>1, <1>8, <2>3, <2>4 DEF TaskRaises
<1>9. CASE TaskCancelled(j)
  <2>1. /\ \A k \in Jobs \ {j} : status'[k] = status[k] /\ db'[k] = db[k]
        /\ \/ Over(j) /\ status'[j] = status[j] /\ db'[j] = db[j]
           \/ /\ status'[j] = "cancelled"
              /\ db'[j] = db[j] \/ (db[j] # NoJob /\ db'[j] = "cancelled")
    BY <1>9, MarkOne DEF TaskCancelled
  <2>2. Rest
    BY <1>9, <2>1 DEF Rest, Untouched, TaskCancelled, Finally, TypeOK
  <2>3. JobOK(j)'
    BY <1>0, <1>9, <2>1 DEF TaskCancelled, Finally, TypeOK, JobOK, Up, Over, Terminal, NoJob
  <2> QED BY <1>1, <1>9, <2>2, <2>3 DEF TaskCancelled
<1>10. CASE TaskCloses(j)
  <2>1. Rest
    BY <1>10 DEF Rest, Untouched, TaskCloses, TypeOK
  <2>2. JobOK(j)'
    BY <1>0, <1>10 DEF TaskCloses, TypeOK, JobOK, Up, Over, Terminal, NoJob
  <2> QED BY <1>1, <1>10, <2>1, <2>2 DEF TaskCloses
<1>11. CASE RunnerStarts(j) \/ RunnerProduces(j) \/ RunnerStops(j)
  <2>1. Rest
    BY <1>11 DEF Rest, Untouched, RunnerStarts, RunnerProduces, RunnerStops, TypeOK
  <2>2. JobOK(j)'
    BY <1>0, <1>11 DEF RunnerStarts, RunnerProduces, RunnerStops, TypeOK, JobOK, Up, Over, Terminal, NoJob
  <2> QED BY <1>1, <1>11, <2>1, <2>2 DEF RunnerStarts, RunnerProduces, RunnerStops
<1>12. CASE GrowsOld(j) \/ Expires(j)
  <2>1. server' = server /\ \A k \in Jobs : Untouched(k)
    BY <1>12 DEF Untouched, GrowsOld, Expires
  <2> QED BY <1>0, <2>1, UntouchedOK
<1> QED
  BY <1>2, <1>3, <1>4, <1>5, <1>6, <1>7, <1>8, <1>9, <1>10, <1>11, <1>12
     DEF JobStep, TaskEnds

\* The end of the process, if the rows it leaves invent nothing.
LEMMA PowerOffOK ==
    ASSUME TypeOK, JobInv, PowerOff, NEW k \in Jobs, db'[k] # "completed" \/ db[k] = "completed",
           k \in issued' \/ (k \notin issued /\ (db[k] = NoJob => db'[k] = NoJob)),
           k \in issued => k \in issued'
    PROVE  JobOK(k)'
<1>1. JobOK(k)
  BY JobByJob
<1> QED
  BY <1>1 DEF PowerOff, Put, clock, TypeOK, JobOK, Up, Over, Terminal, NoJob

LEMMA JobInvInit == ASSUME Init PROVE JobInv
<1>1. TypeOK
  BY TypeInit
<1>2. \A k \in Jobs : JobOK(k)
  BY DEF Init, JobOK, Up, Over, Terminal, NoJob
<1> QED
  BY <1>1, <1>2, JobByJob

LEMMA JobInvStep == ASSUME TypeOK, JobInv, [Next]_vars PROVE JobInv'
<1> USE DEF memory, phase, device, disk, clock
<1>0. TypeOK' /\ \A k \in Jobs : JobOK(k)
  BY TypeStep, JobByJob
<1> SUFFICES \A k \in Jobs : JobOK(k)'
  BY <1>0, JobByJobNext DEF AllOK
<1>1. ASSUME NEW j \in Jobs, JobStep(j), ~CrashInCreate(j) PROVE \A k \in Jobs : JobOK(k)'
  BY <1>1, OneJobStep
<1>2. ASSUME NEW j \in Jobs, CrashInCreate(j) PROVE \A k \in Jobs : JobOK(k)'
  <2>1. /\ PowerOff /\ issued' = issued \cup {j}
        /\ \A k \in Jobs : db'[k] = IF k = j THEN "queued" ELSE db[k]
    BY <1>2 DEF CrashInCreate, TypeOK
  <2> QED BY <2>1, PowerOffOK
<1>3. CASE CrashInCleanup
  <2>1. PowerOff /\ issued' = issued
    BY <1>3 DEF CrashInCleanup
  <2>2. \A k \in Jobs : db'[k] \in {db[k], NoJob} \/ (db'[k] = "failed" /\ db[k] # NoJob)
    BY <1>3 DEF CrashInCleanup, Put, Rows, TypeOK
  <2>3. \A k \in Jobs : k \in issued \/ db[k] = NoJob
    BY <1>0 DEF JobOK
  <2> QED BY <2>1, <2>2, <2>3, PowerOffOK DEF NoJob
<1>4. CASE Exit \/ Crash
  <2>1. PowerOff /\ issued' = issued /\ db' = db
    BY <1>4 DEF Exit, Crash
  <2> QED BY <2>1, PowerOffOK
<1>5. CASE CleanupOldJobs
  <2>1. /\ \A k \in Jobs : status'[k] = IF k \in Stuck THEN "failed" ELSE status[k]
        /\ \A k \in Jobs : db'[k] = db[k] \/ db'[k] = NoJob \/ (db'[k] = "failed" /\ db[k] # NoJob)
    <3>1. DeleteRows(OldTerminal \cup Stuck) /\ OldTerminal \cup Stuck \in SUBSET Jobs
      BY <1>5 DEF CleanupOldJobs, OldTerminal, Stuck, TypeOK
    <3>2. \A k \in Jobs : db'[k] = db[k] \/ db'[k] = NoJob \/ (db'[k] = "failed" /\ k \in Rows)
      BY <3>1, DeleteFacts
    <3> QED BY <1>5, <3>2 DEF CleanupOldJobs, Put, Rows
  <2>2. \A k \in Stuck : k \in tracked /\ task[k] = "awaiting" /\ ~Over(k)
    BY <1>0 DEF Stuck, TypeOK, JobOK, Over, Terminal
  <2>3. {k \in Stuck : TaskLive(k)} = Stuck
    BY <2>2 DEF TaskLive
  <2>4. cancelEv' = cancelEv \cup (Stuck \cap Training) /\ cancelReq' = cancelReq \cup Stuck
    BY <1>5, <2>3 DEF CleanupOldJobs, CleanupJobs
  <2>5. ASSUME NEW k \in Jobs PROVE JobOK(k)'
    <3>1. tracked' = tracked \ (OldTerminal \cup Stuck)
      BY <1>5 DEF CleanupOldJobs
    <3>2. CASE k \in Stuck
      BY <1>0, <1>5, <2>1, <2>2, <2>4, <3>1, <3>2 DEF CleanupOldJobs, JobOK, Up, Over, Terminal, NoJob
    <3>3. CASE k \notin Stuck
      BY <1>0, <1>5, <2>1, <2>4, <3>1, <3>3 DEF CleanupOldJobs, JobOK, Up, Over, Terminal, NoJob
    <3> QED BY <3>2, <3>3
  <2> QED BY <2>5
<1>6. CASE Shutdown
  <2> DEFINE live == {j \in tracked : ~Over(j)}
  <2>1. \A k \in Jobs : /\ status'[k] = IF k \in live THEN "cancelling" ELSE status[k]
                        /\ db'[k] = db[k] \/ (db[k] # NoJob /\ db'[k] = "cancelling")
    <3>1. MarkAndSync(live, "cancelling") /\ live \in SUBSET Jobs
      BY <1>6 DEF Shutdown, TypeOK
    <3> HIDE DEF live
    <3>2. \A k \in Jobs : /\ status'[k] = IF k \in live THEN "cancelling" ELSE status[k]
                          /\ db'[k] = db[k] \/ (k \in live /\ k \in Rows /\ db'[k] = "cancelling")
      BY <3>1, SyncFacts, StatusNames
    <3> QED BY <3>2 DEF Rows
  <2>2. \A k \in live : task[k] = "awaiting"
    BY <1>0 DEF JobOK, TypeOK
  <2>3. {k \in live : TaskLive(k)} = live
    BY <2>2 DEF TaskLive
  <2>4. cancelEv' = cancelEv \cup (live \cap Training) /\ cancelReq' = cancelReq \cup live
    BY <1>6, <2>3 DEF Shutdown, CleanupJobs
  <2>5. ASSUME NEW k \in Jobs PROVE JobOK(k)'
    <3>1. server' # "off" /\ server # "off" /\ tracked' = {}
      BY <1>6 DEF Shutdown
    <3>2. CASE k \in live
      BY <1>0, <1>6, <2>1, <2>2, <2>4, <3>1, <3>2 DEF Shutdown, JobOK, Up, Over, Terminal, NoJob
    <3>3. CASE k \notin live
      <4> HIDE DEF live
      <4> QED BY <1>0, <1>6, <2>1, <2>4, <3>1, <3>3 DEF Shutdown, JobOK, Up, Over, Terminal, NoJob
    <3> QED BY <3>2, <3>3
  <2> QED BY <2>5
<1>7. CASE Restart
  <2>1. \A k \in Jobs :
          /\ status'[k] = IF k \in Rows THEN RestoredStatus(db[k]) ELSE NoJob
          /\ db'[k] = db[k] \/ (k \in Rows /\ db'[k] = RestoredStatus(db[k]))
    BY <1>7 DEF Restart
  <2>2. \A k \in Jobs : /\ RestoredStatus(db[k]) \in {"completed", "failed", "cancelled"}
                        /\ RestoredStatus(db[k]) = "completed" <=> db[k] = "completed"
    BY RestoredFacts DEF TypeOK, Terminal
  <2>3. ASSUME NEW k \in Jobs PROVE JobOK(k)'
    <3>1. /\ task'[k] = "none" /\ runner'[k] = "none" /\ k \notin monitor' \cup persister'
          /\ server' # "off" /\ tracked' = Rows /\ promised' = promised /\ issued' = issued
      BY <1>0, <1>7 DEF Restart, JobOK, Up
    <3>2. CASE k \in Rows
      BY <1>0, <2>1, <2>2, <3>1, <3>2 DEF Rows, JobOK, Up, Over, Terminal, NoJob
    <3>3. CASE k \notin Rows
      BY <1>0, <2>1, <3>1, <3>3 DEF Rows, JobOK, Up, Over, Terminal, NoJob
    <3> QED BY <3>2, <3>3
  <2> QED BY <2>3
<1>8. CASE UNCHANGED vars
  <2>1. server' = server /\ \A k \in Jobs : Untouched(k)
    BY <1>8 DEF vars, Untouched
  <2> QED BY <1>0, <2>1, UntouchedOK
<1> QED
  BY <1>1, <1>2, <1>3, <1>4, <1>5, <1>6, <1>7, <1>8 DEF Next

THEOREM JobInvHolds == Spec => [](TypeOK /\ JobInv)
<1>1. Init => TypeOK /\ JobInv
  BY TypeInit, JobInvInit
<1>2. TypeOK /\ JobInv /\ [Next]_vars => (TypeOK /\ JobInv)'
  BY TypeStep, JobInvStep
<1> QED
  BY <1>1, <1>2, PTL DEF Spec

\* An acknowledged cancellation never ends in a completed job.
THEOREM CancelNeverCompletesHolds == Spec => []CancelNeverCompletes
<1>1. JobInv => CancelNeverCompletes
  BY DEF JobInv
<1> QED
  BY <1>1, JobInvHolds, PTL

\* No unfinished job is ever without its coroutine.
THEOREM ActiveHasTaskHolds == Spec => []ActiveHasTask
<1>1. JobInv => ActiveHasTask
  BY DEF JobInv
<1> QED
  BY <1>1, JobInvHolds, PTL

\* No runner goes on for a job that is over without having been told.
THEOREM NoRunawayRunnerHolds == Spec => []NoRunawayRunner
<1>1. JobInv => NoRunawayRunner
  BY DEF JobInv
<1> QED
  BY <1>1, JobInvHolds, PTL

-----------------------------------------------------------------------------
(* A settled job stays settled.                                             *)

LEMMA SettledStep ==
    ASSUME TypeOK, JobInv, [Next]_vars, NEW k \in Jobs,
           task[k] \in {"closing", "done"}, server' # "off"
    PROVE  status'[k] = status[k]
<1> USE DEF memory, phase, device, disk, clock
<1>0. JobOK(k)
  BY JobByJob
<1>1. ASSUME NEW j \in Jobs, JobStep(j) PROVE status'[k] = status[k]
  <2>1. CASE CreateJob(j)
    BY <1>0, <2>1 DEF CreateJob, JobOK, TypeOK
  <2>2. CASE CancelJob(j) \/ MarkJobInProgress(j) \/ TaskReturns(j) \/ TaskRaises(j)
    <3>1. PICK s \in {"in_progress", "cancelling", "cancelled", "failed", "completed"} :
            MarkAndSync({j}, s)
      BY <2>2 DEF CancelJob, MarkJobInProgress, TaskReturns, TaskRaises
    <3>2. k # j
      BY <1>0, <2>2 DEF JobOK, CancelJob, MarkJobInProgress, TaskReturns, TaskRaises
    <3> QED BY <3>1, <3>2, MarkOne
  <2>3. CASE TaskCancelled(j)
    <3>1. k # j
      BY <2>3 DEF TaskCancelled
    <3> QED BY <2>3, <3>1, MarkOne DEF TaskCancelled
  <2>4. CASE CrashInCreate(j)
    BY <2>4 DEF CrashInCreate, PowerOff
  <2> QED
    BY <1>1, <2>1, <2>2, <2>3, <2>4 DEF JobStep, TaskEnds, CreateJobFails, PersistJobData,
       PersistFails, TaskCloses, RunnerStarts, RunnerProduces, RunnerStops, GrowsOld,
       Expires
<1>2. CASE CleanupOldJobs
  <2>1. k \notin Stuck
    BY <1>0 DEF Stuck, JobOK, Over, Terminal
  <2> QED BY <1>2, <2>1 DEF CleanupOldJobs, Put
<1>3. CASE Shutdown
  <2>1. k \notin {j \in tracked : ~Over(j)}
    BY <1>0 DEF JobOK
  <2> QED BY <1>3, <2>1 DEF Shutdown, MarkAndSync, Put
<1>4. CASE CrashInCleanup \/ Exit \/ Crash
  BY <1>4 DEF CrashInCleanup, Exit, Crash, PowerOff
<1>5. CASE Restart
  BY <1>0, <1>5 DEF Restart, JobOK, Up
<1>6. CASE UNCHANGED vars
  BY <1>6 DEF vars
<1> QED
  BY <1>1, <1>2, <1>3, <1>4, <1>5, <1>6 DEF Next

\* Once its coroutine has let go of a job, nothing changes the job's status.
THEOREM SettledStaysHolds == Spec => SettledStays
<1> DEFINE A == \A j \in Jobs : task[j] \in {"closing", "done"} /\ server' # "off" =>
                    status'[j] = status[j]
<1>1. TypeOK /\ JobInv /\ [Next]_vars => [A]_vars
  BY SettledStep
<1> QED
  BY <1>1, JobInvHolds, PTL DEF SettledStays, Spec

-----------------------------------------------------------------------------
(* Memory and database agree.                                               *)

\* With every write accepted, MarkAndSync does to the rows what it does to memory.
LEMMA SyncExact ==
    ASSUME TypeOK, NEW S \in SUBSET Jobs, NEW s, MarkAndSync(S, s), outages' = 0
    PROVE  /\ outages = 0
           /\ status' = Put(status, S, s)
           /\ db' = Put(db, S \cap Rows, s)
<1>1. PICK lost \in SUBSET S : Lossy(S, lost) /\ db' = Put(db, (S \ lost) \cap Rows, s)
  BY DEF MarkAndSync
<1>2. outages = 0 /\ lost = {}
  BY <1>1, JobAssumption DEF Lossy, TypeOK
<1>3. S \ lost = S
  BY <1>2
<1> QED
  BY <1>1, <1>2, <1>3 DEF MarkAndSync

\* What is needed after such a step: rows and tracked jobs are the same sets as
\* before, and S was marked on both sides.
LEMMA AgreeAfterSync ==
    ASSUME TypeOK, DbAgrees, server = "serving", NEW S \in SUBSET Jobs,
           NEW s \in Statuses \ {NoJob}, MarkAndSync(S, s), tracked' = tracked
    PROVE  DbAgrees'
<1> SUFFICES ASSUME outages' = 0 PROVE Rows' = tracked' /\ \A k \in tracked' : db'[k] = status'[k]
  BY DEF DbAgrees
<1>1. outages = 0 /\ status' = Put(status, S, s) /\ db' = Put(db, S \cap Rows, s)
  BY SyncExact
<1>2. Rows = tracked /\ \A k \in tracked : db[k] = status[k]
  BY <1>1 DEF DbAgrees
<1>3. Rows' = Rows
  BY <1>1 DEF Rows, Put
<1>4. ASSUME NEW k \in tracked PROVE db'[k] = status'[k]
  BY <1>1, <1>2 DEF Put, Rows
<1> QED
  BY <1>2, <1>3, <1>4

LEMMA AgreeStep == ASSUME TypeOK, DbAgrees, [Next]_vars PROVE DbAgrees'
<1> USE DEF memory, phase, device, disk, clock
<1>1. ASSUME NEW j \in Jobs, JobStep(j) PROVE DbAgrees'
  <2>1. CASE CreateJob(j)
    <3> SUFFICES ASSUME outages' = 0
                 PROVE Rows' = tracked' /\ \A k \in tracked' : db'[k] = status'[k]
      BY DEF DbAgrees
    <3>1. Rows = tracked /\ \A k \in tracked : db[k] = status[k]
      BY <2>1 DEF CreateJob, DbAgrees
    <3> QED BY <2>1, <3>1, StatusNames DEF CreateJob, Rows, TypeOK
  <2>2. CASE CreateJobFails(j) \/ PersistFails(j)
    <3>1. outages' # 0
      BY <2>2, JobAssumption DEF CreateJobFails, PersistFails, TypeOK
    <3> QED BY <3>1 DEF DbAgrees
  <2>3. CASE CancelJob(j) \/ MarkJobInProgress(j) \/ TaskReturns(j) \/ TaskRaises(j)
    <3>1. PICK s \in {"in_progress", "cancelling", "cancelled", "failed", "completed"} :
            MarkAndSync({j}, s)
      BY <2>3 DEF CancelJob, MarkJobInProgress, TaskReturns, TaskRaises
    <3>2. server' = server /\ tracked' = tracked
      BY <2>3 DEF CancelJob, MarkJobInProgress, TaskReturns, TaskRaises
    <3>3. s \in Statuses \ {NoJob} /\ {j} \in SUBSET Jobs
      BY StatusNames
    <3>4. CASE server = "serving"
      BY <3>1, <3>2, <3>3, <3>4, AgreeAfterSync
    <3>5. CASE server # "serving"
      BY <3>2, <3>5 DEF DbAgrees
    <3> QED BY <3>4, <3>5
  <2>4. CASE TaskCancelled(j)
    <3>1. server' = server /\ tracked' = tracked
      BY <2>4 DEF TaskCancelled
    <3>2. CASE Over(j)
      BY <2>4, <3>1, <3>2 DEF TaskCancelled, DbAgrees, Rows
    <3>3. CASE ~Over(j) /\ server = "serving"
      BY <2>4, <3>1, <3>3, AgreeAfterSync, StatusNames DEF TaskCancelled
    <3>4. CASE server # "serving"
      BY <3>1, <3>4 DEF DbAgrees
    <3> QED BY <3>2, <3>3, <3>4
  <2>5. CASE CrashInCreate(j)
    BY <2>5 DEF CrashInCreate, PowerOff, DbAgrees
  <2>6. CASE PersistJobData(j) \/ TaskCloses(j) \/ RunnerStarts(j) \/ RunnerProduces(j)
             \/ RunnerStops(j) \/ GrowsOld(j) \/ Expires(j)
    <3>1. UNCHANGED <<server, outages, db, status, tracked>>
      BY <2>6 DEF PersistJobData, TaskCloses, RunnerStarts, RunnerProduces, RunnerStops,
                  GrowsOld, Expires
    <3> QED BY <3>1 DEF DbAgrees, Rows
  <2> QED
    BY <1>1, <2>1, <2>2, <2>3, <2>4, <2>5, <2>6 DEF JobStep, TaskEnds
<1>2. CASE CleanupOldJobs
  <2> DEFINE old == OldTerminal \cup Stuck
  <2> SUFFICES ASSUME outages' = 0
               PROVE Rows' = tracked' /\ \A k \in tracked' : db'[k] = status'[k]
    BY DEF DbAgrees
  <2>1. PICK lost \in SUBSET old :
          Lossy(old, lost) /\ db' = Put(Put(db, Stuck \cap Rows, "failed"), old \ lost, NoJob)
    BY <1>2 DEF CleanupOldJobs, DeleteRows
  <2>2. outages = 0 /\ lost = {}
    BY <2>1, JobAssumption DEF Lossy, TypeOK
  <2>3. Rows = tracked /\ \A k \in tracked : db[k] = status[k]
    BY <1>2, <2>2 DEF CleanupOldJobs, DbAgrees
  <2>4. /\ tracked' = tracked \ old /\ old \subseteq tracked /\ Stuck \subseteq old
        /\ status' = Put(status, Stuck, "failed")
    BY <1>2 DEF CleanupOldJobs, OldTerminal, Stuck
  <2> HIDE DEF old
  <2>5. \A k \in Jobs : db'[k] = IF k \in old THEN NoJob ELSE db[k]
    BY <2>1, <2>2, <2>4 DEF Put
  <2>6. Rows' = Rows \ old
    BY <2>5 DEF Rows
  <2> QED
    BY <2>3, <2>4, <2>5, <2>6 DEF Put, TypeOK
<1>3. CASE CrashInCleanup \/ Shutdown \/ Exit \/ Crash
  BY <1>3 DEF CrashInCleanup, Shutdown, Exit, Crash, PowerOff, DbAgrees
<1>4. CASE Restart
  <2> SUFFICES ASSUME outages' = 0
               PROVE Rows' = tracked' /\ \A k \in tracked' : db'[k] = status'[k]
    BY DEF DbAgrees
  <2>1. PICK lost : /\ Lossy(Rows, lost)
                    /\ db' = [k \in Jobs |-> IF k \in Rows \ lost
                                             THEN RestoredStatus(db[k]) ELSE db[k]]
    BY <1>4 DEF Restart
  <2>2. lost = {}
    BY <2>1, JobAssumption DEF Lossy, TypeOK
  <2>3. \A k \in Jobs : db'[k] = IF k \in Rows THEN RestoredStatus(db[k]) ELSE db[k]
    BY <2>1, <2>2
  <2>4. \A k \in Jobs : RestoredStatus(db[k]) # NoJob
    BY RestoredFacts, StatusNames DEF TypeOK
  <2>5. Rows' = Rows
    BY <2>3, <2>4 DEF Rows
  <2> QED
    BY <1>4, <2>3, <2>5 DEF Restart, Rows
<1>5. CASE UNCHANGED vars
  BY <1>5 DEF vars, DbAgrees, Rows
<1> QED
  BY <1>1, <1>2, <1>3, <1>4, <1>5 DEF Next

\* As long as no write is refused, the rows are the tracked jobs, status by status.
THEOREM DbAgreesHolds == Spec => []DbAgrees
<1>1. Init => DbAgrees
  BY DEF Init, DbAgrees, Rows, NoJob
<1>2. TypeOK /\ DbAgrees /\ [Next]_vars => DbAgrees'
  BY AgreeStep
<1> QED
  BY <1>1, <1>2, JobTypeCorrect, PTL DEF Spec

-----------------------------------------------------------------------------
(* What a completed job produced is in the database.                        *)

PersistOK(k) ==
    /\ k \in Training =>
          /\ task[k] = "awaiting" => k \in persister \cup cancelReq
          /\ status[k] = "completed" => runner[k] \in {"none", "stopped"}
          /\ status[k] = "completed" /\ db[k] # NoJob /\ k \notin persister \cup broken =>
                saved[k] = produced[k]
    /\ task[k] = "done" => k \notin persister

LEMMA PersistByJob == ASSUME TypeOK PROVE PersistInv <=> \A k \in Jobs : PersistOK(k)
BY JobAssumption DEF PersistInv, PersistOK, Rows

AllPersistOK == \A k \in Jobs : PersistOK(k)

LEMMA PersistByJobNext == TypeOK' => (PersistInv' <=> AllPersistOK')
<1>1. TypeOK => (PersistInv <=> AllPersistOK)
  BY PersistByJob DEF AllPersistOK
<1> QED
  BY <1>1, PTL

\* A job whose own part of the state, as far as PersistOK sees it, is kept.
SameData(k) ==
    /\ status'[k] = status[k] /\ db'[k] = db[k] /\ task'[k] = task[k]
    /\ runner'[k] = runner[k] /\ saved'[k] = saved[k] /\ produced'[k] = produced[k]
    /\ (k \in persister') = (k \in persister) /\ (k \in broken') = (k \in broken)
    /\ (k \in cancelReq') = (k \in cancelReq)

LEMMA SameDataOK == ASSUME NEW k \in Jobs, PersistOK(k), SameData(k) PROVE PersistOK(k)'
BY DEF PersistOK, SameData

LEMMA PersistJobStep ==
    ASSUME TypeOK, JobInv, PersistInv, NEW j \in Jobs, JobStep(j), ~CrashInCreate(j)
    PROVE  \A k \in Jobs : PersistOK(k)'
<1> USE DEF memory, phase, device, disk, clock
<1>0. \A k \in Jobs : PersistOK(k) /\ JobOK(k)
  BY JobByJob, PersistByJob
<1> DEFINE Rest == \A k \in Jobs \ {j} : SameData(k)
<1>1. ASSUME Rest, PersistOK(j)' PROVE \A k \in Jobs : PersistOK(k)'
  BY <1>0, <1>1, SameDataOK
<1> HIDE DEF Rest
<1>2. CASE CreateJob(j)
  <2>1. Rest
    BY <1>2 DEF Rest, SameData, CreateJob, TypeOK
  <2>2. PersistOK(j)'
    BY <1>0, <1>2 DEF CreateJob, TypeOK, JobOK, PersistOK, Up, Over, Terminal, NoJob, Rows
  <2> QED BY <1>1, <2>1, <2>2
<1>3. CASE CreateJobFails(j)
  <2>1. Rest
    BY <1>3 DEF Rest, SameData, CreateJobFails, TypeOK
  <2>2. PersistOK(j)'
    BY <1>0, <1>3 DEF CreateJobFails, TypeOK, JobOK, PersistOK, Up, Over, Terminal, NoJob, Rows
  <2> QED BY <1>1, <2>1, <2>2
<1>4. CASE CancelJob(j) \/ MarkJobInProgress(j)
  <2>1. PICK s \in {"in_progress", "cancelling", "cancelled"} : MarkAndSync({j}, s)
    BY <1>4 DEF CancelJob, MarkJobInProgress
  <2>2. /\ \A k \in Jobs \ {j} : status'[k] = status[k] /\ db'[k] = db[k]
        /\ status'[j] = s
    BY <2>1, MarkOne
  <2>3. /\ UNCHANGED <<task, runner, saved, produced, persister, broken>>
        /\ cancelReq \subseteq cancelReq' /\ cancelReq' \subseteq cancelReq \cup {j}
    BY <1>4 DEF CancelJob, MarkJobInProgress, CleanupJobs
  <2>4. Rest
    BY <2>2, <2>3 DEF Rest, SameData
  <2>5. PersistOK(j)'
    BY <1>0, <2>2, <2>3 DEF PersistOK
  <2> QED BY <1>1, <2>4, <2>5
<1>5. CASE PersistJobData(j)
  <2>1. Rest
    BY <1>5 DEF Rest, SameData, PersistJobData, SavePass, TypeOK
  <2>2. PersistOK(j)'
    BY <1>0, <1>5 DEF PersistJobData, PersisterLeaves, SavePass, TypeOK, JobOK, PersistOK, Up, Over, Terminal, NoJob, Rows
  <2> QED BY <1>1, <2>1, <2>2
<1>6. CASE PersistFails(j)
  <2>1. Rest
    BY <1>6 DEF Rest, SameData, PersistFails, TypeOK
  <2>2. PersistOK(j)'
    BY <1>0, <1>6 DEF PersistFails, PersisterLeaves, TypeOK, JobOK, PersistOK, Up, Over, Terminal, NoJob, Rows
  <2> QED BY <1>1, <2>1, <2>2
<1>7. CASE TaskReturns(j)
  <2>1. PICK s \in {"cancelled", "completed"} : MarkAndSync({j}, s)
    BY <1>7 DEF TaskReturns
  <2>2. /\ \A k \in Jobs \ {j} : status'[k] = status[k] /\ db'[k] = db[k]
        /\ status'[j] = s
    BY <2>1, MarkOne
  <2>3. Rest
    BY <1>7, <2>2 DEF Rest, SameData, TaskReturns, Finally, TypeOK
  <2>4. PersistOK(j)'
    BY <1>0, <1>7, <2>2 DEF TaskReturns, Finally, TypeOK, PersistOK, Up, Over, Terminal, NoJob, Rows
  <2> QED BY <1>1, <2>3, <2>4
<1>8. CASE TaskRaises(j)
  <2>1. /\ \A k \in Jobs \ {j} : status'[k] = status[k] /\ db'[k] = db[k]
        /\ status'[j] = "failed"
    BY <1>8, MarkOne DEF TaskRaises
  <2>2. Rest
    BY <1>8, <2>1 DEF Rest, SameData, TaskRaises, Finally, TypeOK
  <2>3. PersistOK(j)'
    BY <1>0, <1>8, <2>1 DEF TaskRaises, Finally, TypeOK, PersistOK, Up, Over, Terminal, NoJob, Rows
  <2> QED BY <1>1, <2>2, <2>3
<1>9. CASE TaskCancelled(j)
  <2>1. /\ \A k \in Jobs \ {j} : status'[k] = status[k] /\ db'[k] = db[k]
        /\ status'[j] # "completed"
    <3>1. CASE Over(j)
      BY <1>0, <1>9, <3>1 DEF TaskCancelled, JobOK
    <3>2. CASE ~Over(j)
      BY <1>9, <3>2, MarkOne DEF TaskCancelled
    <3> QED BY <3>1, <3>2
  <2>2. Rest
    BY <1>9, <2>1 DEF Rest, SameData, TaskCancelled, Finally, TypeOK
  <2>3. PersistOK(j)'
    BY <1>0, <1>9, <2>1 DEF TaskCancelled, Finally, TypeOK, PersistOK, Up, Over, Terminal, NoJob, Rows
  <2> QED BY <1>1, <2>2, <2>3
<1>10. CASE TaskCloses(j)
  <2>1. Rest
    BY <1>10 DEF Rest, SameData, TaskCloses, TypeOK
  <2>2. PersistOK(j)'
    BY <1>0, <1>10 DEF TaskCloses, TypeOK, PersistOK, Up, Over, Terminal, NoJob, Rows
  <2> QED BY <1>1, <2>1, <2>2
<1>11. CASE RunnerStarts(j) \/ RunnerProduces(j) \/ RunnerStops(j)
  <2>1. Rest
    BY <1>11 DEF Rest, SameData, RunnerStarts, RunnerProduces, RunnerStops, TypeOK
  <2>2. PersistOK(j)'
    BY <1>0, <1>11 DEF RunnerStarts, RunnerProduces, RunnerStops, TypeOK, PersistOK, Up, Over, Terminal, NoJob, Rows
  <2> QED BY <1>1, <2>1, <2>2
<1>12. CASE GrowsOld(j) \/ Expires(j)
  <2>1. \A k \in Jobs : SameData(k)
    BY <1>12 DEF SameData, GrowsOld, Expires
  <2> QED BY <1>0, <2>1, SameDataOK
<1> QED
  BY <1>2, <1>3, <1>4, <1>5, <1>6, <1>7, <1>8, <1>9, <1>10, <1>11, <1>12
     DEF JobStep, TaskEnds

LEMMA PersistStep == ASSUME TypeOK, JobInv, PersistInv, [Next]_vars PROVE PersistInv'
<1> USE DEF memory, phase, device, disk, clock
<1>0. TypeOK' /\ \A k \in Jobs : PersistOK(k) /\ JobOK(k)
  BY TypeStep, PersistByJob, JobByJob
<1> SUFFICES \A k \in Jobs : PersistOK(k)'
  BY <1>0, PersistByJobNext DEF AllPersistOK
<1>1. ASSUME NEW j \in Jobs, JobStep(j), ~CrashInCreate(j) PROVE \A k \in Jobs : PersistOK(k)'
  BY <1>1, PersistJobStep
<1>2. ASSUME PowerOff PROVE \A k \in Jobs : PersistOK(k)'
  BY <1>2 DEF PowerOff, Put, PersistOK, NoJob
<1>3. CASE CrashInCleanup \/ Exit \/ Crash \/ \E j \in Jobs : CrashInCreate(j)
  BY <1>2, <1>3 DEF CrashInCleanup, Exit, Crash, CrashInCreate
<1>4. CASE CleanupOldJobs
  <2>1. \A k \in Jobs : /\ status'[k] = IF k \in Stuck THEN "failed" ELSE status[k]
                        /\ cancelReq \subseteq cancelReq'
    BY <1>4 DEF CleanupOldJobs, CleanupJobs, Put
  <2>2. \A k \in Jobs : db'[k] = NoJob \/ k \in Stuck \/ (db'[k] = db[k] /\ saved'[k] = saved[k])
    <3>1. PICK lost \in SUBSET (OldTerminal \cup Stuck) :
            /\ db' = Put(Put(db, Stuck \cap Rows, "failed"), (OldTerminal \cup Stuck) \ lost, NoJob)
            /\ saved' = Put(saved, (OldTerminal \cup Stuck) \ lost, 0)
      BY <1>4 DEF CleanupOldJobs, DeleteRows
    <3> QED BY <3>1 DEF Put
  <2>3. UNCHANGED <<task, runner, produced, persister, broken>>
    BY <1>4 DEF CleanupOldJobs
  <2> QED
    BY <1>0, <2>1, <2>2, <2>3 DEF PersistOK
<1>5. CASE Shutdown
  <2> DEFINE live == {j \in tracked : ~Over(j)}
  <2>1. MarkAndSync(live, "cancelling") /\ live \in SUBSET Jobs
    BY <1>5 DEF Shutdown, TypeOK
  <2>2. /\ cancelReq \subseteq cancelReq'
        /\ UNCHANGED <<task, runner, produced, persister, broken, saved>>
    BY <1>5 DEF Shutdown, CleanupJobs
  <2> HIDE DEF live
  <2>3. \A k \in Jobs : /\ status'[k] = IF k \in live THEN "cancelling" ELSE status[k]
                        /\ db'[k] = db[k] \/ (k \in live /\ k \in Rows /\ db'[k] = "cancelling")
    BY <2>1, SyncFacts, StatusNames
  <2> QED
    BY <1>0, <2>2, <2>3 DEF PersistOK
<1>6. CASE Restart
  <2>1. ASSUME NEW k \in Jobs PROVE PersistOK(k)'
    BY <1>0, <1>6, <2>1 DEF Restart, JobOK, PersistOK, Up, TypeOK
  <2> QED BY <2>1
<1>7. CASE UNCHANGED vars
  <2>1. \A k \in Jobs : SameData(k)
    BY <1>7 DEF vars, SameData
  <2> QED BY <1>0, <2>1, SameDataOK
<1> QED
  BY <1>1, <1>3, <1>4, <1>5, <1>6, <1>7 DEF Next

\* When the coroutine of a completed training job has ended, the database holds
\* everything the runner produced.
THEOREM FinishedDataSavedHolds == Spec => []FinishedDataSaved
<1>1. Init => PersistInv
  BY JobAssumption DEF Init, PersistInv, NoJob
<1>2. TypeOK /\ JobInv /\ PersistInv /\ [Next]_vars => PersistInv'
  BY PersistStep
<1>3. PersistInv => FinishedDataSaved
  BY JobAssumption DEF PersistInv, FinishedDataSaved
<1> QED
  BY <1>1, <1>2, <1>3, JobInvHolds, PTL DEF Spec

-----------------------------------------------------------------------------
(* The files of completed video jobs.                                       *)

\* What can say completed, now or after a restart, has its file or has expired.
FileKept(k) ==
    status[k] = "completed" \/ db[k] = "completed" \/ runner[k] = "stopped" =>
        k \in asset \cup expired

FileInv == \A k \in Jobs \ Training : FileKept(k)

\* No step takes a file away before its job's retention is over.
LEMMA FilesLast ==
    ASSUME TypeOK, [Next]_vars, NEW k \in Jobs, k \in asset \cup expired
    PROVE  k \in asset' \cup expired'
<1> USE DEF phase, memory, device, disk, clock
<1>1. FilesOf(OldTerminal \cup Stuck) \subseteq expired
  BY DEF FilesOf, OldTerminal, Stuck
<1>2. CASE CleanupOldJobs \/ CrashInCleanup
  BY <1>1, <1>2 DEF CleanupOldJobs, CrashInCleanup, PowerOff
<1>3. CASE ~(CleanupOldJobs \/ CrashInCleanup)
  <2>1. asset \subseteq asset' /\ expired \subseteq expired'
    <3>1. ASSUME NEW j \in Jobs, JobStep(j) PROVE asset \subseteq asset' /\ expired \subseteq expired'
      BY <3>1 DEF JobStep, TaskEnds, CreateJob, CreateJobFails, CancelJob, MarkJobInProgress,
         PersistJobData, PersistFails, TaskReturns, TaskRaises, TaskCancelled, TaskCloses,
         RunnerStarts, RunnerProduces, RunnerStops, GrowsOld, Expires, CrashInCreate, PowerOff
    <3>2. CASE Shutdown \/ Exit \/ Crash \/ Restart \/ UNCHANGED vars
      BY <3>2 DEF Shutdown, Exit, Crash, Restart, PowerOff, vars
    <3> QED
      BY <1>3, <3>1, <3>2 DEF Next
  <2> QED
    BY <2>1
<1> QED
  BY <1>2, <1>3

\* Nothing says completed that did not, nor might, say so before; a video's runner
\* stops with the file written.
LEMMA CompletedFrom ==
    ASSUME TypeOK, [Next]_vars, NEW k \in Jobs \ Training,
           status'[k] = "completed" \/ db'[k] = "completed" \/ runner'[k] = "stopped"
    PROVE  \/ status[k] = "completed" \/ db[k] = "completed" \/ runner[k] = "stopped"
           \/ k \in asset'
<1> USE DEF phase, memory, device, disk, clock
<1> DEFINE Before == status[k] = "completed" \/ db[k] = "completed" \/ runner[k] = "stopped"
<1>0. ASSUME NEW S \in SUBSET Jobs, NEW s \in Statuses \ {NoJob}, s # "completed",
             MarkAndSync(S, s), runner' = runner
      PROVE  Before
  BY <1>0, SyncFacts
<1>1. ASSUME NEW j \in Jobs, JobStep(j) PROVE Before \/ k \in asset'
  <2>1. CASE CancelJob(j) \/ MarkJobInProgress(j) \/ TaskRaises(j) \/ (TaskCancelled(j) /\ ~Over(j))
    <3>1. PICK s \in {"in_progress", "cancelling", "cancelled", "failed"} :
             MarkAndSync({j}, s) /\ runner' = runner
      BY <2>1 DEF CancelJob, MarkJobInProgress, TaskRaises, TaskCancelled
    <3>2. {j} \in SUBSET Jobs /\ s \in Statuses \ {NoJob} /\ s # "completed"
      BY StatusNames
    <3> QED
      BY <1>0, <3>1, <3>2
  <2>2. CASE TaskReturns(j)
    <3>1. CASE k = j
      BY <2>2, <3>1 DEF TaskReturns
    <3>2. CASE k # j
      <4>1. PICK s \in {"cancelled", "completed"} : MarkAndSync({j}, s)
        BY <2>2 DEF TaskReturns
      <4>2. status'[k] = status[k] /\ db'[k] = db[k]
        BY <3>2, <4>1, MarkOne
      <4> QED
        BY <2>2, <4>2 DEF TaskReturns
    <3> QED
      BY <3>1, <3>2
  <2>3. CASE CreateJob(j) \/ CreateJobFails(j)
    BY <2>3 DEF CreateJob, CreateJobFails, TypeOK
  <2>4. CASE RunnerStarts(j) \/ RunnerProduces(j) \/ RunnerStops(j)
    BY <2>4 DEF RunnerStarts, RunnerProduces, RunnerStops, TypeOK
  <2>5. CASE \/ PersistJobData(j) \/ PersistFails(j) \/ TaskCloses(j) \/ GrowsOld(j)
             \/ Expires(j) \/ (TaskCancelled(j) /\ Over(j))
    BY <2>5 DEF PersistJobData, PersistFails, TaskCloses, GrowsOld, Expires, TaskCancelled
  <2>6. CASE CrashInCreate(j)
    BY <2>6 DEF CrashInCreate, PowerOff, Put, NoJob, TypeOK
  <2> QED
    BY <1>1, <2>1, <2>2, <2>3, <2>4, <2>5, <2>6 DEF JobStep, TaskEnds
<1>2. CASE CleanupOldJobs
  <2>1. PICK lost \in SUBSET (OldTerminal \cup Stuck) :
            db' = Put(Put(db, Stuck \cap Rows, "failed"), (OldTerminal \cup Stuck) \ lost, NoJob)
    BY <1>2 DEF CleanupOldJobs, DeleteRows
  <2>2. db'[k] \in {NoJob, "failed", db[k]} /\ status'[k] \in {"failed", status[k]}
    BY <1>2, <2>1 DEF CleanupOldJobs, Put
  <2> QED
    BY <1>2, <2>2 DEF CleanupOldJobs, NoJob
<1>3. CASE CrashInCleanup
  <2>1. PICK left \in SUBSET (OldTerminal \cup Stuck) :
            db' = Put(Put(db, Stuck \cap Rows, "failed"), (OldTerminal \cup Stuck) \ left, NoJob)
    BY <1>3 DEF CrashInCleanup
  <2>2. db'[k] \in {NoJob, "failed", db[k]} /\ status'[k] = NoJob /\ runner'[k] = "none"
    BY <1>3, <2>1 DEF CrashInCleanup, PowerOff, Put
  <2> QED
    BY <2>2 DEF NoJob
<1>4. CASE Shutdown
  <2>1. {j \in tracked : ~Over(j)} \in SUBSET Jobs /\ "cancelling" \in Statuses \ {NoJob}
    BY StatusNames DEF TypeOK
  <2>2. MarkAndSync({j \in tracked : ~Over(j)}, "cancelling") /\ runner' = runner
    BY <1>4 DEF Shutdown
  <2> QED
    BY <1>0, <2>1, <2>2
<1>5. CASE Exit \/ Crash
  BY <1>5 DEF Exit, Crash, PowerOff, Put, NoJob
<1>6. CASE Restart
  <2>1. RestoredStatus(db[k]) = "completed" => db[k] = "completed"
    BY DEF RestoredStatus
  <2>2. /\ status'[k] \in {NoJob, RestoredStatus(db[k])}
        /\ db'[k] \in {db[k], RestoredStatus(db[k])} /\ runner' = runner
    BY <1>6 DEF Restart
  <2> QED
    BY <2>1, <2>2 DEF NoJob
<1>7. CASE UNCHANGED vars
  BY <1>7 DEF vars
<1> QED
  BY <1>1, <1>2, <1>3, <1>4, <1>5, <1>6, <1>7 DEF Next

\* A video job reported as completed has its file until its retention is over.
THEOREM FileThereHolds == Spec => []FileThere
<1>1. Init => FileInv
  BY DEF Init, FileInv, FileKept, NoJob
<1>2. TypeOK /\ FileInv /\ [Next]_vars => FileInv'
  <2> SUFFICES ASSUME TypeOK, FileInv, [Next]_vars, NEW k \in Jobs \ Training PROVE FileKept(k)'
    BY DEF FileInv
  <2> QED
    BY FilesLast, CompletedFrom DEF FileInv, FileKept
<1>3. TypeOK /\ FileInv => FileThere
  BY DEF TypeOK, FileInv, FileKept, FileThere
<1> QED
  BY <1>1, <1>2, <1>3, JobTypeCorrect, PTL DEF Spec

=============================================================================
