----------------------------- MODULE JobManager -----------------------------
(***************************************************************************)
(* The asynchronous job manager of tt-media-server                         *)
(* (utils/job_manager.py) with its SQLite mirror (utils/job_database.py).  *)
(*                                                                         *)
(* Everything the manager does runs on one asyncio loop, so an action is   *)
(* the code between two awaits.  One job is four concurrent activities:    *)
(* the coroutine _process_job, its progress monitor, its data persister    *)
(* and, in another process, the runner that shares two events and a list   *)
(* of metrics with it.  HTTP handlers, the cleanup loop, shutdown, a       *)
(* failing database and a killed server interleave with all four.          *)
(***************************************************************************)
EXTENDS Integers, FiniteSets

CONSTANTS
    Jobs,         \* job ids; a request carries a fresh uuid, so each is used once
    Training,     \* the jobs made by TrainingService; the others are video jobs
    MaxJobs,      \* settings.max_jobs
    MaxItems,     \* bound: metrics, logs and checkpoints one run produces
    MaxCrashes,   \* bound: how often the server is killed
    MaxOutages    \* bound: how often the database refuses writes

ASSUME JobAssumption ==
    /\ Training \subseteq Jobs
    /\ MaxJobs \in Nat \ {0}
    /\ {MaxItems, MaxCrashes, MaxOutages} \subseteq Nat

VARIABLES
    server,      \* "off", "serving", or "stopping" (inside shutdown)
    issued,      \* ids already given to a request
    tracked,     \* keys of _jobs
    status,      \* status of the Job object, NoJob when there is none
    task,        \* _process_job: "none", "awaiting", "closing", "done"
    cancelReq,   \* tasks with a cancel() that has not been delivered
    monitor,     \* jobs whose _mark_job_in_progress has not finished
    persister,   \* jobs whose _persist_job_data_to_db has not finished
    broken,      \* persisters that gave their streams up after an error
    started,     \* start_event is set
    cancelEv,    \* cancel_event is set
    runner,      \* device side: "none", "waiting", "running", "stopped"
    produced,    \* length of the shared list of metrics
    db,          \* status column of the job's row, NoJob when there is no row
    saved,       \* how many of the produced items the database holds
    asset,       \* jobs whose video file is on disk
    aged,        \* created_at is older than job_max_stuck_time_seconds
    expired,     \* completed_at is older than job_retention_seconds
    gathered,    \* jobs whose tasks shutdown waits for
    promised,    \* history: cancel_job answered with the job's metadata
    crashes, outages

phase  == <<server, gathered>>
memory == <<tracked, status, task, cancelReq, monitor, persister, broken>>
device == <<started, cancelEv, runner, produced>>
disk   == <<db, saved, asset, outages>>
clock  == <<aged, expired>>
vars   == <<phase, issued, memory, device, disk, clock, promised, crashes>>

NoJob    == "none"
Terminal == {"completed", "failed", "cancelled"}
Active   == {"queued", "in_progress", "cancelling"}
Statuses == Terminal \cup Active \cup {NoJob}

TypeOK ==
    /\ server \in {"off", "serving", "stopping"}
    /\ {issued, tracked, cancelReq, monitor, persister, broken, started,
        cancelEv, asset, aged, expired, gathered, promised} \subseteq SUBSET Jobs
    /\ status \in [Jobs -> Statuses] /\ db \in [Jobs -> Statuses]
    /\ task \in [Jobs -> {"none", "awaiting", "closing", "done"}]
    /\ runner \in [Jobs -> {"none", "waiting", "running", "stopped"}]
    /\ produced \in [Jobs -> 0..MaxItems] /\ saved \in [Jobs -> 0..MaxItems]
    /\ crashes \in 0..MaxCrashes /\ outages \in 0..MaxOutages

Init ==
    /\ server = "serving"
    /\ issued = {} /\ tracked = {} /\ gathered = {} /\ promised = {}
    /\ status = [j \in Jobs |-> NoJob] /\ db = [j \in Jobs |-> NoJob]
    /\ task = [j \in Jobs |-> "none"] /\ runner = [j \in Jobs |-> "none"]
    /\ cancelReq = {} /\ monitor = {} /\ persister = {} /\ broken = {}
    /\ started = {} /\ cancelEv = {} /\ asset = {}
    /\ produced = [j \in Jobs |-> 0] /\ saved = [j \in Jobs |-> 0]
    /\ aged = {} /\ expired = {}
    /\ crashes = 0 /\ outages = 0

-----------------------------------------------------------------------------
(* Helpers.                                                                *)

Up          == server # "off"
Over(j)     == status[j] \in Terminal
TaskLive(j) == task[j] \in {"awaiting", "closing"}

\* f with the value v at every member of S.
Put(f, S, v) == [j \in Jobs |-> IF j \in S THEN v ELSE f[j]]

\* A batch of database writes: an outage swallows any of those in S, and the
\* manager only logs the error.
Lossy(S, lost) ==
    /\ lost \subseteq S
    /\ lost # {} => outages < MaxOutages
    /\ outages' = IF lost = {} THEN outages ELSE outages + 1

\* update_job_status is an UPDATE by id: without a row it changes nothing.
Rows == {j \in Jobs : db[j] # NoJob}

\* status of the jobs in S becomes s, in memory and then in the database.
MarkAndSync(S, s) ==
    /\ status' = Put(status, S, s)
    /\ \E lost \in SUBSET S :
          /\ Lossy(S, lost)
          /\ db' = Put(db, (S \ lost) \cap Rows, s)

\* _cleanup_job: a live task has its cancel_event set, and is cancelled when
\* there is no event or the caller insists.
CleanupJobs(S, force) ==
    LET live == {j \in S : TaskLive(j)} IN
    /\ cancelEv' = cancelEv \cup (live \cap Training)
    /\ cancelReq' = cancelReq \cup (IF force THEN live ELSE live \ Training)

\* Jobs the cleanup takes for stuck.  Their age counts from created_at.
Stuck == {j \in tracked : status[j] \in {"in_progress", "cancelling"} /\ j \in aged}

-----------------------------------------------------------------------------
(* Deliberately wrong variants of the helpers below; no action uses them.    *)

CancelsNow_Never(j) == FALSE

SavePass_NotWhenOver(j) ==
    IF Over(j) THEN saved
    ELSE [saved EXCEPT ![j] = IF j \in Rows \ broken THEN produced[j] ELSE @]

PersisterLeaves_OnlyCompleted(j) == status[j] = "completed"

Finally_LeavesMonitor(j) ==
    /\ UNCHANGED monitor
    /\ task' = [task EXCEPT ![j] = IF j \in persister THEN "closing" ELSE "done"]

OldTerminal_Any == {j \in tracked : Over(j)}

OldTerminal_NotCancelled ==
    {j \in tracked : status[j] \in {"completed", "failed"} /\ j \in expired}

DeleteRows_Never(old) ==
    db' = Put(db, Stuck \cap Rows, "failed") /\ UNCHANGED <<saved, outages>>

RestoredStatus_KeepsQueued(s) ==
    CASE s \in Terminal \cup {"queued"} -> s
      [] s = "cancelling" -> "cancelled"
      [] OTHER -> "failed"

-----------------------------------------------------------------------------
(* Guards and pieces of the handlers.                                      *)

\* settings.max_jobs is tested before a job is added.
HasSlot == Cardinality(tracked) < MaxJobs

\* A job that has not started is cancelled at once.
CancelsNow(j) == status[j] = "queued"

\* One pass over the streams.  Without a row the foreign key refuses the items,
\* which the code takes for duplicates and skips.
SavePass(j) == [saved EXCEPT ![j] = IF j \in Rows \ broken THEN produced[j] ELSE @]

\* The persister's exit test, made after the pass.
PersisterLeaves(j) == Over(j)

\* An exception sets cancel_event, if the job has one.
EventsSetOnError(j) == {j} \cap Training

\* The finally block of _process_job: stop the monitor, wait for the persister.
Finally(j) ==
    /\ monitor' = monitor \ {j}
    /\ task' = [task EXCEPT ![j] = IF j \in persister THEN "closing" ELSE "done"]

OldTerminal == {j \in tracked : Over(j) /\ j \in expired}

\* The rows of old are deleted, a stuck job's after its status was synced.
DeleteRows(old) ==
    \E lost \in SUBSET old :
        /\ Lossy(old, lost)
        /\ db' = Put(Put(db, Stuck \cap Rows, "failed"), old \ lost, NoJob)
        /\ saved' = Put(saved, old \ lost, 0)

\* What a restart makes of a row that says s.
RestoredStatus(s) ==
    CASE s \in Terminal -> s
      [] s = "cancelling" -> "cancelled"
      [] OTHER -> "failed"

-----------------------------------------------------------------------------
(* Requests.                                                               *)

\* create_job, up to the first await of the tasks it starts: the ready queue
\* runs them before any other handler can know the id.
CreateJob(j) ==
    /\ server = "serving" /\ j \notin issued
    /\ HasSlot
    /\ issued' = issued \cup {j} /\ tracked' = tracked \cup {j}
    /\ status' = [status EXCEPT ![j] = "queued"]
    /\ db' = [db EXCEPT ![j] = "queued"]
    /\ task' = [task EXCEPT ![j] = "awaiting"]
    /\ runner' = [runner EXCEPT ![j] = "waiting"]
    /\ monitor' = monitor \cup {j}
    /\ persister' = persister \cup ({j} \cap Training)
    /\ UNCHANGED <<phase, cancelReq, broken, started, cancelEv, produced,
                   saved, asset, outages, clock, promised, crashes>>

\* insert_job committed and update_result_path failed: the caller gets the
\* error, memory has no job, and the row stays.
CreateJobFails(j) ==
    /\ server = "serving" /\ j \in Training \ issued
    /\ HasSlot /\ outages < MaxOutages
    /\ issued' = issued \cup {j}
    /\ db' = [db EXCEPT ![j] = "queued"]
    /\ outages' = outages + 1
    /\ UNCHANGED <<phase, memory, device, saved, asset, clock, promised, crashes>>

CancelJob(j) ==
    /\ server = "serving" /\ j \in tracked /\ ~Over(j)
    /\ CleanupJobs({j}, CancelsNow(j))
    /\ MarkAndSync({j}, IF CancelsNow(j) THEN "cancelled" ELSE "cancelling")
    /\ promised' = promised \cup {j}
    /\ UNCHANGED <<phase, issued, tracked, task, monitor, persister, broken,
                   started, runner, produced, saved, asset, clock, crashes>>

-----------------------------------------------------------------------------
(* The progress monitor, the persister and the coroutine of a job.         *)

\* _mark_job_in_progress: polls start_event when there is one.  The status it
\* overwrites is not looked at.
MarkJobInProgress(j) ==
    /\ Up /\ j \in monitor
    /\ j \in Training => j \in started
    /\ MarkAndSync({j}, "in_progress")
    /\ monitor' = monitor \ {j}
    /\ UNCHANGED <<phase, issued, tracked, task, cancelReq, persister, broken,
                   device, saved, asset, clock, promised, crashes>>

\* One round of the loop of _persist_job_data_to_db.
PersistJobData(j) ==
    /\ Up /\ j \in persister
    /\ saved' = SavePass(j)
    /\ persister' = IF PersisterLeaves(j) THEN persister \ {j} ELSE persister
    /\ UNCHANGED <<phase, issued, tracked, status, task, cancelReq, monitor,
                   broken, device, db, asset, outages, clock, promised, crashes>>

\* An insert fails for another reason: the stream is not tried again.
PersistFails(j) ==
    /\ Up /\ j \in persister \ broken /\ outages < MaxOutages
    /\ saved[j] < produced[j]
    /\ broken' = broken \cup {j} /\ outages' = outages + 1
    /\ persister' = IF PersisterLeaves(j) THEN persister \ {j} ELSE persister
    /\ UNCHANGED <<phase, issued, tracked, status, task, cancelReq, monitor,
                   device, db, saved, asset, clock, promised, crashes>>

\* task_function returned the runner's result.
TaskReturns(j) ==
    /\ Up /\ task[j] = "awaiting" /\ j \notin cancelReq
    /\ runner[j] = "stopped"
    /\ MarkAndSync({j}, IF status[j] = "cancelling" THEN "cancelled" ELSE "completed")
    /\ Finally(j)
    /\ UNCHANGED <<phase, issued, tracked, cancelReq, persister, broken,
                   device, saved, asset, clock, promised, crashes>>

\* task_function raised: the queue was full, the runner failed, or nothing
\* came within request_processing_timeout_seconds.
TaskRaises(j) ==
    /\ Up /\ task[j] = "awaiting" /\ j \notin cancelReq
    /\ MarkAndSync({j}, "failed")
    /\ cancelEv' = cancelEv \cup EventsSetOnError(j)
    /\ Finally(j)
    /\ UNCHANGED <<phase, issued, tracked, cancelReq, persister, broken, started,
                   runner, produced, saved, asset, clock, promised, crashes>>

\* The CancelledError reaches _process_job.
TaskCancelled(j) ==
    /\ Up /\ task[j] = "awaiting" /\ j \in cancelReq
    /\ IF Over(j) THEN UNCHANGED <<status, db, outages>>
                  ELSE MarkAndSync({j}, "cancelled")
    /\ cancelEv' = cancelEv \cup ({j} \cap Training)
    /\ cancelReq' = cancelReq \ {j}
    /\ Finally(j)
    /\ UNCHANGED <<phase, issued, tracked, persister, broken, started, runner,
                   produced, saved, asset, clock, promised, crashes>>

\* The await of the persister in the finally block returns.
TaskCloses(j) ==
    /\ Up /\ task[j] = "closing" /\ j \notin persister
    /\ task' = [task EXCEPT ![j] = "done"]
    /\ UNCHANGED <<phase, issued, tracked, status, cancelReq, monitor, persister,
                   broken, device, disk, clock, promised, crashes>>

-----------------------------------------------------------------------------
(* The runner, in its own process behind the scheduler's queues: it takes   *)
(* the request whether or not the job still wants it, sets start_event,     *)
(* appends to the shared list and stops when it is finished or told to.     *)

RunnerStarts(j) ==
    /\ Up /\ runner[j] = "waiting"
    /\ runner' = [runner EXCEPT ![j] = "running"]
    /\ started' = started \cup ({j} \cap Training)
    /\ UNCHANGED <<phase, issued, memory, cancelEv, produced, disk, clock,
                   promised, crashes>>

RunnerProduces(j) ==
    /\ Up /\ runner[j] = "running" /\ j \in Training /\ produced[j] < MaxItems
    /\ produced' = [produced EXCEPT ![j] = @ + 1]
    /\ UNCHANGED <<phase, issued, memory, started, cancelEv, runner, disk, clock,
                   promised, crashes>>

\* The file of a video is on disk before the runner answers with its path.
RunnerStops(j) ==
    /\ Up /\ runner[j] = "running"
    /\ runner' = [runner EXCEPT ![j] = "stopped"]
    /\ asset' = asset \cup ({j} \ Training)
    /\ UNCHANGED <<phase, issued, memory, started, cancelEv, produced, db, saved,
                   outages, clock, promised, crashes>>

-----------------------------------------------------------------------------
(* Time, as far as _cleanup_old_jobs can tell it.                          *)

GrowsOld(j) ==
    /\ j \in tracked \ aged
    /\ aged' = aged \cup {j}
    /\ UNCHANGED <<phase, issued, memory, device, disk, expired,
                   promised, crashes>>

Expires(j) ==
    /\ j \in tracked \ expired /\ Over(j)
    /\ expired' = expired \cup {j}
    /\ UNCHANGED <<phase, issued, memory, device, disk, aged,
                   promised, crashes>>

\* The process ends: its objects, its tasks and its children with it.
PowerOff ==
    /\ server' = "off"
    /\ status' = Put(status, Jobs, NoJob) /\ task' = Put(task, Jobs, "none")
    /\ runner' = Put(runner, Jobs, "none") /\ produced' = Put(produced, Jobs, 0)
    /\ tracked' = {} /\ cancelReq' = {} /\ monitor' = {} /\ persister' = {}
    /\ broken' = {} /\ gathered' = {} /\ started' = {} /\ cancelEv' = {}
    /\ UNCHANGED <<clock, promised>>

\* The files os.remove can delete: a training job's result_path is a directory,
\* and a video job has one only once it has completed.
FilesOf(S) == {j \in S \ Training : status[j] = "completed"}

\* _cleanup_old_jobs: force-cancel and fail the stuck jobs, delete the result
\* files, then forget memory and row.  A delete may be refused.
CleanupOldJobs ==
    LET old == OldTerminal \cup Stuck IN
    /\ server = "serving" /\ old # {}
    /\ CleanupJobs(Stuck, TRUE)
    /\ status' = Put(status, Stuck, "failed")
    /\ asset' = asset \ FilesOf(old)
    /\ tracked' = tracked \ old
    /\ DeleteRows(old)
    /\ UNCHANGED <<phase, issued, task, monitor, persister, broken, started,
                   runner, produced, clock, promised, crashes>>

-----------------------------------------------------------------------------
(* Shutdown, crash and restart.                                            *)

\* Killed inside _cleanup_old_jobs: the files are gone, some rows remain.
CrashInCleanup ==
    LET old == OldTerminal \cup Stuck IN
    /\ server = "serving" /\ old # {} /\ crashes < MaxCrashes
    /\ crashes' = crashes + 1
    /\ asset' = asset \ FilesOf(old)
    /\ \E left \in SUBSET old :
          /\ db' = Put(Put(db, Stuck \cap Rows, "failed"), old \ left, NoJob)
          /\ saved' = Put(saved, old \ left, 0)
    /\ PowerOff
    /\ UNCHANGED <<issued, outages>>

\* shutdown: every active job is marked, synced and force-cancelled; nothing
\* is tracked any more; the tasks just cancelled are then gathered.
Shutdown ==
    LET live == {j \in tracked : ~Over(j)} IN
    /\ server = "serving"
    /\ server' = "stopping"
    /\ MarkAndSync(live, "cancelling")
    /\ CleanupJobs(live, TRUE)
    /\ tracked' = {} /\ gathered' = live
    /\ UNCHANGED <<issued, task, monitor, persister, broken, started, runner,
                   produced, saved, asset, clock, promised, crashes>>

\* shutdown returned: every gathered task is done.  The tasks of jobs that were
\* over before were not gathered, and end here wherever they are.
Exit ==
    /\ server = "stopping"
    /\ \A j \in gathered : ~TaskLive(j)
    /\ PowerOff
    /\ UNCHANGED <<issued, disk, crashes>>

Crash ==
    /\ Up /\ crashes < MaxCrashes
    /\ crashes' = crashes + 1
    /\ PowerOff
    /\ UNCHANGED <<issued, disk>>

\* Killed inside create_job, between the insert and the answer.
CrashInCreate(j) ==
    /\ server = "serving" /\ j \notin issued
    /\ HasSlot /\ crashes < MaxCrashes
    /\ issued' = issued \cup {j}
    /\ db' = [db EXCEPT ![j] = "queued"]
    /\ crashes' = crashes + 1
    /\ PowerOff
    /\ UNCHANGED <<saved, asset, outages>>

\* _restore_jobs_from_db: whatever was not finished is closed, in memory and in
\* its row.
Restart ==
    /\ server = "off"
    /\ server' = "serving"
    /\ tracked' = Rows
    /\ status' = [j \in Jobs |-> IF j \in Rows THEN RestoredStatus(db[j]) ELSE NoJob]
    /\ produced' = saved
    /\ \E lost \in SUBSET {j \in Rows : db[j] \notin Terminal} :
          /\ Lossy(Rows, lost)
          /\ db' = [j \in Jobs |-> IF j \in Rows \ lost THEN RestoredStatus(db[j]) ELSE db[j]]
    /\ UNCHANGED <<gathered, issued, task, cancelReq, monitor, persister, broken, started,
                   cancelEv, runner, saved, asset, clock, promised, crashes>>

-----------------------------------------------------------------------------

TaskEnds(j) == TaskReturns(j) \/ TaskRaises(j) \/ TaskCancelled(j)

JobStep(j) ==
    \/ CreateJob(j) \/ CreateJobFails(j) \/ CancelJob(j)
    \/ MarkJobInProgress(j) \/ PersistJobData(j) \/ PersistFails(j)
    \/ TaskEnds(j) \/ TaskCloses(j)
    \/ RunnerStarts(j) \/ RunnerProduces(j) \/ RunnerStops(j)
    \/ GrowsOld(j) \/ Expires(j)
    \/ CrashInCreate(j)

Next ==
    \/ \E j \in Jobs : JobStep(j)
    \/ CleanupOldJobs \/ CrashInCleanup
    \/ Shutdown \/ Exit \/ Crash \/ Restart

Spec == Init /\ [][Next]_vars

\* A ready coroutine is run by the loop; task_function always ends, by its
\* timeout if not before; time passes and the cleanup loop comes round.  The
\* runner, and whoever starts the server again, are promised nothing.
Fairness ==
    /\ \A j \in Jobs :
          /\ WF_vars(MarkJobInProgress(j)) /\ WF_vars(PersistJobData(j))
          /\ WF_vars(TaskEnds(j)) /\ WF_vars(TaskCloses(j))
          /\ WF_vars(GrowsOld(j)) /\ WF_vars(Expires(j))
    /\ WF_vars(CleanupOldJobs) /\ WF_vars(Exit)

FairSpec == Spec /\ Fairness

-----------------------------------------------------------------------------
(* Safety.                                                                 *)

\* As long as no write was refused, the rows of the database are exactly the
\* jobs in memory, each with the status memory has: every handler that changes
\* one (create, cancel, the monitor, the four ends of _process_job, cleanup,
\* restore) changes the other before the next await.
DbAgrees ==
    server = "serving" /\ outages = 0 =>
        /\ Rows = tracked
        /\ \A j \in tracked : db[j] = status[j]

\* An unfinished job always has the coroutine that will finish it: no path
\* (a restart above all, which has no coroutines to give) leaves a job that
\* clients poll for ever.
ActiveHasTask ==
    \A j \in tracked : ~Over(j) => task[j] = "awaiting"

\* A job whose cancellation was acknowledged is never reported as completed,
\* whatever the monitor, the runner's late answer, the cleanup, a crash and a
\* restart do in between.
CancelNeverCompletes ==
    \A j \in promised : status[j] # "completed" /\ db[j] # "completed"

\* When the coroutine of a completed training job has ended, the database
\* holds all the runner produced: the persister's last pass comes after it.
FinishedDataSaved ==
    \A j \in (Training \cap Rows) \ broken :
        status[j] = "completed" /\ task[j] = "done" => saved[j] = produced[j]

\* A training run whose job is over has been told to stop, by whichever of the
\* five paths the job ended; otherwise the device trains for nobody.
NoRunawayRunner ==
    \A j \in Training :
        Over(j) /\ runner[j] \in {"waiting", "running"} => j \in cancelEv

\* A video job reported as completed has its file until its retention is over,
\* whatever a cleanup that was killed or refused and a restart left behind.
FileThere ==
    \A j \in tracked \ Training :
        status[j] = "completed" => j \in asset \cup expired

-----------------------------------------------------------------------------
(* The inductive invariant behind them.                                     *)

\* A dead server has no coroutines and no runners; an id nobody was given has
\* left no trace.
OffIsEmpty ==
    ~Up => /\ tracked = {} /\ monitor = {} /\ persister = {}
           /\ \A j \in Jobs : task[j] = "none" /\ runner[j] = "none" /\ status[j] = NoJob

KnownIds ==
    /\ promised \cup monitor \cup persister \cup tracked \subseteq issued
    /\ \A j \in Jobs \ issued :
          /\ status[j] = NoJob /\ db[j] = NoJob
          /\ task[j] = "none" /\ runner[j] = "none"

\* A live monitor belongs to a waiting coroutine that is queued or about to be
\* cancelled.
MonitorOwned ==
    \A j \in monitor :
        task[j] = "awaiting" /\ (status[j] = "queued" \/ j \in cancelReq)

\* A waiting coroutine whose job was cancelled or is over already has its
\* cancellation pending, so that no answer of the runner can overtake it.
CancelPending ==
    \A j \in Jobs : task[j] = "awaiting" =>
        /\ j \in promised => status[j] = "cancelling" \/ j \in cancelReq
        /\ Over(j) => status[j] # "completed" /\ j \in cancelReq

ClosingIsOver == \A j \in Jobs : task[j] = "closing" => Over(j)

\* The database does not call a job completed before memory does, and a waiting
\* coroutine has a job.
RowNotAhead ==
    \A j \in Jobs :
        /\ db[j] = "completed" => status[j] \in {"completed", NoJob}
        /\ task[j] = "awaiting" => status[j] # NoJob

JobInv ==
    /\ OffIsEmpty /\ KnownIds
    /\ MonitorOwned /\ CancelPending /\ ClosingIsOver /\ RowNotAhead
    /\ ActiveHasTask /\ CancelNeverCompletes /\ NoRunawayRunner

\* What FinishedDataSaved needs.  The persister of a waiting coroutine leaves
\* early only if the coroutine is about to be cancelled, so it is there when the
\* runner's answer comes; by then the runner produces no more; and a persister
\* that has left a completed job behind had saved everything.
PersistInv ==
    /\ \A j \in Training :
          /\ task[j] = "awaiting" => j \in persister \cup cancelReq
          /\ status[j] = "completed" => runner[j] \in {"none", "stopped"}
          /\ status[j] = "completed" /\ j \in Rows \ (persister \cup broken) =>
                saved[j] = produced[j]
    /\ \A j \in Jobs : task[j] = "done" => j \notin persister

-----------------------------------------------------------------------------
(* What a step may never do.                                               *)

\* Once a job's coroutine has let go of it, its status never changes while the
\* server lives: the monitor cannot bring a finished job back.
SettledStays ==
    [][\A j \in Jobs : task[j] \in {"closing", "done"} /\ server' # "off" =>
          status'[j] = status[j]]_vars

-----------------------------------------------------------------------------
(* Liveness.                                                               *)

\* Every coroutine ends: none waits for a persister that waits for it.
EveryTaskEnds ==
    \A j \in Jobs : TaskLive(j) ~> ~TaskLive(j)

\* A full job table does not stay full.
SlotsFreed == Cardinality(tracked) = MaxJobs ~> Cardinality(tracked) < MaxJobs

=============================================================================
