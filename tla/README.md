# TLA+ models of tt-inference-server

This directory holds a verification project for the serving core of the repository: TLA+ specifications of the
components whose correctness depends on the order in which processes, threads, coroutines and messages meet, the TLC
configurations that model-check them, and TLAPS proofs of what matters most for every value of the constants. Paths
below are relative to the repository's `tt-media-server/` unless they say otherwise.

Contents: 1 the system and its inventory; 2 the modules and how they correspond to the code; 3 the runs; 4 fairness;
5 the proofs; 6 where code and documentation disagree; 7 what is not modelled; 8 the plan.

To check: `tlc -config <cfg> <module>.tla` for a run of section 3 (`PROJECT.json` names the module of each), `tlapm
<module>Proofs.tla` for a proof module (`HealthProofs` is that of `CanaryMonitor` and `WorkerPool`; a proof module takes between
some seconds and ten minutes).

## 1. The system

The repository serves models on Tenstorrent devices. Most of it prepares, launches and measures servers (`run.py`,
`workflows/`, `evals/`, `benchmarking/`, `tests/`, charts and documentation); the serving logic is in
`tt-media-server`:

```
 HTTP handlers ── BaseService ── Scheduler ══ task queue ═══════> device workers ── runner ── device
      │                │           │  ╚═ cancel queue ══════════>      │   │
      │                │           └─ result / error / warm-up listeners <══╝   │
      │                │                      ▲                                 │
      │                └── result_queues <────┤ canary answers                  │
      │                          ▲            │                                 │
      │                    CanaryMonitor ─ probes through the task queue        │
      │                                                                         │
      └── JobManager ── one coroutine, monitor, persister per job       SPRunner ══ VideoShm ══ video runner
              └── JobDatabase (SQLite)                                      (two shared-memory rings)

 decode server <══ socket ══> prefill gateway <══ ZMQ ══> prefill servers            (C++)
 LLMService ══ task queue, cancel queues ══> LLMRunner ─ Scheduler ─ BlockManager     (C++, one loop per worker)
   └─ SessionManager ══ memory queues ══> BlazeDecodeRunner ─ SlotManager ─ decode scheduler   (C++, the other pipeline)
```

`══` are channels between processes, `──` calls inside one.

### Inventory

| component | state | operations | what is hard |
|---|---|---|---|
| **VideoShm ring** `ipc/video_shm.py` | per slot a state word and a payload; writer and reader index in a second segment | `write_request/response`, `read_request/response`, `recover` | no lock between two processes; either is killed between any two stores; repair of the indices beside a live peer |
| **job manager** `utils/job_manager.py`, `job_database.py` | table of jobs, rows, per job a coroutine, a monitor, a persister and events shared with a runner | create, cancel, cleanup loop, shutdown, restore | four activities per job cross at every await; refused writes; killed server |
| **request path** `model_services/base_service.py`, `scheduler.py`, `device_workers/device_worker_dynamic_batch.py`, `queues/tt_queue.py` | task, result, error and cancel queue, registry of result queues, tasks in the workers | `process`, `process_streaming`, listeners, worker loop, cancellation, death, restart | results and errors use different queues; clients leave; workers die with requests and locks in hand |
| **canary monitor** `health_monitoring/canary_monitor.py` | state, misses per tier, cadence, one awaited probe | tick, probe, timeout, grace | two fixed probe ids, late answers, requests that arrive during a probe |
| **prefill gateway** `prefill_gateway/src/` | tasks in flight, registry with counts, affinity, strikes, known connections | request, result, cancel, server down, timeouts, registration | four threads, one mutex per table, decisions on copies |
| **worker pool** `scheduler.py` (start, stop, restart, monitor) | worker table, ready flags, restart counts | `start_workers`, `restart_worker`, `worker_health_monitor`, `device_reset`, `deep_restart_workers`, `stop_workers` | restarts from two threads; signals that name a worker, not a process; a coroutine that cancels itself |
| batching worker `device_worker.py` | a batch, a timer thread | take a batch, run it, fan results out | probes and shutdown signals inside a batch |
| **video pipeline** `sp_runner.py`, `video_runner.py` | pending table of futures, side-files and videos on tmpfs, drainer thread, encode queue, encoder thread | submit, drain, time out, probe, run, encode, answer | a synchronous wait on the event loop; a future resolved by one thread and cancelled by another; files with no owner |
| other queues `memory_queue.py`, `tt_batch_fifo_queue.py`, `tt_faster_fifo_queue.py` | shared ring, semaphores | put, get | a process that dies inside |
| CPU workload handler `cpu_workload_handler.py` | futures, task and result queue, two listeners | `execute_task`, listeners, stop | a helper process that dies with a task |
| **C++ session manager, LLM service** `session_manager.cpp`, `llm_service.cpp`, `llm_controller.cpp` | sessions and their slots, pending allocations, deferred deallocations, callbacks | acquire, create, retry, evict, produce, consume, abort | slots are given and returned over two queues that may be full; four kinds of threads; a session is released twice after an abort |
| **C++ block manager, sequence schedulers** `llm_runner.cpp`, `scheduler.cpp`, `block_manager.cpp` | blocks with reference counts, prefix cache, running and waiting sequences, abort marks | schedule, allocate, append, preempt, abort, answer | abort of a preempted sequence, whose copy is in a queue all workers share; prefix cache |
| **C++ blaze decode runner** `blaze_decode_runner.cpp`, `blaze_slot_manager.hpp` | slot table, one held-back request of each kind | answers, outputs, memory, cancels, sequences | a cancel, an eviction and the next sequence of one slot meet while an earlier command waits for its answer |
| C++ worker manager | worker processes, warm-up listener | start, check, restart | threads share the worker table |
| C++ queues | slot ring, SPSC queue | push, pop | lock-free handshakes |
| C++ disaggregation, sockets | pending prefills, connections | request, result, cancel, reconnect | the other end of the gateway |
| HTTP API, runners, telemetry, tool-call parsers, plugins, workflows, evaluations, front ends | see `PROJECT.json` | | |

`PROJECT.json` lists every component with its sources and status, and under "hazards" every place of this code that is
hard to test, with the properties that watch it. What makes each modelled component correct is stated by the
properties of section 3.

The components meet as follows. A handler and both listeners share one asyncio loop; a worker is a process. The
canary's probes are tasks like any other, and the monitor reads the request path's registry to decide whether the
server is busy - so a leak there (`path_leak`) blinds the monitor. The job manager starts its runner through the request
path; what a request sees of the worker pool (a death, a restart, the ready flag) are three actions of `RequestPath`, and
`WorkerPool` says when they happen. The video pipeline is two rings (requests and responses): `VideoPipeline` takes them
as the bounded queues that `VideoFifo` promises and `VideoRing` is shown to implement. The C++ server has two pipelines:
the LLM runner with its own blocks (`BlockScheduler`), and the blaze runner, whose slots the session manager of the server
process owns (`SlotSessions` over `BlazeRunner`). The gateway's
clients are the C++ disaggregation service on both sides.

## 2. The modules

Every module follows one pattern: constants with a named `ASSUME`, variables with the code's names where TLA+
allows it, one action per handler, step or piece of code between two points at which somebody else can run, `Spec`,
the fairness, and the properties. Operators named `X_Something` next to an operator `X` are faulty variants of it: no
specification uses them, and substituting one for `X` must violate the property `PROJECT.json` pairs it with.

### VideoFifo, VideoRing, MCVideoRing - the shared-memory ring

`VideoRing` has an action per store. A write is `Claim` (the slot is EMPTY, 576-597), `PackId` and `PackBody` (the
payload, two words so that a torn one shows), `FlipFilled` and `BumpWriter`; a read is `See`, `UnpackId`, `UnpackBody`,
`FlipEmpty`, `BumpReader`, `Return`. `CrashWriter` and `CrashReader` may happen at every point, and lose what the process
had in hand. `RestartWriter` and `RestartReader` attach and run `recover(side)`, as `SPRunner.set_device` and the runner
do; `OperatorRecover` is `recover("both")` with both processes down. The segments survive.

The class documentation names one residual hazard: the peer of a dead process laps the half-made slot. The constant
`Discipline` says which assumptions about crashes a run makes: `"peerWaits"` (the peer does not touch that slot) and
`"settled"` (`recover` is not run while the live peer stands between its own flip and bump). The disciplines restrict
crashes only; with none of them the module has every behaviour of the code.

`VideoFifo` is what the ring promises: a bounded FIFO of committed messages that loses at most the message in a dying
reader's hand. `VideoRing` implements it under the mapping `queue <- Queue`, `hand <- Hand`, where `Queue` is read off the
slots between the two *positions* `R` and `W` - the indices corrected by flips not yet followed by their bump.

### JobManager, MCJobManager - jobs and their rows

All of the manager runs on one asyncio loop, so an action is the code between two awaits: `CreateJob`, `CreateJobFails`
(the row is inserted and the second write refused), `CancelJob`, the monitor's `MarkJobInProgress`, the persister's
`PersistJobData` and `PersistFails`, the four ways `_process_job` ends (`TaskReturns`, `TaskRaises`, `TaskCancelled`, and
`TaskCloses` for the wait for the persister in its `finally`), `CleanupOldJobs`, `Shutdown`, `Exit`, `Crash` (at every
await), `CrashInCreate` and `CrashInCleanup` (between two writes of one handler), and `Restart`, which restores the rows.
The runner of a training job (`RunnerStarts`, `RunnerProduces`, `RunnerStops`) is another process: it sets the start
event, looks at the cancel event, and is promised nothing else. A refused write (`outages`) is logged and ignored, as in
the code: memory goes on without it. `promised`, and the counters `crashes` and `outages`, are history and bounds.

Abstracted: ages are the two facts the code derives from them (`aged`: old enough to be stuck; `expired`: past the
retention); metrics and log rows are the number the runner produced and the number that was saved.

### RequestPath, MCRequestPath - a request from the handler to the runner and back

The task queue and the cancel queue are sequences; the result and error queues, which keep the order of one producer
only, are positions per request: `put[r]` items by the runner, `sent[r]` of them written to the pipe by the feeder thread of
its process (`Send`, and `SendError` for the error queue), `routed[r]` moved by the listener to the handler's queue, `read[r]`
consumed. `Submit` is `process`/`process_streaming` up to its first await with all refusals; `TakeItem`,
`TakeError`, `Timeout`, `Disconnect` are its ends, each of which tears the registration down and, where the code does,
signals the workers. `RouteResult` and `RouteError` are the listeners. `Take`, `PutChunk`, `Finish`, `Raise` and
`HearCancel` are the dynamic-batch worker; `Die`, `Restart`, `ReportReady` are what a request sees of the pool.
A `multiprocessing.Queue` has a lock for its readers, who wait with it in hand, and one for its writers. `Die` loses what the
process has not sent, and any lock it may have held (`Locks`): of the task and cancel queues, which it reads, and of the
error queue (`wedged`) and its result queue (`mute`, for all its `Sharers`), which it writes; the signals of a restarted worker may
be lost likewise. The restarted worker inherits the queues as they are. The holder of a result queue's lock may have left half a
message in the pipe, which stops the event loop when the listener comes to it (`HalfRead`): `get_many(block=False)` does not
wait for a message to begin, but for the rest of one it does. The ways in which a handler ends without the whole answer are one
state.

### CanaryMonitor - probes beside the traffic

`TickBusy`, `TickProbe` are a round of the loop (with requests in flight, or with a probe of the tier whose turn it is),
`TakeAnswer` and `Timeout` end a probe - with the verdict annulled when a request has come meanwhile - and `GraceEnds` and
`TimePasses` are the clocks.
`TakeProbe`, `HealthCheck` and `RouteAnswer` carry the probe through worker and listener. The model under test is one of
`prompt`, `slow`, `hostonly` (a dead device under a live host) and `hung`, and changes at will. Requests are the number of
entries they have in the registry.

### PrefillGateway, MCPrefillGateway - one verdict per task

The gateway in its default ZMQ mode, four threads: *decode* (`Select`, `Record`, `Lookup`, `Send`, `Drop`, `Cancel`), *io*
(`Register`, `TakeResult`, `FinishResult`), *watchdog* (`TakeStale`, `MarkDown`, `FailOrphans`) and *timer* (`Tick`,
`Expire`). The code locks one table at a time, so `onPrefillRequest` is five actions: the choice from a copy of the
registry and the increment (one action, as only this thread reads the counts), the entry in the table, the look-up of
the connection, the send by the io thread, the roll-back. `onPrefillResult` is two: taking the entry out, and the rest.
Steps that no other thread can tell apart are one action; `slot`, `orphaned` and `accepted` are history (which server's count
stands for a task, also after the loss of the server, tasks failed for a lost server, cancels that found their task).

Environment: the decode server asks once per task and may give up; a prefill server answers what it was given, in one
result or several chunks, and may be replaced or reconnect, with or without what was under way. A request whose send is
still under way is not old enough for the timer. The window of strikes is the number of timeouts still in it, cut at any
point, as time passes between any two.

### WorkerPool - processes that are started, die and are started again

`proc` is every process ever started, `info` what `worker_info` names, `rec` the counters kept beside it. The event loop
opens the workers one by one (`StartNext`, `StartNextFails`), hears warm-up signals and errors (`HearReady`, `HearError`) and
runs the health monitor: `Tick` collects the dead workers and the failing ones, `RestartNext`, `GiveUp`, `TickDone` work the
two lists off. While it does, or while `stop_workers` runs, the loop is blocked (`LoopFree`), but the processes go on
(`WarmUp`, `InitFails`, `Die`, `RequestFails`). `restart_worker` is four steps, because `DeviceReset` runs it in a thread of its
own beside the monitor's call: read the old record, `Clean` (terminate and join the process that is named *by then*),
`StartNew` or `StartFails`, `Count` (the counters go over to the record of *by then*). `old` tells whose record a call
still holds; `deep` is the setting `allow_deep_reset`, which no step changes. `Stop`, `GiveUpDeep`, `Forget`, `Reopen` are `stop_workers` and the deep restart around it, which ends where the
code ends: the monitor has cancelled its own task, the HTTP call never awaits `start_workers()`.

`restart_worker` terminates the old process and joins it for 5 s, then goes on whether it has ended or not (`stop_workers`
does look, and kills), so `Clean` may leave it alive; `outlived` is history and says so of a live process. It does all that a
process does (warms up, reports, fails), beside the one that replaces it. What a process puts on the shared queues after
another one has been killed may be lost, for a kill can take a queue's write lock or a place of it along (`QueuesHit`).

Abstracted: waits are points at which others run. Composed with `RequestPath` only through `Die`, `Restart` and `ReportReady`
there, where a process that outlives its restart is one more worker.

### BlockScheduler, MCBlockScheduler - the C++ LLM runner

One loop per worker over a task queue shared by all. `Abort` takes the cancellations at the top of a step; `Wait`,
`Receive`, `PushBack` are the blocking receive of an idle worker; `Plan` chooses prefill or decode by the policy;
`SkipAborted`, `PutBack`, `Take`, `PrefillEnds` are `trySchedulePrefill`, with `AllocHit`, `AllocMiss`, `Allocated` its
`allocate`, one block a step; `Append1`, `Preempt`, `DecodeEnds` are `tryScheduleDecode`; `Release`, `Released` every
`deallocate`, whoever calls it (`after`); `Launch`, `Token`, `Finish`, `Fail` are the device runner and `postprocess`.
The copies in the queue, the map of sequences and the pointers of the decode queue are kept apart, as in the code:
that is what preemption, which pushes a copy and keeps the original, is about.

Abstracted: a hash is the token prefix it stands for (collisions are left out); generated tokens are all alike; the pop and
push back of a copy that does not fit are one action; a device runner that raises does so before its first callback (the Python
runner returns its results all at once); a grammar that rejects a token ends a sequence as an error does, one
that is complete as a stop token does; `usedBlockIds` is the complement of the free list.

### AnswerLine, VideoPipeline - a video request to the external runner and back

The server's side is an event loop on which `submit` and `health_check` are *synchronous*: `Submit`..`Written` and
`Probe`..`ProbeEnds` hold the loop (`loop`), and no other request of the worker goes on meanwhile. `Resume` and `TimeOut` are
`await_result` with the cleanup of `_run_async`. The drainer thread takes a response, looks the future up, tests it and sets
it, one action each, as the event loop may cancel the future in between. The runner's side is rank 0's loop (`Read`, `Load`,
`Run`, `Put`) and the encoder (`Encode`, `Respond`). `side` and `mp4` are the files on tmpfs. `Restart` kills the server's worker
at any point: the next one drains the output ring and sweeps the side-files.

`AnswerLine` is what the pipeline promises: one line of requests, answered in the order they were written. Five places on
the runner's side are mapped to it, `line <- output \o encoder \o jobs \o peer \o input`; `OneLine` is the refinement.

Abstracted: the rings are bounded queues (see `VideoFifo`); the other ranks, the warm-up ping and the orderly shutdown are
left out, as is the refusal of a task id that is in flight already (577-582: ids are fresh uuids); a restart happens only while a
request is under way; `gen` (the number of probes so far) tells the future of one
probe from that of the next.

### BlazeRunner, SlotSessions - a KV cache slot between the session manager and the worker

`BlazeRunner` is the worker process. One thread runs `step()`: it drains the answers and the outputs of the decode scheduler
(`HandleAnswer`, `HandleOutput`, `Drained`), takes one memory request (`HandleMemory`, which tries a held-back one first),
all cancellations (`HandleStop`, `Stopped`) and one sequence (`HandleRequest`); `phase` says which comes next. The decode scheduler
is a submodule and external: `SchedTake` answers a queue of bounded length in order, `Emit` is the last output of a run. When its
queue is full, a command is held back in `pendTask`, `pendMem` or `pendCancel` - one place each, so that a second one replaces the
first. What meets a slot that waits for an answer is kept in the slot (`evict`, `cont`) and done by `StopAck`.

`SlotSessions` is the server process around it, composed by sharing the queues. `Hit`, `Miss`, `SendAlloc`, `Resolve`, `Refuse`
and `Produce` are a request on its event loop; `MemoryResult`, `RetryAllocs` and `RetryDealloc` the reader thread of the memory
results; `Consume` the thread that reads the tokens; `Disconnect`, `PushCancel`, `ReleaseAgain` the abort, which clears the
session, tells the worker, and clears the session once more. `evictOldSessions` runs in whichever thread wants a slot: the
candidates are chosen at once (`Evicts`) and taken one by one (`EvictNext`), while other threads acquire sessions.

`lost` (what was thrown away without telling anybody) and `aborted` are history. Abstracted: hashes (a request may match any idle
session, or none), the routing of a follow-up by response id, slots locked as a source of a copy (the runner ignores
`slotIdToCopyFrom`), pre-assigned slots, `closeSession` (nothing in `src/` calls it); ages (any idle session is among the oldest);
the tokens before the last one; drains take all that is there. `onSessionRelease` writes through a raw pointer: a session that was
evicted by then is not touched. Assertions are those of a release build: off.

## 3. The runs

| run | question | bounds | distinct states |
|---|---|---|---|
| `ring_main` | under both disciplines: `NoTornPayload`; the refinement `FifoSpec`; `Drains` | 3 slots, 6 messages (two turns of the ring), 3 crashes | 49 000 |
| `jobs_safe` | `DbAgrees`, `ActiveHasTask`, `CancelNeverCompletes`, `FinishedDataSaved`, `FileThere`, `SettledStays` | one training and one video job, 1 crash, 1 item | 620 000 |
| `jobs_live` | `EveryTaskEnds`, `SlotsFreed` | one training job, 2 crashes, 1 refused write | 16 000 |
| `path_main` | `Accounted`, `StreamIntact`; `Served` | a stream of 2 items and a plain request, 1 worker, queue of 1, 1 death, any lock lost with it | 313 000 |
| `path_leak` | *violated*: `InFlightIsAwaiting` | no deaths | stops |
| `canary_main` | `DeviceNoticed`, `RecoveryNoticed` | 2 misses, every 2nd probe deep, queue of 3 | 76 000 |
| `gateway_main` | `OneVerdict`, `DownServerHoldsNoTask`, `CountCovers`; `EveryTaskSettled` | 2 tasks, 1 server with room for 1, 2 connections, 1 loss | 260 000 |
| `pool_main` | `RestartBudget`, `OneProcessPerWorker`, `NoOrphan`; `DeadIsHandled` | 1 worker, 1 restart, deep restart by the monitor allowed or not, 1 device reset at any point, any restarted process may outlive the join | 742 000 |
| `blocks_main` | `BlocksAccounted`, `NoDangling`, `OneHome`; `AbortIsFinal`, `Served` | 1 worker, 3 tasks with nested prompts, 3 blocks of 3 tokens, both policies, 1 task may be cancelled, the device may raise | 229 000 |
| `blocks_prefix` | *violated*: `SharedBlocksSharePrefix` | 4 tasks, blocks of 2 tokens | stops |
| `video_main` | `SideFileKept`, `VideoHasOwner`; the refinement `OneLine`; `AllAnswered` | 2 requests, one with a side-file, deep probes (2), rings of 1 slot, encode queue of 1, 1 restart | 352 000 |
| `slots_main` | `SlotHome`, `InFlightOwned`, `LossNeedsAbort`; `LegalTransitions`, `ComesToRest` | 3 requests, one of which may be aborted, 1 slot, 1 session, 1 retry, the memory and the scheduler queue of 1 place | 622 000 |

Why the bounds are enough. *Ring*: three slots tell a full, an empty and a half-full ring apart, six messages make every
slot be used twice, and three crashes allow a crash of each side and one during the other's repair. *Jobs*: jobs share
only the capacity of the table and the database; two jobs of different kinds meet there, and a second crash (in
`jobs_live`) hits a job that was restored by the first restart. *Path*: requests meet in the queues; with a queue of one
place the second request is refused while the first is queued. One death
with any set of locks in hand strands the other request at each place it can be; the safety properties are
proved for any number of workers and deaths. *Canary*: two misses distinguish
degraded from dead; the queue of three fills with probes nobody awaits. *Gateway*: every property is about one task or one
server; two tasks compete for the last unit of a server's count, and the second connection has results of the first one
arrive late. *Pool*: a device reset
meets the monitor on one worker, and one restart of each is a race for every pair of their steps; a second reset
changes only the count in `OneProcessPerWorker`. Workers meet in the lists of a tick and in the order of opening; what is
proved (section 5) is proved for any number of them, and `DeadIsHandled` was tried with two, without resets. *Blocks*: three blocks for three sequences of up to two blocks make the
cache run out, so that sequences are preempted, put back and aborted while waiting; the prompts share prefixes, so that blocks
are shared. With a second worker `Served` fails, and `AbortIsFinal` once more clients give up than `MaxInFlight` (section 6). *Video*: with one slot and one place every
queue of the pipeline is full at some time, which is what could make the four threads wait for each other; two requests
overtake each other if anything can. *Slots*: three requests are what it takes for one to use the slot, one to be aborted and
one to follow it; with one place in the queue of memory requests and in that of the decode scheduler, every full queue, held-back
request and retry occurs. A cancellation may be dropped by its queue at any time, as it is by a full one; the queues of
sequences, answers and tokens have no bound. With one slot the
commands of two slots do not meet in one held-back place (section 6); all but `ComesToRest` was tried with two slots as well.

`TypeOK` is proved of every component (section 5); no run repeats it. What the proofs cover for all constants is not
repeated in a run either: `IndicesMatchSlots`, `AcceptedCancelIsFinal`, `InOrder`, `NoRunawayRunner`, `StartedOnce`,
`StateMatchesMisses`, `OwnTierClears`, `FailedTwiceOnlyByLoss`, `CapacityRespected`, `CapacityLostOnlyByLoss`, `BlocksFit`
are theorems only.

`CHECK_DEADLOCK FALSE` is given where requests or tasks are used once, so that a run may end with all of them served.

## 4. Fairness

- *Ring*: weak fairness of the writer's and the reader's steps and of their respawns: the server calls the ring again
  and the orchestrator restarts a dead process. None of the crashes and of the operator. Retries after a timeout are the
  same steps.
- *Jobs*: the event loop runs a ready coroutine; `task_function` ends at its timeout if not before (`TaskEnds`); time
  passes and the cleanup loop comes round. The runner and whoever restarts the server are promised nothing.
- *Path*: listeners and worker loops go round, a dead worker is restarted, a runner ends a run somebody waits for; one
  nobody waits for may go on for ever. A restart needs the event loop, which half a message may stop. Nothing makes a client
  leave or a request time out.
- *Canary*: the loops go round, clocks advance, a health check that can answer does.
- *Gateway*: the decode thread and the end of a result go on; the timer comes round and every task left in flight is at
  some tick too old (this needs the request timeout enabled, as it is by default). Prefill servers, registrations and the
  watchdog are promised nothing.
- *Pool*: the start sequence, the monitor, each `restart_worker` and the rest of a stop go on. The two listeners have strong
  fairness: each is disabled whenever the monitor's tick blocks the loop, and its thread has read the queue by the
  time the loop is free again. That a process warms up, fails or dies, or that anybody resets, is not promised.
- *Blocks*: a worker's loop goes on; nothing is promised of clients. A sequence ends because it has a last token.
- *Slots*: the server's threads (together), the worker's loop and the decode scheduler go on. A client need not ask, nor leave,
  and a session need not be evicted.
- *Video*: event loop, drainer, rank 0 and encoder go on, each as one thread: which of its steps it takes is not promised.
  None of the requests' deadlines, the probes or the restart. A probe's own time-out belongs to the event loop: the loop
  waits for it, so it ends.

All but the listeners of the pool is weak fairness of single steps of loops that have no other guard than the one in the
action.

## 5. The proofs

TLAPS checks each of these for every value of the constants allowed by the module's `ASSUME`. `PROJECT.json` lists
the theorems; the argument behind each module:

**VideoRingProofs.** `Handshake`, over the state words alone, is inductive without any discipline: a reader between `See`
and `FlipEmpty` has a FILLED slot, a writer between `Claim` and `FlipFilled` an EMPTY one, so they are never in one slot.
Hence `NoTornPayload` for every crash. Under both disciplines `RingInv` is inductive: the FILLED slots are those of the
indices `R..W-1` (`IndicesMatchSlots`), they carry ascending messages (`Ordered`), and a gap left by a crash is exactly one
index. The heart is arithmetic: indices less than `Slots` apart name different slots (`SlotInjective`), so `recover` can
tell a missing bump from a full or empty ring. `RingImplementsFifo` maps each store to a step of `VideoFifo` or a stutter;
only `FlipFilled`, `FlipEmpty`, `Return` and the reader's crash are visible.

**JobManagerProofs.** `JobInv` is split per job (`JobOK`); a step touches one job (`OneJobStep`) or frames the others, and
cleanup, shutdown, crash and restart treat all jobs alike. What makes `CancelNeverCompletes` inductive is
`CancelPending`: a waiting coroutine whose job was cancelled has its cancellation requested already, so the runner's answer
cannot overtake it, and `MonitorOwned`: a live monitor belongs to a queued job or to one about to be cancelled - the very
gap through which a cancelled job goes back to IN_PROGRESS (section 6). `PersistInv` adds that the persister outlives the runner's answer;
`FileThere` that cleanup deletes the file of expired jobs only. `DbAgrees` and `SettledStays` have their own invariants.

**RequestPathProofs.** `IInv` is `TypeOK`, two facts about the queues (no request twice; signals only for handlers that
ended) and `ReqOK(r)` per request: which handler states go with which places of the request, and that what was read
was routed, what was routed had been sent, and what was sent survives its sender. A step changes one request,
or those of one worker, and leaves the others `Untouched`. `PathInv`, `Accounted`, `StreamIntact`, `RegistryExact` and
`StartedOnce` follow.

**PrefillGatewayProofs.** `HolderOK`: while nobody has settled a task, the table, the timer, the io thread or the decode
thread has it - the decode thread alone or with the table - and the holder's server is the one whose count stands for the
task. `VerdictOK`: holders and verdicts exclude each other. `AnswersOK`: only the server that was asked answers, which is
why decrementing "against the responder" (`dispatcher.cpp`) is right. `LostOK`: what is assigned to a lost server is a
request the decode thread has yet to look up or roll back. The counts need a cardinality argument on top (`CountGrows`,
`CountShrinks`): a server's count is the number of tasks whose `slot` it is, those failed with a lost server included, so a unit
given back was counted and `decrementInflight`'s clamp at zero never acts. Whoever has a task for a server has its `slot`
there (`HolderOK`): hence `CountCovers`, that no count runs short. The other direction is false of the code (section 6);
`CapacityLostOnlyByLoss` says where the difference comes from.

**HealthProofs**, of the two parts that watch over the workers. *Canary monitor*: `CanaryTypeOK /\ StateMatchesMisses` is
inductive; `OwnTierClears` follows step by step. *Worker pool*: a process that has outlived the join of its restart is out of
the code's hands; `Counted` are the live ones besides these, and a restart's `Clean` leaves none (`LetGo`). `WorkerInv(w)`
speaks of a worker no device reset was asked for. Its counted processes are the one
`worker_info` names, or left behind by a deep restart, and the number of all its processes is bounded by its counter and by where
the monitor's restart of it is (`Within`): the monitor's count runs one ahead until the next process is started, and a
restart that fails is spent all the same. `LoopInv` adds where the loop is: the monitor works only before a stop and only on
workers it holds, and nothing is left to open after a deep restart. `BudgetHolds` (of all processes, survivors included) and `OrphansHaveACause` follow.
`OneProcessHolds` counts: a counted process beside the one that `worker_info` names, or one that may be replaced or forgotten
although it is alive (`AtRisk`: the monitor has cleaned up before it, or the pool is forgetting its workers), is `Loose`, and
`PaidFor(w)` has a spent device reset for each; each step keeps the loose processes, or adds one and spends a reset
(`NextLoose`). All of it for any number of workers and any finite set of resets.

**VideoPipelineProofs.** `OneLineHolds` is a refinement: `Queue`, the five parts joined, grows at its end when the event loop
writes (`AskSteps`), loses its head when the drainer reads (`AnswerSteps`), loses a front when a worker starts (`FlushSteps`),
and is the same sequence after each step of the runner (`InnerSteps`), which only moves an element over the border of two parts.
`SideFileKept` follows from `Held`: the event loop removes a side-file only with the request, and a restart only with all of
them. `VideoHasOwner` needs to know that a request is in one place: `Travels` says it of the line and the drainer's hand, with
what the request has come to meanwhile, from the order of the line alone. `Filed` adds that a video is exported after the last
work on its request, that no answer on its way contradicts it (`Refused`), and that what the drainer tested still holds when it
sets the result, or the request has timed out.

**BlockSchedulerProofs.** The reference counts rest on where a request is: a copy taken from the task queue overwrites the
sequence the worker may still have for it, and if that one had blocks they would be lost. `Single` says that a request is in
the task queue, or with one worker that holds it in `receive()`, or in one worker's lists and block tables, and `Loop` that
a worker's decode queue and batch are of different sequences it tracks; neither is inductive alone (`Places`). `Room` is
needed even for the types: what `trySchedulePrefill` checked covers the blocks `allocate` has still to take, so that it
never takes from an empty list. `NoDanglingHolds` follows. `BlocksAccountedHolds` counts the places of a block as a set of
pairs: each step adds one (`CountedGains`), removes the last one of a table (`CountedLoses`), or changes none.
`OneHomeHolds` adds to `Places`, which says "at most one", that a wanted request is somewhere (`Somewhere`; the copy that an
aborted mark drops is of a cancelled request, `Marked`), and that the copy or the sequence there has the tokens the client
was sent (`UpToDate`); the run has one worker, and it is with several that the shared queue could lose or fork a request.
`AbortIsFinalHolds` is about the marks of aborted requests. A worker that has taken a cancellation has not the request in its
lists, and has a mark for it as long as a copy is anywhere (`Skips`); an abort leaves no mark only where the status is
RUNNING, and then nobody else has a copy (`Tracked`). Marks are not taken at `2 * MaxInFlight` and are all forgotten above
`MaxInFlight` when the queue is seen empty, so the theorem assumes that no more clients give up than `MaxInFlight`, or twice
as many with one worker, which itself has every copy when it sees the queue empty (`FewAborts`). A trial run with two
workers and one client too many violates it: the hypothesis says where the code's marks end.
`BlocksFitHolds` is the arithmetic of the block tables: a sequence in a batch has the blocks its tokens need, one in the
decode queue those of all tokens but the last (`Sized`), because `mayAppend` adds a block just where the number of blocks
goes up (`NextBlock`, by uniqueness of the quotient). It is what `TypeCorrect` needs: a sequence that fills a block has one
to hash. All of it for any number of workers, requests and blocks, both policies, and a device that may raise.

**SlotSessionsProofs.** The invariant has layers, each resting on those before it. `QueueInv` says what may be in each
queue, and that no command for a slot is there twice. `SlotInv` fits a slot's state to the commands and answers under way for it
(`Coherent`): an eviction or a cancellation is deferred only while another command waits for its answer, so that `TransitionsAreLegal`
follows step by step. `HomeInv` gives a slot that the scheduler has given away one place, and `AskInv` a request for a slot one
place among the queues, the held-back requests, the retries and the answers; `SlotHomeHolds` turns "one place" into a sum with
lemmas about how often an element occurs in a sequence (`AtMostOne`, `OccursOnce`, `PlacesCounted`), since what goes wrong there is a
command that is sent twice as well as one that is dropped. `OwnInv` says who owns a session: one request alone (`Alone`), or
several of which one is aborted (`Shared`), because the raw pointer in `onSessionRelease` clears whatever is there. `CalmInv`
holds until the first abort only: each sequence is at its own session's slot and finds it idle, so that no held-back place is
needed twice and nothing is thrown away (`LossNeedsAbortHolds`). All of it for any number of requests and slots and any length of the
queues; assumed are finitely many requests, and that the names `None`, `"dealloc"` and `"reader"` are not among the identifiers.

The inductive invariants themselves (`RingInv`, `JobInv`, `PersistInv`, `PathInv`) are proved and not properties of a run.

Only model-checked, because out of this prover's reach: every liveness property (fairness needs `ENABLED`).
No safety or action property of a run is without a theorem.
No proof needs induction over data and no module declares a RECURSIVE operator: queues are reasoned about through the
properties of `Append` and `Tail`, the ring's content as a function of positions. Nothing is assumed beyond the `ASSUME` of
each module and the library's theorems on sequences and finite sets.

## 6. Where the code and its documentation disagree

Shown by a violated run (see "findings" in `PROJECT.json`):

1. `path_leak`: a refused request stays in `result_queues`; the canary monitor then takes the server for busy for ever.
2. `blocks_prefix`: the index from hashes to blocks keeps entries of blocks that were given another hash since; a sequence
   can be served a block whose cache was computed for another prefix.

Seen while reading or modelling, without a run of their own:

- *Ring*: `recover(side)` beside a live peer between its flip and its bump reorders messages although nobody laps
  (`video_shm.py`; the discipline `"settled"` excludes it).
- *Jobs*: a cancelled queued job goes back to IN_PROGRESS when the monitor's poll ends before the coroutine sees its
  cancellation (`job_manager.py:337`); killed there, the restart reports FAILED. The age that makes a job stuck includes the time it was queued (424, against
  `README.md:995`); the file of a video job cancelled in progress is never deleted (446); `shutdown` waits for the tasks
  it cancels but not for those that are in their `finally` (309).
- *Path*: a worker that is killed keeps its locks, and its successor inherits the queues (`scheduler.py:246-266`). With the reader
  lock of the task queue no worker reads again; with the writer lock of the result or error queue no answer leaves the
  restarted worker (nor, with one result queue for all, any other); with half a message in the result queue the listener
  stops the event loop, and the server with it (`tt_queue.py:56`, called with `block=False` from a coroutine). `Served` names
  these as the only ways in which a request is left without an answer. Cancellation does not "free the slot it was holding"
  (`scheduler.py:54-60`; `base_service.py:146-150` "signal the worker to abort") in two cases: the cancel queue is shared, so that
  with several workers a signal may be taken by one that does not have the task (`device_worker_dynamic_batch.py:137`); and a
  signal for a task still in the task queue finds nothing, and the task runs for nobody. No property says when a slot is freed.
- *Canary*: PROBING overwrites DEAD, so `is_alive` is true during every probe of a dead model (`canary_monitor.py:242`,
  against 175 "a dead tier dominates a healthy one"); the late answer of a probe counts for the next one of its tier; a
  hung model under traffic is HEALTHY; skipped probes advance the deep cadence (63 says "actually issued"); with several
  workers a probe tests whichever takes it.
- *Gateway*: tasks failed for a lost prefill server are never taken off its count (`dispatcher.cpp:200-224`), against the comment
  at `prefill_registry.cpp:40-41`, "Keep in_flight unchanged: dispatcher's onPrefillDown will fail those tasks and decrement
  counts via the normal path": the server comes back with that much less capacity, with none if it was full. `CountCovers` is
  one-sided for this reason. Decode may be told
  of a failure twice (a send that fails while the watchdog fails the task); a result that arrives during `markDown` can
  bring the lost server back into the affinity cache (a hint only); with the request timeout off, a server that reconnects
  before it is stale loses its tasks for good; a registration that comes between `takeStaleServers` and `markDown` is
  undone until the next one.
- *Worker pool*: `restart_worker` gives the old process 5 s after SIGTERM and starts the next one without looking whether it has
  ended (`scheduler.py:252-254`): two processes on one device, the old one named by nobody and outliving `stop_workers`, which
  looks and kills (449-456) but only what `worker_info` names. `OneProcessPerWorker` and `NoOrphan` name the case. A deep
  restart never starts a worker again (`scheduler.py:647`: `start_workers()` is not awaited and
  `workers_to_open` stays empty; called by the monitor it cancels its own task), though 649 logs that it did. A worker that
  is given up keeps its ready flag, though `README.md:976` says it is marked as failed. A warm-up signal names a worker, not
  a process: one left by a dead process marks its successor ready; and one that is lost (the put gives up after 2 s of a blocked loop, or a
  killed process has taken the queue's lock along) is not sent again: the worker stays not ready, and if it is the only one
  every request is refused with 503. A worker that is dead *and* failing is restarted twice in
  a tick (574). The start sequence goes on after a stop, and a reset's thread may start a process after one. The stale count
  a reset read can renew the budget.
- *Blocks*, with two workers (`scheduler.cpp`): `receive` and push back take a copy out of the queue for a moment, in which
  another worker sees it empty and trims its abort marks if it has more than `max_in_flight_count`: the cancelled request then
  runs (the comment at 145-147 expects otherwise); two workers may pass a task to each other for ever; a worker that preempted a sequence keeps its WAITING
  original for good if another one finishes the copy. With any number: push back reorders the queue; more than twice
  `max_in_flight_count` aborts lose marks; under PREFILL_FIRST the decode queue exceeds `max_in_flight_count`; a sequence larger
  than the cache or than `max_num_batched_tokens` is put back for ever; after an exception of the device runner later batches
  vanish with their blocks; blocks of one token fail the assertions.
- *Video*: the drainer tests `done()` and sets the result without a lock; a request that times out in between kills the thread
  (`sp_runner.py:548-552`), nobody starts another one, and the rings fill until `submit` blocks the event loop - `AllAnswered`
  and `VideoHasOwner` except it. A deep probe that fails is acknowledged with SUCCESS (`video_runner.py:353`, before the
  error is looked at in 364; 485 says "An exception on any rank becomes an ERROR ack"). The comment at `sp_runner.py:669` that
  unlinking the side-file "here is always safe" is not true of a request that timed out while queued (harmless: nobody
  waits for it). A time-out after the drainer set the result leaves the video on tmpfs; a cancelled caller leaves its entry in
  `_pending`; a late acknowledgement serves the next probe of its kind.
- *Slots*: an abort clears the session before the cancellation reaches the worker (`llm_service.cpp:660`), so that the next request
  of the session may be sent to a slot that still runs: the worker drops the sequence in silence
  (`blaze_decode_runner.cpp:747`) and its client waits for ever; `LossNeedsAbort` and `ComesToRest` except it. `onSessionRelease` clears
  the session a second time without asking who owns it by then (`llm_controller.cpp:260`, `streaming_response_writer.cpp:148`),
  through a raw pointer that may dangle; `InFlightOwned` excepts it. `PendingRequests` has one place of each kind and overwrites it
  (`blaze_types.hpp:104`), with two slots also the request of the other one. A run whose slot is evicted gets no last token; a
  second sequence for a slot that is stopping replaces the deferred one (717-731); a cancellation that finds its sequence
  deferred or still queued is ignored (535). `lockedSlots` is a set, not a count (`session_manager.cpp:212`): two copies from one slot
  unlock it after the first. `disaggregation_service.cpp:399-402` publishes a session in the prefix index before it acquires it.
- *Batching worker*: a probe or shutdown signal at the head of a batch drops the rest of it (`device_worker.py:176-187`).

## 7. What is not modelled, and why

- Formats, pixels, tokens, prompts and model code: data nobody here decides on.
- In the modelled components: what section 2 names as abstracted; organisation scoping and result paths of jobs; segmented requests, the batching worker and the
  pool in the request path; the TCP mode, the HTTP endpoints and the unread cache view of the gateway; its assignment
  message (it lets decode prepare the transfer of the cache and settles nothing); the round-robin cursor of the selector
  (any least-loaded server is chosen).
- Time is order: a timeout may come at any point at which the code can reach it; durations are not compared, except that
  an in-flight send is younger than the request timeout.
- `workflows/`, `scripts/`, `evals/`, `benchmarking/`, `tests/` and configuration tables are most of the repository's lines.
  They run one command after the other, or measure a running server; they share no state and nothing in them is
  interleaved, so the map has no definitions for them and covers a small share of all lines.
- The components marked `not_modelled` in `PROJECT.json`: planned below, or clients without shared state, or
  third-party code (vLLM, SGLang, dynamo) that is not in the repository.

## 8. Plan

In order of importance; each step is a module, its MC module and runs, and its proofs.

1. **BatchWorker** with segmented requests: every request of a batch is answered.
2. The rest of the C++ session manager: the prefix index and its races with evictions, routing by response id, locked slots.
3. **MemoryQueue**, **CpuWorkload**, **SlotRing** (an instance of `VideoRing` without crashes), **SpscQueue**.
4. The C++ worker manager, the blaze prefill runner, the disaggregation service as the gateway's peer.
5. Abstract specifications still to be stated: a request as a state machine (asked, answered or failed once) implemented by
   `RequestPath`; a task's verdict implemented by `PrefillGateway`.

Theorems to come: the refinements of 5, and the hashes of `BlockScheduler`. As runs are few,
a later module replaces or joins a run that has told its story.
