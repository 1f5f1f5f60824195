---------------------------- MODULE RequestPath -----------------------------
(***************************************************************************)
(* The way of a request through the Python server of tt-media-server: the  *)
(* handler (BaseService.process, process_streaming), the scheduler's task  *)
(* queue and its two listeners (Scheduler.result_listener and              *)
(* error_listener), the workers that run requests concurrently             *)
(* (device_worker_dynamic_batch), and the channel by which a handler that  *)
(* gave up tells the workers (Scheduler.cancel_task, cancel_listener).     *)
(*                                                                         *)
(* Handlers and listeners share one asyncio loop; each worker is a process *)
(* of its own.  All of them meet in multiprocessing queues.  Workers die   *)
(* and are restarted; which of them may be restarted, and when, is         *)
(* left open here.                                                         *)
(*                                                                         *)
(* What a request's runner puts into the result queue is a log: the        *)
(* positions put, sent, routed and read of the runner, the feeder thread   *)
(* of its process, the listener and the handler say which items are in the *)
(* worker's buffer, in the pipe and in the handler's asyncio.Queue.        *)
(*                                                                         *)
(* A multiprocessing queue has a lock for its readers and one for its      *)
(* writers.  A process that is killed with a lock keeps it for ever, and   *)
(* the restarted worker inherits the queue.                                *)
(***************************************************************************)
EXTENDS Integers, Sequences, FiniteSets

CONSTANTS
    Requests,    \* task ids, a fresh uuid each
    Workers,
    Streaming,   \* the requests with stream = True
    QueueSize,   \* capacity of the task queue
    QueuePerWorker,  \* settings.use_queue_per_worker: a result queue for each
    MaxItems,    \* bound: items a stream has, the final one included
    MaxDeaths    \* bound: how often a worker process ends

NoWorker == "none"

ASSUME PathAssumption ==
    /\ Streaming \subseteq Requests
    /\ NoWorker \notin Workers /\ QueuePerWorker \in BOOLEAN
    /\ QueueSize \in Nat \ {0} /\ MaxItems \in Nat \ {0} /\ MaxDeaths \in Nat

VARIABLES
    handler,    \* state of the HTTP request
    registry,   \* keys of Scheduler.result_queues
    taskQ,      \* the task queue
    ranOn,      \* the worker that took the request, or NoWorker
    inflight,   \* per worker: the asyncio tasks it runs
    put,        \* items the runner put into the result queue
    sent,       \* items of them its process has written to the pipe
    finals,     \* requests whose last item is the final one
    routed,     \* items the result listener has taken
    read,       \* items the handler has taken from its own queue
    dropped,    \* requests of which the result listener dropped an item
    errorQ,     \* requests with an entry in the error queue
    errSent,    \* those whose entry has been written to its pipe
    errAt,      \* position at which the handler finds an error, or NoError
    cancelQ,    \* the cancel queue
    worker,     \* "dead", "warming" or "serving"
    flags,      \* workers with worker_info[w]["is_ready"]
    wedged,     \* queues of which a lock died with its holder, and the event loop
    mute,       \* workers whose result queue has lost its writers' lock
    deaths,
    lost        \* history: requests whose run or answer died with a worker

client  == <<handler, registry, read>>
results == <<put, sent, finals, routed, dropped>>
errors  == <<errorQ, errSent, errAt>>
locks   == <<wedged, mute>>
pool    == <<worker, flags, locks, deaths>>
vars    == <<client, taskQ, ranOn, inflight, results, errors, cancelQ, pool, lost>>

NoError  == -1
Ended    == {"answered", "failed"}

TypeOK ==
    /\ handler \in [Requests -> Ended \cup {"idle", "waiting", "rejected"}]
    /\ taskQ \in Seq(Requests) /\ cancelQ \in Seq(Requests)
    /\ ranOn \in [Requests -> Workers \cup {NoWorker}]
    /\ inflight \in [Workers -> SUBSET Requests]
    /\ registry \subseteq Requests /\ finals \subseteq Requests /\ dropped \subseteq Requests
    /\ errorQ \subseteq Requests /\ errSent \subseteq Requests /\ lost \subseteq Requests
    /\ put \in [Requests -> 0..MaxItems] /\ sent \in [Requests -> 0..MaxItems]
    /\ routed \in [Requests -> 0..MaxItems] /\ read \in [Requests -> 0..MaxItems]
    /\ errAt \in [Requests -> {NoError} \cup 0..MaxItems]
    /\ worker \in [Workers -> {"dead", "warming", "serving"}]
    /\ flags \subseteq Workers /\ mute \subseteq Workers
    /\ wedged \subseteq {"tasks", "cancels", "errors", "loop"}
    /\ deaths \in 0..MaxDeaths

\* All workers have reported ready.
Init ==
    /\ handler = [r \in Requests |-> "idle"]
    /\ registry = {} /\ taskQ = <<>> /\ cancelQ = <<>>
    /\ ranOn = [r \in Requests |-> NoWorker]
    /\ inflight = [w \in Workers |-> {}]
    /\ put = [r \in Requests |-> 0] /\ sent = put /\ routed = put /\ read = put
    /\ errAt = [r \in Requests |-> NoError]
    /\ finals = {} /\ dropped = {} /\ errorQ = {} /\ errSent = {}
    /\ worker = [w \in Workers |-> "serving"] /\ flags = Workers
    /\ wedged = {} /\ mute = {} /\ deaths = 0
    /\ lost = {}

-----------------------------------------------------------------------------
(* Helpers.                                                                *)

Running(r) == \E w \in Workers : r \in inflight[w]
Queued(r)  == \E i \in 1..Len(taskQ) : taskQ[i] = r

\* check_is_model_ready and the test for a full task queue.
Admits == flags # {} /\ Len(taskQ) < QueueSize

\* The finally block of both handlers, _teardown_task: forget the result queue
\* and signal the workers, whatever the outcome.
Teardown(r) ==
    /\ registry' = registry \ {r}
    /\ cancelQ' = Append(cancelQ, r)

\* Handlers and listeners run on the event loop, unless it hangs.
LoopRuns == "loop" \notin wedged

\* The workers that write to the result queue of w.
Sharers(w) == IF QueuePerWorker THEN {w} ELSE Workers

\* The locks a process may hold when it is killed: of the queues it reads and of
\* those its feeder threads write.
Locks(w) ==
    {"errors"} \cup
    (IF worker[w] = "serving"
     THEN {"tasks", "cancels"} \cup (IF w \in mute THEN {} ELSE {"results"})
     ELSE {})

-----------------------------------------------------------------------------
(* Deliberately wrong variants of the steps below; no action uses them.    *)

RouteError_Drops(r) ==
    /\ LoopRuns /\ r \in errSent
    /\ errorQ' = errorQ \ {r} /\ errSent' = errSent \ {r}
    /\ UNCHANGED <<client, taskQ, ranOn, inflight, results, errAt, cancelQ, pool, lost>>

TakeItem_EndsEarly(r) ==
    /\ LoopRuns /\ handler[r] = "waiting" /\ read[r] < routed[r] /\ errAt[r] # read[r]
    /\ read' = [read EXCEPT ![r] = @ + 1]
    /\ IF r \in finals
       THEN handler' = [handler EXCEPT ![r] = "answered"] /\ Teardown(r)
       ELSE UNCHANGED <<handler, registry, cancelQ>>
    /\ UNCHANGED <<taskQ, ranOn, inflight, results, errors, pool, lost>>

HearCancel_AbortsAll(w) ==
    /\ worker[w] = "serving" /\ "cancels" \notin wedged /\ cancelQ # <<>>
    /\ inflight' = [inflight EXCEPT ![w] = {}]
    /\ cancelQ' = Tail(cancelQ)
    /\ UNCHANGED <<client, taskQ, ranOn, results, errors, pool, lost>>

-----------------------------------------------------------------------------
(* The handler.                                                            *)

\* The result queue is registered before the request is offered, and outside
\* the try block: a refused request is not torn down.
Submit(r) ==
    /\ LoopRuns /\ handler[r] = "idle"
    /\ registry' = registry \cup {r}
    /\ IF Admits
       THEN /\ taskQ' = Append(taskQ, r)
            /\ handler' = [handler EXCEPT ![r] = "waiting"]
       ELSE /\ UNCHANGED taskQ
            /\ handler' = [handler EXCEPT ![r] = "rejected"]
    /\ UNCHANGED <<read, ranOn, inflight, results, errors, cancelQ, pool, lost>>

\* The next result in the handler's queue; the final one ends the handler.
TakeItem(r) ==
    /\ LoopRuns /\ handler[r] = "waiting" /\ read[r] < routed[r] /\ errAt[r] # read[r]
    /\ read' = [read EXCEPT ![r] = @ + 1]
    /\ IF r \in finals /\ read[r] + 1 = put[r]
       THEN handler' = [handler EXCEPT ![r] = "answered"] /\ Teardown(r)
       ELSE UNCHANGED <<handler, registry, cancelQ>>
    /\ UNCHANGED <<taskQ, ranOn, inflight, results, errors, pool, lost>>

\* The handler ends without the whole answer; in which way is the client's concern.
Ends(r) ==
    /\ LoopRuns /\ handler[r] = "waiting"
    /\ handler' = [handler EXCEPT ![r] = "failed"]
    /\ Teardown(r)
    /\ UNCHANGED <<read, taskQ, ranOn, inflight, results, errors, pool, lost>>

\* The next thing in the handler's queue is the worker's exception.
TakeError(r) == errAt[r] = read[r] /\ Ends(r)

\* request_processing_timeout_seconds without anything in the handler's queue.
Timeout(r) == read[r] = routed[r] /\ errAt[r] = NoError /\ Ends(r)

\* The client is gone: CancelledError.
Disconnect(r) == Ends(r)

-----------------------------------------------------------------------------
(* A worker.                                                               *)

\* request_feeder: every request becomes an asyncio task at once.
Take(w) ==
    /\ worker[w] = "serving" /\ "tasks" \notin wedged /\ taskQ # <<>>
    /\ taskQ' = Tail(taskQ)
    /\ ranOn' = [ranOn EXCEPT ![Head(taskQ)] = w]
    /\ inflight' = [inflight EXCEPT ![w] = @ \cup {Head(taskQ)}]
    /\ UNCHANGED <<client, results, errors, cancelQ, pool, lost>>

\* A chunk of a stream.
PutChunk(w, r) ==
    /\ worker[w] = "serving" /\ r \in inflight[w] \cap Streaming
    /\ put[r] < MaxItems - 1
    /\ put' = [put EXCEPT ![r] = @ + 1]
    /\ UNCHANGED <<client, taskQ, ranOn, inflight, sent, finals, routed, dropped, errors,
                   cancelQ, pool, lost>>

\* The response, or the final result of a stream.
Finish(w, r) ==
    /\ worker[w] = "serving" /\ r \in inflight[w] /\ put[r] < MaxItems
    /\ put' = [put EXCEPT ![r] = @ + 1]
    /\ finals' = finals \cup {r}
    /\ inflight' = [inflight EXCEPT ![w] = @ \ {r}]
    /\ UNCHANGED <<client, taskQ, ranOn, sent, routed, dropped, errors, cancelQ, pool,
                   lost>>

\* The runner raised, or answered nothing.
Raise(w, r) ==
    /\ worker[w] = "serving" /\ r \in inflight[w]
    /\ errorQ' = errorQ \cup {r}
    /\ inflight' = [inflight EXCEPT ![w] = @ \ {r}]
    /\ UNCHANGED <<client, taskQ, ranOn, results, errSent, errAt, cancelQ, pool,
                   lost>>

\* The feeder threads of the worker's end of the two queues: what was put is
\* written to the pipe some time later, under the writers' lock.
Send(w, r) ==
    /\ worker[w] = "serving" /\ w \notin mute
    /\ ranOn[r] = w /\ sent[r] < put[r]
    /\ sent' = [sent EXCEPT ![r] = @ + 1]
    /\ UNCHANGED <<client, taskQ, ranOn, inflight, put, finals, routed, dropped, errors,
                   cancelQ, pool, lost>>

SendError(w, r) ==
    /\ worker[w] = "serving" /\ "errors" \notin wedged
    /\ ranOn[r] = w /\ r \in errorQ \ errSent
    /\ errSent' = errSent \cup {r}
    /\ UNCHANGED <<client, taskQ, ranOn, inflight, results, errorQ, errAt, cancelQ, pool,
                   lost>>

\* cancel_listener: an id that is not in flight here is taken for finished.
HearCancel(w) ==
    /\ worker[w] = "serving" /\ "cancels" \notin wedged /\ cancelQ # <<>>
    /\ inflight' = [inflight EXCEPT ![w] = @ \ {Head(cancelQ)}]
    /\ cancelQ' = Tail(cancelQ)
    /\ UNCHANGED <<client, taskQ, ranOn, results, errors, pool, lost>>

-----------------------------------------------------------------------------
(* The scheduler's listeners.                                              *)

RouteResult(r) ==
    /\ LoopRuns /\ routed[r] < sent[r]
    /\ routed' = [routed EXCEPT ![r] = @ + 1]
    /\ dropped' = IF r \in registry THEN dropped ELSE dropped \cup {r}
    /\ UNCHANGED <<client, taskQ, ranOn, inflight, put, sent, finals, errors, cancelQ, pool,
                   lost>>

\* The process that kept the lock may have left half a message in the pipe.
\* get_many(block=False) waits for the rest of a message it has begun to read, on the
\* event loop, with what it read before in its hands.
HalfRead(w) ==
    /\ LoopRuns /\ w \in mute
    /\ wedged' = wedged \cup {"loop"}
    /\ UNCHANGED <<client, taskQ, ranOn, inflight, results, errors, cancelQ, worker, flags,
                   mute, deaths, lost>>

\* An error may overtake results that are still on their way.
RouteError(r) ==
    /\ LoopRuns /\ r \in errSent
    /\ errorQ' = errorQ \ {r} /\ errSent' = errSent \ {r}
    /\ errAt' = IF r \in registry THEN [errAt EXCEPT ![r] = routed[r]] ELSE errAt
    /\ UNCHANGED <<client, taskQ, ranOn, inflight, results, cancelQ, pool, lost>>

-----------------------------------------------------------------------------
(* The life of a worker process.                                           *)

\* It crashes or is terminated: its tasks are gone, and with them whatever its
\* buffers still held.  A lock it holds is never released.
Die(w) ==
    LET own == {r \in Requests : ranOn[r] = w} IN
    /\ worker[w] # "dead" /\ deaths < MaxDeaths
    /\ deaths' = deaths + 1
    /\ worker' = [worker EXCEPT ![w] = "dead"]
    /\ inflight' = [inflight EXCEPT ![w] = {}]
    /\ \E held \in SUBSET Locks(w) :
          /\ wedged' = wedged \cup (held \ {"results"})
          /\ mute' = IF "results" \in held THEN mute \cup Sharers(w) ELSE mute
    /\ put' = [r \in Requests |-> IF r \in own THEN sent[r] ELSE put[r]]
    /\ finals' = {r \in finals : put'[r] = put[r]}
    /\ errorQ' = errorQ \ (own \ errSent)
    /\ lost' = lost \cup inflight[w] \cup (errorQ \ errorQ') \cup (finals \ finals')
    /\ UNCHANGED <<client, taskQ, ranOn, sent, routed, dropped, errSent, errAt, cancelQ,
                   flags>>

\* restart_worker: the queues are the old ones.
Restart(w) ==
    /\ worker[w] = "dead"
    /\ worker' = [worker EXCEPT ![w] = "warming"]
    /\ flags' = flags \ {w}
    /\ UNCHANGED <<client, taskQ, ranOn, inflight, results, errors, cancelQ, locks,
                   deaths, lost>>

\* Warmup is over, and device_warmup_listener sees the signal if it arrives: the
\* lock of its queue may have gone with a worker that was killed.
ReportReady(w) ==
    /\ worker[w] = "warming"
    /\ worker' = [worker EXCEPT ![w] = "serving"]
    /\ \/ LoopRuns /\ flags' = flags \cup {w}
       \/ UNCHANGED flags
    /\ UNCHANGED <<client, taskQ, ranOn, inflight, results, errors, cancelQ, locks,
                   deaths, lost>>

-----------------------------------------------------------------------------

RequestStep(r) ==
    \/ Submit(r) \/ TakeItem(r) \/ TakeError(r) \/ Timeout(r) \/ Disconnect(r)
    \/ RouteResult(r) \/ RouteError(r)

WorkerStep(w) ==
    \/ Take(w) \/ HearCancel(w) \/ HalfRead(w)
    \/ Die(w) \/ Restart(w) \/ ReportReady(w)
    \/ \E r \in Requests :
          PutChunk(w, r) \/ Finish(w, r) \/ Raise(w, r) \/ Send(w, r) \/ SendError(w, r)

Next == (\E r \in Requests : RequestStep(r)) \/ (\E w \in Workers : WorkerStep(w))

Spec == Init /\ [][Next]_vars

\* The loops of the server and of the workers go round, and dead workers are
\* restarted.  Nothing makes a handler time out or a client go away.
Plumbing ==
    /\ \A r \in Requests :
          /\ WF_vars(TakeItem(r)) /\ WF_vars(TakeError(r))
          /\ WF_vars(RouteResult(r)) /\ WF_vars(RouteError(r))
    /\ \A w \in Workers :
          /\ WF_vars(Take(w)) /\ WF_vars(HearCancel(w))
          /\ WF_vars(LoopRuns /\ Restart(w)) /\ WF_vars(ReportReady(w))
          /\ \A r \in Requests : WF_vars(Send(w, r)) /\ WF_vars(SendError(w, r))

\* The runner ends a run somebody waits for; one that was abandoned may go on for
\* ever unless it is told to stop.
Engine ==
    \A r \in Requests :
        WF_vars(\E w \in Workers : handler[r] = "waiting" /\ (Finish(w, r) \/ Raise(w, r)))

FairSpec == Spec /\ Plumbing /\ Engine

-----------------------------------------------------------------------------
(* Safety.                                                                 *)

\* No request disappears: while its handler waits, it is in the task queue, in
\* a worker, on its way back, or it went down with a worker.
Accounted ==
    \A r \in Requests : handler[r] = "waiting" /\ r \notin lost =>
        /\ r \notin dropped
        /\ Queued(r) \/ Running(r) \/ r \in finals \cup errorQ \/ errAt[r] # NoError

\* An answered client has seen every item its runner put, in order, up to the
\* final one, whatever died meanwhile.
StreamIntact ==
    \A r \in Requests : handler[r] = "answered" => r \in finals /\ read[r] = put[r]

\* A request is run at most once: neither a restart nor a late worker takes a
\* request that was taken before.
StartedOnce ==
    [][\A r \in Requests : ranOn[r] # NoWorker => ranOn'[r] = ranOn[r] /\ ~Queued(r)']_vars

\* The registry of result queues holds the waiting requests and those that were
\* refused.
RegistryExact == registry = {r \in Requests : handler[r] \in {"waiting", "rejected"}}

-----------------------------------------------------------------------------
(* The inductive invariant behind them.                                    *)

NoDuplicates == \A i, j \in 1..Len(taskQ) : taskQ[i] = taskQ[j] => i = j

\* A request that no worker has taken has left no trace beyond the task queue,
\* and only requests of handlers that were admitted are in it.
Untaken ==
    \A r \in Requests :
        /\ ranOn[r] = NoWorker =>
              /\ put[r] = 0 /\ r \notin finals \cup errorQ \cup dropped \cup lost
              /\ errAt[r] = NoError
        /\ Queued(r) => ranOn[r] = NoWorker
        /\ handler[r] \in {"idle", "rejected"} => ranOn[r] = NoWorker /\ ~Queued(r)

\* A running request is the one its worker took; when a run has ended, it ended
\* in one way.
RunsOnce ==
    \A r \in Requests :
        /\ \A w \in Workers : r \in inflight[w] =>
              ranOn[r] = w /\ r \notin finals \cup errorQ /\ errAt[r] = NoError
        /\ r \in finals => put[r] > 0 /\ r \notin errorQ /\ errAt[r] = NoError

Positions ==
    \A r \in Requests :
        /\ read[r] <= routed[r] /\ routed[r] <= sent[r] /\ sent[r] <= put[r]
        /\ r \in errSent => r \in errorQ
        /\ handler[r] = "waiting" /\ r \in finals => read[r] < put[r]
        /\ handler[r] = "waiting" => r \notin dropped

\* Only a handler that has ended signals the workers: an abort never hits a
\* request somebody waits for.
SignalsAreLate == \A i \in 1..Len(cancelQ) : handler[cancelQ[i]] \in Ended

PathInv ==
    /\ SignalsAreLate
    /\ RegistryExact /\ NoDuplicates /\ Untaken /\ RunsOnce /\ Positions
    /\ Accounted /\ StreamIntact

-----------------------------------------------------------------------------
(* What the code says of itself and does not keep.                         *)

\* The keys of result_queues (canary probes apart) are the requests "currently
\* awaiting a result".
InFlightIsAwaiting == registry = {r \in Requests : handler[r] = "waiting"}

-----------------------------------------------------------------------------
(* Liveness.                                                               *)

\* A lock that died with a worker stands between the request and its answer: the
\* event loop hangs on half a message, no worker can read the task queue, the
\* worker that took the request cannot write its results, or its error.
Stranded(r) ==
    \/ ~LoopRuns
    \/ Queued(r) /\ "tasks" \in wedged
    \/ ranOn[r] \in mute /\ (Running(r) \/ sent[r] < put[r])
    \/ r \in errorQ \ errSent /\ "errors" \in wedged

\* Every request is answered that does not go down with a worker, and that no lost
\* lock strands - of the queue it is in or on the way to, at the place where it is.
Served ==
    \A r \in Requests :
        handler[r] = "waiting" ~> handler[r] # "waiting" \/ r \in lost \/ Stranded(r)

=============================================================================
