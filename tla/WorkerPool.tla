----------------------------- MODULE WorkerPool -----------------------------
(***************************************************************************)
(* The worker pool of the media server: Scheduler of                       *)
(* tt-media-server/model_services/scheduler.py with the two resets of      *)
(* BaseService.  The event loop opens the workers one after another,       *)
(* listens to their warm-up signals and errors, and runs the health        *)
(* monitor, which restarts a worker whose process died or failed too       *)
(* often.  An HTTP device reset runs restart_worker in a thread, at any    *)
(* point of what the loop is doing.                                        *)
(*                                                                         *)
(* `proc` is the sequence of all processes ever started, info[w] the one    *)
(* worker_info names for w (0 for none) and rec[w] the counters kept with  *)
(* it.  A restart terminates the old process and joins it for 5 s; the     *)
(* code goes on although it may still run, so the model does, and `outlived`*)
(* remembers which processes a restart has left behind that way.           *)
(***************************************************************************)
EXTENDS Integers, Sequences, FiniteSets

CONSTANTS
    N,               \* number of workers: get_worker_count
    MaxRestarts,     \* settings.max_worker_restart_count
    AllowDeepReset,  \* the values settings.allow_deep_reset may have
    Resets           \* the HTTP device resets there may be, one thread each

ASSUME PoolAssumption ==
    /\ N \in Nat \ {0}
    /\ MaxRestarts \in Nat
    /\ AllowDeepReset \subseteq BOOLEAN
    /\ IsFiniteSet(Resets) /\ "monitor" \notin Resets

Workers    == 1..N
Restarters == Resets \cup {"monitor"}

VARIABLES
    toOpen,   \* workers_to_open, popped in the order of the ids
    proc,     \* every process started: its worker, its life, and whether it
              \* runs on although a restart has terminated and joined it
    info,     \* worker -> index in proc of the process worker_info holds, or 0
    rec,      \* worker -> the rest of its worker_info record
    isReady,  \* is_ready
    signals,  \* warmup_signals_queue
    errQ,     \* worker -> errors of it still in error_queue
    mon,      \* worker_health_monitor: "off", "sleep", "work", "ended"
    todo,     \* its list dead_workers: the dead, then the failing ones
    job,      \* restarter -> where its call of restart_worker is
    phase,    \* "run", stop_workers under way, and what came after it
    deep      \* settings.allow_deep_reset, read when the server starts

loopVars == <<toOpen, isReady, signals, mon, todo, phase, deep>>
vars == <<toOpen, proc, info, rec, isReady, signals, errQ, mon, todo, job, phase, deep>>

Idle  == [pc |-> "idle", w |-> 0, old |-> 0, count |-> 0, errs |-> 0]
NoWork == [dead |-> {}, failing |-> {}]
Blank == [ready |-> FALSE, restarts |-> 0, errs |-> 0]

Init ==
    /\ toOpen = Workers
    /\ proc = <<>>
    /\ info = [w \in Workers |-> 0]
    /\ rec = [w \in Workers |-> Blank]
    /\ isReady = FALSE
    /\ signals = <<>>
    /\ errQ = [w \in Workers |-> 0]
    /\ mon = "off"
    /\ todo = NoWork
    /\ job = [x \in Restarters |-> Idle]
    /\ phase = "run"
    /\ deep \in AllowDeepReset

IsFirst(w, S) == w \in S /\ \A v \in S : w <= v

IsAlive(p) == proc[p].life \in {"warming", "up"}

\* A process that has ended, whether or not a restart had left it behind.
Ended(r) == [owner |-> r.owner, life |-> "dead", outlived |-> FALSE]

\* What runs on the event loop waits while the monitor or stop_workers blocks it.
LoopFree  == mon # "work" /\ phase # "stopping" /\ phase # "giving_up"
Listening == phase = "run" /\ LoopFree

-----------------------------------------------------------------------------
(* Starting the workers. *)

\* _start_worker: a new process and a new worker_info record for w.
Spawn(w) ==
    /\ proc' = Append(proc, [owner |-> w, life |-> "warming", outlived |-> FALSE])
    /\ info' = [info EXCEPT ![w] = Len(proc) + 1]
    /\ rec' = [rec EXCEPT ![w] = Blank]

\* One round of _start_workers_in_sequence, then its sleep.  It does not look
\* at whether the pool has been stopped meanwhile.
StartNext ==
    /\ LoopFree
    /\ \E w \in toOpen :
        /\ IsFirst(w, toOpen)
        /\ toOpen' = toOpen \ {w}
        /\ Spawn(w)
    /\ UNCHANGED <<isReady, signals, errQ, mon, todo, job, phase, deep>>

\* Process.start raises: the worker is popped and the sequence abandoned.
StartNextFails ==
    /\ LoopFree
    /\ toOpen # {}
    /\ toOpen' = {}
    /\ UNCHANGED <<proc, info, rec, isReady, signals, errQ, mon, todo, job, phase, deep>>

-----------------------------------------------------------------------------
(* The processes. *)

\* A process has been killed: it may have taken a place or the write lock of the
\* shared queues with it, and what others put on them may be lost.
QueuesHit == \E q \in DOMAIN proc : proc[q].life = "dead"

\* A worker ends its warm-up and puts its id on the queue, which holds N (and the
\* listener's thread one more).  The put waits 2 s for room: the signal is lost
\* when the loop is blocked that long, after a kill, and on the closed queue.
WarmUp(p) ==
    /\ proc[p].life = "warming"
    /\ proc' = [proc EXCEPT ![p].life = "up"]
    /\ \/ /\ phase = "run" /\ Len(signals) <= N
          /\ signals' = Append(signals, proc[p].owner)
       \/ /\ phase # "run" \/ (Len(signals) > N /\ ~LoopFree) \/ QueuesHit
          /\ UNCHANGED signals
    /\ UNCHANGED <<toOpen, info, rec, isReady, errQ, mon, todo, job, phase, deep>>

\* Initialisation fails: the worker reports one error and returns.  Nobody hears
\* the errors that come after a stop, and a kill may have broken the queue.
InitFails(p) ==
    /\ proc[p].life = "warming"
    /\ proc' = [proc EXCEPT ![p] = Ended(@)]
    /\ \/ phase = "run" /\ errQ' = [errQ EXCEPT ![proc[p].owner] = @ + 1]
       \/ (phase # "run" \/ QueuesHit) /\ UNCHANGED errQ
    /\ UNCHANGED <<toOpen, info, rec, isReady, signals, mon, todo, job, phase, deep>>

Die(p) ==
    /\ IsAlive(p)
    /\ proc' = [proc EXCEPT ![p] = Ended(@)]
    /\ UNCHANGED <<toOpen, info, rec, isReady, signals, errQ, mon, todo, job, phase, deep>>

\* A request fails in a worker.  Bounded: no more errors than make a restart.
RequestFails(p) ==
    /\ phase = "run"
    /\ proc[p].life = "up"
    /\ rec[proc[p].owner].errs + errQ[proc[p].owner] <= MaxRestarts
    /\ errQ' = [errQ EXCEPT ![proc[p].owner] = @ + 1]
    /\ UNCHANGED <<toOpen, proc, info, rec, isReady, signals, mon, todo, job, phase, deep>>

-----------------------------------------------------------------------------
(* The listeners, on the event loop. *)

\* device_warmup_listener: the signal names a worker, not a process, so it is
\* the record worker_info holds now that becomes ready.
HearReady ==
    /\ Listening
    /\ signals # <<>>
    /\ signals' = Tail(signals)
    /\ rec' = [rec EXCEPT ![Head(signals)].ready = TRUE]
    /\ isReady' = TRUE
    /\ mon' = IF isReady THEN mon ELSE "sleep"
    /\ UNCHANGED <<toOpen, proc, info, errQ, todo, job, phase, deep>>

\* error_listener counts the error in the record worker_info holds now.
HearError(w) ==
    /\ Listening
    /\ errQ[w] > 0
    /\ errQ' = [errQ EXCEPT ![w] = @ - 1]
    /\ rec' = [rec EXCEPT ![w].errs = @ + 1]
    /\ UNCHANGED <<toOpen, proc, info, isReady, signals, mon, todo, job, phase, deep>>

-----------------------------------------------------------------------------
(* restart_worker, by the monitor or in the thread of a device reset. *)

BeginRestart(x, w) ==
    job' = [job EXCEPT ![x] = [pc |-> "clean", w |-> w, old |-> info[w],
                               count |-> rec[w].restarts + 1, errs |-> 0]]

\* Mutant: the old process is taken for dead and not terminated.
CleanNoKill(x) ==
    /\ job[x].pc = "clean"
    /\ job' = [job EXCEPT ![x].pc = "start"]
    /\ UNCHANGED <<proc, info, rec, errQ>> /\ UNCHANGED loopVars

\* The process worker_info names by now is terminated and joined for 5 s.  Nobody
\* looks whether it has ended then, and unlike stop_workers nobody kills it.
Clean(x) ==
    /\ job[x].pc = "clean"
    /\ LET p == info[job[x].w] IN
       \/ /\ p # 0
          /\ proc' = [proc EXCEPT ![p] = Ended(@)]
       \/ /\ p # 0 /\ IsAlive(p)
          /\ proc' = [proc EXCEPT ![p].outlived = TRUE]
       \/ p = 0 /\ UNCHANGED proc
    /\ job' = [job EXCEPT ![x].pc = "start"]
    /\ UNCHANGED <<info, rec, errQ>> /\ UNCHANGED loopVars

\* The record that is replaced changes no more; whoever still holds it as its
\* old_info will find this error count in it.
StartNew(x) ==
    LET w == job[x].w IN
    /\ job[x].pc = "start"
    /\ Spawn(w)
    /\ job' = [y \in Restarters |->
                 IF job[y].pc \in {"clean", "start"} /\ job[y].w = w /\ job[y].old = info[w]
                 THEN [job[y] EXCEPT !.errs = rec[w].errs,
                                     !.pc = IF y = x THEN "count" ELSE @]
                 ELSE IF y = x THEN [job[y] EXCEPT !.pc = "count"] ELSE job[y]]
    /\ UNCHANGED errQ /\ UNCHANGED loopVars

Finish(x) ==
    job' = [job EXCEPT ![x] =
              IF x = "monitor" THEN Idle
              ELSE [pc |-> "done", w |-> job[x].w, old |-> 0, count |-> 0, errs |-> 0]]

\* Mutant: the new record starts with a count of its own.
CountFromZero(x) ==
    LET w == job[x].w IN
    /\ job[x].pc = "count"
    /\ rec' = IF info[w] = 0 THEN rec ELSE [rec EXCEPT ![w].errs = job[x].errs - 1]
    /\ Finish(x)
    /\ UNCHANGED <<proc, info, errQ>> /\ UNCHANGED loopVars

\* The counters of the old record go over to the record worker_info holds now;
\* none there is a KeyError, lost with the thread.
Count(x) ==
    LET w == job[x].w IN
    /\ job[x].pc = "count"
    /\ rec' = IF info[w] = 0 THEN rec
              ELSE [rec EXCEPT ![w] = [ready |-> rec[w].ready, restarts |-> job[x].count,
                                       errs |-> job[x].errs - 1]]
    /\ Finish(x)
    /\ UNCHANGED <<proc, info, errQ>> /\ UNCHANGED loopVars

\* Process.start raises.  The monitor spends the restart and clears the ready
\* flag; the exception of a reset thread is lost.
StartFails(x) ==
    LET w == job[x].w IN
    /\ job[x].pc = "start"
    /\ rec' = IF x # "monitor" THEN rec
              ELSE [rec EXCEPT ![w] = [ready |-> FALSE, restarts |-> rec[w].restarts + 1,
                                       errs |-> rec[w].errs]]
    /\ Finish(x)
    /\ UNCHANGED <<proc, info, errQ>> /\ UNCHANGED loopVars

\* BaseService.device_reset; a worker that is not in worker_info is a
\* ValueError nobody sees.
DeviceReset(x, w) ==
    /\ x # "monitor"
    /\ job[x].pc = "idle"
    /\ info[w] # 0
    /\ BeginRestart(x, w)
    /\ UNCHANGED <<proc, info, rec, errQ>> /\ UNCHANGED loopVars

-----------------------------------------------------------------------------
(* The health monitor. *)

IsDead(w)    == info[w] # 0 /\ ~IsAlive(info[w])
IsFailing(w) == info[w] # 0 /\ rec[w].errs > MaxRestarts

\* A tick collects the dead workers and then the failing ones: a worker that is
\* both is in the list twice.  A tick that finds nothing changes nothing.
Tick ==
    /\ mon = "sleep" /\ phase = "run"
    /\ todo' = [dead |-> {w \in Workers : IsDead(w)},
                failing |-> {w \in Workers : IsFailing(w)}]
    /\ todo' # NoWork
    /\ mon' = "work"
    /\ UNCHANGED <<toOpen, proc, info, rec, isReady, signals, errQ, job, phase, deep>>

\* The next worker of the list, and the list without it.
Working  == mon = "work" /\ job["monitor"].pc = "idle"
IsNext(w) == IF todo.dead # {} THEN IsFirst(w, todo.dead) ELSE IsFirst(w, todo.failing)
Rest(w)   == IF todo.dead # {} THEN [todo EXCEPT !.dead = @ \ {w}]
                               ELSE [todo EXCEPT !.failing = @ \ {w}]

\* Mutant: the last restart is not granted, and the worker not given up either.
RestartNextOneLess(w) ==
    /\ Working /\ IsNext(w)
    /\ rec[w].restarts + 1 < MaxRestarts
    /\ BeginRestart("monitor", w)
    /\ todo' = Rest(w)
    /\ UNCHANGED <<toOpen, proc, info, rec, isReady, signals, errQ, mon, phase, deep>>

RestartNext(w) ==
    /\ Working /\ IsNext(w)
    /\ rec[w].restarts < MaxRestarts
    /\ BeginRestart("monitor", w)
    /\ todo' = Rest(w)
    /\ UNCHANGED <<toOpen, proc, info, rec, isReady, signals, errQ, mon, phase, deep>>

\* It has no restart left: the monitor only logs it, or restarts the whole pool.
GiveUp(w) ==
    /\ Working /\ IsNext(w)
    /\ rec[w].restarts >= MaxRestarts
    /\ ~deep
    /\ todo' = Rest(w)
    /\ UNCHANGED <<toOpen, proc, info, rec, isReady, signals, errQ, mon, job, phase, deep>>

TickDone ==
    /\ Working
    /\ todo = NoWork
    /\ mon' = "sleep"
    /\ UNCHANGED <<toOpen, proc, info, rec, isReady, signals, errQ, todo, job, phase, deep>>

-----------------------------------------------------------------------------
(* stop_workers, and deep_restart_workers around it. *)

\* Mutant: only the workers that are up are joined and killed.
KillUp ==
    /\ proc' = [p \in DOMAIN proc |->
                  IF info[proc[p].owner] = p /\ proc[p].life = "up"
                  THEN Ended(proc[p]) ELSE proc[p]]
    /\ isReady' = FALSE
    /\ mon' = IF mon = "off" THEN "off" ELSE "ended"
    /\ todo' = NoWork
    /\ UNCHANGED <<toOpen, info, rec, signals, errQ, job, deep>>

\* stop_workers joins and kills every process worker_info names ...
KillAll ==
    /\ proc' = [p \in DOMAIN proc |->
                  IF info[proc[p].owner] = p THEN Ended(proc[p])
                                             ELSE proc[p]]
    /\ isReady' = FALSE
    /\ mon' = IF mon = "off" THEN "off" ELSE "ended"
    /\ todo' = NoWork
    /\ UNCHANGED <<toOpen, info, rec, signals, errQ, job, deep>>

\* ... at shutdown or for POST deep-reset, while the loop is free, or called by
\* the monitor that has given a worker up.
Stop ==
    /\ Listening
    /\ KillAll
    /\ phase' = "stopping"

GiveUpDeep(w) ==
    /\ Working /\ IsNext(w)
    /\ rec[w].restarts >= MaxRestarts
    /\ deep
    /\ KillAll
    /\ phase' = "giving_up"

\* ... and then forgets them and ends the listeners.  The monitor has cancelled
\* its own task in stop_workers, so its deep restart ends at the sleep after it.
Forget ==
    /\ phase \in {"stopping", "giving_up"}
    /\ info' = [w \in Workers |-> 0]
    /\ rec' = [w \in Workers |-> Blank]
    /\ signals' = <<>>
    /\ errQ' = [w \in Workers |-> 0]
    /\ phase' \in IF phase = "stopping" THEN {"stopped", "resetting"} ELSE {"cancelled"}
    /\ UNCHANGED <<toOpen, proc, isReady, mon, todo, job, deep>>

\* The rest of a deep restart over HTTP: _setup_initial_variables empties
\* workers_to_open, the worker count is cached so that nothing fills it again,
\* and the coroutine self.start_workers() is never awaited.
Reopen ==
    /\ phase = "resetting"
    /\ phase' = "reopened"
    /\ toOpen' = {}
    /\ info' = [w \in Workers |-> 0]
    /\ rec' = [w \in Workers |-> Blank]
    /\ UNCHANGED <<proc, isReady, signals, errQ, mon, todo, job, deep>>

-----------------------------------------------------------------------------
Restart(x) == Clean(x) \/ StartNew(x) \/ Count(x) \/ StartFails(x)
Monitor ==
    \/ Tick \/ TickDone
    \/ \E w \in Workers : RestartNext(w) \/ GiveUp(w) \/ GiveUpDeep(w)

Next ==
    \/ StartNext \/ StartNextFails
    \/ \E p \in DOMAIN proc : WarmUp(p) \/ InitFails(p) \/ Die(p) \/ RequestFails(p)
    \/ HearReady
    \/ \E w \in Workers : HearError(w)
    \/ \E x \in Restarters : Restart(x)
    \/ \E x \in Resets, w \in Workers : DeviceReset(x, w)
    \/ Monitor
    \/ Stop \/ Forget \/ Reopen

\* The loop, the calls it blocks on and the threads it starts are scheduled; that
\* a process warms up or fails, that what it reports arrives, that somebody resets
\* or stops the pool is not promised.
Fairness ==
    /\ WF_vars(StartNext \/ StartNextFails)
    /\ WF_vars(Monitor)
    /\ \A x \in Restarters : WF_vars(Restart(x))
    /\ WF_vars(Forget)
    /\ WF_vars(Reopen)

Spec == Init /\ [][Next]_vars /\ Fairness

-----------------------------------------------------------------------------
(* Properties. *)

\* Every variable stays in its type; info names a process of its worker, and what
\* is in flight (signals, errors, restarts) is about a worker that was started.
TypeOK ==
    /\ toOpen \subseteq Workers
    /\ proc \in Seq([owner : Workers, life : {"warming", "up", "dead"},
                    outlived : BOOLEAN])
    /\ info \in [Workers -> 0..Len(proc)]
    /\ \A w \in Workers : info[w] # 0 => proc[info[w]].owner = w
    /\ rec \in [Workers -> [ready : BOOLEAN, restarts : Nat, errs : Int]]
    /\ isReady \in BOOLEAN
    /\ signals \in Seq(Workers)
    /\ errQ \in [Workers -> Nat]
    /\ mon \in {"off", "sleep", "work", "ended"}
    /\ todo \in [dead : SUBSET Workers, failing : SUBSET Workers]
    /\ job \in [Restarters -> [pc : {"idle", "clean", "start", "count", "done"},
                              w : 0..N, old : Nat, count : Nat, errs : Int]]
    /\ \A x \in Restarters : job[x].pc # "idle" => job[x].w \in Workers
    /\ phase \in {"run", "stopping", "giving_up", "stopped", "resetting", "cancelled",
                  "reopened"}
    /\ deep \in BOOLEAN

ResetsOf(w) == {x \in Resets : job[x].w = w}
Procs(w)    == {p \in DOMAIN proc : proc[p].owner = w}
Alive(w)    == {p \in Procs(w) : IsAlive(p)}
Outlived(w) == {p \in Procs(w) : proc[p].outlived}

\* Two processes on one device break both.  A worker has more than one live process
\* for two reasons only: one outlived the SIGTERM and the join of its restart, for
\* restart_worker starts the next one all the same, or a device reset over HTTP
\* raced with the health monitor, each adding at most one.  Nothing else that dies,
\* fails or stops while the monitor restarts puts two of them beside each other.
OneProcessPerWorker ==
    \A w \in Workers :
        Cardinality(Alive(w) \ Outlived(w)) <= 1 + Cardinality(ResetsOf(w))

\* A live process that worker_info does not name is supervised by nobody and
\* outlives stop_workers.  One is left by a restart whose join gave up on it, by a
\* device reset of its worker, or by a deep restart that ends while the start
\* sequence is still opening workers, and by nothing else.
NoOrphan ==
    \A w \in Workers : \A p \in Alive(w) :
        \/ info[w] = p
        \/ p \in Outlived(w)
        \/ ResetsOf(w) # {}
        \/ phase = "reopened"

\* A worker is restarted at most MaxRestarts times, in however many lists of a tick
\* it is, however its restarts fail and whatever errors its predecessors left: only
\* a device reset may renew the budget, with the stale count it read.
RestartBudget ==
    \A w \in Workers : ResetsOf(w) = {} => Cardinality(Procs(w)) <= MaxRestarts + 1

\* While the monitor runs and the pool is not stopped, a dead worker does not stay
\* dead with restarts left.
Neglected(w) ==
    /\ phase = "run" /\ mon # "off"
    /\ IsDead(w) /\ rec[w].restarts < MaxRestarts

DeadIsHandled == \A w \in Workers : Neglected(w) ~> ~Neglected(w)

=============================================================================
