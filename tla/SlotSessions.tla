---------------------------- MODULE SlotSessions ----------------------------
(***************************************************************************)
(* The server process of the C++ server in front of the blaze runner: the  *)
(* SessionManager, which owns the KV cache slots between the turns of a    *)
(* conversation, the part of LLMService that answers and aborts requests,  *)
(* and the client's end (LLMPipeline, StreamingResponseWriter).            *)
(*                                                                         *)
(* Four kinds of threads: the event loop of a request, the consumer of the *)
(* worker's tokens, the reader of the memory results, and the worker       *)
(* (BlazeRunner).  Every map has its own lock, held for one access.        *)
(*                                                                         *)
(* A session is named after the request it was created for.  Hashes are    *)
(* left out: a request may match any idle session that is in the prefix    *)
(* index, or none.  Slots locked as a source to copy from are left out:    *)
(* the runner does not use slotIdToCopyFrom.                               *)
(***************************************************************************)
EXTENDS BlazeRunner, FiniteSetsExt

CONSTANTS
    MaxSessions, EvictionRate, EvictionCount, \* the settings of those names
    Retries,     \* sessionAllocationMaxRetries
    MemCap,      \* memoryQueueCapacity
    Leavers      \* the requests whose client may disconnect

ASSUME SessionAssumption ==
    /\ {MaxSessions, EvictionRate, EvictionCount, Retries} \subseteq Nat
    /\ MemCap \in Nat \ {0}
    /\ Leavers \subseteq Requests
    /\ IsFiniteSet(Requests)
    /\ "reader" \notin Requests /\ None # "reader"

VARIABLES
    pc,        \* where a request is
    session,   \* SessionManager::sessions
    on,        \* request->session
    callbacks, \* LLMService::streamCallbacks
    attempts,  \* PendingAllocation::attemptsRemaining
    evictor, candidates, \* who is inside evictOldSessions, what it has left
    deferred,  \* deferredDeallocQueue
    aborted    \* history: the requests whose client has disconnected

sessionVars == <<session, evictor, candidates, deferred>>
requestVars == <<pc, on, callbacks, attempts, aborted>>
vars == <<runnerVars, sessionVars, requestVars>>

Reader == "reader"
Init ==
    /\ RunnerInit
    /\ pc = [r \in Requests |-> "new"]
    /\ session = [r \in Requests |-> [st |-> "none", slot |-> None]]
    /\ on = [r \in Requests |-> None]
    /\ callbacks = {} /\ aborted = {}
    /\ attempts = [r \in Requests |-> Retries]
    /\ evictor = None /\ candidates = {} /\ deferred = {}

Live == {c \in Requests : session[c].st \in {"prepared", "idle", "inflight"}}
IdleSessions == {c \in Requests : session[c].st = "idle"}

-----------------------------------------------------------------------------
(* evictOldSessions: one thread at a time, the others skip it.  The oldest *)
(* sessions are candidates (any, as times are left out); each is taken out *)
(* only if it is still idle then.                                          *)

Crowded == Cardinality(Live) * 100 > MaxSessions * EvictionRate
EvictionDue == evictor = None /\ Crowded /\ IdleSessions # {} /\ EvictionCount > 0
Evicts(by) ==
    /\ EvictionDue
    /\ candidates' \in kSubset(Min({EvictionCount, Cardinality(IdleSessions)}), IdleSessions)
    /\ evictor' = by
NoEviction == ~EvictionDue /\ UNCHANGED <<evictor, candidates>>

\* sendDeallocRequest
SendOrForget(s) ==    \* mutant: not kept for later
    /\ memReq' = IF Len(memReq) < MemCap THEN Append(memReq, Dealloc(s)) ELSE memReq
    /\ UNCHANGED deferred
SendDealloc(s) ==
    IF Len(memReq) < MemCap
    THEN memReq' = Append(memReq, Dealloc(s)) /\ UNCHANGED deferred
    ELSE deferred' = deferred \cup {s} /\ UNCHANGED memReq

OnceIdle(c) == TRUE    \* mutant: the candidate is not looked at again
StillIdle(c) == session[c].st = "idle"
EvictNext(c) ==
    /\ c \in candidates
    /\ candidates' = candidates \ {c}
    /\ IF StillIdle(c)
       THEN /\ session' = [session EXCEPT ![c].st = "gone"]
            /\ SendDealloc(session[c].slot)
       ELSE UNCHANGED <<session, memReq, deferred>>
    /\ IF candidates' = {}
       THEN /\ evictor' = None
            /\ pc' = [r \in Requests |->
                         IF r = evictor \/ (evictor = Reader /\ pc[r] = "due")
                         THEN "send" ELSE pc[r]]
       ELSE UNCHANGED <<evictor, pc>>
    /\ UNCHANGED <<slotVars, phase, memRes, taskQ, cancelQ, tokens, devVars, lost,
                   on, callbacks, attempts, aborted>>

-----------------------------------------------------------------------------
(* The request: a session for it, an old one or a new one.                 *)

AcquireUnmarked(c) ==    \* mutant: left idle, so that others may take it
    session' = [session EXCEPT ![c].st = "idle"]
Acquire(c) == session' = [session EXCEPT ![c].st = "inflight"]

Take(r, c) ==
    /\ pc' = [pc EXCEPT ![r] = "acquired"]
    /\ on' = [on EXCEPT ![r] = c]
    /\ Acquire(c)
    /\ UNCHANGED <<runnerVars, evictor, candidates, deferred, callbacks, attempts,
                   aborted>>

\* tryAcquireByPrefixHash finds an idle session
Hit(r, c) == pc[r] = "new" /\ session[c].st = "idle" /\ Take(r, c)

\* createSession
Miss(r) ==
    /\ pc[r] = "new"
    /\ \/ Evicts(r) /\ pc' = [pc EXCEPT ![r] = "evict"]
       \/ NoEviction /\ pc' = [pc EXCEPT ![r] = "send"]
    /\ UNCHANGED <<runnerVars, session, deferred, on, callbacks, attempts, aborted>>

\* sendAsyncAllocationRequest, and the same end for a result without a slot
Again(r) ==
    IF attempts[r] = 0
    THEN pc' = [pc EXCEPT ![r] = "failed"] /\ UNCHANGED attempts
    ELSE /\ pc' = [pc EXCEPT ![r] = "retry"]
         /\ attempts' = [attempts EXCEPT ![r] = @ - 1]

SendAlloc(r) ==
    /\ pc[r] = "send"
    /\ IF Cardinality(Live) >= MaxSessions \/ Len(memReq) >= MemCap
       THEN Again(r) /\ UNCHANGED memReq
       ELSE /\ memReq' = Append(memReq, Allocate(r))
            /\ pc' = [pc EXCEPT ![r] = "waiting"]
            /\ UNCHANGED attempts
    /\ UNCHANGED <<slotVars, phase, memRes, taskQ, cancelQ, tokens, devVars, lost,
                   sessionVars, on, callbacks, aborted>>

\* createSession's onCompletion on the event loop: acquireInFlight
Resolve(r) == pc[r] = "ready" /\ Take(r, r)

\* clearInFlight, which nobody checks the owner of; a session that was
\* evicted meanwhile is freed memory, and stays as it is
Cleared(c) ==
    IF session[c].st = "inflight" THEN [session EXCEPT ![c].st = "idle"] ELSE session

\* preProcess refuses the request
Refuse(r) ==
    /\ pc[r] = "acquired"
    /\ pc' = [pc EXCEPT ![r] = "failed"]
    /\ session' = Cleared(on[r])
    /\ UNCHANGED <<runnerVars, evictor, candidates, deferred, on, callbacks,
                   attempts, aborted>>

\* produceStream: the callback is there before the sequence is sent
Produce(r) ==
    /\ pc[r] = "acquired"
    /\ pc' = [pc EXCEPT ![r] = "running"]
    /\ callbacks' = callbacks \cup {r}
    /\ taskQ' = Append(taskQ, [task |-> r, slot |-> session[on[r]].slot])
    /\ UNCHANGED <<slotVars, phase, memReq, memRes, cancelQ, tokens, devVars, lost,
                   sessionVars, on, attempts, aborted>>

-----------------------------------------------------------------------------
(* The reader thread.                                                      *)

Retrying == {r \in Requests : pc[r] = "retry"}

\* retryFailedAllocations: those whose time has come, R, if any wait at all
RetryAllocs(R) ==
    /\ R \subseteq Retrying /\ Retrying # {}
    /\ evictor # Reader
    /\ \/ Evicts(Reader) /\ pc' = [r \in Requests |-> IF r \in R THEN "due" ELSE pc[r]]
       \/ NoEviction /\ pc' = [r \in Requests |-> IF r \in R THEN "send" ELSE pc[r]]
    /\ UNCHANGED <<runnerVars, session, deferred, on, callbacks, attempts, aborted>>

\* retryFailedDeallocs
RetryDealloc(s) ==
    /\ s \in deferred /\ evictor # Reader
    /\ Len(memReq) < MemCap
    /\ memReq' = Append(memReq, Dealloc(s))
    /\ deferred' = deferred \ {s}
    /\ UNCHANGED <<slotVars, phase, memRes, taskQ, cancelQ, tokens, devVars, lost,
                   session, evictor, candidates, requestVars>>

\* handleMemoryResult
MemoryResult(m) ==
    /\ m \in memRes /\ evictor # Reader
    /\ memRes' = memRes \ {m}
    /\ IF m.slot # None
       THEN /\ session' = [session EXCEPT ![m.task] = [st |-> "prepared", slot |-> m.slot]]
            /\ pc' = [pc EXCEPT ![m.task] = "ready"]
            /\ UNCHANGED attempts
       ELSE Again(m.task) /\ UNCHANGED session
    /\ UNCHANGED <<slotVars, phase, memReq, taskQ, cancelQ, tokens, devVars, lost,
                   evictor, candidates, deferred, on, callbacks, aborted>>

-----------------------------------------------------------------------------
(* The end of a request.                                                   *)

\* the consumer: the last token, whose callback clears the session
Consume(r) ==
    /\ r \in tokens
    /\ tokens' = tokens \ {r}
    /\ callbacks' = callbacks \ {r}
    /\ IF r \in callbacks
       THEN /\ session' = Cleared(on[r])
            /\ pc' = [pc EXCEPT ![r] = "finished"]
       ELSE UNCHANGED <<session, pc>>
    /\ UNCHANGED <<slotVars, phase, memReq, memRes, taskQ, cancelQ, devVars, lost,
                   evictor, candidates, deferred, on, attempts, aborted>>

\* StreamingResponseWriter::abort, LLMService::abortRequest: take the callback
\* and call it
Disconnect(r) ==
    /\ r \in Leavers /\ pc[r] \in {"running", "finished"}
    /\ pc' = [pc EXCEPT ![r] = "aborting"]
    /\ aborted' = aborted \cup {r}
    /\ callbacks' = callbacks \ {r}
    /\ session' = IF r \in callbacks THEN Cleared(on[r]) ELSE session
    /\ UNCHANGED <<runnerVars, evictor, candidates, deferred, on, attempts>>

\* ... tell the worker, unless the queue is full
PushCancel(r) ==
    /\ pc[r] = "aborting"
    /\ pc' = [pc EXCEPT ![r] = "releasing"]
    /\ cancelQ' \in {cancelQ, cancelQ \cup {r}}
    /\ UNCHANGED <<slotVars, phase, memReq, memRes, taskQ, tokens, devVars, lost,
                   sessionVars, on, callbacks, attempts, aborted>>

\* ... and onSessionRelease: clear the session once more
ReleaseAgain(r) ==
    /\ pc[r] = "releasing"
    /\ pc' = [pc EXCEPT ![r] = "done"]
    /\ session' = Cleared(on[r])
    /\ UNCHANGED <<runnerVars, evictor, candidates, deferred, on, callbacks,
                   attempts, aborted>>

-----------------------------------------------------------------------------
Loop(r) ==
    \/ SendAlloc(r) \/ Resolve(r) \/ Refuse(r) \/ Produce(r)
    \/ PushCancel(r) \/ ReleaseAgain(r)
Memory ==
    \/ \E m \in memRes : MemoryResult(m)
    \/ \E s \in Slots : RetryDealloc(s)
    \/ \E R \in SUBSET Requests : RetryAllocs(R)
Server ==
    \/ \E r \in Requests : Loop(r) \/ Consume(r) \/ Miss(r) \/ Disconnect(r)
    \/ \E r, c \in Requests : Hit(r, c)
    \/ \E c \in Requests : EvictNext(c)
    \/ Memory
Next ==
    \/ Server
    \/ (RunnerStep \/ SchedTake \/ (\E s \in Slots : Emit(s)))
       /\ UNCHANGED <<sessionVars, requestVars>>

\* the server, the worker and the scheduler each go on; a client need not
\* ask, nor leave
Serve ==
    \/ \E r \in Requests : Loop(r) \/ Consume(r) \/ EvictNext(r)
    \/ Memory
Scheduler == SchedTake \/ \E s \in Slots : Emit(s)
Fairness ==
    /\ WF_vars(Serve)
    /\ WF_vars(RunnerStep /\ UNCHANGED <<sessionVars, requestVars>>)
    /\ WF_vars(Scheduler /\ UNCHANGED <<sessionVars, requestVars>>)

Spec == Init /\ [][Next]_vars /\ Fairness

-----------------------------------------------------------------------------
(* Where a slot is: with a session, on its way to one, or on its way back. *)

Occurs(q, e) == Cardinality({i \in DOMAIN q : q[i] = e})
One(b) == IF b THEN 1 ELSE 0
WithSession(s) == Cardinality({c \in Live : session[c].slot = s})
Arriving(s) ==
    Cardinality({i \in DOMAIN answers : answers[i].type = "ALLOCATE" /\ answers[i].slot = s})
    + Cardinality({m \in memRes : m.slot = s})
Returning(s) ==
    Occurs(pendMem \o memReq, Dealloc(s)) + One(s \in deferred) + One(slot[s].evict)
Leaving(s) == Occurs(schedQ, Command("EVICT", "dealloc", s))

\* A slot the scheduler has given away is in one place only: with one live
\* session, on its way to one, or in one request to give it back - whichever
\* of full queues, retries, deferred evictions and cancellations it met.
SlotHome == \A s \in Slots :
    /\ WithSession(s) + Arriving(s) + Returning(s) + Leaving(s) =
          One(dev[s] # "free" /\ s \notin lost)
    /\ WithSession(s) + Returning(s) > 0 =>
          slot[s].st \in {"IDLE", "RUNNING", "STOPPING"}

\* The table of SlotContext::setState: a slot under eviction only becomes free
\* (StopAck takes STOPPING to IDLE and further in one step).  A step outside
\* of it throws, and takes the worker down.
Legal == [FREE |-> {"IDLE"}, IDLE |-> {"RUNNING", "EVICTING"},
          RUNNING |-> {"IDLE", "STOPPING", "EVICTING"},
          STOPPING |-> {"IDLE", "EVICTING", "RUNNING"}, EVICTING |-> {"FREE"}]
LegalTransitions ==
    [][\A s \in Slots : slot'[s].st # slot[s].st => slot'[s].st \in Legal[slot[s].st]]_vars

\* A request that still expects tokens has its session to itself, in flight, so
\* that it is not evicted nor given to another - except for a session that an
\* abort has cleared, once or, in onSessionRelease, once more.
InFlightOwned == \A r \in callbacks :
    \/ session[on[r]].st = "inflight"
       /\ \A q \in callbacks \ {r} : on[q] # on[r]
    \/ \E q \in aborted \ {r} : on[q] = on[r]

\* Nothing is thrown away in silence, no sequence, run or memory request, as
\* long as no client leaves: full queues alone make the worker lose nothing.
LossNeedsAbort == lost # {} => aborted # {}

\* Each request is answered, refused or aborted in the end, unless the worker
\* threw it away, and a slot that a session gave up gets back to the scheduler:
\* again and again no request is under way and no slot on its way back.
Settled(r) == pc[r] \in {"new", "finished", "done", "failed"} \/ r \in lost
Returned(s) == Returning(s) + Leaving(s) = 0 \/ s \in lost
ComesToRest == []<>((\A r \in Requests : Settled(r)) /\ \A s \in Slots : Returned(s))
=============================================================================
