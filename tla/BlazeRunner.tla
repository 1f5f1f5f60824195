----------------------------- MODULE BlazeRunner -----------------------------
(***************************************************************************)
(* The worker process of the C++ server's blaze pipeline: the loop         *)
(* BlazeDecodeRunner::step, its slot table (SlotManager, SlotContext) and  *)
(* the requests it holds back while the decode scheduler's queue is full   *)
(* (PendingRequests).                                                      *)
(*                                                                         *)
(* One thread runs the loop.  A step drains the answers and outputs of the *)
(* decode scheduler, takes one memory request, all cancellations and one   *)
(* sequence; each of them is an action here, and phase says which come     *)
(* next.  The decode scheduler (tt_llm_engine, a submodule) is external:   *)
(* a bounded queue of requests, answered in order, and an output per run.  *)
(* It answers a STOP or EVICT once no output of the slot is waiting.  Of   *)
(* the tokens of a run only the last one is modelled: the others change    *)
(* nothing but the text.  A slot is bound to a task exactly while RUNNING  *)
(* (taskToSlot), so the binding has no variable of its own.                *)
(***************************************************************************)
EXTENDS Naturals, Sequences, FiniteSets

CONSTANTS
    Requests,   \* the task ids
    Slots,      \* the KV cache slots, pmMaxUsers of them
    None,       \* no task, no slot
    SchedCap    \* the room in the queue of the decode scheduler

ASSUME RunnerAssumption ==
    /\ SchedCap \in Nat \ {0}
    /\ {None, "dealloc"} \cap (Requests \cup Slots) = {} /\ None # "dealloc"
    /\ Requests \cap Slots = {}

VARIABLES
    slot,                          \* SlotManager::slots
    pendTask, pendMem, pendCancel, \* PendingRequests
    phase,                         \* what the step does next
    \* the queues to and from the server
    memReq, memRes, taskQ, cancelQ, tokens,
    \* the decode scheduler: requests, its view of the slots, answers, outputs
    schedQ, dev, answers, outputs,
    \* history: what was thrown away without telling anybody
    lost

slotVars  == <<slot, pendTask, pendMem, pendCancel>>
queueVars == <<memReq, memRes, taskQ, cancelQ, tokens>>
devVars   == <<schedQ, dev, answers, outputs>>
runnerVars == <<slotVars, phase, queueVars, devVars, lost>>

Free == [st |-> "FREE", task |-> None, ack |-> None, evict |-> FALSE, cont |-> None]
Idle == [Free EXCEPT !.st = "IDLE"]
Running(t) == [Free EXCEPT !.st = "RUNNING", !.task = t]
Evicting == [Free EXCEPT !.st = "EVICTING", !.ack = "dealloc"]

Allocate(r) == [action |-> "ALLOCATE", task |-> r, slot |-> None]
Dealloc(s) == [action |-> "DEALLOCATE", task |-> "dealloc", slot |-> s]
Command(type, id, s) == [type |-> type, id |-> id, slot |-> s]

RunnerInit ==
    /\ slot = [s \in Slots |-> Free]
    /\ pendTask = <<>> /\ pendMem = <<>> /\ pendCancel = None
    /\ phase = "answers"
    /\ memReq = <<>> /\ memRes = {} /\ taskQ = <<>> /\ cancelQ = {} /\ tokens = {}
    /\ schedQ = <<>> /\ dev = [s \in Slots |-> "free"]
    /\ answers = <<>> /\ outputs = {}
    /\ lost = {}

Room == Len(schedQ) < SchedCap
Push(c) == schedQ' = Append(schedQ, c)
Tasks(q) == {q[i].task : i \in DOMAIN q}

-----------------------------------------------------------------------------
(* What the handlers share.  PendingRequests has one place of each kind: a *)
(* held-back request that meets another one there replaces it.             *)

\* handleRequest on a slot that is IDLE, or becomes so in this very call
Run(s, t, held) ==
    IF Room
    THEN /\ Push(Command("SUBMIT", t, s))
         /\ slot' = [slot EXCEPT ![s] = Running(t)]
         /\ pendTask' = held
         /\ UNCHANGED lost
    ELSE /\ slot' = [slot EXCEPT ![s] = Idle]
         /\ pendTask' = <<[task |-> t, slot |-> s]>>
         /\ lost' = lost \cup Tasks(held)
         /\ UNCHANGED schedQ

\* handleEvictRequest on an IDLE or RUNNING slot: a run that is evicted gets
\* no token, a sequence held back for the slot is aborted
Evict(s, ctx, held, alsoAborted) ==
    IF Room
    THEN LET dropped == IF pendTask # <<>> /\ pendTask[1].slot = s
                        THEN Tasks(pendTask) ELSE {}
         IN /\ Push(Command("EVICT", "dealloc", s))
            /\ slot' = [slot EXCEPT ![s] = Evicting]
            /\ pendTask' = IF dropped = {} THEN pendTask ELSE <<>>
            /\ tokens' = tokens \cup dropped \cup alsoAborted
            /\ pendMem' = held
            /\ lost' = lost \cup ({ctx.task} \ {None})
    ELSE /\ slot' = [slot EXCEPT ![s] = ctx]
         /\ pendMem' = <<Dealloc(s)>>
         /\ tokens' = tokens \cup alsoAborted
         /\ lost' = lost \cup (IF held = <<>> THEN {}
                               ELSE {held[1].task, held[1].slot} \ {"dealloc", None})
         /\ UNCHANGED <<schedQ, pendTask>>

-----------------------------------------------------------------------------
(* Drain: the answers in order, and the outputs.                           *)

\* handleAllocateAck
AllocAck(a) ==
    /\ memRes' = memRes \cup {[task |-> a.id, slot |-> a.slot]}
    /\ slot' = IF a.slot = None THEN slot ELSE [slot EXCEPT ![a.slot].st = "IDLE"]
    /\ UNCHANGED <<pendTask, pendMem, tokens, schedQ, lost>>

\* handleEvictAck
EvictAck(a) ==
    /\ slot' = [slot EXCEPT ![a.slot] = Free]
    /\ UNCHANGED <<pendTask, pendMem, memRes, tokens, schedQ, lost>>

\* handleStopAck and handleDeferred: the eviction wins over the sequence
StopAck(a) ==
    LET c == slot[a.slot]
        cont == {c.cont} \ {None}
    IN \/ /\ c.evict
          /\ Evict(a.slot, Idle, pendMem, cont)
          /\ UNCHANGED memRes
       \/ /\ ~c.evict /\ cont # {}
          /\ Run(a.slot, c.cont, pendTask)
          /\ UNCHANGED <<pendMem, memRes, tokens>>
       \/ /\ ~c.evict /\ cont = {}
          /\ slot' = [slot EXCEPT ![a.slot] = Idle]
          /\ UNCHANGED <<pendTask, pendMem, memRes, tokens, schedQ, lost>>

\* validateAck; no run meets an answer it refuses
Expected(a) == (a.type # "ALLOCATE") => (slot[a.slot].ack = a.id)

HandleAnswer ==
    /\ phase = "answers" /\ answers # <<>>
    /\ answers' = Tail(answers)
    /\ LET a == Head(answers) IN
       IF Expected(a)
       THEN \/ a.type = "ALLOCATE" /\ AllocAck(a)
            \/ a.type = "EVICT" /\ EvictAck(a)
            \/ a.type = "STOP" /\ StopAck(a)
       ELSE UNCHANGED <<slotVars, memRes, tokens, schedQ, lost>>
    /\ UNCHANGED <<pendCancel, phase, memReq, taskQ, cancelQ, dev, outputs>>

\* handleOutput, for the last token of a run
HearsAlways(s) == TRUE    \* mutant: whatever the state of the slot
Hears(s) == slot[s].st = "RUNNING"
HandleOutput(s) ==
    /\ phase = "outputs" /\ s \in outputs
    /\ outputs' = outputs \ {s}
    /\ IF Hears(s)
       THEN /\ tokens' = tokens \cup {slot[s].task}
            /\ slot' = [slot EXCEPT ![s] = Idle]
       ELSE UNCHANGED <<tokens, slot>>
    /\ UNCHANGED <<pendTask, pendMem, pendCancel, phase, memReq, memRes, taskQ,
                   cancelQ, schedQ, dev, answers, lost>>

Drained ==
    /\ \/ phase = "answers" /\ answers = <<>> /\ phase' = "outputs"
       \/ phase = "outputs" /\ outputs = {} /\ phase' = "memory"
    /\ UNCHANGED <<slotVars, queueVars, devVars, lost>>

-----------------------------------------------------------------------------
(* One memory request, the held-back one first.                            *)

HandleAllocate(m) ==
    /\ IF Room THEN Push(Command("ALLOCATE", m.task, None)) /\ pendMem' = <<>>
               ELSE pendMem' = <<m>> /\ UNCHANGED schedQ
    /\ UNCHANGED <<slot, pendTask, tokens, lost>>

HandleEvict(m) ==
    LET s == m.slot
        c == slot[s]
    IN IF c.st \in {"EVICTING", "FREE"}
       THEN pendMem' = <<>> /\ UNCHANGED <<slot, pendTask, tokens, schedQ, lost>>
       ELSE \/ c.st \in {"IDLE", "RUNNING"} /\ Evict(s, c, <<>>, {})
            \/ /\ c.st = "STOPPING"
               /\ slot' = [slot EXCEPT ![s].evict = TRUE, ![s].cont = None]
               /\ tokens' = tokens \cup ({c.cont} \ {None})
               /\ pendMem' = <<>>
               /\ UNCHANGED <<pendTask, schedQ, lost>>

\* getMemoryRequest
MemoryOnlyNew == memReq    \* mutant: the held-back one is forgotten
MemoryWaiting == pendMem \o memReq
HandleMemory ==
    /\ phase = "memory"
    /\ phase' = IF pendCancel = None THEN "stops" ELSE "retry"
    /\ LET queue == MemoryWaiting
           m == Head(queue)
       IN \/ /\ queue = <<>>
             /\ UNCHANGED <<slot, pendTask, pendMem, tokens, schedQ, lost>>
          \/ queue # <<>> /\ m.action = "ALLOCATE" /\ HandleAllocate(m)
          \/ queue # <<>> /\ m.action = "DEALLOCATE" /\ HandleEvict(m)
    /\ memReq' = IF pendMem = <<>> /\ memReq # <<>> THEN Tail(memReq) ELSE memReq
    /\ UNCHANGED <<pendCancel, memRes, taskQ, cancelQ, dev, answers, outputs>>

-----------------------------------------------------------------------------
(* The cancellations, the held-back one first.                             *)

\* handleStopRequest
Stop(t, heldBack) ==
    LET bound == {s \in Slots : slot[s].st = "RUNNING" /\ slot[s].task = t} IN
    \/ /\ t \in Tasks(pendTask)
       /\ pendTask' = <<>> /\ pendCancel' = heldBack
       /\ UNCHANGED <<slot, schedQ>>
    \/ /\ t \notin Tasks(pendTask) /\ bound = {}
       /\ pendCancel' = heldBack
       /\ UNCHANGED <<slot, pendTask, schedQ>>
    \/ /\ t \notin Tasks(pendTask) /\ bound # {} /\ ~Room
       /\ pendCancel' = t
       /\ UNCHANGED <<slot, pendTask, schedQ>>
    \/ /\ t \notin Tasks(pendTask) /\ Room
       /\ \E s \in bound :
             /\ Push(Command("STOP", t, s))
             /\ slot' = [slot EXCEPT ![s].st = "STOPPING", ![s].ack = t]
       /\ pendCancel' = heldBack
       /\ UNCHANGED pendTask

HandleStop ==
    /\ \/ /\ phase = "retry" /\ phase' = "stops"
          /\ Stop(pendCancel, None)
          /\ UNCHANGED cancelQ
       \/ /\ phase = "stops" /\ UNCHANGED phase
          /\ \E t \in cancelQ : Stop(t, pendCancel) /\ cancelQ' = cancelQ \ {t}
    /\ UNCHANGED <<pendMem, memReq, memRes, taskQ, tokens, dev, answers, outputs, lost>>

Stopped ==
    /\ phase = "stops" /\ cancelQ = {}
    /\ phase' = "task"
    /\ UNCHANGED <<slotVars, queueVars, devVars, lost>>

-----------------------------------------------------------------------------
(* One sequence, the held-back one first.                                  *)

\* handleRequest; a sequence for a FREE or RUNNING slot is dropped, a second
\* one that waits for the same STOP replaces the first
Route(q) ==
    LET c == slot[q.slot] IN
    \/ /\ c.st = "IDLE" /\ Run(q.slot, q.task, <<>>)
       /\ UNCHANGED tokens
    \/ /\ c.st = "STOPPING"
       /\ slot' = [slot EXCEPT ![q.slot].cont = q.task]
       /\ lost' = lost \cup ({c.cont} \ {None})
       /\ pendTask' = <<>>
       /\ UNCHANGED <<schedQ, tokens>>
    \/ /\ c.st = "EVICTING"
       /\ tokens' = tokens \cup {q.task}
       /\ pendTask' = <<>>
       /\ UNCHANGED <<slot, schedQ, lost>>
    \/ /\ c.st \in {"FREE", "RUNNING"}
       /\ lost' = lost \cup {q.task}
       /\ pendTask' = <<>>
       /\ UNCHANGED <<slot, schedQ, tokens>>

HandleRequest ==
    /\ phase = "task" /\ phase' = "answers"
    /\ LET queue == pendTask \o taskQ IN
       \/ queue = <<>> /\ UNCHANGED <<slot, pendTask, tokens, schedQ, lost>>
       \/ queue # <<>> /\ Route(Head(queue))
    /\ taskQ' = IF pendTask = <<>> /\ taskQ # <<>> THEN Tail(taskQ) ELSE taskQ
    /\ UNCHANGED <<pendMem, pendCancel, memReq, memRes, cancelQ, dev, answers, outputs>>

RunnerStep ==
    \/ HandleAnswer \/ (\E s \in Slots : HandleOutput(s)) \/ Drained
    \/ HandleMemory \/ HandleStop \/ Stopped \/ HandleRequest

-----------------------------------------------------------------------------
(* The decode scheduler.                                                   *)

SchedTake ==
    /\ schedQ # <<>>
    /\ LET c == Head(schedQ)
           available == {s \in Slots : dev[s] = "free"}
       IN \/ /\ c.type = "ALLOCATE" /\ available = {}
             /\ answers' = Append(answers, c)
             /\ UNCHANGED dev
          \/ /\ c.type = "ALLOCATE"
             /\ \E s \in available :
                   /\ answers' = Append(answers, [c EXCEPT !.slot = s])
                   /\ dev' = [dev EXCEPT ![s] = "held"]
          \/ /\ c.type = "SUBMIT"
             /\ dev' = [dev EXCEPT ![c.slot] = "busy"]
             /\ UNCHANGED answers
          \/ /\ c.type \in {"STOP", "EVICT"} /\ c.slot \notin outputs
             /\ dev' = [dev EXCEPT ![c.slot] =
                           IF c.type = "STOP" THEN "held" ELSE "free"]
             /\ answers' = Append(answers, c)
    /\ schedQ' = Tail(schedQ)
    /\ UNCHANGED <<slotVars, phase, queueVars, outputs, lost>>

Emit(s) ==
    /\ dev[s] = "busy"
    /\ dev' = [dev EXCEPT ![s] = "held"]
    /\ outputs' = outputs \cup {s}
    /\ UNCHANGED <<slotVars, phase, queueVars, schedQ, answers, lost>>
=============================================================================
