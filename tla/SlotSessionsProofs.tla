--------------------------- MODULE SlotSessionsProofs ---------------------------
(***************************************************************************)
(* Proofs about SlotSessions, for any number of requests and slots and any *)
(* capacities: type correctness, LegalTransitions, SlotHome, InFlightOwned *)
(* and LossNeedsAbort.                                                     *)
(*                                                                         *)
(* The inductive invariant has four layers.  Coherent fits a slot's state  *)
(* to the commands and answers about it that are on their way; HomeInv     *)
(* says that a slot in use is in one place, AskInv the same of a request   *)
(* for a slot; OwnInv who has a session; CalmInv what holds until the      *)
(* first abort.                                                            *)
(***************************************************************************)
EXTENDS SlotSessions, SequenceTheorems, FiniteSetTheorems, TLAPS

-----------------------------------------------------------------------------
(* Types.                                                                  *)

Mem  == {Allocate(r) : r \in Requests} \cup {Dealloc(s) : s \in Slots}
Work == [task : Requests, slot : Slots]
Alloc(r, s)  == Command("ALLOCATE", r, s)
Submit(t, s) == Command("SUBMIT", t, s)
StopIt(t, s) == Command("STOP", t, s)
EvictIt(s)   == Command("EVICT", "dealloc", s)
Cmds ==
    {Alloc(r, None) : r \in Requests} \cup {EvictIt(s) : s \in Slots}
    \cup {Submit(t, s) : t \in Requests, s \in Slots}
    \cup {StopIt(t, s) : t \in Requests, s \in Slots}
Acks ==
    {Alloc(r, x) : r \in Requests, x \in Slots \cup {None}}
    \cup {EvictIt(s) : s \in Slots} \cup {StopIt(t, s) : t \in Requests, s \in Slots}
Contexts ==
    [st : {"FREE", "IDLE", "RUNNING", "STOPPING", "EVICTING"},
     task : Requests \cup {None}, ack : Requests \cup {None, "dealloc"},
     evict : BOOLEAN, cont : Requests \cup {None}]
Points ==
    {"new", "evict", "send", "waiting", "retry", "due", "ready", "acquired", "running",
     "finished", "aborting", "releasing", "done", "failed"}

RunnerTypeOK ==
    /\ slot \in [Slots -> Contexts]
    /\ pendTask \in Seq(Work) /\ Len(pendTask) <= 1
    /\ pendMem \in Seq(Mem) /\ Len(pendMem) <= 1
    /\ pendCancel \in Requests \cup {None}
    /\ phase \in {"answers", "outputs", "memory", "retry", "stops", "task"}
    /\ memReq \in Seq(Mem)
    /\ memRes \subseteq [task : Requests, slot : Slots \cup {None}]
    /\ taskQ \in Seq(Work)
    /\ cancelQ \subseteq Requests /\ tokens \subseteq Requests
    /\ schedQ \in Seq(Cmds) /\ dev \in [Slots -> {"free", "held", "busy"}]
    /\ answers \in Seq(Acks) /\ outputs \subseteq Slots
    /\ lost \subseteq Requests \cup Slots

ServerTypeOK ==
    /\ pc \in [Requests -> Points]
    /\ session \in [Requests -> [st : {"none", "prepared", "idle", "inflight", "gone"},
                                 slot : Slots \cup {None}]]
    /\ on \in [Requests -> Requests \cup {None}]
    /\ callbacks \subseteq Requests /\ aborted \subseteq Requests
    /\ attempts \in [Requests -> Nat]
    /\ evictor \in Requests \cup {None, Reader} /\ candidates \subseteq Requests
    /\ deferred \subseteq Slots

\* Every variable of the worker and of the server stays in its type; a queue holds
\* only commands that its reader knows, and at most one request is held back.
TypeOK == RunnerTypeOK /\ ServerTypeOK

-----------------------------------------------------------------------------
(* The queues: nothing is in one twice, and what is about one slot is in   *)
(* order.                                                                  *)

Distinct(q) == \A i, j \in DOMAIN q : q[i] = q[j] => i = j
Ordered(q, first, second) ==
    \A i, j \in DOMAIN q :
        i < j /\ q[i].slot = q[j].slot /\ q[i].slot \in Slots =>
            q[i].type \in first /\ q[j].type \in second

QueueInv ==
    /\ Distinct(schedQ) /\ Ordered(schedQ, {"SUBMIT"}, {"STOP", "EVICT"})
    /\ Distinct(answers) /\ Ordered(answers, {"EVICT"}, {"ALLOCATE"})
    /\ Distinct(memReq)

-----------------------------------------------------------------------------
(* A slot and what is on its way about it: commands C to the scheduler,    *)
(* answers A from it, an output (out), and the scheduler's own view d.     *)

CmdsOf(s) == {c \in Range(schedQ) : c.slot = s}
AcksOf(s) == {a \in Range(answers) : a.slot = s}

Given(s, d, A) ==
    \/ d = "free" /\ A = {}
    \/ d = "held" /\ \E r \in Requests : A = {Alloc(r, s)}

CoherentRunning(s, c, d, out, C, A) ==
    /\ c.task \in Requests /\ c = Running(c.task) /\ A = {}
    /\ \/ C = {Submit(c.task, s)} /\ d = "held" /\ ~out
       \/ C = {} /\ d = "busy" /\ ~out
       \/ C = {} /\ d = "held" /\ out
CoherentStopping(s, c, d, out, C, A) ==
    /\ c.st = "STOPPING" /\ c.task \in Requests /\ c.ack = c.task
    /\ \/ A = {} /\ C = {StopIt(c.task, s)} /\ d # "free"
       \/ A = {} /\ C = {Submit(c.task, s), StopIt(c.task, s)} /\ d = "held" /\ ~out
       \/ A = {StopIt(c.task, s)} /\ C = {} /\ d = "held" /\ ~out
CoherentEvicting(s, c, d, out, C, A) ==
    /\ c = Evicting
    /\ \/ A = {} /\ C = {EvictIt(s)} /\ d # "free"
       \/ A = {} /\ (\E t \in Requests : C = {Submit(t, s), EvictIt(s)}) /\ d = "held" /\ ~out
       \/ C = {} /\ EvictIt(s) \in A /\ Given(s, d, A \ {EvictIt(s)}) /\ ~out
Coherent(s, c, d, out, C, A) ==
    \/ c = Free /\ C = {} /\ Given(s, d, A) /\ ~out
    \/ c = Idle /\ C = {} /\ A = {} /\ d = "held" /\ ~out
    \/ CoherentRunning(s, c, d, out, C, A)
    \/ CoherentStopping(s, c, d, out, C, A)
    \/ CoherentEvicting(s, c, d, out, C, A)

SlotInv(s) == Coherent(s, slot[s], dev[s], s \in outputs, CmdsOf(s), AcksOf(s))

-----------------------------------------------------------------------------
(* Where a slot is.                                                        *)

Usable == {"IDLE", "RUNNING", "STOPPING"}
Places == {"session", "answer", "result", "held", "asked", "deferred", "flag", "leaving"}
SessionsAt(s) == {c \in Live : session[c].slot = s}
Results(s)    == {m \in memRes : m.slot = s}

At(k, s) ==
    \/ k = "session" /\ SessionsAt(s) # {}
    \/ k = "answer" /\ \E r \in Requests : Alloc(r, s) \in AcksOf(s)
    \/ k = "result" /\ Results(s) # {}
    \/ k = "held" /\ Dealloc(s) \in Range(pendMem)
    \/ k = "asked" /\ Dealloc(s) \in Range(memReq)
    \/ k = "deferred" /\ s \in deferred
    \/ k = "flag" /\ slot[s].evict
    \/ k = "leaving" /\ EvictIt(s) \in CmdsOf(s)

Somewhere(s) == \E k \in Places : At(k, s)
HomeInv(s) ==
    /\ \A k, l \in Places : At(k, s) /\ At(l, s) => k = l
    /\ Somewhere(s) <=> (dev[s] # "free" /\ s \notin lost)
    /\ s \in lost => dev[s] # "free"
    /\ (\E k \in Places \ {"answer", "leaving"} : At(k, s)) => slot[s].st \in Usable
    /\ slot[s].evict => slot[s].st = "STOPPING"
    /\ \A c, e \in SessionsAt(s) : c = e
    /\ \A m, n \in Results(s) : m = n

-----------------------------------------------------------------------------
(* Where the request for a slot is.                                        *)

Stages == {"asked", "held", "sent", "answered", "result"}
Asks(k, r) ==
    \/ k = "asked" /\ Allocate(r) \in Range(memReq)
    \/ k = "held" /\ Allocate(r) \in Range(pendMem)
    \/ k = "sent" /\ Alloc(r, None) \in Range(schedQ)
    \/ k = "answered" /\ \E x \in Slots \cup {None} : Alloc(r, x) \in Range(answers)
    \/ k = "result" /\ \E x \in Slots \cup {None} : [task |-> r, slot |-> x] \in memRes

Early == {"new", "evict", "send", "waiting", "retry", "due"}
AskInv(r) ==
    /\ \A k, l \in Stages : Asks(k, r) /\ Asks(l, r) => k = l
    /\ \A k \in Stages : Asks(k, r) => pc[r] = "waiting"
    /\ pc[r] \in Early => session[r].st = "none"
    /\ \A x, y \in Slots \cup {None} :
          Alloc(r, x) \in Range(answers) /\ Alloc(r, y) \in Range(answers) => x = y
    /\ \A x, y \in Slots \cup {None} :
          [task |-> r, slot |-> x] \in memRes /\ [task |-> r, slot |-> y] \in memRes => x = y

-----------------------------------------------------------------------------
(* Who has a session.                                                      *)

Owner(r) == pc[r] = "acquired" \/ r \in callbacks
Shared(r) == \E q \in aborted \ {r} : on[q] = on[r]
Alone(r) == /\ session[on[r]].st = "inflight"
            /\ \A q \in Requests \ {r} : Owner(q) => on[q] # on[r]
RequestInv(r) ==
    /\ pc[r] = "ready" => session[r].st = "prepared"
    /\ r \in callbacks => pc[r] = "running"
    /\ Owner(r) => on[r] \in Requests
    /\ r \in aborted <=> pc[r] \in {"aborting", "releasing", "done"}
    /\ on[r] # None => session[on[r]].st \in {"idle", "inflight", "gone"}
    /\ Owner(r) => Alone(r) \/ Shared(r)
OwnInv ==
    /\ evictor \in Requests => pc[evictor] = "evict"
    /\ \A c \in Requests : session[c].st # "none" => session[c].slot \in Slots
    /\ \A r \in Requests : RequestInv(r)

-----------------------------------------------------------------------------
(* Until a client leaves: where the work of a request is.                  *)

Queued(r, s)   == [task |-> r, slot |-> s] \in Range(taskQ)
HeldTask(r, s) == [task |-> r, slot |-> s] \in Range(pendTask)
Runs(r, s)     == slot[s].st = "RUNNING" /\ slot[s].task = r
Ways == {"queued", "held", "runs", "token"}
Way(k, r) ==
    \/ k = "queued" /\ \E s \in Slots : Queued(r, s)
    \/ k = "held" /\ \E s \in Slots : HeldTask(r, s)
    \/ k = "runs" /\ \E s \in Slots : Runs(r, s)
    \/ k = "token" /\ r \in tokens
WorkInv(r) ==
    /\ \A k, l \in Ways : Way(k, r) /\ Way(l, r) => k = l
    /\ \A k \in Ways : Way(k, r) => r \in callbacks
    /\ \A s \in Slots :
         Queued(r, s) \/ HeldTask(r, s) \/ Runs(r, s) => session[on[r]].slot = s
CalmInv ==
    /\ lost = {} /\ cancelQ = {} /\ pendCancel = None
    /\ \A s \in Slots : slot[s].st # "STOPPING"
    /\ \A i, j \in DOMAIN taskQ : taskQ[i].task = taskQ[j].task => i = j
    /\ \A r \in Requests : WorkInv(r)

-----------------------------------------------------------------------------
(* Sound is what holds of the queues, slots and requests for a slot; the   *)
(* inductive invariant adds the types, the sessions and the calm.          *)

Sound == /\ QueueInv
         /\ \A s \in Slots : SlotInv(s) /\ HomeInv(s)
         /\ \A r \in Requests : AskInv(r)

IInv == TypeOK /\ Sound /\ OwnInv /\ (aborted = {} => CalmInv)
-----------------------------------------------------------------------------
(* Queues of any kind of element.                                          *)

\* What an append adds to a queue.
LEMMA Pushed ==
    ASSUME NEW T, NEW q \in Seq(T), NEW c \in T
    PROVE  /\ Append(q, c) \in Seq(T) /\ Len(Append(q, c)) = Len(q) + 1
           /\ DOMAIN Append(q, c) = 1..(Len(q) + 1)
           /\ Append(q, c)[Len(q) + 1] = c
           /\ \A i \in DOMAIN q : Append(q, c)[i] = q[i]
           /\ Range(Append(q, c)) = Range(q) \cup {c}
           /\ Distinct(q) /\ c \notin Range(q) => Distinct(Append(q, c))
<1>1. /\ Append(q, c) \in Seq(T) /\ Len(Append(q, c)) = Len(q) + 1
      /\ Append(q, c)[Len(q) + 1] = c
      /\ \A i \in 1..Len(q) : Append(q, c)[i] = q[i]
  BY AppendProperties
<1>2. DOMAIN q = 1..Len(q) /\ DOMAIN Append(q, c) = 1..(Len(q) + 1) /\ Len(q) \in Nat
  BY <1>1, LenProperties
<1> DEFINE p == Append(q, c)
<1> HIDE DEF p
<1>3. Range(p) = Range(q) \cup {c}
  <2>1. \A x \in Range(p) : x \in Range(q) \cup {c}
    BY <1>1, <1>2 DEF Range, p
  <2>2. \A x \in Range(q) : x \in Range(p)
    BY <1>1, <1>2 DEF Range, p
  <2>3. c \in Range(p)
    BY <1>1, <1>2 DEF Range, p
  <2> QED BY <2>1, <2>2, <2>3
<1>4. ASSUME Distinct(q), c \notin Range(q) PROVE Distinct(p)
  BY <1>1, <1>2, <1>4 DEF Distinct, Range, p
<1> QED BY <1>1, <1>2, <1>3, <1>4 DEF p

\* What taking the head leaves in it.
LEMMA Popped ==
    ASSUME NEW T, NEW q \in Seq(T), q # <<>>
    PROVE  /\ Tail(q) \in Seq(T) /\ Head(q) \in T /\ Head(q) \in Range(q)
           /\ Len(Tail(q)) = Len(q) - 1 /\ Head(q) = q[1] /\ Len(q) \in Nat \ {0}
           /\ DOMAIN Tail(q) = 1..(Len(q) - 1)
           /\ \A i \in 1..(Len(q) - 1) : Tail(q)[i] = q[i + 1]
           /\ Range(q) = Range(Tail(q)) \cup {Head(q)}
           /\ Distinct(q) => /\ Distinct(Tail(q))
                             /\ Range(Tail(q)) = Range(q) \ {Head(q)}
<1>1. /\ Tail(q) \in Seq(T) /\ Head(q) \in T /\ Head(q) = q[1]
      /\ Len(Tail(q)) = Len(q) - 1
      /\ \A i \in 1..(Len(q) - 1) : Tail(q)[i] = q[i + 1]
  BY HeadTailProperties
<1>2. DOMAIN q = 1..Len(q) /\ Len(q) \in Nat \ {0} /\ DOMAIN Tail(q) = 1..(Len(q) - 1)
  BY <1>1, LenProperties, EmptySeq
<1> DEFINE t == Tail(q)
<1> HIDE DEF t
<1>3. Head(q) \in Range(q)
  BY <1>1, <1>2 DEF Range
<1>4. Range(q) = Range(t) \cup {Head(q)}
  <2>1. ASSUME NEW i \in DOMAIN q PROVE q[i] \in Range(t) \cup {Head(q)}
    <3>1. CASE i = 1
      BY <3>1, <1>1
    <3>2. CASE i # 1
      <4>1. i - 1 \in DOMAIN t /\ t[i - 1] = q[i]
        BY <3>2, <1>1, <1>2 DEF t
      <4> QED BY <4>1 DEF Range
    <3> QED BY <3>1, <3>2
  <2>2. ASSUME NEW i \in DOMAIN t PROVE t[i] \in Range(q)
    <3>1. i + 1 \in DOMAIN q /\ t[i] = q[i + 1]
      BY <1>1, <1>2 DEF t
    <3> QED BY <3>1 DEF Range
  <2> QED BY <2>1, <2>2, <1>3 DEF Range
<1>5. ASSUME Distinct(q) PROVE Distinct(t) /\ Head(q) \notin Range(t)
  <2>1. ASSUME NEW i \in DOMAIN t PROVE i + 1 \in DOMAIN q /\ t[i] = q[i + 1] /\ i + 1 # 1
    BY <1>1, <1>2 DEF t
  <2>2. Distinct(t)
    BY <1>5, <2>1, <1>2 DEF Distinct, t
  <2>3. 1 \in DOMAIN q
    BY <1>2
  <2>4. Head(q) \notin Range(t)
    BY <1>5, <2>1, <2>3, <1>1 DEF Distinct, Range
  <2> QED BY <2>2, <2>4
<1> QED BY <1>1, <1>2, <1>3, <1>4, <1>5 DEF t

\* The order of the elements about one slot, after an append ...
LEMMA OrderedPush ==
    ASSUME NEW T, NEW q \in Seq(T), NEW c \in T, NEW first, NEW second,
           Ordered(q, first, second),
           c.slot \in Slots => \A d \in Range(q) : d.slot = c.slot =>
                                   d.type \in first /\ c.type \in second
    PROVE  Ordered(Append(q, c), first, second)
<1> DEFINE p == Append(q, c)
<1>1. /\ DOMAIN p = 1..(Len(q) + 1) /\ p[Len(q) + 1] = c
      /\ \A i \in DOMAIN q : p[i] = q[i]
  BY Pushed
<1>2. DOMAIN q = 1..Len(q) /\ Len(q) \in Nat
  BY LenProperties
<1> HIDE DEF p
<1>3. ASSUME NEW i \in DOMAIN p, NEW j \in DOMAIN p,
             i < j, p[i].slot = p[j].slot, p[i].slot \in Slots
      PROVE  p[i].type \in first /\ p[j].type \in second
  <2>1. i \in DOMAIN q /\ p[i] = q[i] /\ q[i] \in Range(q)
    BY <1>1, <1>2, <1>3 DEF Range
  <2>2. CASE j = Len(q) + 1
    BY <1>1, <1>3, <2>1, <2>2
  <2>3. CASE j # Len(q) + 1
    <3>1. j \in DOMAIN q /\ p[j] = q[j]
      BY <1>1, <1>2, <2>3
    <3> QED BY <1>3, <2>1, <3>1 DEF Ordered
  <2> QED BY <2>2, <2>3
<1> QED BY <1>3 DEF Ordered, p

\* ... and after a pop: a head that nothing can follow was the last one.
LEMMA OrderedPop ==
    ASSUME NEW T, NEW q \in Seq(T), q # <<>>, NEW first, NEW second,
           Ordered(q, first, second)
    PROVE  /\ Ordered(Tail(q), first, second)
           /\ Head(q).slot \in Slots =>
                \A d \in Range(Tail(q)) :
                    d.slot = Head(q).slot => Head(q).type \in first /\ d.type \in second
<1> DEFINE t == Tail(q)
<1>1. /\ Len(q) \in Nat \ {0} /\ DOMAIN t = 1..(Len(q) - 1) /\ Head(q) = q[1]
      /\ \A i \in 1..(Len(q) - 1) : t[i] = q[i + 1]
  BY Popped
<1>2. DOMAIN q = 1..Len(q)
  BY LenProperties
<1> HIDE DEF t
<1>3. ASSUME NEW i \in DOMAIN t PROVE i + 1 \in DOMAIN q /\ t[i] = q[i + 1] /\ 1 < i + 1
  BY <1>1, <1>2
<1>4. ASSUME NEW i \in DOMAIN t, NEW j \in DOMAIN t,
             i < j, t[i].slot = t[j].slot, t[i].slot \in Slots
      PROVE  t[i].type \in first /\ t[j].type \in second
  <2>1. i + 1 < j + 1
    BY <1>1, <1>4
  <2> QED BY <1>3, <1>4, <2>1 DEF Ordered
<1>5. ASSUME Head(q).slot \in Slots, NEW d \in Range(t), d.slot = Head(q).slot
      PROVE  Head(q).type \in first /\ d.type \in second
  <2>1. PICK i \in DOMAIN t : d = t[i]
    BY <1>5 DEF Range
  <2>2. 1 \in DOMAIN q /\ i + 1 \in DOMAIN q /\ q[i + 1] = d /\ 1 < i + 1
    BY <1>1, <1>2, <1>3, <2>1
  <2> QED BY <1>1, <1>5, <2>2 DEF Ordered
<1> QED BY <1>4, <1>5 DEF Ordered, t

\* A place for one element.
LEMMA OnePlace ==
    ASSUME NEW T, NEW q \in Seq(T), Len(q) <= 1
    PROVE  /\ q = <<>> => Range(q) = {} /\ Len(q) = 0
           /\ q # <<>> => /\ Len(q) = 1 /\ q[1] \in T /\ q = <<q[1]>> /\ Range(q) = {q[1]}
                          /\ Head(q) = q[1] /\ DOMAIN q = {1}
<1>1. DOMAIN q = 1..Len(q) /\ Len(q) \in Nat
  BY LenProperties
<1>2. ASSUME q = <<>> PROVE Range(q) = {} /\ Len(q) = 0
  BY <1>2, <1>1, EmptySeq DEF Range
<1>3. ASSUME q # <<>>
      PROVE  /\ Len(q) = 1 /\ q[1] \in T /\ q = <<q[1]>> /\ Range(q) = {q[1]}
             /\ Head(q) = q[1] /\ DOMAIN q = {1}
  <2>1. Len(q) = 1
    BY <1>3, <1>1, EmptySeq
  <2>2. DOMAIN q = {1} /\ q[1] \in T /\ Head(q) = q[1]
    BY <2>1, <1>1, <1>3, Popped
  <2>3. Range(q) = {q[1]}
    BY <2>2 DEF Range
  <2>4. q = <<q[1]>>
    BY <2>1, <2>2
  <2> QED BY <2>1, <2>2, <2>3, <2>4
<1> QED BY <1>2, <1>3

LEMMA Singly ==
    ASSUME NEW T, NEW x \in T
    PROVE  <<x>> \in Seq(T) /\ Len(<<x>>) = 1 /\ Range(<<x>>) = {x} /\ <<x>>[1] = x
           /\ <<>> \in Seq(T) /\ Len(<<>>) = 0 /\ Range(<<>>) = {} /\ <<x>> # <<>>
  BY DEF Range

LEMMA Nothing ==
    ASSUME NEW T PROVE <<>> \in Seq(T) /\ Len(<<>>) = 0 /\ Range(<<>>) = {}
  BY DEF Range
-----------------------------------------------------------------------------
(* The commands and answers.                                               *)

LEMMA Letters ==
    /\ \A r, x : Alloc(r, x).type = "ALLOCATE" /\ Alloc(r, x).id = r /\ Alloc(r, x).slot = x
    /\ \A t, s : Submit(t, s).type = "SUBMIT" /\ Submit(t, s).id = t /\ Submit(t, s).slot = s
    /\ \A t, s : StopIt(t, s).type = "STOP" /\ StopIt(t, s).id = t /\ StopIt(t, s).slot = s
    /\ \A s : EvictIt(s).type = "EVICT" /\ EvictIt(s).id = "dealloc" /\ EvictIt(s).slot = s
  BY DEF Alloc, Submit, StopIt, EvictIt, Command

LEMMA CmdKinds ==
    ASSUME NEW c \in Cmds
    PROVE  \/ c.type = "ALLOCATE" /\ c.slot = None /\ c.id \in Requests /\ c = Alloc(c.id, None)
           \/ c.type = "SUBMIT" /\ c.slot \in Slots /\ c.id \in Requests /\ c = Submit(c.id, c.slot)
           \/ c.type = "STOP" /\ c.slot \in Slots /\ c.id \in Requests /\ c = StopIt(c.id, c.slot)
           \/ c.type = "EVICT" /\ c.slot \in Slots /\ c = EvictIt(c.slot)
<1>1. \/ \E r \in Requests : c = Alloc(r, None)
      \/ \E s \in Slots : c = EvictIt(s)
      \/ \E t \in Requests, s \in Slots : c = Submit(t, s) \/ c = StopIt(t, s)
  BY DEF Cmds
<1> QED BY <1>1, Letters

LEMMA AckKinds ==
    ASSUME NEW a \in Acks
    PROVE  \/ /\ a.type = "ALLOCATE" /\ a.slot \in Slots \cup {None} /\ a.id \in Requests
              /\ a = Alloc(a.id, a.slot)
           \/ a.type = "STOP" /\ a.slot \in Slots /\ a.id \in Requests /\ a = StopIt(a.id, a.slot)
           \/ a.type = "EVICT" /\ a.slot \in Slots /\ a = EvictIt(a.slot) /\ a.id = "dealloc"
<1>1. \/ \E r \in Requests, x \in Slots \cup {None} : a = Alloc(r, x)
      \/ \E s \in Slots : a = EvictIt(s)
      \/ \E t \in Requests, s \in Slots : a = StopIt(t, s)
  BY DEF Acks
<1> QED BY <1>1, Letters

LEMMA InCmds ==
    /\ \A r \in Requests : Alloc(r, None) \in Cmds
    /\ \A s \in Slots : EvictIt(s) \in Cmds /\ EvictIt(s) \in Acks
    /\ \A t \in Requests, s \in Slots :
          Submit(t, s) \in Cmds /\ StopIt(t, s) \in Cmds /\ StopIt(t, s) \in Acks
    /\ \A r \in Requests, x \in Slots \cup {None} : Alloc(r, x) \in Acks
<1>1. \A t \in Requests, s \in Slots : Submit(t, s) \in Cmds /\ StopIt(t, s) \in Cmds
  BY DEF Cmds
<1>2. \A t \in Requests, s \in Slots : StopIt(t, s) \in Acks
  BY DEF Acks
<1>3. /\ \A r \in Requests : Alloc(r, None) \in Cmds
      /\ \A s \in Slots : EvictIt(s) \in Cmds /\ EvictIt(s) \in Acks
  BY DEF Cmds, Acks
<1>4. \A r \in Requests, x \in Slots \cup {None} : Alloc(r, x) \in Acks
  BY DEF Acks
<1> QED BY <1>1, <1>2, <1>3, <1>4

LEMMA MemKinds ==
    /\ \A m \in Mem :
          \/ m.action = "ALLOCATE" /\ m.task \in Requests /\ m.slot = None /\ m = Allocate(m.task)
          \/ m.action = "DEALLOCATE" /\ m.slot \in Slots /\ m.task = "dealloc" /\ m = Dealloc(m.slot)
    /\ \A r : Allocate(r).action = "ALLOCATE" /\ Allocate(r).task = r /\ Allocate(r).slot = None
    /\ \A s : /\ Dealloc(s).action = "DEALLOCATE" /\ Dealloc(s).slot = s
              /\ Dealloc(s).task = "dealloc"
    /\ \A r \in Requests : Allocate(r) \in Mem
    /\ \A s \in Slots : Dealloc(s) \in Mem
<1>1. /\ \A r : Allocate(r).action = "ALLOCATE" /\ Allocate(r).task = r /\ Allocate(r).slot = None
      /\ \A s : /\ Dealloc(s).action = "DEALLOCATE" /\ Dealloc(s).slot = s
                /\ Dealloc(s).task = "dealloc"
  BY DEF Allocate, Dealloc
<1>2. ASSUME NEW m \in Mem
      PROVE  (\E r \in Requests : m = Allocate(r)) \/ (\E s \in Slots : m = Dealloc(s))
  BY DEF Mem
<1>3. /\ \A r \in Requests : Allocate(r) \in Mem
      /\ \A s \in Slots : Dealloc(s) \in Mem
  BY DEF Mem
<1> QED BY <1>1, <1>2, <1>3

LEMMA ContextKinds ==
    /\ Free \in Contexts /\ Idle \in Contexts /\ Evicting \in Contexts
    /\ \A t \in Requests : Running(t) \in Contexts
    /\ /\ Free.st = "FREE" /\ Free.task = None /\ Free.ack = None /\ Free.evict = FALSE
       /\ Free.cont = None
    /\ /\ Idle.st = "IDLE" /\ Idle.task = None /\ Idle.ack = None /\ Idle.evict = FALSE
       /\ Idle.cont = None
    /\ /\ Evicting.st = "EVICTING" /\ Evicting.task = None /\ Evicting.ack = "dealloc"
       /\ Evicting.evict = FALSE /\ Evicting.cont = None
    /\ \A t : /\ Running(t).st = "RUNNING" /\ Running(t).task = t /\ Running(t).ack = None
              /\ Running(t).evict = FALSE /\ Running(t).cont = None
    /\ Idle = [Free EXCEPT !.st = "IDLE"]
<1>1. /\ Free.st = "FREE" /\ Free.task = None /\ Free.ack = None /\ Free.evict = FALSE
      /\ Free.cont = None /\ Free \in Contexts
  BY DEF Free, Contexts
<1>2. /\ Idle.st = "IDLE" /\ Idle.task = None /\ Idle.ack = None /\ Idle.evict = FALSE
      /\ Idle.cont = None /\ Idle \in Contexts
  BY DEF Free, Idle, Contexts
<1>3. /\ Evicting.st = "EVICTING" /\ Evicting.task = None /\ Evicting.ack = "dealloc"
      /\ Evicting.evict = FALSE /\ Evicting.cont = None /\ Evicting \in Contexts
  BY DEF Free, Evicting, Contexts
<1>4. \A t : /\ Running(t).st = "RUNNING" /\ Running(t).task = t /\ Running(t).ack = None
            /\ Running(t).evict = FALSE /\ Running(t).cont = None
  BY DEF Free, Running
<1>5. \A t \in Requests : Running(t) \in Contexts
  BY DEF Free, Running, Contexts
<1>6. Idle = [Free EXCEPT !.st = "IDLE"]
  BY DEF Idle
<1> QED BY <1>1, <1>2, <1>3, <1>4, <1>5, <1>6

-----------------------------------------------------------------------------
(* What a step of a queue does to the commands and answers of a slot.      *)

LEMMA PushCmd ==
    ASSUME TypeOK, NEW c \in Cmds, schedQ' = Append(schedQ, c)
    PROVE  /\ schedQ' \in Seq(Cmds)
           /\ Range(schedQ)' = Range(schedQ) \cup {c}
           /\ \A s \in Slots : CmdsOf(s)' = IF c.slot = s THEN CmdsOf(s) \cup {c} ELSE CmdsOf(s)
           /\ (/\ QueueInv
               /\ c \notin Range(schedQ)
               /\ c.slot \in Slots => c.type \in {"STOP", "EVICT"} \/ CmdsOf(c.slot) = {}
               /\ c.slot \in Slots => \A d \in CmdsOf(c.slot) : d.type = "SUBMIT")
              => Distinct(schedQ)' /\ Ordered(schedQ, {"SUBMIT"}, {"STOP", "EVICT"})'
<1>1. schedQ \in Seq(Cmds)
  BY DEF TypeOK, RunnerTypeOK
<1>2. schedQ' \in Seq(Cmds) /\ Range(schedQ)' = Range(schedQ) \cup {c}
  BY <1>1, Pushed
<1>3. \A s \in Slots : CmdsOf(s)' = IF c.slot = s THEN CmdsOf(s) \cup {c} ELSE CmdsOf(s)
  BY <1>2 DEF CmdsOf
<1>4. ASSUME QueueInv, c \notin Range(schedQ),
             c.slot \in Slots => c.type \in {"STOP", "EVICT"} \/ CmdsOf(c.slot) = {},
             c.slot \in Slots => \A d \in CmdsOf(c.slot) : d.type = "SUBMIT"
      PROVE  Distinct(schedQ)' /\ Ordered(schedQ, {"SUBMIT"}, {"STOP", "EVICT"})'
  <2>1. c.slot \in Slots => \A d \in Range(schedQ) : d.slot = c.slot =>
            d.type \in {"SUBMIT"} /\ c.type \in {"STOP", "EVICT"}
    BY <1>4 DEF CmdsOf
  <2>2. Ordered(schedQ, {"SUBMIT"}, {"STOP", "EVICT"})
    BY <1>4 DEF QueueInv
  <2>3. Ordered(Append(schedQ, c), {"SUBMIT"}, {"STOP", "EVICT"})
    BY <1>1, <2>1, <2>2, OrderedPush
  <2>4. Distinct(Append(schedQ, c))
    BY <1>1, <1>4, Pushed DEF QueueInv
  <2> QED BY <2>3, <2>4
<1> QED BY <1>2, <1>3, <1>4

LEMMA PopCmd ==
    ASSUME TypeOK, QueueInv, schedQ # <<>>, schedQ' = Tail(schedQ)
    PROVE  /\ schedQ' \in Seq(Cmds) /\ Head(schedQ) \in Cmds /\ Head(schedQ) \in Range(schedQ)
           /\ Range(schedQ)' = Range(schedQ) \ {Head(schedQ)}
           /\ \A s \in Slots : CmdsOf(s)' = CmdsOf(s) \ {Head(schedQ)}
           /\ \A s \in Slots : Head(schedQ).slot = s => Head(schedQ) \in CmdsOf(s)
           /\ \A s \in Slots : Head(schedQ).slot # s => CmdsOf(s)' = CmdsOf(s)
           /\ \A s \in Slots : Head(schedQ).slot = s /\ Head(schedQ).type # "SUBMIT" =>
                                   CmdsOf(s)' = {}
           /\ Distinct(schedQ)' /\ Ordered(schedQ, {"SUBMIT"}, {"STOP", "EVICT"})'
<1>1. schedQ \in Seq(Cmds)
  BY DEF TypeOK, RunnerTypeOK
<1>2. /\ Head(schedQ) \in Cmds /\ Head(schedQ) \in Range(schedQ) /\ schedQ' \in Seq(Cmds)
      /\ Distinct(schedQ)' /\ Range(schedQ)' = Range(schedQ) \ {Head(schedQ)}
  BY <1>1, Popped DEF QueueInv
<1>3. /\ Ordered(Tail(schedQ), {"SUBMIT"}, {"STOP", "EVICT"})
      /\ Head(schedQ).slot \in Slots =>
           \A d \in Range(Tail(schedQ)) :
               d.slot = Head(schedQ).slot => Head(schedQ).type \in {"SUBMIT"}
  BY <1>1, OrderedPop DEF QueueInv
<1>4. \A s \in Slots : CmdsOf(s)' = CmdsOf(s) \ {Head(schedQ)}
  BY <1>2 DEF CmdsOf
<1>5. \A s \in Slots : Head(schedQ).slot = s /\ Head(schedQ).type # "SUBMIT" => CmdsOf(s)' = {}
  BY <1>3 DEF CmdsOf
<1>6. \A s \in Slots : /\ Head(schedQ).slot = s => Head(schedQ) \in CmdsOf(s)
                       /\ Head(schedQ).slot # s => CmdsOf(s)' = CmdsOf(s)
  BY <1>2, <1>4 DEF CmdsOf
<1> QED BY <1>2, <1>3, <1>4, <1>5, <1>6

LEMMA PushAck ==
    ASSUME TypeOK, NEW a \in Acks, answers' = Append(answers, a)
    PROVE  /\ answers' \in Seq(Acks)
           /\ Range(answers)' = Range(answers) \cup {a}
           /\ \A s \in Slots : AcksOf(s)' = IF a.slot = s THEN AcksOf(s) \cup {a} ELSE AcksOf(s)
           /\ (/\ QueueInv
               /\ a \notin Range(answers)
               /\ a.slot \in Slots => a.type = "ALLOCATE" \/ AcksOf(a.slot) = {}
               /\ a.slot \in Slots => \A d \in AcksOf(a.slot) : d.type = "EVICT")
              => Distinct(answers)' /\ Ordered(answers, {"EVICT"}, {"ALLOCATE"})'
<1>1. answers \in Seq(Acks)
  BY DEF TypeOK, RunnerTypeOK
<1>2. answers' \in Seq(Acks) /\ Range(answers)' = Range(answers) \cup {a}
  BY <1>1, Pushed
<1>3. \A s \in Slots : AcksOf(s)' = IF a.slot = s THEN AcksOf(s) \cup {a} ELSE AcksOf(s)
  BY <1>2 DEF AcksOf
<1>4. ASSUME QueueInv, a \notin Range(answers),
             a.slot \in Slots => a.type = "ALLOCATE" \/ AcksOf(a.slot) = {},
             a.slot \in Slots => \A d \in AcksOf(a.slot) : d.type = "EVICT"
      PROVE  Distinct(answers)' /\ Ordered(answers, {"EVICT"}, {"ALLOCATE"})'
  <2>1. a.slot \in Slots => \A d \in Range(answers) : d.slot = a.slot =>
            d.type \in {"EVICT"} /\ a.type \in {"ALLOCATE"}
    BY <1>4 DEF AcksOf
  <2>2. Ordered(answers, {"EVICT"}, {"ALLOCATE"})
    BY <1>4 DEF QueueInv
  <2>3. Ordered(Append(answers, a), {"EVICT"}, {"ALLOCATE"})
    BY <1>1, <2>1, <2>2, OrderedPush
  <2>4. Distinct(Append(answers, a))
    BY <1>1, <1>4, Pushed DEF QueueInv
  <2> QED BY <2>3, <2>4
<1> QED BY <1>2, <1>3, <1>4

LEMMA PopAck ==
    ASSUME TypeOK, QueueInv, answers # <<>>, answers' = Tail(answers)
    PROVE  /\ answers' \in Seq(Acks) /\ Head(answers) \in Acks
           /\ Head(answers) \in Range(answers)
           /\ Range(answers)' = Range(answers) \ {Head(answers)}
           /\ \A s \in Slots : AcksOf(s)' = AcksOf(s) \ {Head(answers)}
           /\ \A s \in Slots : Head(answers).slot = s => Head(answers) \in AcksOf(s)
           /\ \A s \in Slots : Head(answers).slot # s => AcksOf(s)' = AcksOf(s)
           /\ \A s \in Slots : Head(answers).slot = s /\ Head(answers).type # "EVICT" =>
                                   AcksOf(s)' = {}
           /\ Distinct(answers)' /\ Ordered(answers, {"EVICT"}, {"ALLOCATE"})'
<1>1. answers \in Seq(Acks)
  BY DEF TypeOK, RunnerTypeOK
<1>2. /\ Head(answers) \in Acks /\ Head(answers) \in Range(answers) /\ answers' \in Seq(Acks)
      /\ Distinct(answers)' /\ Range(answers)' = Range(answers) \ {Head(answers)}
  BY <1>1, Popped DEF QueueInv
<1>3. /\ Ordered(Tail(answers), {"EVICT"}, {"ALLOCATE"})
      /\ Head(answers).slot \in Slots =>
           \A d \in Range(Tail(answers)) :
               d.slot = Head(answers).slot => Head(answers).type \in {"EVICT"}
  BY <1>1, OrderedPop DEF QueueInv
<1>4. \A s \in Slots : AcksOf(s)' = AcksOf(s) \ {Head(answers)}
  BY <1>2 DEF AcksOf
<1>5. \A s \in Slots : Head(answers).slot = s /\ Head(answers).type # "EVICT" => AcksOf(s)' = {}
  BY <1>3 DEF AcksOf
<1>6. \A s \in Slots : /\ Head(answers).slot = s => Head(answers) \in AcksOf(s)
                       /\ Head(answers).slot # s => AcksOf(s)' = AcksOf(s)
  BY <1>2, <1>4 DEF AcksOf
<1> QED BY <1>2, <1>3, <1>4, <1>5, <1>6


-----------------------------------------------------------------------------
(* What a step leaves alone, and what moves.                               *)

SameSlot(s) ==
    /\ slot'[s] = slot[s] /\ dev'[s] = dev[s] /\ (s \in outputs' <=> s \in outputs)
    /\ CmdsOf(s)' = CmdsOf(s) /\ AcksOf(s)' = AcksOf(s)

\* A slot about which nothing changes keeps its coherence.
LEMMA SlotKept == ASSUME NEW s \in Slots, SlotInv(s), SameSlot(s) PROVE SlotInv(s)'
<1>1. (s \in outputs') = (s \in outputs)
  BY DEF SameSlot
<1>2. Coherent(s, slot'[s], dev'[s], s \in outputs', CmdsOf(s)', AcksOf(s)')
  BY <1>1 DEF SlotInv, SameSlot
<1> QED BY <1>2 DEF SlotInv

\* Nothing about the place of a slot changes.
SamePlace(s) ==
    /\ \A k \in Places : At(k, s)' <=> At(k, s)
    /\ dev'[s] = "free" <=> dev[s] = "free"
    /\ s \in lost' <=> s \in lost
    /\ SessionsAt(s)' = SessionsAt(s) /\ Results(s)' = Results(s)
    /\ slot[s].st \in Usable => slot'[s].st \in Usable
    /\ slot'[s].evict => slot'[s].st = "STOPPING"

LEMMA PlaceKept == ASSUME NEW s \in Slots, HomeInv(s), SamePlace(s) PROVE HomeInv(s)'
<1>1. \A k, l \in Places : At(k, s)' /\ At(l, s)' => k = l
  BY DEF HomeInv, SamePlace
<1>2. Somewhere(s)' <=> Somewhere(s)
  BY DEF SamePlace, Somewhere
<1>3. (Somewhere(s)' <=> (dev'[s] # "free" /\ s \notin lost')) /\ (s \in lost' => dev'[s] # "free")
  BY <1>2 DEF HomeInv, SamePlace
<1>4. (\E k \in Places \ {"answer", "leaving"} : At(k, s)') => slot'[s].st \in Usable
  BY DEF HomeInv, SamePlace
<1>5. \A c, e \in SessionsAt(s)' : c = e
  BY DEF HomeInv, SamePlace
<1>6. \A m, n \in Results(s)' : m = n
  BY DEF HomeInv, SamePlace
<1>7. slot'[s].evict => slot'[s].st = "STOPPING"
  BY DEF SamePlace
<1> QED BY <1>1, <1>3, <1>4, <1>5, <1>6, <1>7 DEF HomeInv

\* A slot in use moves from one place, k, to another, l.
PlaceMoves(s, k, l) ==
    /\ At(k, s) /\ At(l, s)' /\ (k = l \/ ~At(k, s)')
    /\ \A j \in Places \ {k, l} : At(j, s)' => At(j, s)
    /\ dev'[s] # "free" /\ s \notin lost'
    /\ l \notin {"answer", "leaving"} => slot'[s].st \in Usable
    /\ slot'[s].evict => slot'[s].st = "STOPPING"
    /\ \A c, e \in SessionsAt(s)' : c = e
    /\ \A m, n \in Results(s)' : m = n

LEMMA PlaceMoved ==
    ASSUME NEW s \in Slots, HomeInv(s), NEW k \in Places, NEW l \in Places, PlaceMoves(s, k, l)
    PROVE  HomeInv(s)'
<1>1. \A j \in Places : At(j, s) => j = k
  BY DEF HomeInv, PlaceMoves
<1>2. \A j \in Places : At(j, s)' => j = l
  BY <1>1 DEF PlaceMoves
<1>3. Somewhere(s)'
  BY DEF PlaceMoves, Somewhere
<1>4. (\E j \in Places \ {"answer", "leaving"} : At(j, s)') => slot'[s].st \in Usable
  BY <1>2 DEF PlaceMoves
<1> QED BY <1>2, <1>3, <1>4 DEF HomeInv, PlaceMoves

\* A slot in use gets out of use, by the scheduler or because it is lost.
PlaceLeft(s, k) ==
    /\ At(k, s) /\ \A j \in Places \ {k} : At(j, s)' => At(j, s)
    /\ ~At(k, s)'
    /\ (dev'[s] = "free" /\ s \notin lost') \/ (dev'[s] # "free" /\ s \in lost')
    /\ slot'[s].evict => slot'[s].st = "STOPPING"

LEMMA PlaceLost ==
    ASSUME NEW s \in Slots, HomeInv(s), NEW k \in Places, PlaceLeft(s, k)
    PROVE  HomeInv(s)'
<1>1. \A j \in Places : At(j, s) => j = k
  BY DEF HomeInv, PlaceLeft
<1>2. \A j \in Places : ~At(j, s)'
  BY <1>1 DEF PlaceLeft
<1>3. ~Somewhere(s)'
  BY <1>2 DEF Somewhere
<1>4. SessionsAt(s)' = {} /\ Results(s)' = {}
  BY <1>2 DEF At, Places
<1> QED BY <1>2, <1>3, <1>4 DEF HomeInv, PlaceLeft

-----------------------------------------------------------------------------
(* The same for the requests for a slot.                                   *)

OneAnswer(r) ==
    /\ \A x, y \in Slots \cup {None} :
          Alloc(r, x) \in Range(answers) /\ Alloc(r, y) \in Range(answers) => x = y
    /\ \A x, y \in Slots \cup {None} :
          [task |-> r, slot |-> x] \in memRes /\ [task |-> r, slot |-> y] \in memRes => x = y
SameAsk(r) ==
    /\ \A k \in Stages : Asks(k, r)' => Asks(k, r)
    /\ pc'[r] = pc[r] /\ session'[r] = session[r]
    /\ \A x \in Slots \cup {None} :
          /\ Alloc(r, x) \in Range(answers)' => Alloc(r, x) \in Range(answers)
          /\ [task |-> r, slot |-> x] \in memRes' => [task |-> r, slot |-> x] \in memRes

LEMMA AskKept == ASSUME NEW r \in Requests, AskInv(r), SameAsk(r) PROVE AskInv(r)'
<1>1. \A k, l \in Stages : Asks(k, r)' /\ Asks(l, r)' => k = l
  BY DEF AskInv, SameAsk
<1>2. \A k \in Stages : Asks(k, r)' => pc'[r] = "waiting"
  BY DEF AskInv, SameAsk
<1>3. OneAnswer(r)'
  BY DEF AskInv, SameAsk, OneAnswer
<1>4. pc'[r] \in Early => session'[r].st = "none"
  BY DEF AskInv, SameAsk
<1> QED BY <1>1, <1>2, <1>3, <1>4 DEF AskInv, OneAnswer

\* A request for a slot moves from one stage, k, to another, l.
AskMoves(r, k, l) ==
    /\ Asks(k, r) /\ (k = l \/ ~Asks(k, r)')
    /\ \A j \in Stages \ {k, l} : Asks(j, r)' => Asks(j, r)
    /\ pc'[r] = pc[r] /\ session'[r] = session[r]
    /\ OneAnswer(r)'

LEMMA AskMoved ==
    ASSUME NEW r \in Requests, AskInv(r), NEW k \in Stages, NEW l \in Stages, AskMoves(r, k, l)
    PROVE  AskInv(r)'
<1>1. (\A j \in Stages : Asks(j, r) => j = k) /\ pc[r] = "waiting"
  BY DEF AskInv, AskMoves
<1>2. \A j \in Stages : Asks(j, r)' => j = l
  BY <1>1 DEF AskMoves
<1>3. \A i, j \in Stages : Asks(i, r)' /\ Asks(j, r)' => i = j
  BY <1>2
<1>4. \A j \in Stages : Asks(j, r)' => pc'[r] = "waiting"
  BY <1>1 DEF AskMoves
<1>5. pc'[r] \in Early => session'[r].st = "none"
  BY DEF AskInv, AskMoves
<1> QED BY <1>3, <1>4, <1>5 DEF AskInv, OneAnswer, AskMoves

-----------------------------------------------------------------------------
(* Types.                                                                  *)

\* The tasks of a queue of work are requests.
LEMMA TasksType == ASSUME NEW q \in Seq(Work) PROVE Tasks(q) \subseteq Requests
<1>1. \A i \in DOMAIN q : q[i] \in Work
  BY ElementOfSeq, LenProperties
<1> QED BY <1>1 DEF Tasks, Work

\* The first of what is held back and of what has come.
LEMMA FirstOf ==
    ASSUME NEW T, NEW p \in Seq(T), NEW q \in Seq(T), Len(p) <= 1
    PROVE  /\ p \o q = <<>> <=> p = <<>> /\ q = <<>>
           /\ p # <<>> => Head(p \o q) = p[1] /\ p[1] \in T
           /\ p = <<>> => p \o q = q
           /\ p \o q # <<>> => Head(p \o q) \in T
           /\ p \o q \in Seq(T)
<1>1. /\ p \o q \in Seq(T) /\ Len(p \o q) = Len(p) + Len(q)
      /\ \A i \in 1..Len(p) : (p \o q)[i] = p[i]
  BY ConcatProperties
<1>2. Len(p) \in Nat /\ Len(q) \in Nat
  BY LenProperties
<1>3. p = <<>> => p \o q = q
  BY ConcatEmptySeq
<1>4. (p = <<>> <=> Len(p) = 0) /\ (q = <<>> <=> Len(q) = 0)
      /\ (p \o q = <<>> <=> Len(p \o q) = 0)
  BY <1>1, EmptySeq
<1>5. p # <<>> => p[1] \in T /\ Len(p) = 1
  BY OnePlace
<1>6. p \o q # <<>> => Head(p \o q) = (p \o q)[1] /\ Head(p \o q) \in T
  BY <1>1, Popped
<1>7. p # <<>> => Head(p \o q) = p[1] /\ p[1] \in T
  BY <1>1, <1>2, <1>4, <1>5, <1>6
<1> QED BY <1>1, <1>2, <1>3, <1>4, <1>6, <1>7

\* handleRequest keeps the types.
LEMMA RunType ==
    ASSUME TypeOK, NEW s \in Slots, NEW t \in Requests,
           NEW held \in Seq(Work), Len(held) <= 1, Run(s, t, held)
    PROVE  /\ slot' \in [Slots -> Contexts] /\ pendTask' \in Seq(Work) /\ Len(pendTask') <= 1
           /\ schedQ' \in Seq(Cmds) /\ lost' \subseteq Requests \cup Slots
<1>1. slot \in [Slots -> Contexts] /\ schedQ \in Seq(Cmds) /\ lost \subseteq Requests \cup Slots
  BY DEF TypeOK, RunnerTypeOK
<1>2. CASE Room
  <2>1. /\ schedQ' = Append(schedQ, Submit(t, s)) /\ slot' = [slot EXCEPT ![s] = Running(t)]
        /\ pendTask' = held /\ lost' = lost
    BY <1>2 DEF Run, Push, Submit
  <2>2. Running(t) \in Contexts /\ Submit(t, s) \in Cmds
    BY ContextKinds, InCmds
  <2>3. schedQ' \in Seq(Cmds)
    BY <1>1, <2>1, <2>2, PushCmd
  <2> QED BY <1>1, <2>1, <2>2, <2>3
<1>3. CASE ~Room
  <2>1. /\ schedQ' = schedQ /\ slot' = [slot EXCEPT ![s] = Idle]
        /\ pendTask' = <<[task |-> t, slot |-> s]>> /\ lost' = lost \cup Tasks(held)
    BY <1>3 DEF Run
  <2>2. Idle \in Contexts /\ [task |-> t, slot |-> s] \in Work
    BY ContextKinds DEF Work
  <2>3. pendTask' \in Seq(Work) /\ Len(pendTask') <= 1
    BY <2>1, <2>2, Singly
  <2> QED BY <1>1, <2>1, <2>2, <2>3, TasksType
<1> QED BY <1>2, <1>3

\* handleEvictRequest keeps the types.
LEMMA EvictType ==
    ASSUME TypeOK, NEW s \in Slots, NEW ctx \in Contexts,
           NEW held \in Seq(Mem), Len(held) <= 1, NEW also \in SUBSET Requests,
           Evict(s, ctx, held, also)
    PROVE  /\ slot' \in [Slots -> Contexts] /\ pendTask' \in Seq(Work) /\ Len(pendTask') <= 1
           /\ pendMem' \in Seq(Mem) /\ Len(pendMem') <= 1
           /\ schedQ' \in Seq(Cmds) /\ lost' \subseteq Requests \cup Slots
           /\ tokens' \subseteq Requests
<1>1. /\ slot \in [Slots -> Contexts] /\ schedQ \in Seq(Cmds) /\ lost \subseteq Requests \cup Slots
      /\ tokens \subseteq Requests /\ pendTask \in Seq(Work) /\ Len(pendTask) <= 1
  BY DEF TypeOK, RunnerTypeOK
<1>2. CASE Room
  <2> DEFINE dropped == IF pendTask # <<>> /\ pendTask[1].slot = s THEN Tasks(pendTask) ELSE {}
  <2>1. /\ schedQ' = Append(schedQ, EvictIt(s)) /\ slot' = [slot EXCEPT ![s] = Evicting]
        /\ pendTask' = (IF dropped = {} THEN pendTask ELSE <<>>) /\ pendMem' = held
        /\ tokens' = tokens \cup dropped \cup also
        /\ lost' = lost \cup ({ctx.task} \ {None})
    BY <1>2 DEF Evict, Push, EvictIt
  <2>2. Evicting \in Contexts /\ EvictIt(s) \in Cmds /\ ctx.task \in Requests \cup {None}
    BY ContextKinds, InCmds DEF Contexts
  <2>3. schedQ' \in Seq(Cmds)
    BY <1>1, <2>1, <2>2, PushCmd
  <2>4. dropped \subseteq Requests
    BY <1>1, TasksType
  <2>5. pendTask' \in Seq(Work) /\ Len(pendTask') <= 1
    BY <1>1, <2>1, Singly
  <2>6. lost' \subseteq Requests \cup Slots
    BY <1>1, <2>1, <2>2
  <2>7. tokens' \subseteq Requests
    BY <1>1, <2>1, <2>4
  <2> QED BY <1>1, <2>1, <2>2, <2>3, <2>5, <2>6, <2>7
<1>3. CASE ~Room
  <2>1. /\ schedQ' = schedQ /\ slot' = [slot EXCEPT ![s] = ctx] /\ pendTask' = pendTask
        /\ pendMem' = <<Dealloc(s)>> /\ tokens' = tokens \cup also
        /\ lost' = lost \cup (IF held = <<>> THEN {}
                              ELSE {held[1].task, held[1].slot} \ {"dealloc", None})
    BY <1>3 DEF Evict
  <2>2. pendMem' \in Seq(Mem) /\ Len(pendMem') <= 1
    BY <2>1, MemKinds, Singly
  <2>3. ASSUME held # <<>>
        PROVE  {held[1].task, held[1].slot} \ {"dealloc", None} \subseteq Requests \cup Slots
    <3>1. held[1] \in Mem
      BY <2>3, OnePlace
    <3> QED BY <3>1, MemKinds
  <2> QED BY <1>1, <2>1, <2>2, <2>3
<1> QED BY <1>2, <1>3

LEMMA AnswerType ==
    ASSUME TypeOK, QueueInv, HandleAnswer
    PROVE  RunnerTypeOK'
<1> DEFINE a == Head(answers)
<1>1. /\ answers # <<>> /\ answers' = Tail(answers)
      /\ UNCHANGED <<pendCancel, phase, memReq, taskQ, cancelQ, dev, outputs>>
  BY DEF HandleAnswer
<1>2. answers' \in Seq(Acks) /\ a \in Acks
  BY <1>1, PopAck
<1>3. /\ slot \in [Slots -> Contexts] /\ schedQ \in Seq(Cmds) /\ lost \subseteq Requests \cup Slots
      /\ tokens \subseteq Requests /\ pendTask \in Seq(Work) /\ Len(pendTask) <= 1
      /\ pendMem \in Seq(Mem) /\ Len(pendMem) <= 1
      /\ memRes \subseteq [task : Requests, slot : Slots \cup {None}]
  BY DEF TypeOK, RunnerTypeOK
<1> DEFINE Good == /\ slot' \in [Slots -> Contexts] /\ schedQ' \in Seq(Cmds)
                   /\ lost' \subseteq Requests \cup Slots /\ tokens' \subseteq Requests
                   /\ pendTask' \in Seq(Work) /\ Len(pendTask') <= 1
                   /\ pendMem' \in Seq(Mem) /\ Len(pendMem') <= 1
                   /\ memRes' \subseteq [task : Requests, slot : Slots \cup {None}]
<1>9. SUFFICES Good
  BY <1>1, <1>2 DEF TypeOK, RunnerTypeOK
<1>4. CASE a.type = "ALLOCATE" /\ AllocAck(a)
  <2>1. a.id \in Requests /\ a.slot \in Slots \cup {None}
    BY <1>2, <1>4, AckKinds
  <2>2. /\ memRes' = memRes \cup {[task |-> a.id, slot |-> a.slot]}
        /\ slot' = IF a.slot = None THEN slot ELSE [slot EXCEPT ![a.slot].st = "IDLE"]
        /\ UNCHANGED <<pendTask, pendMem, tokens, schedQ, lost>>
    BY <1>4 DEF AllocAck
  <2>3. memRes' \subseteq [task : Requests, slot : Slots \cup {None}]
    BY <1>3, <2>1, <2>2
  <2>4. slot' \in [Slots -> Contexts]
    <3>1. CASE a.slot = None
      BY <1>3, <2>2, <3>1
    <3>2. CASE a.slot # None
      <4>1. a.slot \in Slots /\ slot[a.slot] \in Contexts
        BY <1>3, <2>1, <3>2
      <4>2. [slot[a.slot] EXCEPT !.st = "IDLE"] \in Contexts
        BY <4>1 DEF Contexts
      <4> QED BY <1>3, <2>2, <3>2, <4>1, <4>2
    <3> QED BY <3>1, <3>2
  <2> QED BY <1>3, <2>2, <2>3, <2>4
<1>5. CASE a.type = "EVICT" /\ EvictAck(a)
  <2>1. a.slot \in Slots
    BY <1>2, <1>5, AckKinds
  <2> QED BY <1>3, <1>5, <2>1, ContextKinds DEF EvictAck
<1>6. CASE a.type = "STOP" /\ StopAck(a)
  <2>1. a.slot \in Slots /\ slot[a.slot] \in Contexts
    BY <1>2, <1>3, <1>6, AckKinds
  <2>2. {slot[a.slot].cont} \ {None} \subseteq Requests
    BY <2>1 DEF Contexts
  <2>3. CASE Evict(a.slot, Idle, pendMem, {slot[a.slot].cont} \ {None}) /\ memRes' = memRes
    BY <1>3, <2>1, <2>2, <2>3, ContextKinds, EvictType
  <2>4. CASE /\ {slot[a.slot].cont} \ {None} # {}
             /\ Run(a.slot, slot[a.slot].cont, pendTask)
             /\ UNCHANGED <<pendMem, memRes, tokens>>
    <3>1. slot[a.slot].cont \in Requests
      BY <2>1, <2>4 DEF Contexts
    <3> QED BY <1>3, <2>1, <2>4, <3>1, RunType
  <2>5. CASE /\ slot' = [slot EXCEPT ![a.slot] = Idle]
             /\ UNCHANGED <<pendTask, pendMem, memRes, tokens, schedQ, lost>>
    BY <1>3, <2>1, <2>5, ContextKinds
  <2> QED BY <1>6, <2>3, <2>4, <2>5 DEF StopAck
<1>7. CASE UNCHANGED <<slotVars, memRes, tokens, schedQ, lost>>
  BY <1>3, <1>7 DEF slotVars
<1> QED BY <1>4, <1>5, <1>6, <1>7 DEF HandleAnswer

\* Only a request runs.
LEMMA RunsARequest ==
    ASSUME NEW s \in Slots, SlotInv(s), slot[s].st = "RUNNING"
    PROVE  /\ slot[s].task \in Requests /\ slot[s] = Running(slot[s].task) /\ AcksOf(s) = {}
           /\ CoherentRunning(s, slot[s], dev[s], s \in outputs, CmdsOf(s), AcksOf(s))
  BY ContextKinds DEF SlotInv, Coherent, CoherentRunning, CoherentStopping, CoherentEvicting

LEMMA OutputType ==
    ASSUME TypeOK, \A s \in Slots : SlotInv(s), NEW s \in Slots, HandleOutput(s)
    PROVE  RunnerTypeOK'
<1>1. /\ outputs' = outputs \ {s}
      /\ UNCHANGED <<pendTask, pendMem, pendCancel, phase, memReq, memRes, taskQ,
                     cancelQ, schedQ, dev, answers, lost>>
      /\ IF Hears(s) THEN tokens' = tokens \cup {slot[s].task} /\ slot' = [slot EXCEPT ![s] = Idle]
                     ELSE UNCHANGED <<tokens, slot>>
  BY DEF HandleOutput
<1>2. Hears(s) => slot[s].task \in Requests
  BY RunsARequest DEF Hears
<1>3. tokens' \subseteq Requests /\ slot' \in [Slots -> Contexts] /\ outputs' \subseteq Slots
  <2>1. tokens \subseteq Requests /\ slot \in [Slots -> Contexts] /\ outputs \subseteq Slots
    BY DEF TypeOK, RunnerTypeOK
  <2>2. Idle \in Contexts
    BY ContextKinds
  <2>3. slot' \in [Slots -> Contexts]
    BY <1>1, <2>1, <2>2
  <2> QED BY <1>1, <1>2, <2>1, <2>3
<1> QED BY <1>1, <1>3 DEF TypeOK, RunnerTypeOK

LEMMA DrainType ==
    ASSUME TypeOK, Drained \/ Stopped
    PROVE  RunnerTypeOK'
  BY DEF TypeOK, RunnerTypeOK, Drained, Stopped, slotVars, queueVars, devVars

LEMMA MemoryType ==
    ASSUME TypeOK, HandleMemory
    PROVE  RunnerTypeOK'
<1> DEFINE queue == pendMem \o memReq
           m == Head(queue)
<1>1. /\ phase' \in {"stops", "retry"}
      /\ memReq' = (IF pendMem = <<>> /\ memReq # <<>> THEN Tail(memReq) ELSE memReq)
      /\ UNCHANGED <<pendCancel, memRes, taskQ, cancelQ, dev, answers, outputs>>
      /\ \/ UNCHANGED <<slot, pendTask, pendMem, tokens, schedQ, lost>>
         \/ queue # <<>> /\ m.action = "ALLOCATE" /\ HandleAllocate(m)
         \/ queue # <<>> /\ m.action = "DEALLOCATE" /\ HandleEvict(m)
  BY DEF HandleMemory, MemoryWaiting
<1>2. /\ slot \in [Slots -> Contexts] /\ schedQ \in Seq(Cmds) /\ lost \subseteq Requests \cup Slots
      /\ tokens \subseteq Requests /\ pendTask \in Seq(Work) /\ Len(pendTask) <= 1
      /\ pendMem \in Seq(Mem) /\ Len(pendMem) <= 1 /\ memReq \in Seq(Mem)
  BY DEF TypeOK, RunnerTypeOK
<1>3. queue # <<>> => m \in Mem
  BY <1>2, FirstOf
<1> HIDE DEF m, queue
<1>4. memReq' \in Seq(Mem)
  BY <1>1, <1>2, Popped
<1> DEFINE Good == /\ slot' \in [Slots -> Contexts] /\ schedQ' \in Seq(Cmds)
                   /\ lost' \subseteq Requests \cup Slots /\ tokens' \subseteq Requests
                   /\ pendTask' \in Seq(Work) /\ Len(pendTask') <= 1
                   /\ pendMem' \in Seq(Mem) /\ Len(pendMem') <= 1
<1>8. SUFFICES Good
  BY <1>1, <1>4 DEF TypeOK, RunnerTypeOK
<1>5. CASE UNCHANGED <<slot, pendTask, pendMem, tokens, schedQ, lost>>
  BY <1>2, <1>5
<1>6. CASE queue # <<>> /\ m.action = "ALLOCATE" /\ HandleAllocate(m)
  <2>1. m \in Mem /\ m.task \in Requests
    BY <1>3, <1>6, MemKinds
  <2>2. /\ UNCHANGED <<slot, pendTask, tokens, lost>>
        /\ \/ schedQ' = Append(schedQ, Alloc(m.task, None)) /\ pendMem' = <<>>
           \/ pendMem' = <<m>> /\ schedQ' = schedQ
    BY <1>6 DEF HandleAllocate, Push, Alloc
  <2>3. schedQ' \in Seq(Cmds)
    BY <1>2, <2>1, <2>2, InCmds, PushCmd
  <2>4. <<m>> \in Seq(Mem) /\ Len(<<m>>) <= 1 /\ <<>> \in Seq(Mem) /\ Len(<<>>) <= 1
    BY <2>1, Singly
  <2>5. pendMem' \in Seq(Mem) /\ Len(pendMem') <= 1
    <3>1. pendMem' = <<>> \/ pendMem' = <<m>>
      BY <2>2
    <3>2. CASE pendMem' = <<>>
      BY <2>4, <3>2
    <3>3. CASE pendMem' = <<m>>
      BY <2>4, <3>3
    <3> QED BY <3>1, <3>2, <3>3
  <2> QED BY <1>2, <2>2, <2>3, <2>5
<1>7. CASE queue # <<>> /\ m.action = "DEALLOCATE" /\ HandleEvict(m)
  <2>1. m.slot \in Slots
    BY <1>3, <1>7, MemKinds
  <2>2. slot[m.slot] \in Contexts
    BY <1>2, <2>1
  <2>3. <<>> \in Seq(Mem) /\ Len(<<>>) <= 1 /\ {} \in SUBSET Requests
    BY Singly
  <2>4. CASE pendMem' = <<>> /\ UNCHANGED <<slot, pendTask, tokens, schedQ, lost>>
    BY <1>2, <2>3, <2>4
  <2>5. CASE Evict(m.slot, slot[m.slot], <<>>, {})
    BY <2>1, <2>2, <2>3, <2>5, EvictType
  <2>6. CASE /\ slot' = [slot EXCEPT ![m.slot].evict = TRUE, ![m.slot].cont = None]
             /\ tokens' = tokens \cup ({slot[m.slot].cont} \ {None})
             /\ pendMem' = <<>>
             /\ UNCHANGED <<pendTask, schedQ, lost>>
    <3>1. [slot[m.slot] EXCEPT !.evict = TRUE, !.cont = None] \in Contexts
          /\ {slot[m.slot].cont} \ {None} \subseteq Requests
      BY <2>2 DEF Contexts
    <3>2. slot' = [slot EXCEPT ![m.slot] = [slot[m.slot] EXCEPT !.evict = TRUE, !.cont = None]]
      BY <1>2, <2>1, <2>2, <2>6 DEF Contexts
    <3> QED BY <1>2, <2>1, <2>3, <2>6, <3>1, <3>2
  <2> QED BY <1>7, <2>4, <2>5, <2>6 DEF HandleEvict
<1> QED BY <1>1, <1>5, <1>6, <1>7

LEMMA StopType ==
    ASSUME TypeOK, \A s \in Slots : SlotInv(s), HandleStop
    PROVE  RunnerTypeOK'
<1>1. /\ UNCHANGED <<pendMem, memReq, memRes, taskQ, tokens, dev, answers, outputs, lost>>
      /\ phase' = "stops" /\ cancelQ' \subseteq cancelQ
  BY DEF HandleStop
<1>2. PICK t \in Requests \cup {None}, held \in Requests \cup {None} : Stop(t, held)
  BY DEF HandleStop, TypeOK, RunnerTypeOK
<1>3. /\ slot \in [Slots -> Contexts] /\ schedQ \in Seq(Cmds)
      /\ pendTask \in Seq(Work) /\ Len(pendTask) <= 1
  BY DEF TypeOK, RunnerTypeOK
<1>4. (pendTask' = pendTask \/ pendTask' = <<>>) /\ pendCancel' \in Requests \cup {None}
  <2> DEFINE bound == {s \in Slots : slot[s].st = "RUNNING" /\ slot[s].task = t}
             S == \E s \in bound :
                    /\ Push(Command("STOP", t, s))
                    /\ slot' = [slot EXCEPT ![s].st = "STOPPING", ![s].ack = t]
  <2> HIDE DEF bound, S
  <2>1. \/ t \in Tasks(pendTask) /\ pendTask' = <<>> /\ pendCancel' = held
        \/ pendTask' = pendTask /\ pendCancel' = held
        \/ pendTask' = pendTask /\ pendCancel' = t
    BY <1>2 DEF Stop, S, bound
  <2> QED BY <2>1
<1>5. pendTask' \in Seq(Work) /\ Len(pendTask') <= 1
  <2>1. <<>> \in Seq(Work) /\ Len(<<>>) <= 1
    BY Nothing
  <2>2. CASE pendTask' = <<>>
    BY <2>1, <2>2
  <2>3. CASE pendTask' = pendTask
    BY <1>3, <2>3
  <2> QED BY <1>4, <2>2, <2>3
<1>6. slot' \in [Slots -> Contexts] /\ schedQ' \in Seq(Cmds)
  <2>1. CASE UNCHANGED <<slot, schedQ>>
    BY <1>3, <2>1
  <2>2. CASE \E s \in Slots :
               /\ schedQ' = Append(schedQ, StopIt(t, s))
               /\ slot[s].st = "RUNNING" /\ slot[s].task = t
               /\ slot' = [slot EXCEPT ![s].st = "STOPPING", ![s].ack = t]
    <3>1. PICK s \in Slots :
               /\ schedQ' = Append(schedQ, StopIt(t, s))
               /\ slot[s].st = "RUNNING" /\ slot[s].task = t
               /\ slot' = [slot EXCEPT ![s].st = "STOPPING", ![s].ack = t]
      BY <2>2
    <3>2. slot[s] \in Contexts
      BY <1>3
    <3>3. [slot[s] EXCEPT !.st = "STOPPING", !.ack = t] \in Contexts
      BY <3>2 DEF Contexts
    <3>4. slot' = [slot EXCEPT ![s] = [slot[s] EXCEPT !.st = "STOPPING", !.ack = t]]
      BY <1>3, <3>1, <3>2 DEF Contexts
    <3>5. slot' \in [Slots -> Contexts]
      BY <1>3, <3>3, <3>4
    <3>6. StopIt(t, s) \in Cmds
      BY <3>1, RunsARequest, InCmds
    <3> QED BY <3>1, <3>5, <3>6, PushCmd
  <2> QED BY <1>2, <2>1, <2>2 DEF Stop, Push, StopIt
<1> QED BY <1>1, <1>4, <1>5, <1>6 DEF TypeOK, RunnerTypeOK

LEMMA RequestType ==
    ASSUME TypeOK, HandleRequest
    PROVE  RunnerTypeOK'
<1> DEFINE queue == pendTask \o taskQ
           q == Head(queue)
<1>1. /\ phase' = "answers"
      /\ taskQ' = (IF pendTask = <<>> /\ taskQ # <<>> THEN Tail(taskQ) ELSE taskQ)
      /\ UNCHANGED <<pendMem, pendCancel, memReq, memRes, cancelQ, dev, answers, outputs>>
      /\ \/ UNCHANGED <<slot, pendTask, tokens, schedQ, lost>>
         \/ queue # <<>> /\ Route(q)
  BY DEF HandleRequest
<1>2. /\ slot \in [Slots -> Contexts] /\ schedQ \in Seq(Cmds) /\ lost \subseteq Requests \cup Slots
      /\ tokens \subseteq Requests /\ pendTask \in Seq(Work) /\ Len(pendTask) <= 1
      /\ taskQ \in Seq(Work)
  BY DEF TypeOK, RunnerTypeOK
<1>7. queue # <<>> => q \in Work
  BY <1>2, FirstOf
<1> HIDE DEF q, queue
<1>3. taskQ' \in Seq(Work)
  BY <1>1, <1>2, Popped
<1>4. ASSUME queue # <<>>, Route(q)
      PROVE  /\ slot' \in [Slots -> Contexts] /\ schedQ' \in Seq(Cmds)
             /\ lost' \subseteq Requests \cup Slots /\ tokens' \subseteq Requests
             /\ pendTask' \in Seq(Work) /\ Len(pendTask') <= 1
  <2>1. q \in Work /\ q.task \in Requests /\ q.slot \in Slots
    BY <1>4, <1>7 DEF Work
  <2>2. slot[q.slot] \in Contexts /\ <<>> \in Seq(Work) /\ Len(<<>>) <= 1
    BY <1>2, <2>1, Singly
  <2>3. CASE Run(q.slot, q.task, <<>>) /\ tokens' = tokens
    BY <1>2, <2>1, <2>2, <2>3, RunType
  <2>4. CASE /\ slot' = [slot EXCEPT ![q.slot].cont = q.task]
             /\ lost' = lost \cup ({slot[q.slot].cont} \ {None})
             /\ pendTask' = <<>> /\ UNCHANGED <<schedQ, tokens>>
    <3>1. [slot[q.slot] EXCEPT !.cont = q.task] \in Contexts
          /\ {slot[q.slot].cont} \ {None} \subseteq Requests
      BY <2>1, <2>2 DEF Contexts
    <3> QED BY <1>2, <2>1, <2>2, <2>4, <3>1
  <2>5. CASE /\ tokens' \in {tokens, tokens \cup {q.task}}
             /\ lost' \in {lost, lost \cup {q.task}}
             /\ pendTask' = <<>> /\ UNCHANGED <<slot, schedQ>>
    BY <1>2, <2>1, <2>2, <2>5
  <2> QED BY <1>4, <2>3, <2>4, <2>5 DEF Route
<1>5. CASE UNCHANGED <<slot, pendTask, tokens, schedQ, lost>>
  BY <1>1, <1>2, <1>3, <1>5 DEF TypeOK, RunnerTypeOK
<1>6. CASE queue # <<>> /\ Route(q)
  BY <1>1, <1>3, <1>4, <1>6 DEF TypeOK, RunnerTypeOK
<1> QED BY <1>1, <1>5, <1>6

-----------------------------------------------------------------------------
(* Steps of the worker and the scheduler.                                  *)

\* What is not touched has the same slots, commands and answers in it.
LEMMA Untouched ==
    /\ UNCHANGED schedQ => /\ \A s : CmdsOf(s)' = CmdsOf(s)
                           /\ Range(schedQ)' = Range(schedQ)
    /\ UNCHANGED answers => /\ \A s : AcksOf(s)' = AcksOf(s)
                            /\ Range(answers)' = Range(answers)
    /\ UNCHANGED session => \A s : SessionsAt(s)' = SessionsAt(s)
    /\ UNCHANGED memRes => \A s : Results(s)' = Results(s)
    /\ UNCHANGED memReq => Range(memReq)' = Range(memReq)
    /\ UNCHANGED pendMem => Range(pendMem)' = Range(pendMem)
    /\ QueueInv /\ UNCHANGED schedQ =>
          Distinct(schedQ)' /\ Ordered(schedQ, {"SUBMIT"}, {"STOP", "EVICT"})'
    /\ QueueInv /\ UNCHANGED answers =>
          Distinct(answers)' /\ Ordered(answers, {"EVICT"}, {"ALLOCATE"})'
    /\ QueueInv /\ UNCHANGED memReq => Distinct(memReq)'
  BY DEF CmdsOf, AcksOf, SessionsAt, Live, Results, QueueInv

\* The parts of SamePlace and SameAsk.
LEMMA PlaceSame ==
    ASSUME NEW s \in Slots,
           SessionsAt(s)' = SessionsAt(s), Results(s)' = Results(s),
           \A r \in Requests : Alloc(r, s) \in AcksOf(s)' <=> Alloc(r, s) \in AcksOf(s),
           Dealloc(s) \in Range(pendMem)' <=> Dealloc(s) \in Range(pendMem),
           Dealloc(s) \in Range(memReq)' <=> Dealloc(s) \in Range(memReq),
           s \in deferred' <=> s \in deferred,
           EvictIt(s) \in CmdsOf(s)' <=> EvictIt(s) \in CmdsOf(s),
           slot'[s].evict <=> slot[s].evict,
           slot[s].st \in Usable => slot'[s].st \in Usable,
           slot'[s].evict => slot'[s].st = "STOPPING",
           dev'[s] = "free" <=> dev[s] = "free",
           s \in lost' <=> s \in lost
    PROVE  SamePlace(s)
<1>1. ASSUME NEW k \in Places PROVE At(k, s)' <=> At(k, s)
  BY DEF At, Places
<1> QED BY <1>1 DEF SamePlace

LEMMA AskSame ==
    ASSUME NEW r \in Requests,
           pc'[r] = pc[r], session'[r] = session[r],
           Allocate(r) \in Range(memReq)' => Allocate(r) \in Range(memReq),
           Allocate(r) \in Range(pendMem)' => Allocate(r) \in Range(pendMem),
           Alloc(r, None) \in Range(schedQ)' => Alloc(r, None) \in Range(schedQ),
           \A x \in Slots \cup {None} :
              /\ Alloc(r, x) \in Range(answers)' => Alloc(r, x) \in Range(answers)
              /\ [task |-> r, slot |-> x] \in memRes' => [task |-> r, slot |-> x] \in memRes
    PROVE  SameAsk(r)
<1>1. ASSUME NEW k \in Stages, Asks(k, r)' PROVE Asks(k, r)
  BY <1>1 DEF Asks, Stages
<1> QED BY <1>1 DEF SameAsk

\* handleAllocateAck, with a slot: it waits as a result for the server.
LEMMA GotSlot ==
    ASSUME TypeOK, Sound, NEW r \in Requests, NEW s \in Slots,
           answers # <<>>, Head(answers) = Alloc(r, s), answers' = Tail(answers),
           memRes' = memRes \cup {[task |-> r, slot |-> s]},
           slot' = [slot EXCEPT ![s].st = "IDLE"],
           UNCHANGED <<schedQ, dev, outputs, pendMem, memReq, lost, session, deferred, pc>>
    PROVE  Sound' /\ slot[s] = Free
<1> DEFINE a == Alloc(r, s)
           new == [task |-> r, slot |-> s]
<1>1. /\ Distinct(answers)' /\ Ordered(answers, {"EVICT"}, {"ALLOCATE"})'
      /\ Range(answers)' = Range(answers) \ {a} /\ a \in Range(answers)
      /\ a \in AcksOf(s) /\ AcksOf(s)' = {} /\ AcksOf(s)' = AcksOf(s) \ {a}
      /\ \A x \in Slots \ {s} : AcksOf(x)' = AcksOf(x)
  BY PopAck, Letters DEF Sound
<1>2. QueueInv'
  BY <1>1, Untouched DEF Sound, QueueInv
<1>3. SlotInv(s) /\ HomeInv(s) /\ AskInv(r)
  BY DEF Sound
<1>4. EvictIt(s) \notin AcksOf(s)
  <2>1. EvictIt(s) # a
    BY Letters
  <2> QED BY <1>1, <2>1
<1>5. slot[s] = Free /\ CmdsOf(s) = {} /\ dev[s] = "held" /\ s \notin outputs
  <2>1. Coherent(s, slot[s], dev[s], s \in outputs, CmdsOf(s), AcksOf(s))
    BY <1>3 DEF SlotInv
  <2>2. \A t \in Requests : StopIt(t, s) # a
    BY Letters
  <2>3. AcksOf(s) # {} /\ \A t \in Requests : AcksOf(s) # {StopIt(t, s)}
    BY <1>1, <2>2
  <2> QED BY <1>4, <2>1, <2>3
        DEF Coherent, CoherentRunning, CoherentStopping, CoherentEvicting, Given
<1>6. slot'[s] = Idle /\ \A x \in Slots \ {s} : slot'[x] = slot[x]
  BY <1>5, ContextKinds DEF TypeOK, RunnerTypeOK
<1>7. ASSUME NEW x \in Slots PROVE SlotInv(x)' /\ HomeInv(x)'
  <2>1. CASE x = s
    <3>1. SlotInv(s)'
      BY <1>1, <1>5, <1>6, Untouched DEF SlotInv, Coherent
    <3>2. Results(s)' = Results(s) \cup {new}
      BY DEF Results
    <3>3. ~At("result", s) /\ At("answer", s)
      BY <1>1, <1>3 DEF At, HomeInv, Places
    <3>4. PlaceMoves(s, "answer", "result")
      <4>1. ~At("answer", s)' /\ At("result", s)'
        BY <1>1, <3>2 DEF At
      <4>2. \A j \in Places \ {"answer", "result"} : At(j, s)' => At(j, s)
        BY <1>5, <1>6, ContextKinds, Untouched DEF At, Places
      <4>3. \A m, n \in Results(s)' : m = n
        BY <3>2, <3>3 DEF At
      <4>4. \A c, e \in SessionsAt(s)' : c = e
        BY <1>3, Untouched DEF HomeInv
      <4>5. dev'[s] # "free" /\ s \notin lost' /\ slot'[s].st \in Usable /\ ~slot'[s].evict
        BY <1>3, <1>5, <1>6, <3>3, ContextKinds DEF HomeInv, Somewhere, Places, Usable
      <4> QED BY <3>3, <4>1, <4>2, <4>3, <4>4, <4>5 DEF PlaceMoves
    <3>5. HomeInv(s)'
      BY <1>3, <3>4, PlaceMoved DEF Places
    <3> QED BY <2>1, <3>1, <3>5
  <2>2. CASE x # s
    <3>1. SlotInv(x) /\ HomeInv(x)
      BY DEF Sound
    <3>2. SameSlot(x)
      BY <1>1, <1>6, <2>2, Untouched DEF SameSlot
    <3>3. Results(x)' = Results(x)
      BY <2>2 DEF Results
    <3>4. SamePlace(x)
      BY <1>1, <1>6, <2>2, <3>1, <3>3, Untouched, PlaceSame DEF HomeInv
    <3> QED BY <3>1, <3>2, <3>4, SlotKept, PlaceKept
  <2> QED BY <2>1, <2>2
<1>8. ASSUME NEW q \in Requests PROVE AskInv(q)'
  <2>1. CASE q = r
    <3>1. Asks("answered", r) /\ \A k \in Stages \ {"answered"} : ~Asks(k, r)
      BY <1>1, <1>3 DEF Asks, Stages, AskInv
    <3>2. /\ \A x \in Slots \cup {None} : Alloc(r, x) \notin Range(answers)'
          /\ \A x \in Slots \cup {None} : [task |-> r, slot |-> x] \in memRes' => x = s
      BY <1>1, <1>3, <3>1 DEF AskInv, Asks, Stages
    <3>3. AskMoves(r, "answered", "result")
      <4>1. ~Asks("answered", r)' 
        BY <3>2 DEF Asks
      <4>2. \A k \in Stages \ {"answered", "result"} : Asks(k, r)' => Asks(k, r)
        BY Untouched DEF Asks, Stages
      <4> QED BY <3>1, <3>2, <4>1, <4>2 DEF AskMoves, OneAnswer
    <3> QED BY <1>3, <2>1, <3>3, AskMoved DEF Stages
  <2>2. CASE q # r
    <3>1. SameAsk(q)
      BY <1>1, <2>2, Untouched, AskSame
    <3> QED BY <3>1, AskKept DEF Sound
  <2> QED BY <2>1, <2>2
<1> QED BY <1>2, <1>5, <1>7, <1>8 DEF Sound

\* A step that has to do with one slot s and with no request for a slot, and
\* leaves s where it is.
Works(s) ==
    /\ UNCHANGED <<memRes, pendMem, memReq, session, deferred, pc>>
    /\ \A x \in Slots : x \in lost' <=> x \in lost
    /\ \A x \in Slots \ {s} : SameSlot(x)
    /\ \A r \in Requests : Alloc(r, s) \in AcksOf(s)' <=> Alloc(r, s) \in AcksOf(s)
    /\ EvictIt(s) \in CmdsOf(s)' <=> EvictIt(s) \in CmdsOf(s)
    /\ slot'[s].evict <=> slot[s].evict
    /\ slot'[s].evict => slot'[s].st = "STOPPING"
    /\ slot[s].st \in Usable => slot'[s].st \in Usable
    /\ dev'[s] = "free" <=> dev[s] = "free"
    /\ \A r \in Requests : Alloc(r, None) \in Range(schedQ)' => Alloc(r, None) \in Range(schedQ)
    /\ \A r \in Requests, x \in Slots \cup {None} :
          Alloc(r, x) \in Range(answers)' => Alloc(r, x) \in Range(answers)

LEMMA WorkDone ==
    ASSUME Sound, NEW s \in Slots, Works(s), SlotInv(s)',
           Distinct(schedQ)' /\ Ordered(schedQ, {"SUBMIT"}, {"STOP", "EVICT"})',
           Distinct(answers)' /\ Ordered(answers, {"EVICT"}, {"ALLOCATE"})'
    PROVE  Sound'
<1>1. ASSUME NEW x \in Slots PROVE HomeInv(x)'
  <2>1. CASE x = s
    BY <2>1, Untouched, PlaceSame, PlaceKept DEF Works, Sound
  <2>2. CASE x # s
    <3>1. HomeInv(x) /\ SameSlot(x) /\ (x \in lost' <=> x \in lost)
      BY <2>2 DEF Works, Sound
    <3>2. SamePlace(x)
      BY <3>1, Untouched, PlaceSame DEF Works, SameSlot, HomeInv
    <3> QED BY <3>1, <3>2, PlaceKept
  <2> QED BY <2>1, <2>2
<1>2. ASSUME NEW x \in Slots PROVE SlotInv(x)'
  BY SlotKept DEF Works, Sound
<1>3. ASSUME NEW r \in Requests PROVE AskInv(r)'
  <2>1. SameAsk(r)
    BY Untouched, AskSame DEF Works
  <2> QED BY <2>1, AskKept DEF Sound
<1>4. QueueInv'
  BY Untouched DEF Works, Sound, QueueInv
<1> QED BY <1>1, <1>2, <1>3, <1>4 DEF Sound

\* The answer to a STOP meets a slot that waits for it.
LEMMA StopMet ==
    ASSUME TypeOK, Sound, NEW t \in Requests, NEW s \in Slots,
           answers # <<>>, Head(answers) = StopIt(t, s), answers' = Tail(answers)
    PROVE  /\ slot[s].st = "STOPPING" /\ slot[s].ack = t /\ slot[s].task = t
           /\ CmdsOf(s) = {} /\ AcksOf(s) = {StopIt(t, s)} /\ dev[s] = "held" /\ s \notin outputs
           /\ AcksOf(s)' = {} /\ \A x \in Slots \ {s} : AcksOf(x)' = AcksOf(x)
           /\ Distinct(answers)' /\ Ordered(answers, {"EVICT"}, {"ALLOCATE"})'
           /\ \A r \in Requests, x \in Slots \cup {None} :
                 Alloc(r, x) \in Range(answers)' => Alloc(r, x) \in Range(answers)
           /\ \A r : Alloc(r, s) \notin AcksOf(s)
           /\ \A k \in Places : At(k, s) => k = "flag" \/ ~slot[s].evict
<1> DEFINE a == StopIt(t, s)
<1>1. /\ a \in AcksOf(s) /\ AcksOf(s)' = {} /\ AcksOf(s)' = AcksOf(s) \ {a}
      /\ \A x \in Slots \ {s} : AcksOf(x)' = AcksOf(x)
      /\ Distinct(answers)' /\ Ordered(answers, {"EVICT"}, {"ALLOCATE"})'
      /\ Range(answers)' = Range(answers) \ {a}
  BY PopAck, Letters DEF Sound
<1>2. AcksOf(s) = {a}
  BY <1>1
<1>3. (\A r : Alloc(r, s) # a) /\ EvictIt(s) # a /\ \A u : StopIt(u, s) = a => u = t
  BY Letters
<1>4. Coherent(s, slot[s], dev[s], s \in outputs, CmdsOf(s), AcksOf(s))
  BY DEF Sound, SlotInv
<1>5. CoherentStopping(s, slot[s], dev[s], s \in outputs, CmdsOf(s), AcksOf(s))
  BY <1>2, <1>3, <1>4 DEF Coherent, CoherentRunning, CoherentEvicting, Given
<1>6. /\ slot[s].st = "STOPPING" /\ slot[s].ack = t /\ slot[s].task = t
      /\ CmdsOf(s) = {} /\ dev[s] = "held" /\ s \notin outputs
  BY <1>2, <1>3, <1>5 DEF CoherentStopping
<1>7. \A k \in Places : At(k, s) => k = "flag" \/ ~slot[s].evict
  BY DEF Sound, HomeInv, At, Places
<1> QED BY <1>1, <1>2, <1>3, <1>6, <1>7

\* handleStopAck without more to do, or with a sequence that finds no room.
LEMMA Rests ==
    ASSUME TypeOK, Sound, NEW t \in Requests, NEW s \in Slots,
           answers # <<>>, Head(answers) = StopIt(t, s), answers' = Tail(answers),
           ~slot[s].evict, slot' = [slot EXCEPT ![s] = Idle],
           \A x \in Slots : x \in lost' <=> x \in lost,
           UNCHANGED <<schedQ, dev, outputs, memRes, pendMem, memReq, session, deferred, pc>>
    PROVE  Sound'
<1>1. slot'[s] = Idle /\ \A x \in Slots \ {s} : slot'[x] = slot[x]
  BY DEF TypeOK, RunnerTypeOK
<1>2. SlotInv(s)'
  BY <1>1, StopMet, Untouched DEF SlotInv, Coherent
<1>3. Works(s)
  BY <1>1, StopMet, Untouched, ContextKinds DEF Works, SameSlot, Usable
<1>4. Distinct(schedQ)' /\ Ordered(schedQ, {"SUBMIT"}, {"STOP", "EVICT"})'
  BY Untouched DEF Sound
<1> QED BY <1>2, <1>3, <1>4, StopMet, WorkDone

\* handleStopAck, and the sequence that waited for it runs.
LEMMA Continues ==
    ASSUME TypeOK, Sound, NEW t \in Requests, NEW s \in Slots, NEW u \in Requests,
           answers # <<>>, Head(answers) = StopIt(t, s), answers' = Tail(answers),
           ~slot[s].evict, slot' = [slot EXCEPT ![s] = Running(u)],
           schedQ' = Append(schedQ, Submit(u, s)),
           \A x \in Slots : x \in lost' <=> x \in lost,
           UNCHANGED <<dev, outputs, memRes, pendMem, memReq, session, deferred, pc>>
    PROVE  Sound'
<1>1. slot'[s] = Running(u) /\ \A x \in Slots \ {s} : slot'[x] = slot[x]
  BY DEF TypeOK, RunnerTypeOK
<1>2. CmdsOf(s) = {} /\ Submit(u, s) \notin Range(schedQ)
  BY StopMet, Letters DEF CmdsOf
<1>3. /\ CmdsOf(s)' = {Submit(u, s)} /\ \A x \in Slots \ {s} : CmdsOf(x)' = CmdsOf(x)
      /\ Range(schedQ)' = Range(schedQ) \cup {Submit(u, s)}
      /\ Distinct(schedQ)' /\ Ordered(schedQ, {"SUBMIT"}, {"STOP", "EVICT"})'
  BY <1>2, Letters, InCmds, PushCmd DEF Sound
<1>4. SlotInv(s)'
  BY <1>1, <1>3, StopMet, ContextKinds DEF SlotInv, Coherent, CoherentRunning
<1>5. /\ EvictIt(s) \notin CmdsOf(s)'
      /\ \A r \in Requests : Alloc(r, None) \in Range(schedQ)' => Alloc(r, None) \in Range(schedQ)
  BY <1>3, Letters
<1>6. Works(s)
  BY <1>1, <1>2, <1>3, <1>5, StopMet, ContextKinds DEF Works, SameSlot, Usable
<1> QED BY <1>3, <1>4, <1>6, StopMet, WorkDone

\* A step that has to do with no slot.
LEMMA Idles ==
    ASSUME Sound, \A x \in Slots : x \in lost' <=> x \in lost,
           UNCHANGED <<slot, schedQ, dev, answers, outputs, memRes, pendMem, memReq,
                       session, deferred, pc>>
    PROVE  Sound'
<1>1. ASSUME NEW x \in Slots PROVE SlotInv(x)' /\ HomeInv(x)'
  <2>1. SameSlot(x)
    BY Untouched DEF SameSlot
  <2>2. SamePlace(x)
    BY Untouched, PlaceSame DEF Sound, HomeInv
  <2> QED BY <2>1, <2>2, SlotKept, PlaceKept DEF Sound
<1>2. ASSUME NEW r \in Requests PROVE AskInv(r)'
  <2>1. SameAsk(r)
    BY Untouched, AskSame
  <2> QED BY <2>1, AskKept DEF Sound
<1>3. QueueInv'
  BY Untouched DEF Sound, QueueInv
<1> QED BY <1>1, <1>2, <1>3 DEF Sound

\* handleOutput: the run is over, if the slot still runs.
LEMMA Hears1 ==
    ASSUME TypeOK, Sound, NEW s \in Slots, s \in outputs, outputs' = outputs \ {s},
           slot' = IF slot[s].st = "RUNNING" THEN [slot EXCEPT ![s] = Idle] ELSE slot,
           UNCHANGED <<schedQ, dev, answers, memRes, pendMem, memReq, lost, session,
                       deferred, pc>>
    PROVE  Sound'
<1>1. /\ slot'[s] = IF slot[s].st = "RUNNING" THEN Idle ELSE slot[s]
      /\ \A x \in Slots \ {s} : slot'[x] = slot[x] /\ (x \in outputs' <=> x \in outputs)
      /\ s \notin outputs'
  BY DEF TypeOK, RunnerTypeOK
<1>2. Coherent(s, slot[s], dev[s], s \in outputs, CmdsOf(s), AcksOf(s))
  BY DEF Sound, SlotInv
<1>3. \/ slot[s].st = "RUNNING" /\ ~slot[s].evict /\ CmdsOf(s) = {} /\ AcksOf(s) = {} /\ dev[s] = "held"
      \/ CoherentStopping(s, slot[s], dev[s], s \in outputs, CmdsOf(s), AcksOf(s))
      \/ CoherentEvicting(s, slot[s], dev[s], s \in outputs, CmdsOf(s), AcksOf(s))
  BY <1>2, RunsARequest, ContextKinds DEF Sound, Coherent, CoherentRunning
<1>4. SlotInv(s)'
  <2>1. CASE slot[s].st = "RUNNING"
    <3>1. CmdsOf(s) = {} /\ AcksOf(s) = {} /\ dev[s] = "held"
      BY <1>3, <2>1, ContextKinds DEF CoherentStopping, CoherentEvicting
    <3> QED BY <1>1, <2>1, <3>1, Untouched DEF SlotInv, Coherent
  <2>2. CASE slot[s].st # "RUNNING"
    <3>1. Coherent(s, slot[s], dev[s], FALSE, CmdsOf(s), AcksOf(s))
      BY <1>3, <2>2 DEF Coherent, CoherentStopping, CoherentEvicting
    <3>2. (s \in outputs') = FALSE
      BY <1>1
    <3>3. slot'[s] = slot[s] /\ dev'[s] = dev[s]
      BY <1>1, <2>2
    <3>4. Coherent(s, slot'[s], dev'[s], s \in outputs', CmdsOf(s)', AcksOf(s)')
      BY <3>1, <3>2, <3>3, Untouched
    <3> QED BY <3>4 DEF SlotInv
  <2> QED BY <2>1, <2>2
<1>5. slot'[s].evict <=> slot[s].evict
  <2>1. CASE slot[s].st = "RUNNING"
    BY <1>1, <2>1, RunsARequest, ContextKinds DEF Sound
  <2>2. CASE slot[s].st # "RUNNING"
    BY <1>1, <2>2
  <2> QED BY <2>1, <2>2
<1>6. slot'[s].evict => slot'[s].st = "STOPPING"
  BY <1>1, ContextKinds DEF Sound, HomeInv
<1>7. Works(s)
  BY <1>1, <1>5, <1>6, Untouched, ContextKinds DEF Works, SameSlot, Usable
<1> QED BY <1>4, <1>7, Untouched, WorkDone DEF Sound

\* handleStopRequest: the run of a slot is told to stop.
LEMMA Stops ==
    ASSUME TypeOK, Sound, NEW t, NEW s \in Slots,
           slot[s].st = "RUNNING", slot[s].task = t, schedQ' = Append(schedQ, StopIt(t, s)),
           slot' = [slot EXCEPT ![s].st = "STOPPING", ![s].ack = t],
           UNCHANGED <<dev, answers, outputs, memRes, pendMem, memReq, lost, session,
                       deferred, pc>>
    PROVE  Sound'
<1>1. /\ t \in Requests /\ slot[s] = Running(t) /\ AcksOf(s) = {}
      /\ CoherentRunning(s, slot[s], dev[s], s \in outputs, CmdsOf(s), AcksOf(s))
  BY RunsARequest DEF Sound
<1>2. /\ slot'[s].st = "STOPPING" /\ slot'[s].ack = t /\ slot'[s].task = t /\ ~slot'[s].evict
      /\ ~slot[s].evict /\ \A x \in Slots \ {s} : slot'[x] = slot[x]
  <2>1. slot'[s] = [slot[s] EXCEPT !.st = "STOPPING", !.ack = t] /\ slot[s] \in Contexts
    BY DEF TypeOK, RunnerTypeOK, Contexts
  <2> QED BY <1>1, <2>1, ContextKinds DEF TypeOK, RunnerTypeOK, Contexts
<1>3. \/ CmdsOf(s) = {Submit(t, s)} /\ dev[s] = "held" /\ s \notin outputs
      \/ CmdsOf(s) = {} /\ dev[s] # "free"
  BY <1>1, <1>2 DEF CoherentRunning, Running
<1>4. StopIt(t, s) \notin Range(schedQ) /\ \A d \in CmdsOf(s) : d.type = "SUBMIT"
  BY <1>3, Letters DEF CmdsOf
<1>5. /\ CmdsOf(s)' = CmdsOf(s) \cup {StopIt(t, s)}
      /\ \A x \in Slots \ {s} : CmdsOf(x)' = CmdsOf(x)
      /\ Range(schedQ)' = Range(schedQ) \cup {StopIt(t, s)}
      /\ Distinct(schedQ)' /\ Ordered(schedQ, {"SUBMIT"}, {"STOP", "EVICT"})'
  BY <1>1, <1>4, Letters, InCmds, PushCmd DEF Sound
<1>6. SlotInv(s)'
  <2>1. CoherentStopping(s, slot'[s], dev'[s], s \in outputs', CmdsOf(s)', AcksOf(s)')
    BY <1>1, <1>2, <1>3, <1>5, Untouched DEF CoherentStopping
  <2> QED BY <2>1 DEF SlotInv, Coherent
<1>8. /\ EvictIt(s) \in CmdsOf(s)' <=> EvictIt(s) \in CmdsOf(s)
      /\ \A r \in Requests : Alloc(r, None) \in Range(schedQ)' => Alloc(r, None) \in Range(schedQ)
  BY <1>5, Letters
<1>7. Works(s)
  BY <1>2, <1>5, <1>8, Untouched DEF Works, SameSlot, Usable
<1> QED BY <1>5, <1>6, <1>7, Untouched, WorkDone DEF Sound

\* handleRequest on an idle slot: the sequence runs.
LEMMA Starts ==
    ASSUME TypeOK, Sound, NEW u \in Requests, NEW s \in Slots, slot[s].st = "IDLE",
           slot' = [slot EXCEPT ![s] = Running(u)], schedQ' = Append(schedQ, Submit(u, s)),
           \A x \in Slots : x \in lost' <=> x \in lost,
           UNCHANGED <<dev, answers, outputs, memRes, pendMem, memReq, session, deferred, pc>>
    PROVE  Sound'
<1>1. slot'[s] = Running(u) /\ \A x \in Slots \ {s} : slot'[x] = slot[x]
  BY DEF TypeOK, RunnerTypeOK
<1>2. /\ slot[s] = Idle /\ CmdsOf(s) = {} /\ AcksOf(s) = {} /\ dev[s] = "held"
      /\ s \notin outputs
  BY ContextKinds DEF Sound, SlotInv, Coherent, CoherentRunning, CoherentStopping, CoherentEvicting
<1>3. Submit(u, s) \notin Range(schedQ)
  BY <1>2, Letters DEF CmdsOf
<1>4. /\ CmdsOf(s)' = {Submit(u, s)} /\ \A x \in Slots \ {s} : CmdsOf(x)' = CmdsOf(x)
      /\ Range(schedQ)' = Range(schedQ) \cup {Submit(u, s)}
      /\ Distinct(schedQ)' /\ Ordered(schedQ, {"SUBMIT"}, {"STOP", "EVICT"})'
  BY <1>2, <1>3, Letters, InCmds, PushCmd DEF Sound
<1>5. SlotInv(s)'
  BY <1>1, <1>2, <1>4, ContextKinds, Untouched DEF SlotInv, Coherent, CoherentRunning
<1>6. Works(s)
  BY <1>1, <1>2, <1>4, Letters, ContextKinds, Untouched DEF Works, SameSlot, Usable
<1> QED BY <1>4, <1>5, <1>6, Untouched, WorkDone DEF Sound

\* handleRequest on a slot that is stopping: the sequence waits there.
LEMMA Waits ==
    ASSUME TypeOK, Sound, NEW u \in Requests, NEW s \in Slots, slot[s].st = "STOPPING",
           slot' = [slot EXCEPT ![s].cont = u],
           \A x \in Slots : x \in lost' <=> x \in lost,
           UNCHANGED <<schedQ, dev, answers, outputs, memRes, pendMem, memReq, session,
                       deferred, pc>>
    PROVE  Sound'
<1>1. /\ slot'[s].st = "STOPPING" /\ slot'[s].ack = slot[s].ack /\ slot'[s].task = slot[s].task
      /\ slot'[s].evict = slot[s].evict /\ \A x \in Slots \ {s} : slot'[x] = slot[x]
  BY DEF TypeOK, RunnerTypeOK, Contexts
<1>2. CoherentStopping(s, slot[s], dev[s], s \in outputs, CmdsOf(s), AcksOf(s))
  BY ContextKinds DEF Sound, SlotInv, Coherent, CoherentRunning, CoherentEvicting
<1>3. CoherentStopping(s, slot'[s], dev'[s], s \in outputs', CmdsOf(s)', AcksOf(s)')
  BY <1>1, <1>2, Untouched DEF CoherentStopping
<1>4. SlotInv(s)'
  BY <1>3 DEF SlotInv, Coherent
<1>5. Works(s)
  BY <1>1, Untouched DEF Works, SameSlot, Usable
<1> QED BY <1>4, <1>5, Untouched, WorkDone DEF Sound

-----------------------------------------------------------------------------
(* The decode scheduler at work.                                           *)

\* It takes a SUBMIT.
LEMMA TakesSubmit ==
    ASSUME TypeOK, Sound, NEW t \in Requests, NEW s \in Slots,
           schedQ # <<>>, Head(schedQ) = Submit(t, s), schedQ' = Tail(schedQ),
           dev' = [dev EXCEPT ![s] = "busy"],
           UNCHANGED <<slot, answers, outputs, memRes, pendMem, memReq, lost, session,
                       deferred, pc>>
    PROVE  Sound'
<1> DEFINE c == Submit(t, s)
<1>1. /\ c \in CmdsOf(s) /\ CmdsOf(s)' = CmdsOf(s) \ {c}
      /\ \A x \in Slots \ {s} : CmdsOf(x)' = CmdsOf(x)
      /\ Range(schedQ)' = Range(schedQ) \ {c}
      /\ Distinct(schedQ)' /\ Ordered(schedQ, {"SUBMIT"}, {"STOP", "EVICT"})'
  BY PopCmd, Letters DEF Sound
<1>2. dev'[s] = "busy" /\ \A x \in Slots \ {s} : dev'[x] = dev[x]
  BY DEF TypeOK, RunnerTypeOK
<1>3. /\ \A u : StopIt(u, s) # c /\ EvictIt(s) # c
      /\ \A u : Submit(u, s) = c => u = t
  BY Letters
<1>4. Coherent(s, slot[s], dev[s], s \in outputs, CmdsOf(s), AcksOf(s))
  BY DEF Sound, SlotInv
<1>5. /\ AcksOf(s) = {} /\ dev[s] = "held" /\ s \notin outputs
      /\ \/ slot[s].task = t /\ CmdsOf(s) = {c}
            /\ CoherentRunning(s, slot[s], dev[s], s \in outputs, CmdsOf(s), AcksOf(s))
         \/ CmdsOf(s) = {c, StopIt(slot[s].task, s)}
            /\ CoherentStopping(s, slot[s], dev[s], s \in outputs, CmdsOf(s), AcksOf(s))
         \/ CmdsOf(s) = {c, EvictIt(s)} /\ slot[s] = Evicting
  BY <1>1, <1>3, <1>4 DEF Coherent, CoherentRunning, CoherentStopping, CoherentEvicting
<1>6. SlotInv(s)'
  <2>1. CASE CmdsOf(s) = {c} /\ CoherentRunning(s, slot[s], dev[s], s \in outputs, CmdsOf(s), AcksOf(s))
    <3>1. CoherentRunning(s, slot'[s], dev'[s], s \in outputs', CmdsOf(s)', AcksOf(s)')
      BY <1>1, <1>2, <1>5, <2>1, Untouched DEF CoherentRunning
    <3> QED BY <3>1 DEF SlotInv, Coherent
  <2>2. CASE /\ CmdsOf(s) = {c, StopIt(slot[s].task, s)}
             /\ CoherentStopping(s, slot[s], dev[s], s \in outputs, CmdsOf(s), AcksOf(s))
    <3>1. CmdsOf(s)' = {StopIt(slot[s].task, s)}
      BY <1>1, <1>3, <2>2
    <3>2. CoherentStopping(s, slot'[s], dev'[s], s \in outputs', CmdsOf(s)', AcksOf(s)')
      BY <1>2, <1>5, <2>2, <3>1, Untouched DEF CoherentStopping
    <3> QED BY <3>2 DEF SlotInv, Coherent
  <2>3. CASE CmdsOf(s) = {c, EvictIt(s)} /\ slot[s] = Evicting
    <3>1. CmdsOf(s)' = {EvictIt(s)}
      BY <1>1, <1>3, <2>3
    <3>2. CoherentEvicting(s, slot'[s], dev'[s], s \in outputs', CmdsOf(s)', AcksOf(s)')
      BY <1>2, <1>5, <2>3, <3>1, Untouched DEF CoherentEvicting
    <3> QED BY <3>2 DEF SlotInv, Coherent
  <2> QED BY <1>5, <2>1, <2>2, <2>3
<1>7. slot[s].evict => slot[s].st = "STOPPING"
  BY DEF Sound, HomeInv
<1>8. Works(s)
  BY <1>1, <1>2, <1>3, <1>5, <1>7, Untouched DEF Works, SameSlot
<1> QED BY <1>1, <1>6, <1>8, Untouched, WorkDone DEF Sound

\* It emits the last token of a run.
LEMMA Emits ==
    ASSUME TypeOK, Sound, NEW s \in Slots, dev[s] = "busy",
           dev' = [dev EXCEPT ![s] = "held"], outputs' = outputs \cup {s},
           UNCHANGED <<slot, schedQ, answers, memRes, pendMem, memReq, lost, session,
                       deferred, pc>>
    PROVE  Sound'
<1>1. /\ dev'[s] = "held" /\ s \in outputs'
      /\ \A x \in Slots \ {s} : dev'[x] = dev[x] /\ (x \in outputs' <=> x \in outputs)
  BY DEF TypeOK, RunnerTypeOK
<1>2. Coherent(s, slot[s], dev[s], s \in outputs, CmdsOf(s), AcksOf(s))
  BY DEF Sound, SlotInv
<1>3. /\ AcksOf(s) = {}
      /\ \/ CoherentRunning(s, slot[s], dev[s], s \in outputs, CmdsOf(s), AcksOf(s)) /\ CmdsOf(s) = {}
         \/ CoherentStopping(s, slot[s], dev[s], s \in outputs, CmdsOf(s), AcksOf(s))
            /\ CmdsOf(s) = {StopIt(slot[s].task, s)}
         \/ slot[s] = Evicting /\ CmdsOf(s) = {EvictIt(s)}
  BY <1>2 DEF Coherent, CoherentRunning, CoherentStopping, CoherentEvicting, Given
<1>4. SlotInv(s)'
  <2>1. CASE CoherentRunning(s, slot[s], dev[s], s \in outputs, CmdsOf(s), AcksOf(s)) /\ CmdsOf(s) = {}
    <3>1. CoherentRunning(s, slot'[s], dev'[s], s \in outputs', CmdsOf(s)', AcksOf(s)')
      BY <1>1, <2>1, Untouched DEF CoherentRunning
    <3> QED BY <3>1 DEF SlotInv, Coherent
  <2>2. CASE /\ CoherentStopping(s, slot[s], dev[s], s \in outputs, CmdsOf(s), AcksOf(s))
             /\ CmdsOf(s) = {StopIt(slot[s].task, s)}
    <3>1. CoherentStopping(s, slot'[s], dev'[s], s \in outputs', CmdsOf(s)', AcksOf(s)')
      BY <1>1, <1>3, <2>2, Untouched DEF CoherentStopping
    <3> QED BY <3>1 DEF SlotInv, Coherent
  <2>3. CASE slot[s] = Evicting /\ CmdsOf(s) = {EvictIt(s)}
    <3>1. CoherentEvicting(s, slot'[s], dev'[s], s \in outputs', CmdsOf(s)', AcksOf(s)')
      BY <1>1, <1>3, <2>3, Untouched DEF CoherentEvicting
    <3> QED BY <3>1 DEF SlotInv, Coherent
  <2> QED BY <1>3, <2>1, <2>2, <2>3
<1>5. slot[s].evict => slot[s].st = "STOPPING"
  BY DEF Sound, HomeInv
<1>6. Works(s)
  BY <1>1, <1>5, Untouched DEF Works, SameSlot
<1> QED BY <1>4, <1>6, Untouched, WorkDone DEF Sound

-----------------------------------------------------------------------------
(* Steps that move a slot, or a request for one.                           *)

\* Nothing changes for the slots other than s.
Elsewhere(s) == \A x \in Slots \ {s} :
    /\ SameSlot(x) /\ SessionsAt(x)' = SessionsAt(x) /\ Results(x)' = Results(x)
    /\ Dealloc(x) \in Range(pendMem)' <=> Dealloc(x) \in Range(pendMem)
    /\ Dealloc(x) \in Range(memReq)' <=> Dealloc(x) \in Range(memReq)
    /\ x \in deferred' <=> x \in deferred
    /\ x \in lost' <=> x \in lost

LEMMA ElsewhereKept ==
    ASSUME Sound, NEW s, Elsewhere(s)
    PROVE  \A x \in Slots \ {s} : SlotInv(x)' /\ HomeInv(x)'
<1> SUFFICES ASSUME NEW x \in Slots \ {s} PROVE SlotInv(x)' /\ HomeInv(x)'
  OBVIOUS
<1>1. SlotInv(x) /\ HomeInv(x) /\ SameSlot(x)
  BY DEF Sound, Elsewhere
<1>2. SamePlace(x)
  BY <1>1, PlaceSame DEF Elsewhere, SameSlot, HomeInv
<1> QED BY <1>1, <1>2, SlotKept, PlaceKept

\* handleAllocateAck, without a slot.
LEMMA GotNone ==
    ASSUME TypeOK, Sound, NEW r \in Requests,
           answers # <<>>, Head(answers) = Alloc(r, None), answers' = Tail(answers),
           memRes' = memRes \cup {[task |-> r, slot |-> None]},
           UNCHANGED <<slot, schedQ, dev, outputs, pendMem, memReq, lost, session, deferred, pc>>
    PROVE  Sound'
<1> DEFINE a == Alloc(r, None)
<1>1. /\ Distinct(answers)' /\ Ordered(answers, {"EVICT"}, {"ALLOCATE"})'
      /\ Range(answers)' = Range(answers) \ {a} /\ a \in Range(answers)
      /\ \A x \in Slots : AcksOf(x)' = AcksOf(x)
  BY PopAck, Letters, RunnerAssumption DEF Sound
<1>2. QueueInv'
  BY <1>1, Untouched DEF Sound, QueueInv
<1>3. \A x \in Slots : Results(x)' = Results(x)
  BY RunnerAssumption DEF Results
<1>4. Elsewhere(None)
  BY <1>1, <1>3, Untouched DEF Elsewhere, SameSlot
<1>5. \A x \in Slots : SlotInv(x)' /\ HomeInv(x)'
  BY <1>4, ElsewhereKept, RunnerAssumption
<1>6. ASSUME NEW q \in Requests PROVE AskInv(q)'
  <2>0. AskInv(q)
    BY DEF Sound
  <2>1. CASE q = r
    <3>1. Asks("answered", r) /\ \A k \in Stages \ {"answered"} : ~Asks(k, r)
      BY <1>1, <2>0, <2>1 DEF Asks, Stages, AskInv
    <3>2. /\ \A x \in Slots \cup {None} : Alloc(r, x) \notin Range(answers)'
          /\ \A x \in Slots \cup {None} : [task |-> r, slot |-> x] \in memRes' => x = None
      BY <1>1, <2>0, <2>1, <3>1 DEF AskInv, Asks, Stages
    <3>3. AskMoves(r, "answered", "result")
      <4>1. ~Asks("answered", r)' 
        BY <3>2 DEF Asks
      <4>2. \A k \in Stages \ {"answered", "result"} : Asks(k, r)' => Asks(k, r)
        BY Untouched DEF Asks, Stages
      <4> QED BY <3>1, <3>2, <4>1, <4>2 DEF AskMoves, OneAnswer
    <3> QED BY <2>0, <2>1, <3>3, AskMoved DEF Stages
  <2>2. CASE q # r
    <3>1. SameAsk(q)
      BY <1>1, <2>2, Untouched, AskSame
    <3> QED BY <2>0, <3>1, AskKept
  <2> QED BY <2>1, <2>2
<1> QED BY <1>2, <1>5, <1>6 DEF Sound

\* The answer to an EVICT meets a slot under eviction, which becomes free.
LEMMA EvictMet ==
    ASSUME TypeOK, Sound, NEW s \in Slots,
           answers # <<>>, Head(answers) = EvictIt(s), answers' = Tail(answers)
    PROVE  /\ slot[s] = Evicting /\ CmdsOf(s) = {} /\ s \notin outputs
           /\ Given(s, dev[s], AcksOf(s)')
           /\ AcksOf(s)' = AcksOf(s) \ {EvictIt(s)}
           /\ \A x \in Slots \ {s} : AcksOf(x)' = AcksOf(x)
           /\ Range(answers)' = Range(answers) \ {EvictIt(s)}
           /\ Distinct(answers)' /\ Ordered(answers, {"EVICT"}, {"ALLOCATE"})'
<1>1. /\ EvictIt(s) \in AcksOf(s) /\ AcksOf(s)' = AcksOf(s) \ {EvictIt(s)}
      /\ \A x \in Slots \ {s} : AcksOf(x)' = AcksOf(x)
      /\ Range(answers)' = Range(answers) \ {EvictIt(s)}
      /\ Distinct(answers)' /\ Ordered(answers, {"EVICT"}, {"ALLOCATE"})'
  BY PopAck, Letters DEF Sound
<1>2. Coherent(s, slot[s], dev[s], s \in outputs, CmdsOf(s), AcksOf(s))
  BY DEF Sound, SlotInv
<1>3. (\A t : StopIt(t, s) # EvictIt(s)) /\ (\A r : Alloc(r, s) # EvictIt(s))
  BY Letters
<1>4. slot[s] = Evicting /\ CmdsOf(s) = {} /\ s \notin outputs
      /\ Given(s, dev[s], AcksOf(s) \ {EvictIt(s)})
  BY <1>1, <1>2, <1>3 DEF Coherent, CoherentRunning, CoherentStopping, CoherentEvicting, Given
<1> QED BY <1>1, <1>4

LEMMA GivenBack ==
    ASSUME TypeOK, Sound, NEW s \in Slots,
           answers # <<>>, Head(answers) = EvictIt(s), answers' = Tail(answers),
           slot' = [slot EXCEPT ![s] = Free],
           UNCHANGED <<schedQ, dev, outputs, memRes, pendMem, memReq, lost, session,
                       deferred, pc>>
    PROVE  Sound'
<1>1. slot'[s] = Free /\ \A x \in Slots \ {s} : slot'[x] = slot[x]
  BY DEF TypeOK, RunnerTypeOK
<1>2. SlotInv(s)'
  BY <1>1, EvictMet, Untouched DEF SlotInv, Coherent
<1>3. /\ \A r \in Requests : Alloc(r, s) \in AcksOf(s)' <=> Alloc(r, s) \in AcksOf(s)
      /\ \A r \in Requests, x \in Slots \cup {None} :
            Alloc(r, x) \in Range(answers)' => Alloc(r, x) \in Range(answers)
  BY EvictMet, Letters
<1>4. Works(s)
  BY <1>1, <1>3, EvictMet, Untouched, ContextKinds DEF Works, SameSlot, Usable
<1> QED BY <1>2, <1>4, EvictMet, Untouched, WorkDone DEF Sound

\* handleStopAck with an eviction that waited, and room for it.
LEMMA EvictsNow ==
    ASSUME TypeOK, Sound, NEW t \in Requests, NEW s \in Slots,
           answers # <<>>, Head(answers) = StopIt(t, s), answers' = Tail(answers),
           slot[s].evict, slot' = [slot EXCEPT ![s] = Evicting],
           schedQ' = Append(schedQ, EvictIt(s)),
           UNCHANGED <<dev, outputs, memRes, pendMem, memReq, lost, session, deferred, pc>>
    PROVE  Sound'
<1>1. slot'[s] = Evicting /\ \A x \in Slots \ {s} : slot'[x] = slot[x]
  BY DEF TypeOK, RunnerTypeOK
<1>2. CmdsOf(s) = {} /\ EvictIt(s) \notin Range(schedQ)
  BY StopMet, Letters DEF CmdsOf
<1>3. /\ CmdsOf(s)' = {EvictIt(s)} /\ \A x \in Slots \ {s} : CmdsOf(x)' = CmdsOf(x)
      /\ Range(schedQ)' = Range(schedQ) \cup {EvictIt(s)}
      /\ Distinct(schedQ)' /\ Ordered(schedQ, {"SUBMIT"}, {"STOP", "EVICT"})'
  BY <1>2, Letters, InCmds, PushCmd DEF Sound
<1>4. SlotInv(s)'
  BY <1>1, <1>3, StopMet DEF SlotInv, Coherent, CoherentEvicting
<1>5. Elsewhere(s)
  BY <1>1, <1>3, StopMet, Untouched DEF Elsewhere, SameSlot
<1>6. HomeInv(s)'
  <2>1. HomeInv(s) /\ At("flag", s) /\ At("leaving", s)' /\ ~At("flag", s)'
    BY <1>1, <1>3, ContextKinds DEF Sound, At
  <2>2. \A j \in Places \ {"flag", "leaving"} : At(j, s)' => At(j, s)
    BY StopMet, Untouched DEF At, Places
  <2>3. PlaceMoves(s, "flag", "leaving")
    BY <1>1, <2>1, <2>2, StopMet, Untouched, ContextKinds
       DEF PlaceMoves, HomeInv, Somewhere, Places
  <2> QED BY <2>1, <2>3, PlaceMoved DEF Places
<1>7. ASSUME NEW q \in Requests PROVE AskInv(q)'
  <2>1. Alloc(q, None) # EvictIt(s)
    BY Letters
  <2>2. SameAsk(q)
    BY <1>3, <2>1, StopMet, Untouched, AskSame
  <2> QED BY <2>2, AskKept DEF Sound
<1>8. QueueInv'
  BY <1>3, StopMet, Untouched DEF Sound, QueueInv
<1> QED BY <1>4, <1>5, <1>6, <1>7, <1>8, ElsewhereKept DEF Sound

\* ... and no room: it is held back, in the place of any other memory request.
LEMMA HoldsBack ==
    ASSUME TypeOK, Sound, NEW t \in Requests, NEW s \in Slots,
           answers # <<>>, Head(answers) = StopIt(t, s), answers' = Tail(answers),
           slot[s].evict, slot' = [slot EXCEPT ![s] = Idle], pendMem' = <<Dealloc(s)>>,
           \A x \in Slots : x \in lost' <=> x \in lost \/ Dealloc(x) \in Range(pendMem),
           UNCHANGED <<schedQ, dev, outputs, memRes, memReq, session, deferred, pc>>
    PROVE  Sound'
<1>1. slot'[s] = Idle /\ \A x \in Slots \ {s} : slot'[x] = slot[x]
  BY DEF TypeOK, RunnerTypeOK
<1>2. Range(pendMem)' = {Dealloc(s)}
  BY Singly
<1>3. SlotInv(s)'
  BY <1>1, StopMet, Untouched DEF SlotInv, Coherent
<1>4. \A j \in Places \ {"flag"} : ~At(j, s)
  BY StopMet
<1>5. HomeInv(s)'
  <2>1. HomeInv(s) /\ At("flag", s) /\ ~At("flag", s)' /\ At("held", s)'
    BY <1>1, <1>2, ContextKinds DEF Sound, At
  <2>2. \A j \in Places \ {"flag", "held"} : At(j, s)' => At(j, s)
    BY StopMet, Untouched DEF At, Places
  <2>3. s \notin lost'
    BY <1>4, <2>1 DEF At, Places, HomeInv, Somewhere
  <2>4. PlaceMoves(s, "flag", "held")
    BY <1>1, <2>1, <2>2, <2>3, StopMet, Untouched, ContextKinds
       DEF PlaceMoves, HomeInv, Usable
  <2> QED BY <2>1, <2>4, PlaceMoved DEF Places
<1>6. ASSUME NEW x \in Slots \ {s} PROVE SlotInv(x)' /\ HomeInv(x)'
  <2>1. SlotInv(x) /\ HomeInv(x) /\ SameSlot(x)
    BY <1>1, StopMet, Untouched DEF Sound, SameSlot
  <2>2. Dealloc(x) \notin Range(pendMem)'
    BY <1>2, MemKinds
  <2>3. CASE Dealloc(x) \in Range(pendMem)
    <3>1. At("held", x) /\ ~At("held", x)'
      BY <2>2, <2>3 DEF At
    <3>2. \A j \in Places \ {"held"} : At(j, x)' => At(j, x)
      BY <1>1, <2>1, Untouched DEF At, Places, SameSlot
    <3>3. dev'[x] # "free" /\ x \in lost'
      BY <2>1, <2>3, <3>1 DEF HomeInv, Somewhere, Places
    <3>4. PlaceLeft(x, "held")
      BY <1>1, <2>1, <3>1, <3>2, <3>3 DEF PlaceLeft, HomeInv
    <3> QED BY <2>1, <3>4, SlotKept, PlaceLost DEF Places
  <2>4. CASE Dealloc(x) \notin Range(pendMem)
    <3>1. SamePlace(x)
      BY <2>1, <2>2, <2>4, Untouched, PlaceSame DEF SameSlot, HomeInv
    <3> QED BY <2>1, <3>1, SlotKept, PlaceKept
  <2> QED BY <2>3, <2>4
<1>7. ASSUME NEW q \in Requests PROVE AskInv(q)'
  <2>1. Allocate(q) # Dealloc(s)
    BY MemKinds
  <2>2. SameAsk(q)
    BY <1>2, <2>1, StopMet, Untouched, AskSame
  <2> QED BY <2>2, AskKept DEF Sound
<1>8. QueueInv'
  BY StopMet, Untouched DEF Sound, QueueInv
<1> QED BY <1>3, <1>5, <1>6, <1>7, <1>8 DEF Sound

\* The scheduler has no free slot: it answers so.
LEMMA NoneLeft ==
    ASSUME TypeOK, Sound, NEW r \in Requests,
           schedQ # <<>>, Head(schedQ) = Alloc(r, None), schedQ' = Tail(schedQ),
           answers' = Append(answers, Alloc(r, None)),
           UNCHANGED <<slot, dev, outputs, memRes, pendMem, memReq, lost, session, deferred, pc>>
    PROVE  Sound'
<1> DEFINE c == Alloc(r, None)
<1>1. /\ Distinct(schedQ)' /\ Ordered(schedQ, {"SUBMIT"}, {"STOP", "EVICT"})'
      /\ Range(schedQ)' = Range(schedQ) \ {c} /\ c \in Range(schedQ)
      /\ \A x \in Slots : CmdsOf(x)' = CmdsOf(x)
  BY PopCmd, Letters, RunnerAssumption DEF Sound
<1>2. Asks("sent", r) /\ AskInv(r)
  BY <1>1 DEF Asks, Sound
<1>3. \A k \in Stages \ {"sent"} : ~Asks(k, r)
  BY <1>2 DEF AskInv, Stages
<1>4. \A x \in Slots \cup {None} : Alloc(r, x) \notin Range(answers)
  BY <1>3 DEF Asks, Stages
<1>5. /\ Range(answers)' = Range(answers) \cup {c}
      /\ \A x \in Slots : AcksOf(x)' = AcksOf(x)
      /\ Distinct(answers)' /\ Ordered(answers, {"EVICT"}, {"ALLOCATE"})'
  BY <1>4, InCmds, Letters, RunnerAssumption, PushAck DEF Sound
<1>6. QueueInv'
  BY <1>1, <1>5, Untouched DEF Sound, QueueInv
<1>7. Elsewhere(None)
  BY <1>1, <1>5, Untouched DEF Elsewhere, SameSlot
<1>8. \A x \in Slots : SlotInv(x)' /\ HomeInv(x)'
  BY <1>7, ElsewhereKept, RunnerAssumption
<1>9. ASSUME NEW q \in Requests PROVE AskInv(q)'
  <2>1. CASE q = r
    <3>1. ~Asks("sent", r)' /\ \A k \in Stages \ {"sent", "answered"} : Asks(k, r)' => Asks(k, r)
      BY <1>1, Untouched DEF Asks, Stages
    <3>2. \A x \in Slots \cup {None} : Alloc(r, x) \in Range(answers)' => x = None
      BY <1>4, <1>5, Letters
    <3>3. AskMoves(r, "sent", "answered")
      BY <1>2, <3>1, <3>2 DEF AskMoves, OneAnswer, AskInv
    <3> QED BY <1>2, <2>1, <3>3, AskMoved DEF Stages
  <2>2. CASE q # r
    <3>1. \A x : Alloc(q, x) # c
      BY <2>2, Letters
    <3>2. SameAsk(q)
      BY <1>1, <1>5, <3>1, Untouched, AskSame
    <3> QED BY <3>2, AskKept DEF Sound
  <2> QED BY <2>1, <2>2
<1> QED BY <1>6, <1>8, <1>9 DEF Sound

\* It gives a free slot away.
LEMMA Gives ==
    ASSUME TypeOK, Sound, NEW r \in Requests, NEW s \in Slots, dev[s] = "free",
           schedQ # <<>>, Head(schedQ) = Alloc(r, None), schedQ' = Tail(schedQ),
           answers' = Append(answers, Alloc(r, s)), dev' = [dev EXCEPT ![s] = "held"],
           UNCHANGED <<slot, outputs, memRes, pendMem, memReq, lost, session, deferred, pc>>
    PROVE  Sound'
<1> DEFINE c == Alloc(r, None)
           a == Alloc(r, s)
<1>1. /\ Distinct(schedQ)' /\ Ordered(schedQ, {"SUBMIT"}, {"STOP", "EVICT"})'
      /\ Range(schedQ)' = Range(schedQ) \ {c} /\ c \in Range(schedQ)
      /\ \A x \in Slots : CmdsOf(x)' = CmdsOf(x)
  BY PopCmd, Letters, RunnerAssumption DEF Sound
<1>2. Asks("sent", r) /\ AskInv(r) /\ HomeInv(s)
  BY <1>1 DEF Asks, Sound
<1>3. \A k \in Stages \ {"sent"} : ~Asks(k, r)
  BY <1>2 DEF AskInv, Stages
<1>4. \A x \in Slots \cup {None} : Alloc(r, x) \notin Range(answers)
  BY <1>3 DEF Asks, Stages
<1>5. dev'[s] = "held" /\ \A x \in Slots \ {s} : dev'[x] = dev[x]
  BY DEF TypeOK, RunnerTypeOK
<1>6. /\ CmdsOf(s) = {} /\ s \notin outputs
      /\ \/ slot[s] = Free /\ AcksOf(s) = {}
         \/ slot[s] = Evicting /\ AcksOf(s) = {EvictIt(s)}
  <2>1. Coherent(s, slot[s], dev[s], s \in outputs, CmdsOf(s), AcksOf(s))
    BY DEF Sound, SlotInv
  <2>2. ~CoherentRunning(s, slot[s], dev[s], s \in outputs, CmdsOf(s), AcksOf(s))
    BY DEF CoherentRunning
  <2>3. ~CoherentStopping(s, slot[s], dev[s], s \in outputs, CmdsOf(s), AcksOf(s))
    BY DEF CoherentStopping
  <2>4. CASE CoherentEvicting(s, slot[s], dev[s], s \in outputs, CmdsOf(s), AcksOf(s))
    <3>1. slot[s] = Evicting /\ CmdsOf(s) = {} /\ EvictIt(s) \in AcksOf(s) /\ s \notin outputs
          /\ AcksOf(s) \ {EvictIt(s)} = {}
      BY <2>4 DEF CoherentEvicting, Given
    <3>2. AcksOf(s) = {EvictIt(s)}
      BY <3>1
    <3> QED BY <3>1, <3>2
  <2>5. CASE ~CoherentEvicting(s, slot[s], dev[s], s \in outputs, CmdsOf(s), AcksOf(s))
    BY <2>1, <2>2, <2>3, <2>5 DEF Coherent, Given
  <2> QED BY <2>4, <2>5
<1>7. \A d \in AcksOf(s) : d.type = "EVICT"
  BY <1>6, Letters
<1>8. /\ Range(answers)' = Range(answers) \cup {a} /\ AcksOf(s)' = AcksOf(s) \cup {a}
      /\ \A x \in Slots \ {s} : AcksOf(x)' = AcksOf(x)
      /\ Distinct(answers)' /\ Ordered(answers, {"EVICT"}, {"ALLOCATE"})'
  BY <1>4, <1>7, InCmds, Letters, PushAck DEF Sound
<1>9. SlotInv(s)'
  <2>1. CASE slot[s] = Free /\ AcksOf(s) = {}
    BY <1>1, <1>5, <1>6, <1>8, <2>1 DEF SlotInv, Coherent, Given
  <2>2. CASE slot[s] = Evicting /\ AcksOf(s) = {EvictIt(s)}
    <3>1. EvictIt(s) \in AcksOf(s)' /\ AcksOf(s)' \ {EvictIt(s)} = {a}
      BY <1>8, <2>2, Letters
    <3>2. CoherentEvicting(s, slot'[s], dev'[s], s \in outputs', CmdsOf(s)', AcksOf(s)')
      BY <1>1, <1>5, <1>6, <2>2, <3>1 DEF CoherentEvicting, Given
    <3> QED BY <3>2 DEF SlotInv, Coherent
  <2> QED BY <1>6, <2>1, <2>2
<1>10. Elsewhere(s)
  BY <1>1, <1>5, <1>8, Untouched DEF Elsewhere, SameSlot
<1>11. HomeInv(s)'
  <2>1. \A k \in Places : ~At(k, s)
    BY <1>2 DEF HomeInv, Somewhere
  <2>2. \A k \in Places \ {"answer"} : ~At(k, s)'
    BY <1>1, <2>1, Untouched DEF At, Places
  <2>3. At("answer", s)' /\ "answer" \in Places
    BY <1>8 DEF At, Places
  <2>4. Somewhere(s)' /\ dev'[s] # "free" /\ s \notin lost'
    BY <1>2, <1>5, <2>3 DEF Somewhere, HomeInv
  <2>5. SessionsAt(s)' = {} /\ Results(s)' = {} /\ ~slot'[s].evict
    BY <2>2 DEF At, Places
  <2> QED BY <2>2, <2>4, <2>5 DEF HomeInv
<1>12. QueueInv'
  BY <1>1, <1>8, Untouched DEF Sound, QueueInv
<1>13. ASSUME NEW q \in Requests PROVE AskInv(q)'
  <2>1. CASE q = r
    <3>1. ~Asks("sent", r)' /\ \A k \in Stages \ {"sent", "answered"} : Asks(k, r)' => Asks(k, r)
      BY <1>1, Untouched DEF Asks, Stages
    <3>2. \A x \in Slots \cup {None} : Alloc(r, x) \in Range(answers)' => x = s
      BY <1>4, <1>8, Letters
    <3>3. AskMoves(r, "sent", "answered")
      BY <1>2, <3>1, <3>2 DEF AskMoves, OneAnswer, AskInv
    <3> QED BY <1>2, <2>1, <3>3, AskMoved DEF Stages
  <2>2. CASE q # r
    <3>1. \A x : Alloc(q, x) # a
      BY <2>2, Letters
    <3>2. SameAsk(q)
      BY <1>1, <1>8, <3>1, Untouched, AskSame
    <3> QED BY <3>2, AskKept DEF Sound
  <2> QED BY <2>1, <2>2
<1> QED BY <1>9, <1>10, <1>11, <1>12, <1>13, ElsewhereKept DEF Sound

\* It answers a STOP, when no output of the slot is waiting.
LEMMA AnswersStop ==
    ASSUME TypeOK, Sound, NEW t \in Requests, NEW s \in Slots, s \notin outputs,
           schedQ # <<>>, Head(schedQ) = StopIt(t, s), schedQ' = Tail(schedQ),
           answers' = Append(answers, StopIt(t, s)), dev' = [dev EXCEPT ![s] = "held"],
           UNCHANGED <<slot, outputs, memRes, pendMem, memReq, lost, session, deferred, pc>>
    PROVE  Sound'
<1> DEFINE c == StopIt(t, s)
<1>1. /\ Distinct(schedQ)' /\ Ordered(schedQ, {"SUBMIT"}, {"STOP", "EVICT"})'
      /\ Range(schedQ)' = Range(schedQ) \ {c} /\ c \in CmdsOf(s) /\ CmdsOf(s)' = {}
      /\ \A x \in Slots \ {s} : CmdsOf(x)' = CmdsOf(x)
      /\ CmdsOf(s)' = CmdsOf(s) \ {c}
  BY PopCmd, Letters DEF Sound
<1>2. (\A u : Submit(u, s) # c) /\ EvictIt(s) # c /\ \A u : StopIt(u, s) = c => u = t
  BY Letters
<1>3. /\ slot[s].st = "STOPPING" /\ slot[s].task = t /\ slot[s].ack = t
      /\ AcksOf(s) = {} /\ dev[s] # "free"
  <2>1. Coherent(s, slot[s], dev[s], s \in outputs, CmdsOf(s), AcksOf(s))
    BY DEF Sound, SlotInv
  <2>2. ~CoherentRunning(s, slot[s], dev[s], s \in outputs, CmdsOf(s), AcksOf(s))
        /\ ~CoherentEvicting(s, slot[s], dev[s], s \in outputs, CmdsOf(s), AcksOf(s))
    BY <1>1, <1>2 DEF CoherentRunning, CoherentEvicting
  <2>3. CoherentStopping(s, slot[s], dev[s], s \in outputs, CmdsOf(s), AcksOf(s))
    BY <1>1, <2>1, <2>2 DEF Coherent
  <2> QED BY <1>1, <1>2, <2>3 DEF CoherentStopping
<1>4. /\ dev'[s] = "held" /\ \A x \in Slots \ {s} : dev'[x] = dev[x]
  BY DEF TypeOK, RunnerTypeOK
<1>5. /\ Range(answers)' = Range(answers) \cup {c} /\ AcksOf(s)' = {c}
      /\ \A x \in Slots \ {s} : AcksOf(x)' = AcksOf(x)
      /\ Distinct(answers)' /\ Ordered(answers, {"EVICT"}, {"ALLOCATE"})'
  <2>1. c \notin Range(answers)
    BY <1>3, Letters DEF AcksOf
  <2> QED BY <1>3, <2>1, InCmds, Letters, PushAck DEF Sound
<1>6. SlotInv(s)'
  <2>1. CoherentStopping(s, slot'[s], dev'[s], s \in outputs', CmdsOf(s)', AcksOf(s)')
    BY <1>1, <1>3, <1>4, <1>5 DEF CoherentStopping
  <2> QED BY <2>1 DEF SlotInv, Coherent
<1>7. /\ \A r, x : Alloc(r, x) # c
      /\ EvictIt(s) \notin CmdsOf(s)
      /\ \A r : Alloc(r, s) \notin AcksOf(s) /\ Alloc(r, s) \notin AcksOf(s)'
  <2>1. \A r, x : Alloc(r, x) # c
    BY Letters
  <2>2. EvictIt(s) \notin CmdsOf(s)
    BY <1>1, <1>2
  <2> QED BY <1>3, <1>5, <2>1, <2>2
<1>8. Works(s)
  BY <1>1, <1>3, <1>4, <1>5, <1>7, Untouched DEF Works, SameSlot
<1> QED BY <1>1, <1>5, <1>6, <1>8, WorkDone

\* It answers an EVICT, and the slot is free again.
LEMMA AnswersEvict ==
    ASSUME TypeOK, Sound, NEW s \in Slots, s \notin outputs,
           schedQ # <<>>, Head(schedQ) = EvictIt(s), schedQ' = Tail(schedQ),
           answers' = Append(answers, EvictIt(s)), dev' = [dev EXCEPT ![s] = "free"],
           UNCHANGED <<slot, outputs, memRes, pendMem, memReq, lost, session, deferred, pc>>
    PROVE  Sound'
<1> DEFINE c == EvictIt(s)
<1>1. /\ Distinct(schedQ)' /\ Ordered(schedQ, {"SUBMIT"}, {"STOP", "EVICT"})'
      /\ Range(schedQ)' = Range(schedQ) \ {c} /\ c \in CmdsOf(s) /\ CmdsOf(s)' = {}
      /\ \A x \in Slots \ {s} : CmdsOf(x)' = CmdsOf(x)
  BY PopCmd, Letters DEF Sound
<1>2. (\A u : Submit(u, s) # c) /\ (\A u : StopIt(u, s) # c) /\ \A r, x : Alloc(r, x) # c
  BY Letters
<1>3. slot[s] = Evicting /\ AcksOf(s) = {}
  <2>1. Coherent(s, slot[s], dev[s], s \in outputs, CmdsOf(s), AcksOf(s))
    BY DEF Sound, SlotInv
  <2>2. ~CoherentRunning(s, slot[s], dev[s], s \in outputs, CmdsOf(s), AcksOf(s))
        /\ ~CoherentStopping(s, slot[s], dev[s], s \in outputs, CmdsOf(s), AcksOf(s))
    BY <1>1, <1>2 DEF CoherentRunning, CoherentStopping
  <2>3. CoherentEvicting(s, slot[s], dev[s], s \in outputs, CmdsOf(s), AcksOf(s))
    BY <1>1, <2>1, <2>2 DEF Coherent
  <2> QED BY <1>1, <2>3 DEF CoherentEvicting
<1>4. /\ dev'[s] = "free" /\ \A x \in Slots \ {s} : dev'[x] = dev[x]
  BY DEF TypeOK, RunnerTypeOK
<1>5. /\ Range(answers)' = Range(answers) \cup {c} /\ AcksOf(s)' = {c}
      /\ \A x \in Slots \ {s} : AcksOf(x)' = AcksOf(x)
      /\ Distinct(answers)' /\ Ordered(answers, {"EVICT"}, {"ALLOCATE"})'
  <2>1. c \notin Range(answers)
    BY <1>3, Letters DEF AcksOf
  <2> QED BY <1>3, <2>1, InCmds, Letters, PushAck DEF Sound
<1>6. SlotInv(s)'
  <2>1. CoherentEvicting(s, slot'[s], dev'[s], s \in outputs', CmdsOf(s)', AcksOf(s)')
    BY <1>1, <1>3, <1>4, <1>5 DEF CoherentEvicting, Given
  <2> QED BY <2>1 DEF SlotInv, Coherent
<1>7. Elsewhere(s)
  BY <1>1, <1>4, <1>5, Untouched DEF Elsewhere, SameSlot
<1>8. HomeInv(s)'
  <2>1. HomeInv(s) /\ At("leaving", s) /\ ~At("leaving", s)'
    BY <1>1 DEF Sound, At
  <2>2. \A j \in Places \ {"leaving"} : At(j, s)' => At(j, s)
    BY <1>2, <1>5, Untouched DEF At, Places
  <2>3. PlaceLeft(s, "leaving")
    BY <1>3, <1>4, <2>1, <2>2, ContextKinds DEF PlaceLeft, HomeInv, Somewhere, Places
  <2> QED BY <2>1, <2>3, PlaceLost DEF Places
<1>9. ASSUME NEW q \in Requests PROVE AskInv(q)'
  <2>1. SameAsk(q)
    BY <1>1, <1>2, <1>5, Untouched, AskSame
  <2> QED BY <2>1, AskKept DEF Sound
<1>10. QueueInv'
  BY <1>1, <1>5, Untouched DEF Sound, QueueInv
<1> QED BY <1>6, <1>7, <1>8, <1>9, <1>10, ElsewhereKept DEF Sound

-----------------------------------------------------------------------------
(* getMemoryRequest, and what becomes of the request.                      *)

TakesMem(m) ==
    \/ pendMem = <<m>> /\ UNCHANGED memReq
    \/ pendMem = <<>> /\ memReq # <<>> /\ m = Head(memReq) /\ memReq' = Tail(memReq)

LEMMA MemTaken ==
    ASSUME TypeOK, Sound, NEW m \in Mem, TakesMem(m)
    PROVE  /\ Range(memReq)' = Range(memReq) \ {m} /\ Distinct(memReq)'
           /\ \/ Range(pendMem) = {m}
              \/ Range(pendMem) = {} /\ m \in Range(memReq)
<1>1. memReq \in Seq(Mem) /\ Distinct(memReq)
  BY DEF TypeOK, RunnerTypeOK, Sound, QueueInv
<1>2. CASE pendMem = <<m>> /\ UNCHANGED memReq
  <2>1. Range(pendMem) = {m}
    BY <1>2, Singly
  <2>2. m \notin Range(memReq)
    <3>1. CASE m \in {Allocate(r) : r \in Requests}
      <4>1. PICK r \in Requests : m = Allocate(r)
        BY <3>1
      <4>2. AskInv(r) /\ Asks("held", r) /\ "held" \in Stages /\ "asked" \in Stages
        BY <2>1, <4>1 DEF Sound, Asks, Stages
      <4>3. ~Asks("asked", r)
        BY <4>2 DEF AskInv
      <4> QED BY <4>1, <4>3 DEF Asks
    <3>2. CASE m \in {Dealloc(s) : s \in Slots}
      <4>1. PICK s \in Slots : m = Dealloc(s)
        BY <3>2
      <4>2. HomeInv(s) /\ At("held", s) /\ "held" \in Places /\ "asked" \in Places
        BY <2>1, <4>1 DEF Sound, At, Places
      <4>3. ~At("asked", s)
        BY <4>2 DEF HomeInv
      <4> QED BY <4>1, <4>3 DEF At
    <3> QED BY <3>1, <3>2 DEF Mem
  <2> QED BY <1>1, <1>2, <2>1, <2>2, Untouched DEF Sound
<1>3. CASE pendMem = <<>> /\ memReq # <<>> /\ m = Head(memReq) /\ memReq' = Tail(memReq)
  <2>1. Range(pendMem) = {}
    BY <1>3, Nothing
  <2> QED BY <1>1, <1>3, <2>1, Popped
<1> QED BY <1>2, <1>3 DEF TakesMem

\* What a request of the server for a slot, or back, says about both.
LEMMA MemOf ==
    ASSUME Sound, NEW m \in Mem, m \in Range(pendMem) \cup Range(memReq)
    PROVE  /\ \A r \in Requests : m = Allocate(r) =>
                 \E k \in {"asked", "held"} : Asks(k, r) /\ (k = "held" <=> m \in Range(pendMem))
           /\ \A s \in Slots : m = Dealloc(s) =>
                 \E k \in {"asked", "held"} : At(k, s) /\ (k = "held" <=> m \in Range(pendMem))
<1>1. ASSUME NEW r \in Requests, m = Allocate(r)
      PROVE  \E k \in {"asked", "held"} : Asks(k, r) /\ (k = "held" <=> m \in Range(pendMem))
  BY <1>1 DEF Asks
<1>2. ASSUME NEW s \in Slots, m = Dealloc(s)
      PROVE  \E k \in {"asked", "held"} : At(k, s) /\ (k = "held" <=> m \in Range(pendMem))
  BY <1>2 DEF At
<1> QED BY <1>1, <1>2

\* handleAllocateRequest, with room in the queue of the scheduler ...
LEMMA AllocSent ==
    ASSUME TypeOK, Sound, NEW r \in Requests, TakesMem(Allocate(r)),
           schedQ' = Append(schedQ, Alloc(r, None)), pendMem' = <<>>,
           UNCHANGED <<slot, dev, answers, outputs, memRes, lost, session, deferred, pc>>
    PROVE  Sound'
<1> DEFINE m == Allocate(r)
           c == Alloc(r, None)
<1>1. /\ Range(memReq)' = Range(memReq) \ {m} /\ Distinct(memReq)'
      /\ m \in Range(pendMem) \cup Range(memReq) /\ Range(pendMem) \subseteq {m}
  BY MemTaken, MemKinds
<1>2. Range(pendMem)' = {}
  BY Nothing
<1>3. PICK k \in {"asked", "held"} : Asks(k, r)
  BY <1>1, MemOf, MemKinds
<1>4. AskInv(r) /\ ~Asks("sent", r)
  BY <1>3 DEF Sound, AskInv, Stages
<1>5. c \notin Range(schedQ)
  BY <1>4 DEF Asks
<1>6. /\ Range(schedQ)' = Range(schedQ) \cup {c} /\ \A x \in Slots : CmdsOf(x)' = CmdsOf(x)
      /\ Distinct(schedQ)' /\ Ordered(schedQ, {"SUBMIT"}, {"STOP", "EVICT"})'
  BY <1>5, Letters, InCmds, PushCmd, RunnerAssumption DEF Sound
<1>7. \A x \in Slots : Dealloc(x) # m
  BY MemKinds
<1>8. Elsewhere(None)
  BY <1>1, <1>2, <1>6, <1>7, Untouched DEF Elsewhere, SameSlot
<1>9. \A x \in Slots : SlotInv(x)' /\ HomeInv(x)'
  BY <1>8, ElsewhereKept, RunnerAssumption
<1>10. QueueInv'
  BY <1>1, <1>6, Untouched DEF Sound, QueueInv
<1>11. ASSUME NEW q \in Requests PROVE AskInv(q)'
  <2>1. CASE q = r
    <3>1. ~Asks("asked", r)' /\ ~Asks("held", r)'
      BY <1>1, <1>2 DEF Asks
    <3>2. \A j \in Stages \ {"asked", "held", "sent"} : Asks(j, r)' => Asks(j, r)
      BY Untouched DEF Asks, Stages
    <3>3. AskMoves(r, k, "sent")
      BY <1>3, <1>4, <3>1, <3>2 DEF AskMoves, OneAnswer, AskInv, Stages
    <3> QED BY <1>3, <1>4, <2>1, <3>3, AskMoved DEF Stages
  <2>2. CASE q # r
    <3>1. Alloc(q, None) # c
      BY <2>2, Letters
    <3>2. SameAsk(q)
      BY <1>1, <1>2, <1>6, <3>1, Untouched, AskSame
    <3> QED BY <3>2, AskKept DEF Sound
  <2> QED BY <2>1, <2>2
<1> QED BY <1>9, <1>10, <1>11 DEF Sound

\* ... and without.
LEMMA AllocHeld ==
    ASSUME TypeOK, Sound, NEW r \in Requests, TakesMem(Allocate(r)),
           pendMem' = <<Allocate(r)>>,
           UNCHANGED <<slot, schedQ, dev, answers, outputs, memRes, lost, session, deferred, pc>>
    PROVE  Sound'
<1> DEFINE m == Allocate(r)
<1>1. /\ Range(memReq)' = Range(memReq) \ {m} /\ Distinct(memReq)'
      /\ m \in Range(pendMem) \cup Range(memReq) /\ Range(pendMem) \subseteq {m}
  BY MemTaken, MemKinds
<1>2. Range(pendMem)' = {m}
  BY Singly
<1>3. PICK k \in {"asked", "held"} : Asks(k, r)
  BY <1>1, MemOf, MemKinds
<1>4. \A x \in Slots : Dealloc(x) # m
  BY MemKinds
<1>5. Elsewhere(None)
  BY <1>1, <1>2, <1>4, Untouched DEF Elsewhere, SameSlot
<1>6. \A x \in Slots : SlotInv(x)' /\ HomeInv(x)'
  BY <1>5, ElsewhereKept, RunnerAssumption
<1>7. QueueInv'
  BY <1>1, Untouched DEF Sound, QueueInv
<1>8. ASSUME NEW q \in Requests PROVE AskInv(q)'
  <2>0. AskInv(q)
    BY DEF Sound
  <2>1. CASE q = r
    <3>1. ~Asks("asked", r)'
      BY <1>1 DEF Asks
    <3>2. \A j \in Stages \ {"asked", "held"} : Asks(j, r)' => Asks(j, r)
      BY Untouched DEF Asks, Stages
    <3>3. AskMoves(r, k, "held")
      BY <1>3, <2>0, <2>1, <3>1, <3>2 DEF AskMoves, OneAnswer, AskInv, Stages
    <3> QED BY <1>3, <2>0, <2>1, <3>3, AskMoved DEF Stages
  <2>2. CASE q # r
    <3>1. Allocate(q) # m
      BY <2>2, MemKinds
    <3>2. SameAsk(q)
      BY <1>1, <1>2, <3>1, Untouched, AskSame
    <3> QED BY <2>0, <3>2, AskKept
  <2> QED BY <2>1, <2>2
<1> QED BY <1>6, <1>7, <1>8 DEF Sound

\* A request to give s back has been taken: what it was, and what it leaves.
LEMMA DeallocTaken ==
    ASSUME TypeOK, Sound, NEW s \in Slots, TakesMem(Dealloc(s)),
           pendMem' = <<>> \/ pendMem' = <<Dealloc(s)>>
    PROVE  /\ Range(memReq)' = Range(memReq) \ {Dealloc(s)} /\ Distinct(memReq)'
           /\ pendMem' = <<>> => Range(pendMem)' = {}
           /\ pendMem' # <<>> => Range(pendMem)' = {Dealloc(s)}
           /\ \A r : Allocate(r) \in Range(memReq)' => Allocate(r) \in Range(memReq)
           /\ \A r : Allocate(r) \notin Range(pendMem)'
           /\ \A x \in Slots \ {s} :
                 /\ Dealloc(x) \in Range(pendMem)' <=> Dealloc(x) \in Range(pendMem)
                 /\ Dealloc(x) \in Range(memReq)' <=> Dealloc(x) \in Range(memReq)
           /\ \E k \in {"asked", "held"} : At(k, s)
           /\ slot[s].st \in Usable /\ dev[s] # "free" /\ s \notin lost /\ ~slot[s].evict
           /\ \A j \in Places \ {"asked", "held"} : ~At(j, s)
<1>1. /\ Range(memReq)' = Range(memReq) \ {Dealloc(s)} /\ Distinct(memReq)'
      /\ Dealloc(s) \in Range(pendMem) \cup Range(memReq) /\ Range(pendMem) \subseteq {Dealloc(s)}
  BY MemTaken, MemKinds
<1>2. (\A r : Allocate(r) # Dealloc(s)) /\ \A x \in Slots \ {s} : Dealloc(x) # Dealloc(s)
  BY MemKinds
<1>3. (pendMem' = <<>> => Range(pendMem)' = {})
      /\ (pendMem' # <<>> => Range(pendMem)' = {Dealloc(s)})
  <2>1. <<Dealloc(s)>> # <<>> /\ Range(<<Dealloc(s)>>) = {Dealloc(s)} /\ Range(<<>>) = {}
    BY Singly, Nothing
  <2> QED BY <2>1
<1>4. PICK k \in {"asked", "held"} : At(k, s)
  BY <1>1, MemOf, MemKinds
<1>5. HomeInv(s)
  BY DEF Sound
<1>6. /\ slot[s].st \in Usable /\ dev[s] # "free" /\ s \notin lost
      /\ \A j \in Places \ {"asked", "held"} : ~At(j, s)
  BY <1>4, <1>5 DEF HomeInv, Somewhere, Places
<1>7. ~slot[s].evict
  BY <1>6 DEF At, Places
<1> QED BY <1>1, <1>2, <1>3, <1>4, <1>6, <1>7

\* handleEvictRequest, with room ...
LEMMA EvictSent ==
    ASSUME TypeOK, Sound, NEW s \in Slots, TakesMem(Dealloc(s)),
           slot[s].st \in {"IDLE", "RUNNING"}, slot' = [slot EXCEPT ![s] = Evicting],
           schedQ' = Append(schedQ, EvictIt(s)), pendMem' = <<>>,
           \A x \in Slots : x \in lost' <=> x \in lost,
           UNCHANGED <<dev, answers, outputs, memRes, session, deferred, pc>>
    PROVE  Sound'
<1>1. slot'[s] = Evicting /\ \A x \in Slots \ {s} : slot'[x] = slot[x]
  BY DEF TypeOK, RunnerTypeOK
<1>2. /\ AcksOf(s) = {}
      /\ \/ CmdsOf(s) = {} /\ dev[s] # "free"
         \/ (\E t \in Requests : CmdsOf(s) = {Submit(t, s)}) /\ dev[s] = "held" /\ s \notin outputs
  <2>1. CASE slot[s].st = "RUNNING"
    BY <2>1, RunsARequest DEF Sound, CoherentRunning
  <2>2. CASE slot[s].st = "IDLE"
    BY <2>2, ContextKinds
       DEF Sound, SlotInv, Coherent, CoherentRunning, CoherentStopping, CoherentEvicting
  <2> QED BY <2>1, <2>2
<1>3. EvictIt(s) \notin Range(schedQ) /\ \A d \in CmdsOf(s) : d.type = "SUBMIT"
  BY <1>2, Letters DEF CmdsOf
<1>4. /\ CmdsOf(s)' = CmdsOf(s) \cup {EvictIt(s)}
      /\ \A x \in Slots \ {s} : CmdsOf(x)' = CmdsOf(x)
      /\ Range(schedQ)' = Range(schedQ) \cup {EvictIt(s)}
      /\ Distinct(schedQ)' /\ Ordered(schedQ, {"SUBMIT"}, {"STOP", "EVICT"})'
  BY <1>3, Letters, InCmds, PushCmd DEF Sound
<1>5. SlotInv(s)'
  <2>1. CoherentEvicting(s, slot'[s], dev'[s], s \in outputs', CmdsOf(s)', AcksOf(s)')
    BY <1>1, <1>2, <1>4, Untouched DEF CoherentEvicting
  <2> QED BY <2>1 DEF SlotInv, Coherent
<1>6. Elsewhere(s)
  BY <1>1, <1>4, DeallocTaken, Untouched DEF Elsewhere, SameSlot
<1>7. HomeInv(s)'
  <2>1. PICK k \in {"asked", "held"} : At(k, s)
    BY DeallocTaken
  <2>2. ~At("asked", s)' /\ ~At("held", s)' /\ At("leaving", s)' /\ ~At("flag", s)'
    BY <1>1, <1>4, DeallocTaken, ContextKinds DEF At
  <2>3. \A j \in Places \ {"asked", "held", "leaving", "flag"} : At(j, s)' => At(j, s)
    BY Untouched DEF At, Places
  <2>4. PlaceMoves(s, k, "leaving")
    BY <1>1, <2>1, <2>2, <2>3, DeallocTaken, Untouched, ContextKinds
       DEF PlaceMoves, HomeInv, Sound, Places
  <2> QED BY <2>1, <2>4, PlaceMoved DEF Places, Sound
<1>8. ASSUME NEW q \in Requests PROVE AskInv(q)'
  <2>1. Alloc(q, None) # EvictIt(s)
    BY Letters
  <2>2. SameAsk(q)
    BY <1>4, <2>1, DeallocTaken, Untouched, AskSame
  <2> QED BY <2>2, AskKept DEF Sound
<1>9. QueueInv'
  BY <1>4, DeallocTaken, Untouched DEF Sound, QueueInv
<1> QED BY <1>5, <1>6, <1>7, <1>8, <1>9, ElsewhereKept DEF Sound

\* ... and without: it is held back.
LEMMA EvictHeld ==
    ASSUME TypeOK, Sound, NEW s \in Slots, TakesMem(Dealloc(s)), pendMem' = <<Dealloc(s)>>,
           UNCHANGED <<slot, schedQ, dev, answers, outputs, memRes, lost, session, deferred, pc>>
    PROVE  Sound'
<1>1. SlotInv(s)'
  BY Untouched, SlotKept DEF Sound, SameSlot
<1>2. Elsewhere(s)
  BY DeallocTaken, Untouched DEF Elsewhere, SameSlot
<1>3. HomeInv(s)'
  <2>1. PICK k \in {"asked", "held"} : At(k, s)
    BY DeallocTaken
  <2>2. ~At("asked", s)' /\ At("held", s)'
    BY DeallocTaken, Singly DEF At
  <2>3. \A j \in Places \ {"asked", "held"} : At(j, s)' => At(j, s)
    BY Untouched DEF At, Places
  <2>4. PlaceMoves(s, k, "held")
    BY <2>1, <2>2, <2>3, DeallocTaken, Untouched DEF PlaceMoves, HomeInv, Sound, Places
  <2> QED BY <2>1, <2>4, PlaceMoved DEF Places, Sound
<1>4. ASSUME NEW q \in Requests PROVE AskInv(q)'
  <2>1. SameAsk(q)
    BY DeallocTaken, Untouched, AskSame
  <2> QED BY <2>1, AskKept DEF Sound
<1>5. QueueInv'
  BY DeallocTaken, Untouched DEF Sound, QueueInv
<1> QED BY <1>1, <1>2, <1>3, <1>4, <1>5, ElsewhereKept DEF Sound

\* handleEvictRequest on a slot that is stopping: the eviction waits there.
LEMMA EvictWaits ==
    ASSUME TypeOK, Sound, NEW s \in Slots, TakesMem(Dealloc(s)), pendMem' = <<>>,
           slot[s].st = "STOPPING",
           slot' = [slot EXCEPT ![s].evict = TRUE, ![s].cont = None],
           UNCHANGED <<schedQ, dev, answers, outputs, memRes, lost, session, deferred, pc>>
    PROVE  Sound'
<1>1. /\ slot'[s].st = "STOPPING" /\ slot'[s].ack = slot[s].ack /\ slot'[s].task = slot[s].task
      /\ slot'[s].evict /\ \A x \in Slots \ {s} : slot'[x] = slot[x]
  <2>1. slot'[s] = [slot[s] EXCEPT !.evict = TRUE, !.cont = None] /\ slot[s] \in Contexts
    BY DEF TypeOK, RunnerTypeOK, Contexts
  <2> QED BY <2>1 DEF TypeOK, RunnerTypeOK, Contexts
<1>2. CoherentStopping(s, slot[s], dev[s], s \in outputs, CmdsOf(s), AcksOf(s))
  BY ContextKinds DEF Sound, SlotInv, Coherent, CoherentRunning, CoherentEvicting
<1>3. CoherentStopping(s, slot'[s], dev'[s], s \in outputs', CmdsOf(s)', AcksOf(s)')
  BY <1>1, <1>2, Untouched DEF CoherentStopping
<1>4. SlotInv(s)'
  BY <1>3 DEF SlotInv, Coherent
<1>5. Elsewhere(s)
  BY <1>1, DeallocTaken, Untouched DEF Elsewhere, SameSlot
<1>6. HomeInv(s)'
  <2>1. PICK k \in {"asked", "held"} : At(k, s)
    BY DeallocTaken
  <2>2. ~At("asked", s)' /\ ~At("held", s)' /\ At("flag", s)'
    BY <1>1, DeallocTaken DEF At
  <2>3. \A j \in Places \ {"asked", "held", "flag"} : At(j, s)' => At(j, s)
    BY Untouched DEF At, Places
  <2>4. PlaceMoves(s, k, "flag")
    BY <1>1, <2>1, <2>2, <2>3, DeallocTaken, Untouched
       DEF PlaceMoves, HomeInv, Sound, Places, Usable
  <2> QED BY <2>1, <2>4, PlaceMoved DEF Places, Sound
<1>7. ASSUME NEW q \in Requests PROVE AskInv(q)'
  <2>1. SameAsk(q)
    BY DeallocTaken, Untouched, AskSame
  <2> QED BY <2>1, AskKept DEF Sound
<1>8. QueueInv'
  BY DeallocTaken, Untouched DEF Sound, QueueInv
<1> QED BY <1>4, <1>5, <1>6, <1>7, <1>8, ElsewhereKept DEF Sound

-----------------------------------------------------------------------------
(* The actions of the worker and the scheduler.                            *)

Legally == \A s \in Slots : slot'[s].st # slot[s].st => slot'[s].st \in Legal[slot[s].st]

LEMMA LegalTable ==
    /\ Legal["FREE"] = {"IDLE"} /\ Legal["IDLE"] = {"RUNNING", "EVICTING"}
    /\ Legal["RUNNING"] = {"IDLE", "STOPPING", "EVICTING"}
    /\ Legal["STOPPING"] = {"IDLE", "EVICTING", "RUNNING"} /\ Legal["EVICTING"] = {"FREE"}
  BY DEF Legal

\* A step that sets one slot.
LEMMA LegalStep ==
    ASSUME TypeOK, NEW s \in Slots, NEW c, slot' = [slot EXCEPT ![s] = c],
           c.st = slot[s].st \/ c.st \in Legal[slot[s].st]
    PROVE  Legally
<1>1. slot'[s] = c /\ \A x \in Slots \ {s} : slot'[x] = slot[x]
  BY DEF TypeOK, RunnerTypeOK
<1> QED BY <1>1 DEF Legally

Aside == UNCHANGED <<session, deferred, pc>>

\* What handleEvictRequest throws away to hold its own request back.
LEMMA HeldLost ==
    ASSUME TypeOK,
           lost' = lost \cup (IF pendMem = <<>> THEN {}
                              ELSE {pendMem[1].task, pendMem[1].slot} \ {"dealloc", None})
    PROVE  \A x \in Slots : x \in lost' <=> x \in lost \/ Dealloc(x) \in Range(pendMem)
<1>1. pendMem \in Seq(Mem) /\ Len(pendMem) <= 1
  BY DEF TypeOK, RunnerTypeOK
<1>2. CASE pendMem = <<>>
  BY <1>1, <1>2, OnePlace
<1>3. CASE pendMem # <<>>
  <2>1. pendMem[1] \in Mem /\ Range(pendMem) = {pendMem[1]}
    BY <1>1, <1>3, OnePlace
  <2>2. CASE \E r \in Requests : pendMem[1] = Allocate(r)
    <3>1. PICK r \in Requests : pendMem[1] = Allocate(r)
      BY <2>2
    <3>2. pendMem[1].task = r /\ pendMem[1].slot = None /\ \A x : Dealloc(x) # Allocate(r)
      BY <3>1, MemKinds
    <3> QED BY <1>3, <2>1, <3>1, <3>2, RunnerAssumption
  <2>3. CASE \E y \in Slots : pendMem[1] = Dealloc(y)
    <3>1. PICK y \in Slots : pendMem[1] = Dealloc(y)
      BY <2>3
    <3>2. /\ pendMem[1].task = "dealloc" /\ pendMem[1].slot = y
          /\ \A x : Dealloc(x) = Dealloc(y) => x = y
      BY <3>1, MemKinds
    <3> QED BY <1>3, <2>1, <3>1, <3>2, RunnerAssumption
  <2> QED BY <2>1, <2>2, <2>3 DEF Mem
<1> QED BY <1>2, <1>3

LEMMA AnswerSound ==
    ASSUME TypeOK, Sound, HandleAnswer, Aside
    PROVE  Sound' /\ Legally
<1> DEFINE a == Head(answers)
<1>1. /\ answers # <<>> /\ answers' = Tail(answers)
      /\ UNCHANGED <<pendCancel, phase, memReq, taskQ, cancelQ, dev, outputs>>
      /\ IF Expected(a)
         THEN \/ a.type = "ALLOCATE" /\ AllocAck(a)
              \/ a.type = "EVICT" /\ EvictAck(a)
              \/ a.type = "STOP" /\ StopAck(a)
         ELSE UNCHANGED <<slotVars, memRes, tokens, schedQ, lost>>
      /\ UNCHANGED <<session, deferred, pc>>
  BY DEF HandleAnswer, Aside
<1>2. a \in Acks
  BY <1>1, PopAck DEF Sound
<1> HIDE DEF a
<1>3. CASE \E r \in Requests, x \in Slots \cup {None} : a = Alloc(r, x)
  <2>1. PICK r \in Requests, x \in Slots \cup {None} : a = Alloc(r, x)
    BY <1>3
  <2>2. a.type = "ALLOCATE" /\ a.id = r /\ a.slot = x
    BY <2>1, Letters
  <2>3. /\ memRes' = memRes \cup {[task |-> r, slot |-> x]}
        /\ slot' = IF x = None THEN slot ELSE [slot EXCEPT ![x].st = "IDLE"]
        /\ UNCHANGED <<pendTask, pendMem, tokens, schedQ, lost>>
    BY <1>1, <2>2 DEF Expected, AllocAck
  <2>4. CASE x = None
    <3>1. Sound'
      BY <1>1, <2>1, <2>3, <2>4, GotNone DEF a
    <3> QED BY <2>3, <2>4, <3>1 DEF Legally
  <2>5. CASE x # None
    <3>1. slot' = [slot EXCEPT ![x].st = "IDLE"] /\ x \in Slots
      BY <2>3, <2>5
    <3>2. Sound' /\ slot[x] = Free
      BY <1>1, <2>1, <2>3, <3>1, GotSlot DEF a
    <3>3. slot' = [slot EXCEPT ![x] = Idle]
      BY <3>1, <3>2, ContextKinds
    <3> QED BY <3>1, <3>2, <3>3, LegalStep, LegalTable, ContextKinds
  <2> QED BY <2>4, <2>5
<1>4. CASE \E s \in Slots : a = EvictIt(s)
  <2>1. PICK s \in Slots : a = EvictIt(s)
    BY <1>4
  <2>2. a.type = "EVICT" /\ a.id = "dealloc" /\ a.slot = s
    BY <2>1, Letters
  <2>3. slot[s] = Evicting
    BY <1>1, <2>1, EvictMet DEF a
  <2>4. slot' = [slot EXCEPT ![s] = Free] /\ UNCHANGED <<pendTask, pendMem, memRes, tokens, schedQ, lost>>
    BY <1>1, <2>2, <2>3, ContextKinds DEF Expected, EvictAck
  <2>5. Sound'
    BY <1>1, <2>1, <2>4, GivenBack DEF a
  <2> QED BY <2>3, <2>4, <2>5, LegalStep, LegalTable, ContextKinds
<1>5. CASE \E t \in Requests, s \in Slots : a = StopIt(t, s)
  <2>1. PICK t \in Requests, s \in Slots : a = StopIt(t, s)
    BY <1>5
  <2>2. a.type = "STOP" /\ a.id = t /\ a.slot = s
    BY <2>1, Letters
  <2>3. slot[s].st = "STOPPING" /\ slot[s].ack = t
    BY <1>1, <2>1, StopMet DEF a
  <2>4. StopAck(a)
    BY <1>1, <2>2, <2>3 DEF Expected
  <2> DEFINE u == slot[s].cont
  <2>5. slot[s] \in Contexts /\ u \in Requests \cup {None} /\ pendTask \in Seq(Work)
    BY DEF TypeOK, RunnerTypeOK, Contexts
  <2>6. CASE slot[s].evict /\ Evict(s, Idle, pendMem, {u} \ {None}) /\ memRes' = memRes
    <3>1. CASE Room
      <4>1. /\ slot' = [slot EXCEPT ![s] = Evicting] /\ schedQ' = Append(schedQ, EvictIt(s))
            /\ pendMem' = pendMem /\ lost' = lost \cup ({Idle.task} \ {None})
        BY <2>6, <3>1 DEF Evict, Push, EvictIt
      <4>2. lost' = lost
        BY <4>1, ContextKinds
      <4>3. Sound'
        BY <1>1, <2>1, <2>6, <4>1, <4>2, EvictsNow DEF a
      <4> QED BY <2>3, <4>1, <4>3, LegalStep, LegalTable, ContextKinds
    <3>2. CASE ~Room
      <4>1. /\ slot' = [slot EXCEPT ![s] = Idle] /\ schedQ' = schedQ /\ pendMem' = <<Dealloc(s)>>
            /\ lost' = lost \cup (IF pendMem = <<>> THEN {}
                                  ELSE {pendMem[1].task, pendMem[1].slot} \ {"dealloc", None})
        BY <2>6, <3>2 DEF Evict
      <4>2. \A x \in Slots : x \in lost' <=> x \in lost \/ Dealloc(x) \in Range(pendMem)
        BY <4>1, HeldLost
      <4>3. Sound'
        BY <1>1, <2>1, <2>6, <4>1, <4>2, HoldsBack DEF a
      <4> QED BY <2>3, <4>1, <4>3, LegalStep, LegalTable, ContextKinds
    <3> QED BY <3>1, <3>2
  <2>7. CASE /\ ~slot[s].evict /\ {u} \ {None} # {} /\ Run(s, u, pendTask)
             /\ UNCHANGED <<pendMem, memRes, tokens>>
    <3>0. u \in Requests
      BY <2>5, <2>7
    <3>1. CASE Room
      <4>1. /\ schedQ' = Append(schedQ, Submit(u, s)) /\ slot' = [slot EXCEPT ![s] = Running(u)]
            /\ lost' = lost
        BY <2>7, <3>1 DEF Run, Push, Submit
      <4>2. Sound'
        BY <1>1, <2>1, <2>7, <3>0, <4>1, Continues DEF a
      <4> QED BY <2>3, <4>1, <4>2, LegalStep, LegalTable, ContextKinds
    <3>2. CASE ~Room
      <4>1. /\ schedQ' = schedQ /\ slot' = [slot EXCEPT ![s] = Idle]
            /\ lost' = lost \cup Tasks(pendTask)
        BY <2>7, <3>2 DEF Run
      <4>2. \A x \in Slots : x \in lost' <=> x \in lost
        BY <2>5, <4>1, TasksType, RunnerAssumption
      <4>3. Sound'
        BY <1>1, <2>1, <2>7, <4>1, <4>2, Rests DEF a
      <4> QED BY <2>3, <4>1, <4>3, LegalStep, LegalTable, ContextKinds
    <3> QED BY <3>1, <3>2
  <2>8. CASE /\ ~slot[s].evict /\ slot' = [slot EXCEPT ![s] = Idle]
             /\ UNCHANGED <<pendTask, pendMem, memRes, tokens, schedQ, lost>>
    <3>1. Sound'
      BY <1>1, <2>1, <2>8, Rests DEF a
    <3> QED BY <2>3, <2>8, <3>1, LegalStep, LegalTable, ContextKinds
  <2> QED BY <2>2, <2>4, <2>6, <2>7, <2>8 DEF StopAck
<1> QED BY <1>2, <1>3, <1>4, <1>5 DEF Acks

LEMMA OutputSound ==
    ASSUME TypeOK, Sound, Aside, NEW s \in Slots, HandleOutput(s)
    PROVE  Sound' /\ Legally
<1>1. /\ s \in outputs /\ outputs' = outputs \ {s}
      /\ slot' = (IF slot[s].st = "RUNNING" THEN [slot EXCEPT ![s] = Idle] ELSE slot)
      /\ UNCHANGED <<schedQ, dev, answers, memRes, pendMem, memReq, lost>>
  BY DEF HandleOutput, Hears
<1>2. Sound'
  BY <1>1, Hears1 DEF Aside
<1>3. Legally
  <2>1. CASE slot[s].st = "RUNNING"
    BY <1>1, <2>1, LegalStep, LegalTable, ContextKinds
  <2>2. CASE slot[s].st # "RUNNING"
    BY <1>1, <2>2 DEF Legally
  <2> QED BY <2>1, <2>2
<1> QED BY <1>2, <1>3

LEMMA DrainSound ==
    ASSUME Sound, Aside, Drained \/ Stopped
    PROVE  Sound' /\ Legally
<1>1. UNCHANGED <<slot, schedQ, dev, answers, outputs, memRes, pendMem, memReq, lost>>
  BY DEF Drained, Stopped, slotVars, queueVars, devVars
<1> QED BY <1>1, Idles DEF Aside, Legally

LEMMA SchedSound ==
    ASSUME TypeOK, Sound, Aside, SchedTake \/ \E s \in Slots : Emit(s)
    PROVE  Sound' /\ Legally /\ RunnerTypeOK'
<1>1. CASE \E s \in Slots : Emit(s)
  <2>1. PICK s \in Slots : Emit(s)
    BY <1>1
  <2>2. /\ dev[s] = "busy" /\ dev' = [dev EXCEPT ![s] = "held"] /\ outputs' = outputs \cup {s}
        /\ UNCHANGED <<slotVars, phase, queueVars, schedQ, answers, lost>>
    BY <2>1 DEF Emit
  <2>3. Sound'
    BY <2>2, Emits DEF Aside, slotVars, queueVars
  <2>4. RunnerTypeOK'
    BY <2>2 DEF TypeOK, RunnerTypeOK, slotVars, queueVars
  <2> QED BY <2>2, <2>3, <2>4 DEF Legally, slotVars
<1>2. CASE SchedTake
  <2> DEFINE c == Head(schedQ)
             available == {s \in Slots : dev[s] = "free"}
  <2>1. /\ schedQ # <<>> /\ schedQ' = Tail(schedQ)
        /\ UNCHANGED <<slot, outputs, memRes, pendMem, memReq, lost, session, deferred, pc>>
        /\ UNCHANGED <<pendTask, pendCancel, phase, taskQ, cancelQ, tokens>>
        /\ \/ c.type = "ALLOCATE" /\ answers' = Append(answers, c) /\ UNCHANGED dev
           \/ /\ c.type = "ALLOCATE"
              /\ \E s \in Slots : /\ dev[s] = "free" /\ answers' = Append(answers, [c EXCEPT !.slot = s])
                                  /\ dev' = [dev EXCEPT ![s] = "held"]
           \/ c.type = "SUBMIT" /\ dev' = [dev EXCEPT ![c.slot] = "busy"] /\ UNCHANGED answers
           \/ /\ c.type \in {"STOP", "EVICT"} /\ c.slot \notin outputs
              /\ dev' = [dev EXCEPT ![c.slot] = IF c.type = "STOP" THEN "held" ELSE "free"]
              /\ answers' = Append(answers, c)
    BY <1>2 DEF SchedTake, Aside, slotVars, queueVars
  <2>2. c \in Cmds /\ schedQ' \in Seq(Cmds)
    BY <2>1, PopCmd DEF Sound
  <2> HIDE DEF c
  <2>3. SUFFICES Sound' /\ answers' \in Seq(Acks) /\ dev' \in [Slots -> {"free", "held", "busy"}]
    BY <2>1, <2>2 DEF TypeOK, RunnerTypeOK, Legally
  <2>4. answers \in Seq(Acks) /\ dev \in [Slots -> {"free", "held", "busy"}]
    BY DEF TypeOK, RunnerTypeOK
  <2>5. CASE \E r \in Requests : c = Alloc(r, None)
    <3>1. PICK r \in Requests : c = Alloc(r, None)
      BY <2>5
    <3>2. c.type = "ALLOCATE" /\ \A s : [c EXCEPT !.slot = s] = Alloc(r, s)
      BY <3>1 DEF Alloc, Command
    <3>3. CASE answers' = Append(answers, c) /\ UNCHANGED dev
      <4>1. Sound'
        BY <2>1, <3>1, <3>3, NoneLeft DEF c
      <4> QED BY <2>4, <3>1, <3>3, <4>1, InCmds, PushAck
    <3>4. CASE \E s \in Slots : /\ dev[s] = "free" /\ answers' = Append(answers, Alloc(r, s))
                                /\ dev' = [dev EXCEPT ![s] = "held"]
      <4>1. PICK s \in Slots : /\ dev[s] = "free" /\ answers' = Append(answers, Alloc(r, s))
                               /\ dev' = [dev EXCEPT ![s] = "held"]
        BY <3>4
      <4>2. Sound'
        BY <2>1, <3>1, <4>1, Gives DEF c
      <4> QED BY <2>4, <4>1, <4>2, InCmds, PushAck
    <3> QED BY <2>1, <3>2, <3>3, <3>4
  <2>6. CASE \E t \in Requests, s \in Slots : c = Submit(t, s)
    <3>1. PICK t \in Requests, s \in Slots : c = Submit(t, s)
      BY <2>6
    <3>2. c.type = "SUBMIT" /\ c.slot = s
      BY <3>1, Letters
    <3>3. dev' = [dev EXCEPT ![s] = "busy"] /\ UNCHANGED answers
      BY <2>1, <3>2
    <3>4. Sound'
      BY <2>1, <3>1, <3>3, TakesSubmit DEF c
    <3> QED BY <2>4, <3>3, <3>4
  <2>7. CASE \E t \in Requests, s \in Slots : c = StopIt(t, s)
    <3>1. PICK t \in Requests, s \in Slots : c = StopIt(t, s)
      BY <2>7
    <3>2. c.type = "STOP" /\ c.slot = s
      BY <3>1, Letters
    <3>3. s \notin outputs /\ dev' = [dev EXCEPT ![s] = "held"] /\ answers' = Append(answers, c)
      BY <2>1, <3>2
    <3>4. Sound'
      BY <2>1, <3>1, <3>3, AnswersStop DEF c
    <3> QED BY <2>4, <3>1, <3>3, <3>4, InCmds, PushAck
  <2>8. CASE \E s \in Slots : c = EvictIt(s)
    <3>1. PICK s \in Slots : c = EvictIt(s)
      BY <2>8
    <3>2. c.type = "EVICT" /\ c.slot = s
      BY <3>1, Letters
    <3>3. s \notin outputs /\ dev' = [dev EXCEPT ![s] = "free"] /\ answers' = Append(answers, c)
      BY <2>1, <3>2
    <3>4. Sound'
      BY <2>1, <3>1, <3>3, AnswersEvict DEF c
    <3> QED BY <2>4, <3>1, <3>3, <3>4, InCmds, PushAck
  <2> QED BY <2>2, <2>5, <2>6, <2>7, <2>8 DEF Cmds
<1> QED BY <1>1, <1>2

LEMMA MemorySound ==
    ASSUME TypeOK, Sound, HandleMemory, Aside
    PROVE  Sound' /\ Legally
<1> DEFINE queue == pendMem \o memReq
           m == Head(queue)
<1>1. /\ memReq' = (IF pendMem = <<>> /\ memReq # <<>> THEN Tail(memReq) ELSE memReq)
      /\ UNCHANGED <<pendCancel, memRes, taskQ, cancelQ, dev, answers, outputs>>
      /\ \/ queue = <<>> /\ UNCHANGED <<slot, pendTask, pendMem, tokens, schedQ, lost>>
         \/ queue # <<>> /\ m.action = "ALLOCATE" /\ HandleAllocate(m)
         \/ queue # <<>> /\ m.action = "DEALLOCATE" /\ HandleEvict(m)
      /\ UNCHANGED <<session, deferred, pc>>
  BY DEF HandleMemory, MemoryWaiting, Aside
<1>2. pendMem \in Seq(Mem) /\ Len(pendMem) <= 1 /\ memReq \in Seq(Mem)
  BY DEF TypeOK, RunnerTypeOK
<1>3. queue = <<>> <=> pendMem = <<>> /\ memReq = <<>>
  BY <1>2, FirstOf
<1>4. queue # <<>> => m \in Mem /\ TakesMem(m)
  <2>1. pendMem # <<>> => m = pendMem[1] /\ pendMem = <<m>>
    BY <1>2, FirstOf, OnePlace
  <2>2. pendMem = <<>> => m = Head(memReq)
    BY <1>2, FirstOf
  <2>3. queue # <<>> => m \in Mem
    BY <1>2, FirstOf
  <2> HIDE DEF m, queue
  <2> QED BY <1>1, <1>3, <2>1, <2>2, <2>3 DEF TakesMem
<1> HIDE DEF m, queue
<1>5. CASE queue = <<>> /\ UNCHANGED <<slot, pendTask, pendMem, tokens, schedQ, lost>>
  <2>1. memReq' = memReq
    BY <1>1, <1>3, <1>5
  <2> QED BY <1>1, <1>5, <2>1, Idles DEF Legally
<1>6. CASE queue # <<>> /\ m.action = "ALLOCATE" /\ HandleAllocate(m)
  <2>1. m.task \in Requests /\ m = Allocate(m.task)
    BY <1>4, <1>6, MemKinds
  <2> DEFINE r == m.task
  <2>2. /\ UNCHANGED <<slot, pendTask, tokens, lost>>
        /\ \/ schedQ' = Append(schedQ, Alloc(r, None)) /\ pendMem' = <<>>
           \/ pendMem' = <<m>> /\ schedQ' = schedQ
    BY <1>6 DEF HandleAllocate, Push, Alloc
  <2>3. r \in Requests /\ m = Allocate(r) /\ TakesMem(Allocate(r))
    BY <1>4, <1>6, <2>1
  <2> HIDE DEF r
  <2>4. CASE schedQ' = Append(schedQ, Alloc(r, None)) /\ pendMem' = <<>>
    BY <1>1, <2>2, <2>3, <2>4, AllocSent DEF Legally
  <2>5. CASE pendMem' = <<m>> /\ schedQ' = schedQ
    BY <1>1, <2>2, <2>3, <2>5, AllocHeld DEF Legally
  <2> QED BY <2>2, <2>4, <2>5
<1>7. CASE queue # <<>> /\ m.action = "DEALLOCATE" /\ HandleEvict(m)
  <2> DEFINE s == m.slot
  <2>1. s \in Slots /\ m = Dealloc(s) /\ TakesMem(Dealloc(s))
    BY <1>4, <1>7, MemKinds
  <2>2. slot \in [Slots -> Contexts] /\ slot[s] \in Contexts
    BY <2>1 DEF TypeOK, RunnerTypeOK
  <2>3. \/ slot[s].st \in {"EVICTING", "FREE"} /\ pendMem' = <<>>
        \/ slot[s].st \in {"IDLE", "RUNNING"} /\ Evict(s, slot[s], <<>>, {})
        \/ /\ slot[s].st = "STOPPING"
           /\ slot' = [slot EXCEPT ![s].evict = TRUE, ![s].cont = None]
           /\ pendMem' = <<>> /\ UNCHANGED <<schedQ, lost>>
    BY <1>7 DEF HandleEvict
  <2> HIDE DEF s
  <2>4. CASE slot[s].st \in {"EVICTING", "FREE"} /\ pendMem' = <<>>
    BY <2>1, <2>4, DeallocTaken DEF Usable
  <2>5. CASE slot[s].st \in {"IDLE", "RUNNING"} /\ Evict(s, slot[s], <<>>, {})
    <3>1. CASE Room
      <4>1. /\ schedQ' = Append(schedQ, EvictIt(s)) /\ slot' = [slot EXCEPT ![s] = Evicting]
            /\ pendMem' = <<>> /\ lost' = lost \cup ({slot[s].task} \ {None})
        BY <2>5, <3>1 DEF Evict, Push, EvictIt
      <4>2. \A x \in Slots : x \in lost' <=> x \in lost
        BY <2>2, <4>1, RunnerAssumption DEF Contexts
      <4>3. Sound'
        BY <1>1, <2>1, <2>5, <4>1, <4>2, EvictSent
      <4> QED BY <2>1, <2>5, <4>1, <4>3, LegalStep, LegalTable, ContextKinds
    <3>2. CASE ~Room
      <4>1. /\ slot' = [slot EXCEPT ![s] = slot[s]] /\ schedQ' = schedQ
            /\ pendMem' = <<Dealloc(s)>> /\ lost' = lost \cup {}
        BY <2>5, <3>2 DEF Evict
      <4>2. slot' = slot /\ lost' = lost
        BY <2>2, <4>1
      <4>3. Sound'
        BY <1>1, <2>1, <4>1, <4>2, EvictHeld
      <4> QED BY <4>2, <4>3 DEF Legally
    <3> QED BY <3>1, <3>2
  <2>6. CASE /\ slot[s].st = "STOPPING"
             /\ slot' = [slot EXCEPT ![s].evict = TRUE, ![s].cont = None]
             /\ pendMem' = <<>> /\ UNCHANGED <<schedQ, lost>>
    <3>1. Sound'
      BY <1>1, <2>1, <2>6, EvictWaits
    <3>2. slot' = [slot EXCEPT ![s] = [slot[s] EXCEPT !.evict = TRUE, !.cont = None]]
          /\ [slot[s] EXCEPT !.evict = TRUE, !.cont = None].st = slot[s].st
      BY <2>1, <2>2, <2>6 DEF Contexts
    <3> QED BY <2>1, <3>1, <3>2, LegalStep
  <2> QED BY <2>3, <2>4, <2>5, <2>6
<1> QED BY <1>1, <1>5, <1>6, <1>7

LEMMA StopSound ==
    ASSUME TypeOK, Sound, HandleStop, Aside
    PROVE  Sound' /\ Legally
<1>1. /\ UNCHANGED <<pendMem, memReq, memRes, dev, answers, outputs, lost>>
      /\ UNCHANGED <<session, deferred, pc>>
      /\ \E t, held : Stop(t, held)
  BY DEF HandleStop, Aside
<1>2. PICK t, held : Stop(t, held)
  BY <1>1
<1>3. CASE UNCHANGED <<slot, schedQ>>
  BY <1>1, <1>3, Idles DEF Legally
<1>4. CASE \E s \in Slots :
             /\ schedQ' = Append(schedQ, StopIt(t, s))
             /\ slot[s].st = "RUNNING" /\ slot[s].task = t
             /\ slot' = [slot EXCEPT ![s].st = "STOPPING", ![s].ack = t]
  <2>1. PICK s \in Slots :
             /\ schedQ' = Append(schedQ, StopIt(t, s))
             /\ slot[s].st = "RUNNING" /\ slot[s].task = t
             /\ slot' = [slot EXCEPT ![s].st = "STOPPING", ![s].ack = t]
    BY <1>4
  <2>2. Sound'
    BY <1>1, <2>1, Stops
  <2>3. slot[s] \in Contexts /\ slot \in [Slots -> Contexts]
    BY DEF TypeOK, RunnerTypeOK
  <2>4. slot' = [slot EXCEPT ![s] = [slot[s] EXCEPT !.st = "STOPPING", !.ack = t]]
        /\ [slot[s] EXCEPT !.st = "STOPPING", !.ack = t].st = "STOPPING"
    BY <2>1, <2>3 DEF Contexts
  <2>5. "STOPPING" \in Legal[slot[s].st]
    BY <2>1, LegalTable
  <2>6. Legally
    BY <2>4, <2>5, LegalStep
  <2> QED BY <2>2, <2>6
<1> QED BY <1>2, <1>3, <1>4 DEF Stop, Push, StopIt

LEMMA RequestSound ==
    ASSUME TypeOK, Sound, HandleRequest, Aside
    PROVE  Sound' /\ Legally
<1> DEFINE queue == pendTask \o taskQ
           q == Head(queue)
           s == q.slot
           u == q.task
<1>1. /\ UNCHANGED <<pendMem, memReq, memRes, dev, answers, outputs>>
      /\ UNCHANGED <<session, deferred, pc>>
      /\ UNCHANGED <<slot, schedQ, lost>> \/ (queue # <<>> /\ Route(q))
  BY DEF HandleRequest, Aside
<1>2. queue # <<>> => s \in Slots /\ u \in Requests
  <2>1. pendTask \in Seq(Work) /\ Len(pendTask) <= 1 /\ taskQ \in Seq(Work)
    BY DEF TypeOK, RunnerTypeOK
  <2>2. queue # <<>> => q \in Work
    BY <2>1, FirstOf
  <2> HIDE DEF q, queue
  <2> QED BY <2>2 DEF Work
<1>3. Route(q) =>
        \/ slot[s].st = "IDLE" /\ Run(s, u, <<>>)
        \/ /\ slot[s].st = "STOPPING" /\ slot' = [slot EXCEPT ![s].cont = u]
           /\ lost' = lost \cup ({slot[s].cont} \ {None}) /\ UNCHANGED schedQ
        \/ lost' \in {lost, lost \cup {u}} /\ UNCHANGED <<slot, schedQ>>
  BY DEF Route
<1> HIDE DEF q, queue, s, u
<1>4. CASE UNCHANGED <<slot, schedQ, lost>>
  BY <1>1, <1>4, Idles DEF Legally
<1>5. CASE queue # <<>> /\ Route(q)
  <2>1. s \in Slots /\ u \in Requests
    BY <1>2, <1>5
  <2>2. slot[s] \in Contexts /\ slot \in [Slots -> Contexts]
    BY <2>1 DEF TypeOK, RunnerTypeOK
  <2>3. CASE slot[s].st = "IDLE" /\ Run(s, u, <<>>)
    <3>1. CASE Room
      <4>1. /\ schedQ' = Append(schedQ, Submit(u, s)) /\ slot' = [slot EXCEPT ![s] = Running(u)]
            /\ lost' = lost
        BY <2>3, <3>1 DEF Run, Push, Submit
      <4>2. Sound'
        BY <1>1, <2>1, <2>3, <4>1, Starts
      <4> QED BY <2>1, <2>3, <4>1, <4>2, LegalStep, LegalTable, ContextKinds
    <3>2. CASE ~Room
      <4>1. /\ schedQ' = schedQ /\ slot' = [slot EXCEPT ![s] = Idle]
            /\ lost' = lost \cup Tasks(<<>>)
        BY <2>3, <3>2 DEF Run
      <4>2. slot[s] = Idle
        BY <2>1, <2>3, ContextKinds
           DEF Sound, SlotInv, Coherent, CoherentRunning, CoherentStopping, CoherentEvicting
      <4>3. slot' = slot
        BY <2>2, <4>1, <4>2
      <4>4. \A x \in Slots : x \in lost' <=> x \in lost
        BY <4>1, Nothing, TasksType, RunnerAssumption
      <4> QED BY <1>1, <4>1, <4>3, <4>4, Idles DEF Legally
    <3> QED BY <3>1, <3>2
  <2>4. CASE /\ slot[s].st = "STOPPING" /\ slot' = [slot EXCEPT ![s].cont = u]
             /\ lost' = lost \cup ({slot[s].cont} \ {None}) /\ UNCHANGED schedQ
    <3>1. \A x \in Slots : x \in lost' <=> x \in lost
      BY <2>2, <2>4, RunnerAssumption DEF Contexts
    <3>2. Sound'
      BY <1>1, <2>1, <2>4, <3>1, Waits
    <3>3. slot' = [slot EXCEPT ![s] = [slot[s] EXCEPT !.cont = u]]
          /\ [slot[s] EXCEPT !.cont = u].st = slot[s].st
      BY <2>2, <2>4 DEF Contexts
    <3> QED BY <2>1, <3>2, <3>3, LegalStep
  <2>5. CASE lost' \in {lost, lost \cup {u}} /\ UNCHANGED <<slot, schedQ>>
    <3>1. \A x \in Slots : x \in lost' <=> x \in lost
      BY <2>1, <2>5, RunnerAssumption
    <3> QED BY <1>1, <2>5, <3>1, Idles DEF Legally
  <2> QED BY <1>3, <1>5, <2>3, <2>4, <2>5
<1> QED BY <1>1, <1>4, <1>5

LEMMA WorkerSound ==
    ASSUME TypeOK, Sound, RunnerStep \/ SchedTake \/ \E s \in Slots : Emit(s),
           UNCHANGED <<sessionVars, requestVars>>
    PROVE  Sound' /\ Legally /\ TypeOK'
<1>1. Aside /\ \A s \in Slots : SlotInv(s)
  BY DEF Aside, sessionVars, requestVars, Sound
<1>2. Sound' /\ Legally /\ RunnerTypeOK'
  <2>1. CASE SchedTake \/ \E s \in Slots : Emit(s)
    BY <1>1, <2>1, SchedSound
  <2>2. CASE HandleAnswer
    BY <1>1, <2>2, AnswerSound, AnswerType DEF Sound
  <2>3. CASE \E s \in Slots : HandleOutput(s)
    BY <1>1, <2>3, OutputSound, OutputType
  <2>4. CASE Drained \/ Stopped
    BY <1>1, <2>4, DrainSound, DrainType
  <2>5. CASE HandleMemory
    BY <1>1, <2>5, MemorySound, MemoryType
  <2>6. CASE HandleStop
    BY <1>1, <2>6, StopSound, StopType
  <2>7. CASE HandleRequest
    BY <1>1, <2>7, RequestSound, RequestType
  <2> QED BY <2>1, <2>2, <2>3, <2>4, <2>5, <2>6, <2>7 DEF RunnerStep
<1>3. ServerTypeOK'
  BY DEF TypeOK, ServerTypeOK, sessionVars, requestVars
<1> QED BY <1>2, <1>3 DEF TypeOK

-----------------------------------------------------------------------------
(* The server.                                                             *)

LiveStates == {"prepared", "idle", "inflight"}
SessionStates == {"none", "prepared", "idle", "inflight", "gone"}

\* A step of the server that leaves slots and queues alone: sessions stay live
\* or not, with their slots, and who waits for a slot goes on waiting.
Quiet ==
    /\ UNCHANGED <<slot, dev, outputs, schedQ, answers, memRes, memReq, pendMem, deferred, lost>>
    /\ \A c \in Requests : /\ session'[c].st \in LiveStates <=> session[c].st \in LiveStates
                           /\ session'[c].slot = session[c].slot
    /\ \A r \in Requests :
          /\ pc[r] = "waiting" => pc'[r] = "waiting"
          /\ pc'[r] \in Early => pc[r] \in Early /\ session'[r] = session[r]

LEMMA QuietSound == ASSUME Sound, Quiet PROVE Sound'
<1>1. ASSUME NEW x \in Slots PROVE SlotInv(x)' /\ HomeInv(x)'
  <2>1. SessionsAt(x)' = SessionsAt(x)
    BY DEF Quiet, SessionsAt, Live, LiveStates
  <2>2. SameSlot(x)
    BY Untouched DEF SameSlot, Quiet
  <2>3. SamePlace(x)
    BY <2>1, <2>2, Untouched, PlaceSame DEF Sound, HomeInv, Quiet
  <2> QED BY <2>2, <2>3, SlotKept, PlaceKept DEF Sound
<1>2. ASSUME NEW r \in Requests PROVE AskInv(r)'
  <2>1. AskInv(r)
    BY DEF Sound
  <2>2. \A k \in Stages : Asks(k, r)' <=> Asks(k, r)
    BY Untouched DEF Asks, Quiet
  <2>3. \A k, l \in Stages : Asks(k, r)' /\ Asks(l, r)' => k = l
    BY <2>1, <2>2 DEF AskInv
  <2>4. \A k \in Stages : Asks(k, r)' => pc'[r] = "waiting"
    BY <2>1, <2>2 DEF AskInv, Quiet
  <2>5. pc'[r] \in Early => session'[r].st = "none"
    BY <2>1 DEF AskInv, Quiet
  <2>6. OneAnswer(r)'
    BY <2>1, Untouched DEF AskInv, OneAnswer, Quiet
  <2> QED BY <2>3, <2>4, <2>5, <2>6 DEF AskInv, OneAnswer
<1>3. QueueInv'
  BY Untouched DEF Sound, QueueInv, Quiet
<1> QED BY <1>1, <1>2, <1>3 DEF Sound

LEMMA ClearedIs ==
    ASSUME TypeOK, NEW c, session' = Cleared(c)
    PROVE  /\ session' \in [Requests -> [st : SessionStates, slot : Slots \cup {None}]]
           /\ \A e \in Requests :
                 /\ session'[e].slot = session[e].slot
                 /\ e = c /\ session[e].st = "inflight" => session'[e].st = "idle"
                 /\ e # c \/ session[e].st # "inflight" => session'[e] = session[e]
<1>1. session \in [Requests -> [st : SessionStates, slot : Slots \cup {None}]]
  BY DEF TypeOK, ServerTypeOK, SessionStates
<1>2. CASE session[c].st = "inflight"
  <2>1. session' = [session EXCEPT ![c].st = "idle"]
    BY <1>2 DEF Cleared
  <2>2. \A e \in Requests : [session[e] EXCEPT !.st = "idle"]
            \in [st : SessionStates, slot : Slots \cup {None}]
    BY <1>1 DEF SessionStates
  <2>3. \A e \in Requests : session'[e] = IF e = c THEN [session[e] EXCEPT !.st = "idle"] ELSE session[e]
    BY <1>1, <2>1
  <2>4. session' \in [Requests -> [st : SessionStates, slot : Slots \cup {None}]]
    BY <1>1, <2>1, <2>2, <2>3
  <2>5. \A e \in Requests : /\ [session[e] EXCEPT !.st = "idle"].slot = session[e].slot
                            /\ [session[e] EXCEPT !.st = "idle"].st = "idle"
    BY <1>1
  <2> QED BY <1>2, <2>3, <2>4, <2>5
<1>3. CASE session[c].st # "inflight"
  BY <1>1, <1>3 DEF Cleared
<1> QED BY <1>2, <1>3

\* A step of the server that changes no slot, and nothing but the state of a
\* request r, its session e and the queues of tasks, cancellations and tokens.
LEMMA TakeSound ==
    ASSUME TypeOK, Sound, NEW r \in Requests, NEW e \in Requests, Take(r, e),
           session[e].st \in {"idle", "prepared"}, pc[r] \in {"new", "ready"}
    PROVE  Sound' /\ TypeOK' /\ slot' = slot
<1>1. /\ pc' = [pc EXCEPT ![r] = "acquired"] /\ on' = [on EXCEPT ![r] = e]
      /\ session' = [session EXCEPT ![e].st = "inflight"]
      /\ UNCHANGED <<runnerVars, evictor, candidates, deferred, callbacks, attempts, aborted>>
  BY DEF Take, Acquire
<1>2. /\ session \in [Requests -> [st : SessionStates, slot : Slots \cup {None}]]
      /\ pc \in [Requests -> Points] /\ on \in [Requests -> Requests \cup {None}]
  BY DEF TypeOK, ServerTypeOK, SessionStates
<1>3. [session[e] EXCEPT !.st = "inflight"] \in [st : SessionStates, slot : Slots \cup {None}]
      /\ [session[e] EXCEPT !.st = "inflight"].st = "inflight"
      /\ [session[e] EXCEPT !.st = "inflight"].slot = session[e].slot
  BY <1>2 DEF SessionStates
<1>4. /\ session' \in [Requests -> [st : SessionStates, slot : Slots \cup {None}]]
      /\ session'[e] = [session[e] EXCEPT !.st = "inflight"]
      /\ \A c \in Requests \ {e} : session'[c] = session[c]
  BY <1>1, <1>2, <1>3
<1>5. /\ pc' \in [Requests -> Points] /\ pc'[r] = "acquired" /\ \A q \in Requests \ {r} : pc'[q] = pc[q]
      /\ on' \in [Requests -> Requests \cup {None}]
  BY <1>1, <1>2 DEF Points
<1>6. pc[e] \notin Early
  BY DEF Sound, AskInv
<1>7. Quiet
  BY <1>1, <1>3, <1>4, <1>5, <1>6
     DEF Quiet, runnerVars, slotVars, queueVars, devVars, LiveStates, Early
<1>8. RunnerTypeOK'
  BY <1>1 DEF TypeOK, RunnerTypeOK, runnerVars, slotVars, queueVars, devVars
<1>9. ServerTypeOK'
  BY <1>1, <1>4, <1>5 DEF TypeOK, ServerTypeOK, SessionStates
<1> QED BY <1>1, <1>7, <1>8, <1>9, QuietSound DEF TypeOK, runnerVars, slotVars

\* A request that does not wait for a slot goes on to p, and a session may be
\* cleared at that.
LEMMA MovesOn ==
    ASSUME TypeOK, Sound, NEW r \in Requests, NEW p \in Points \ Early, pc[r] # "waiting",
           pc' = [pc EXCEPT ![r] = p], UNCHANGED session \/ \E c : session' = Cleared(c),
           UNCHANGED <<slot, dev, outputs, schedQ, answers, memRes, memReq, pendMem, deferred,
                       lost>>
    PROVE  /\ Sound' /\ pc' \in [Requests -> Points]
           /\ session' \in [Requests -> [st : SessionStates, slot : Slots \cup {None}]]
<1>1. pc' \in [Requests -> Points] /\ pc'[r] = p /\ \A q \in Requests \ {r} : pc'[q] = pc[q]
  BY DEF TypeOK, ServerTypeOK
<1>2. /\ session' \in [Requests -> [st : SessionStates, slot : Slots \cup {None}]]
      /\ \A e \in Requests :
            /\ session'[e].slot = session[e].slot
            /\ \/ session'[e] = session[e]
               \/ session[e].st = "inflight" /\ session'[e].st = "idle"
  BY ClearedIs DEF TypeOK, ServerTypeOK, SessionStates
<1>3. \A q \in Requests : pc[q] \in Early => session[q].st = "none"
  BY DEF Sound, AskInv
<1>4. Quiet
  BY <1>1, <1>2, <1>3 DEF Quiet, LiveStates
<1> QED BY <1>1, <1>2, <1>4, QuietSound

\* Requests without a session go on, or back.
LEMMA EarlyMoves ==
    ASSUME TypeOK, Sound,
           \A q \in Requests : pc'[q] # pc[q] => pc[q] \in Early \ {"waiting"},
           UNCHANGED <<session, slot, dev, outputs, schedQ, answers, memRes, memReq, pendMem,
                       deferred, lost>>
    PROVE  Sound'
<1>1. Quiet
  BY DEF Quiet, Early
<1> QED BY <1>1, QuietSound

\* evictOldSessions picks its candidates among the sessions.
LEMMA EvictionType ==
    ASSUME TypeOK, NEW by \in Requests \cup {Reader}, Evicts(by) \/ NoEviction
    PROVE  evictor' \in Requests \cup {None, Reader} /\ candidates' \subseteq Requests
<1>1. CASE Evicts(by)
  <2>1. evictor' = by /\ candidates' \in kSubset(Min({EvictionCount, Cardinality(IdleSessions)}), IdleSessions)
    BY <1>1 DEF Evicts
  <2>2. candidates' \subseteq IdleSessions
    BY <2>1 DEF kSubset
  <2> QED BY <2>1, <2>2 DEF IdleSessions
<1>2. CASE NoEviction
  BY <1>2 DEF NoEviction, TypeOK, ServerTypeOK
<1> QED BY <1>1, <1>2

LEMMA AgainType ==
    ASSUME TypeOK, NEW r \in Requests, Again(r)
    PROVE  /\ pc' \in [Requests -> Points] /\ attempts' \in [Requests -> Nat]
           /\ pc'[r] \in {"failed", "retry"} /\ \A q \in Requests \ {r} : pc'[q] = pc[q]
<1>1. /\ pc \in [Requests -> Points] /\ attempts \in [Requests -> Nat]
      /\ {"failed", "retry"} \subseteq Points
  BY DEF TypeOK, ServerTypeOK, Points
<1>2. CASE attempts[r] = 0
  <2>1. pc' = [pc EXCEPT ![r] = "failed"] /\ attempts' = attempts
    BY <1>2 DEF Again
  <2> QED BY <1>1, <2>1
<1>3. CASE attempts[r] # 0
  <2>1. pc' = [pc EXCEPT ![r] = "retry"] /\ attempts' = [attempts EXCEPT ![r] = attempts[r] - 1]
    BY <1>3 DEF Again
  <2>2. attempts[r] - 1 \in Nat
    BY <1>1, <1>3
  <2> QED BY <1>1, <2>1, <2>2
<1> QED BY <1>2, <1>3

LEMMA MissSound ==
    ASSUME TypeOK, Sound, NEW r \in Requests, Miss(r)
    PROVE  Sound' /\ TypeOK' /\ slot' = slot
<1>1. /\ pc[r] = "new" /\ (Evicts(r) \/ NoEviction)
      /\ \E p \in {"evict", "send"} : pc' = [pc EXCEPT ![r] = p]
      /\ UNCHANGED <<runnerVars, session, deferred, on, callbacks, attempts, aborted>>
  BY DEF Miss
<1>2. /\ pc' \in [Requests -> Points] /\ \A q \in Requests \ {r} : pc'[q] = pc[q]
  BY <1>1 DEF TypeOK, ServerTypeOK, Points
<1>3. Sound'
  BY <1>1, <1>2, EarlyMoves DEF runnerVars, slotVars, queueVars, devVars, Early
<1>4. RunnerTypeOK'
  BY <1>1 DEF TypeOK, RunnerTypeOK, runnerVars, slotVars, queueVars, devVars
<1>5. ServerTypeOK'
  BY <1>1, <1>2, EvictionType DEF TypeOK, ServerTypeOK
<1> QED BY <1>1, <1>3, <1>4, <1>5 DEF TypeOK, runnerVars, slotVars

LEMMA RetryAllocsSound ==
    ASSUME TypeOK, Sound, NEW R \in SUBSET Requests, RetryAllocs(R)
    PROVE  Sound' /\ TypeOK' /\ slot' = slot
<1>1. /\ R \subseteq Retrying /\ (Evicts(Reader) \/ NoEviction)
      /\ \E p \in {"due", "send"} : pc' = [r \in Requests |-> IF r \in R THEN p ELSE pc[r]]
      /\ UNCHANGED <<runnerVars, session, deferred, on, callbacks, attempts, aborted>>
  BY DEF RetryAllocs
<1>2. /\ pc' \in [Requests -> Points]
      /\ \A q \in Requests : pc'[q] # pc[q] => pc[q] = "retry"
  BY <1>1 DEF TypeOK, ServerTypeOK, Points, Retrying
<1>3. Sound'
  BY <1>1, <1>2, EarlyMoves DEF runnerVars, slotVars, queueVars, devVars, Early
<1>4. RunnerTypeOK'
  BY <1>1 DEF TypeOK, RunnerTypeOK, runnerVars, slotVars, queueVars, devVars
<1>5. ServerTypeOK'
  BY <1>1, <1>2, EvictionType DEF TypeOK, ServerTypeOK
<1> QED BY <1>1, <1>3, <1>4, <1>5 DEF TypeOK, runnerVars, slotVars

LEMMA RefuseSound ==
    ASSUME TypeOK, Sound, NEW r \in Requests, Refuse(r) \/ ReleaseAgain(r)
    PROVE  Sound' /\ TypeOK' /\ slot' = slot
<1>1. /\ \E p \in {"failed", "done"} : pc' = [pc EXCEPT ![r] = p]
      /\ pc[r] # "waiting" /\ session' = Cleared(on[r])
      /\ UNCHANGED <<runnerVars, evictor, candidates, deferred, on, callbacks, attempts, aborted>>
  BY DEF Refuse, ReleaseAgain
<1>2. "failed" \in Points \ Early /\ "done" \in Points \ Early
  BY DEF Points, Early
<1>3. /\ Sound' /\ pc' \in [Requests -> Points]
      /\ session' \in [Requests -> [st : SessionStates, slot : Slots \cup {None}]]
  BY <1>1, <1>2, MovesOn DEF runnerVars, slotVars, queueVars, devVars
<1>4. RunnerTypeOK'
  BY <1>1 DEF TypeOK, RunnerTypeOK, runnerVars, slotVars, queueVars, devVars
<1>5. ServerTypeOK'
  BY <1>1, <1>3 DEF TypeOK, ServerTypeOK, SessionStates
<1> QED BY <1>1, <1>3, <1>4, <1>5 DEF TypeOK, runnerVars, slotVars

LEMMA ProduceSound ==
    ASSUME TypeOK, Sound, OwnInv, NEW r \in Requests, Produce(r)
    PROVE  Sound' /\ TypeOK' /\ slot' = slot
<1>1. /\ pc' = [pc EXCEPT ![r] = "running"] /\ pc[r] = "acquired"
      /\ callbacks' = callbacks \cup {r}
      /\ taskQ' = Append(taskQ, [task |-> r, slot |-> session[on[r]].slot])
      /\ UNCHANGED <<slotVars, phase, memReq, memRes, cancelQ, tokens, devVars, lost,
                     sessionVars, on, attempts, aborted>>
  BY DEF Produce
<1>2. "running" \in Points \ Early
  BY DEF Points, Early
<1>3. Sound' /\ pc' \in [Requests -> Points]
  BY <1>1, <1>2, MovesOn DEF slotVars, devVars, sessionVars
<1>4. on[r] \in Requests /\ session[on[r]].st # "none"
  <2>1. RequestInv(r) /\ Owner(r)
    BY <1>1 DEF OwnInv, Owner
  <2> QED BY <2>1, RunnerAssumption DEF RequestInv
<1>5. [task |-> r, slot |-> session[on[r]].slot] \in Work
  BY <1>4 DEF OwnInv, Work
<1>6. taskQ' \in Seq(Work)
  BY <1>1, <1>5, Pushed DEF TypeOK, RunnerTypeOK
<1>7. RunnerTypeOK'
  BY <1>1, <1>6 DEF TypeOK, RunnerTypeOK, slotVars, devVars
<1>8. ServerTypeOK'
  BY <1>1, <1>3 DEF TypeOK, ServerTypeOK, sessionVars
<1> QED BY <1>1, <1>3, <1>7, <1>8 DEF TypeOK, slotVars

LEMMA ConsumeSound ==
    ASSUME TypeOK, Sound, OwnInv, NEW r \in Requests, Consume(r)
    PROVE  Sound' /\ TypeOK' /\ slot' = slot
<1>1. /\ tokens' = tokens \ {r} /\ callbacks' = callbacks \ {r}
      /\ IF r \in callbacks
         THEN session' = Cleared(on[r]) /\ pc' = [pc EXCEPT ![r] = "finished"]
         ELSE UNCHANGED <<session, pc>>
      /\ UNCHANGED <<slotVars, phase, memReq, memRes, taskQ, cancelQ, devVars, lost,
                     evictor, candidates, deferred, on, attempts, aborted>>
  BY DEF Consume
<1>2. "finished" \in Points \ Early /\ (r \in callbacks => pc[r] # "waiting")
  BY DEF Points, Early, OwnInv, RequestInv
<1>3. /\ Sound' /\ pc' \in [Requests -> Points]
      /\ session' \in [Requests -> [st : SessionStates, slot : Slots \cup {None}]]
  <2>1. CASE r \in callbacks
    BY <1>1, <1>2, <2>1, MovesOn DEF slotVars, devVars
  <2>2. CASE r \notin callbacks
    <3>1. Sound'
      BY <1>1, <2>2, EarlyMoves DEF slotVars, devVars
    <3> QED BY <1>1, <2>2, <3>1 DEF TypeOK, ServerTypeOK, SessionStates
  <2> QED BY <2>1, <2>2
<1>4. RunnerTypeOK'
  BY <1>1 DEF TypeOK, RunnerTypeOK, slotVars, devVars
<1>5. ServerTypeOK'
  BY <1>1, <1>3 DEF TypeOK, ServerTypeOK, SessionStates
<1> QED BY <1>1, <1>3, <1>4, <1>5 DEF TypeOK, slotVars

LEMMA DisconnectSound ==
    ASSUME TypeOK, Sound, NEW r \in Requests, Disconnect(r)
    PROVE  Sound' /\ TypeOK' /\ slot' = slot
<1>1. /\ pc[r] \in {"running", "finished"} /\ pc' = [pc EXCEPT ![r] = "aborting"]
      /\ aborted' = aborted \cup {r} /\ callbacks' = callbacks \ {r}
      /\ UNCHANGED session \/ session' = Cleared(on[r])
      /\ UNCHANGED <<runnerVars, evictor, candidates, deferred, on, attempts>>
  BY DEF Disconnect
<1>2. "aborting" \in Points \ Early
  BY DEF Points, Early
<1>3. /\ Sound' /\ pc' \in [Requests -> Points]
      /\ session' \in [Requests -> [st : SessionStates, slot : Slots \cup {None}]]
  BY <1>1, <1>2, MovesOn DEF runnerVars, slotVars, queueVars, devVars
<1>4. RunnerTypeOK'
  BY <1>1 DEF TypeOK, RunnerTypeOK, runnerVars, slotVars, queueVars, devVars
<1>5. ServerTypeOK'
  BY <1>1, <1>3 DEF TypeOK, ServerTypeOK, SessionStates
<1> QED BY <1>1, <1>3, <1>4, <1>5 DEF TypeOK, runnerVars, slotVars

LEMMA PushCancelSound ==
    ASSUME TypeOK, Sound, NEW r \in Requests, PushCancel(r)
    PROVE  Sound' /\ TypeOK' /\ slot' = slot
<1>1. /\ pc[r] = "aborting" /\ pc' = [pc EXCEPT ![r] = "releasing"]
      /\ cancelQ' \in {cancelQ, cancelQ \cup {r}}
      /\ UNCHANGED <<slotVars, phase, memReq, memRes, taskQ, tokens, devVars, lost,
                     sessionVars, on, callbacks, attempts, aborted>>
  BY DEF PushCancel
<1>2. "releasing" \in Points \ Early
  BY DEF Points, Early
<1>3. Sound' /\ pc' \in [Requests -> Points]
  BY <1>1, <1>2, MovesOn DEF slotVars, devVars, sessionVars
<1>4. RunnerTypeOK'
  BY <1>1 DEF TypeOK, RunnerTypeOK, slotVars, devVars
<1>5. ServerTypeOK'
  BY <1>1, <1>3 DEF TypeOK, ServerTypeOK, sessionVars
<1> QED BY <1>1, <1>3, <1>4, <1>5 DEF TypeOK, slotVars

\* sendAsyncAllocationRequest.
LEMMA SendAllocSound ==
    ASSUME TypeOK, Sound, NEW r \in Requests, SendAlloc(r)
    PROVE  Sound' /\ TypeOK' /\ slot' = slot
<1>1. /\ pc[r] = "send"
      /\ UNCHANGED <<slotVars, phase, memRes, taskQ, cancelQ, tokens, devVars, lost,
                     sessionVars, on, callbacks, aborted>>
  BY DEF SendAlloc
<1>2. CASE Again(r) /\ UNCHANGED memReq
  <2>1. /\ pc' \in [Requests -> Points] /\ attempts' \in [Requests -> Nat]
        /\ \A q \in Requests \ {r} : pc'[q] = pc[q]
    BY <1>2, AgainType
  <2>2. Sound'
    BY <1>1, <1>2, <2>1, EarlyMoves DEF slotVars, devVars, sessionVars, Early
  <2>3. RunnerTypeOK'
    BY <1>1, <1>2 DEF TypeOK, RunnerTypeOK, slotVars, devVars
  <2>4. ServerTypeOK'
    BY <1>1, <2>1 DEF TypeOK, ServerTypeOK, sessionVars
  <2> QED BY <1>1, <2>2, <2>3, <2>4 DEF TypeOK, slotVars
<1>3. CASE /\ memReq' = Append(memReq, Allocate(r)) /\ pc' = [pc EXCEPT ![r] = "waiting"]
           /\ UNCHANGED attempts
  <2>1. /\ pc' \in [Requests -> Points] /\ pc'[r] = "waiting"
        /\ \A q \in Requests \ {r} : pc'[q] = pc[q]
    BY <1>3 DEF TypeOK, ServerTypeOK, Points
  <2>2. AskInv(r) /\ \A k \in Stages : ~Asks(k, r)
    BY <1>1 DEF Sound, AskInv
  <2>3. Allocate(r) \notin Range(memReq)
    BY <2>2 DEF Asks, Stages
  <2>4. /\ memReq' \in Seq(Mem) /\ Range(memReq)' = Range(memReq) \cup {Allocate(r)}
        /\ Distinct(memReq)'
    BY <1>3, <2>3, MemKinds, Pushed DEF TypeOK, RunnerTypeOK, Sound, QueueInv
  <2>5. RunnerTypeOK'
    BY <1>1, <2>4 DEF TypeOK, RunnerTypeOK, slotVars, devVars
  <2>6. ServerTypeOK'
    BY <1>1, <1>3, <2>1 DEF TypeOK, ServerTypeOK, sessionVars
  <2>7. Elsewhere(None)
    BY <1>1, <2>4, MemKinds, Untouched DEF Elsewhere, SameSlot, slotVars, devVars, sessionVars
  <2>8. \A x \in Slots : SlotInv(x)' /\ HomeInv(x)'
    BY <2>7, ElsewhereKept, RunnerAssumption
  <2>9. ASSUME NEW q \in Requests PROVE AskInv(q)'
    <3>1. CASE q = r
      <4>1. \A k \in Stages \ {"asked"} : Asks(k, r)' => Asks(k, r)
        BY <1>1, Untouched DEF Asks, Stages, slotVars, devVars
      <4>2. \A k, l \in Stages : Asks(k, r)' /\ Asks(l, r)' => k = l
        BY <2>2, <4>1
      <4>3. OneAnswer(r)'
        BY <1>1, <2>2, Untouched DEF AskInv, OneAnswer, devVars
      <4>4. session'[r].st = "none"
        BY <1>1, <2>2 DEF AskInv, Early, sessionVars
      <4> QED BY <2>1, <3>1, <4>2, <4>3, <4>4 DEF AskInv, OneAnswer
    <3>2. CASE q # r
      <4>1. Allocate(q) # Allocate(r)
        BY <3>2, MemKinds
      <4>2. SameAsk(q)
        BY <1>1, <2>1, <2>4, <3>2, <4>1, Untouched, AskSame DEF slotVars, devVars, sessionVars
      <4> QED BY <4>2, AskKept DEF Sound
    <3> QED BY <3>1, <3>2
  <2>10. QueueInv'
    BY <1>1, <2>4, Untouched DEF Sound, QueueInv, devVars
  <2>11. Sound'
    BY <2>8, <2>9, <2>10 DEF Sound
  <2> QED BY <1>1, <2>5, <2>6, <2>11 DEF TypeOK, slotVars
<1> QED BY <1>2, <1>3 DEF SendAlloc

\* A request to give s back is on its way, or kept for later.
LEMMA SendDeallocIs ==
    ASSUME TypeOK, QueueInv, NEW s \in Slots, SendDealloc(s), ~At("asked", s)
    PROVE  /\ memReq' \in Seq(Mem) /\ Distinct(memReq)' /\ deferred' \subseteq Slots
           /\ \/ Range(memReq)' = Range(memReq) \cup {Dealloc(s)} /\ deferred' = deferred
              \/ memReq' = memReq /\ deferred' = deferred \cup {s}
<1>1. memReq \in Seq(Mem) /\ deferred \subseteq Slots /\ Distinct(memReq)
      /\ Dealloc(s) \in Mem /\ Dealloc(s) \notin Range(memReq)
  BY MemKinds DEF TypeOK, RunnerTypeOK, ServerTypeOK, QueueInv, At
<1>2. CASE memReq' = Append(memReq, Dealloc(s)) /\ UNCHANGED deferred
  BY <1>1, <1>2, Pushed
<1>3. CASE deferred' = deferred \cup {s} /\ UNCHANGED memReq
  BY <1>1, <1>3 DEF Distinct
<1> QED BY <1>2, <1>3 DEF SendDealloc

\* The next candidate: its session is closed and its slot given back.
LEMMA EvictNextSound ==
    ASSUME TypeOK, Sound, OwnInv, NEW c \in Requests, EvictNext(c)
    PROVE  Sound' /\ TypeOK' /\ slot' = slot
<1>1. /\ candidates' = candidates \ {c}
      /\ IF session[c].st = "idle"
         THEN /\ session' = [session EXCEPT ![c].st = "gone"]
              /\ SendDealloc(session[c].slot)
         ELSE UNCHANGED <<session, memReq, deferred>>
      /\ \/ /\ evictor' = None
            /\ pc' = [r \in Requests |->
                         IF r = evictor \/ (evictor = Reader /\ pc[r] = "due")
                         THEN "send" ELSE pc[r]]
         \/ UNCHANGED <<evictor, pc>>
      /\ UNCHANGED <<slotVars, phase, memRes, taskQ, cancelQ, tokens, devVars, lost,
                     on, callbacks, attempts, aborted>>
  BY DEF EvictNext, StillIdle
<1>2. /\ pc' \in [Requests -> Points]
      /\ \A q \in Requests : pc'[q] # pc[q] => pc[q] \in {"evict", "due"} /\ pc'[q] = "send"
      /\ evictor' \in Requests \cup {None, Reader}
  BY <1>1 DEF TypeOK, ServerTypeOK, Points, OwnInv
<1>3. CASE session[c].st # "idle"
  <2>1. UNCHANGED <<session, memReq, deferred>>
    BY <1>1, <1>3
  <2>2. Sound'
    BY <1>1, <1>2, <2>1, EarlyMoves DEF slotVars, devVars, Early
  <2>3. RunnerTypeOK'
    BY <1>1, <2>1 DEF TypeOK, RunnerTypeOK, slotVars, devVars
  <2>4. ServerTypeOK'
    BY <1>1, <1>2, <2>1 DEF TypeOK, ServerTypeOK
  <2> QED BY <1>1, <2>2, <2>3, <2>4 DEF TypeOK, slotVars
<1>4. CASE session[c].st = "idle"
  <2>0. PICK s \in Slots : s = session[c].slot
    BY <1>4 DEF OwnInv
  <2>1. session' = [session EXCEPT ![c].st = "gone"] /\ SendDealloc(s)
    BY <1>1, <1>4, <2>0
  <2>2. /\ session' \in [Requests -> [st : SessionStates, slot : Slots \cup {None}]]
        /\ session'[c].st = "gone" /\ \A e \in Requests \ {c} : session'[e] = session[e]
    <3>1. session \in [Requests -> [st : SessionStates, slot : Slots \cup {None}]]
      BY DEF TypeOK, ServerTypeOK, SessionStates
    <3>2. [session[c] EXCEPT !.st = "gone"] \in [st : SessionStates, slot : Slots \cup {None}]
          /\ [session[c] EXCEPT !.st = "gone"].st = "gone"
      BY <3>1 DEF SessionStates
    <3>3. session' = [session EXCEPT ![c] = [session[c] EXCEPT !.st = "gone"]]
      BY <2>1, <3>1
    <3> QED BY <3>1, <3>2, <3>3
  <2>3. c \in SessionsAt(s) /\ At("session", s)
    BY <1>4, <2>0 DEF SessionsAt, Live, At
  <2>4. HomeInv(s) /\ \A k \in Places \ {"session"} : ~At(k, s)
    BY <2>1, <2>3 DEF Sound, HomeInv, Places
  <2>5. /\ memReq' \in Seq(Mem) /\ Distinct(memReq)' /\ deferred' \subseteq Slots
        /\ \/ Range(memReq)' = Range(memReq) \cup {Dealloc(s)} /\ deferred' = deferred
           \/ memReq' = memReq /\ deferred' = deferred \cup {s}
    BY <2>1, <2>4, SendDeallocIs DEF Sound, Places
  <2>6. SessionsAt(s)' = {} /\ \A x \in Slots \ {s} : SessionsAt(x)' = SessionsAt(x)
    <3>1. \A e \in SessionsAt(s) : e = c
      BY <2>3, <2>4 DEF HomeInv
    <3>2. \A e \in Requests \ {c} : /\ session'[e] = session[e]
                                    /\ ~(e \in SessionsAt(s))
      BY <2>2, <3>1
    <3>3. c \notin Live'
      BY <2>2 DEF Live
    <3>4. SessionsAt(s)' = {}
      BY <3>2, <3>3 DEF SessionsAt, Live
    <3>5. ASSUME NEW x \in Slots \ {s} PROVE SessionsAt(x)' = SessionsAt(x)
      BY <2>0, <2>2, <3>3 DEF SessionsAt, Live
    <3> QED BY <3>4, <3>5
  <2>7. /\ \A x \in Slots \ {s} :
             /\ Dealloc(x) \in Range(memReq)' <=> Dealloc(x) \in Range(memReq)
             /\ x \in deferred' <=> x \in deferred
        /\ \A q : Allocate(q) \in Range(memReq)' => Allocate(q) \in Range(memReq)
    BY <2>5, MemKinds
  <2>8. Elsewhere(s)
    BY <1>1, <2>6, <2>7, Untouched DEF Elsewhere, SameSlot, slotVars, devVars
  <2>9. SlotInv(s)'
    BY <1>1, <2>1, Untouched, SlotKept DEF Sound, SameSlot, slotVars, devVars
  <2>10. HomeInv(s)'
    <3>1. ~At("session", s)' /\ \E l \in {"asked", "deferred"} : At(l, s)'
      BY <2>5, <2>6 DEF At
    <3>2. \A j \in Places \ {"session", "asked", "deferred"} : At(j, s)' => At(j, s)
      BY <1>1, Untouched DEF At, Places, slotVars, devVars
    <3>3. At("asked", s)' => ~At("deferred", s)'
      BY <2>4, <2>5 DEF At, Places
    <3>4. PICK l \in {"asked", "deferred"} : At(l, s)' /\ \A j \in {"asked", "deferred"} \ {l} : ~At(j, s)'
      BY <3>1, <3>3
    <3>5. dev[s] # "free" /\ s \notin lost /\ slot[s].st \in Usable
      BY <2>3, <2>4 DEF HomeInv, Somewhere, Places
    <3>6. PlaceMoves(s, "session", l)
      <4>1. \A j \in Places \ {"session", l} : At(j, s)' => At(j, s)
        BY <3>2, <3>4
      <4> QED BY <1>1, <2>3, <2>4, <2>6, <3>1, <3>4, <3>5, <4>1, Untouched
              DEF PlaceMoves, HomeInv, slotVars, devVars
    <3> QED BY <2>1, <2>4, <3>4, <3>6, PlaceMoved DEF Places
  <2>11. ASSUME NEW q \in Requests PROVE AskInv(q)'
    <3>1. AskInv(q)
      BY DEF Sound
    <3>2. \A k \in Stages : Asks(k, q)' => Asks(k, q)
      BY <1>1, <2>7, Untouched DEF Asks, slotVars, devVars
    <3>3. \A k, l \in Stages : Asks(k, q)' /\ Asks(l, q)' => k = l
      BY <3>1, <3>2 DEF AskInv
    <3>4. \A k \in Stages : Asks(k, q)' => pc'[q] = "waiting"
      BY <1>2, <3>1, <3>2 DEF AskInv
    <3>5. pc'[q] \in Early => session'[q].st = "none"
      BY <1>2, <1>4, <2>2, <3>1 DEF AskInv, Early
    <3>6. OneAnswer(q)'
      BY <1>1, <3>1, Untouched DEF AskInv, OneAnswer, devVars
    <3> QED BY <3>3, <3>4, <3>5, <3>6 DEF AskInv, OneAnswer
  <2>12. QueueInv'
    BY <1>1, <2>5, Untouched DEF Sound, QueueInv, devVars
  <2>13. Sound'
    BY <2>8, <2>9, <2>10, <2>11, <2>12, ElsewhereKept DEF Sound
  <2>14. RunnerTypeOK'
    BY <1>1, <2>5 DEF TypeOK, RunnerTypeOK, slotVars, devVars
  <2>15. ServerTypeOK'
    BY <1>1, <1>2, <2>2, <2>5 DEF TypeOK, ServerTypeOK, SessionStates
  <2> QED BY <1>1, <2>13, <2>14, <2>15 DEF TypeOK, slotVars
<1> QED BY <1>3, <1>4

\* retryFailedDeallocs.
LEMMA RetryDeallocSound ==
    ASSUME TypeOK, Sound, NEW s \in Slots, RetryDealloc(s)
    PROVE  Sound' /\ TypeOK' /\ slot' = slot
<1>1. /\ s \in deferred /\ memReq' = Append(memReq, Dealloc(s)) /\ deferred' = deferred \ {s}
      /\ UNCHANGED <<slotVars, phase, memRes, taskQ, cancelQ, tokens, devVars, lost,
                     session, evictor, candidates, requestVars>>
  BY DEF RetryDealloc
<1>2. At("deferred", s) /\ HomeInv(s) /\ \A k \in Places \ {"deferred"} : ~At(k, s)
  BY <1>1 DEF At, Sound, HomeInv, Places
<1>3. /\ memReq' \in Seq(Mem) /\ Range(memReq)' = Range(memReq) \cup {Dealloc(s)}
      /\ Distinct(memReq)'
  <2>1. Dealloc(s) \notin Range(memReq)
    BY <1>2 DEF At, Places
  <2> QED BY <1>1, <2>1, MemKinds, Pushed DEF TypeOK, RunnerTypeOK, Sound, QueueInv
<1>4. /\ \A x \in Slots \ {s} : Dealloc(x) # Dealloc(s)
      /\ \A q : Allocate(q) # Dealloc(s)
  BY MemKinds
<1>5. Elsewhere(s)
  BY <1>1, <1>3, <1>4, Untouched DEF Elsewhere, SameSlot, slotVars, devVars
<1>6. SlotInv(s)'
  BY <1>1, Untouched, SlotKept DEF Sound, SameSlot, slotVars, devVars
<1>7. HomeInv(s)'
  <2>1. ~At("deferred", s)' /\ At("asked", s)'
    BY <1>1, <1>3 DEF At
  <2>2. \A j \in Places \ {"deferred", "asked"} : At(j, s)' => At(j, s)
    BY <1>1, Untouched DEF At, Places, slotVars, devVars
  <2>3. dev[s] # "free" /\ s \notin lost /\ slot[s].st \in Usable
    BY <1>2 DEF HomeInv, Somewhere, Places
  <2>4. PlaceMoves(s, "deferred", "asked")
    BY <1>1, <1>2, <2>1, <2>2, <2>3, Untouched DEF PlaceMoves, HomeInv, slotVars, devVars
  <2> QED BY <1>2, <2>4, PlaceMoved DEF Places
<1>8. ASSUME NEW q \in Requests PROVE AskInv(q)'
  <2>1. SameAsk(q)
    BY <1>1, <1>3, <1>4, Untouched, AskSame DEF slotVars, devVars, requestVars
  <2> QED BY <2>1, AskKept DEF Sound
<1>9. QueueInv'
  BY <1>1, <1>3, Untouched DEF Sound, QueueInv, devVars
<1>10. Sound'
  BY <1>5, <1>6, <1>7, <1>8, <1>9, ElsewhereKept DEF Sound
<1>11. RunnerTypeOK'
  BY <1>1, <1>3 DEF TypeOK, RunnerTypeOK, slotVars, devVars
<1>12. ServerTypeOK'
  BY <1>1 DEF TypeOK, ServerTypeOK, requestVars
<1> QED BY <1>1, <1>10, <1>11, <1>12 DEF TypeOK, slotVars

\* handleMemoryResult.
LEMMA MemoryResultSound ==
    ASSUME TypeOK, Sound, NEW m \in memRes, MemoryResult(m)
    PROVE  Sound' /\ TypeOK' /\ slot' = slot
<1> DEFINE r == m.task
           s == m.slot
<1>1. /\ memRes' = memRes \ {m}
      /\ IF s # None
         THEN /\ session' = [session EXCEPT ![r] = [st |-> "prepared", slot |-> s]]
              /\ pc' = [pc EXCEPT ![r] = "ready"] /\ UNCHANGED attempts
         ELSE Again(r) /\ UNCHANGED session
      /\ UNCHANGED <<slotVars, phase, memReq, taskQ, cancelQ, tokens, devVars, lost,
                     evictor, candidates, deferred, on, callbacks, aborted>>
  BY DEF MemoryResult
<1>2. r \in Requests /\ s \in Slots \cup {None} /\ m = [task |-> r, slot |-> s]
  BY DEF TypeOK, RunnerTypeOK
<1> HIDE DEF r, s
<1>3. AskInv(r) /\ Asks("result", r) /\ pc[r] = "waiting"
  BY <1>2 DEF Sound, Asks, AskInv, Stages
<1>4. session[r].st = "none" /\ r \notin Live
  BY <1>3 DEF AskInv, Early, Live
<1>5. \A k \in Stages : ~Asks(k, r)'
  <2>1. \A k \in Stages \ {"result"} : ~Asks(k, r)
    BY <1>3 DEF AskInv, Stages
  <2>2. \A k \in Stages \ {"result"} : Asks(k, r)' => Asks(k, r)
    BY <1>1, Untouched DEF Asks, Stages, slotVars, devVars
  <2>3. \A x \in Slots \cup {None} : [task |-> r, slot |-> x] \in memRes => x = s
    BY <1>2, <1>3 DEF AskInv
  <2>4. ~Asks("result", r)'
    BY <1>1, <1>2, <2>3 DEF Asks
  <2> QED BY <2>1, <2>2, <2>4
<1>6. /\ pc' \in [Requests -> Points] /\ pc'[r] \in {"ready", "failed", "retry"}
      /\ \A q \in Requests \ {r} : pc'[q] = pc[q] /\ session'[q] = session[q]
      /\ attempts' \in [Requests -> Nat]
      /\ session' \in [Requests -> [st : SessionStates, slot : Slots \cup {None}]]
      /\ s = None => session' = session
      /\ s # None => session'[r] = [st |-> "prepared", slot |-> s] /\ pc'[r] = "ready"
  <2>0. session \in [Requests -> [st : SessionStates, slot : Slots \cup {None}]]
    BY DEF TypeOK, ServerTypeOK, SessionStates
  <2>1. CASE s = None
    <3>1. Again(r) /\ session' = session
      BY <1>1, <2>1
    <3>2. /\ pc' \in [Requests -> Points] /\ attempts' \in [Requests -> Nat]
          /\ pc'[r] \in {"failed", "retry"} /\ \A q \in Requests \ {r} : pc'[q] = pc[q]
      BY <1>2, <3>1, AgainType
    <3> QED BY <2>0, <2>1, <3>1, <3>2
  <2>2. CASE s # None
    <3>1. [st |-> "prepared", slot |-> s] \in [st : SessionStates, slot : Slots \cup {None}]
      BY <1>2 DEF SessionStates
    <3>2. /\ session' = [session EXCEPT ![r] = [st |-> "prepared", slot |-> s]]
          /\ pc' = [pc EXCEPT ![r] = "ready"] /\ attempts' = attempts
      BY <1>1, <2>2
    <3>3. /\ pc \in [Requests -> Points] /\ attempts \in [Requests -> Nat]
          /\ "ready" \in Points
      BY DEF TypeOK, ServerTypeOK, Points
    <3> HIDE <1>1
    <3>4. session' \in [Requests -> [st : SessionStates, slot : Slots \cup {None}]]
      BY <1>2, <2>0, <3>1, <3>2
    <3>5. pc' \in [Requests -> Points] /\ attempts' \in [Requests -> Nat]
      BY <1>2, <3>2, <3>3
    <3>6. session'[r] = [st |-> "prepared", slot |-> s] /\ pc'[r] = "ready"
      BY <1>2, <2>0, <3>2, <3>3
    <3>7. \A q \in Requests \ {r} : pc'[q] = pc[q] /\ session'[q] = session[q]
      BY <1>2, <2>0, <3>2, <3>3
    <3> QED BY <2>2, <3>4, <3>5, <3>6, <3>7
  <2> QED BY <2>1, <2>2
<1>7. ASSUME NEW q \in Requests PROVE AskInv(q)'
  <2>0. AskInv(q)
    BY DEF Sound
  <2>1. CASE q = r
    <3>1. OneAnswer(r)'
      BY <1>1, <2>0, <2>1, Untouched DEF AskInv, OneAnswer, devVars
    <3>2. pc'[r] \in Early => session'[r].st = "none"
      BY <1>2, <1>4, <1>6 DEF Early
    <3> QED BY <1>5, <2>1, <3>1, <3>2 DEF AskInv, OneAnswer
  <2>2. CASE q # r
    <3>1. SameAsk(q)
      BY <1>1, <1>6, <2>2, Untouched, AskSame DEF slotVars, devVars
    <3> QED BY <2>0, <3>1, AskKept
  <2> QED BY <2>1, <2>2
<1>8. Elsewhere(s)
  <2>1. ASSUME NEW x \in Slots \ {s}
        PROVE  SessionsAt(x)' = SessionsAt(x) /\ Results(x)' = Results(x)
    <3>1. Results(x)' = Results(x)
      BY <1>1, <1>2 DEF Results
    <3>2. SessionsAt(x)' = SessionsAt(x)
      BY <1>2, <1>4, <1>6 DEF SessionsAt, Live
    <3> QED BY <3>1, <3>2
  <2> QED BY <1>1, <2>1, Untouched DEF Elsewhere, SameSlot, slotVars, devVars
<1>9. ASSUME s # None PROVE SlotInv(s)' /\ HomeInv(s)'
  <2>1. s \in Slots
    BY <1>2, <1>9
  <2>2. SlotInv(s)'
    BY <1>1, <2>1, Untouched, SlotKept DEF Sound, SameSlot, slotVars, devVars
  <2>3. At("result", s) /\ HomeInv(s) /\ m \in Results(s)
    BY <1>2, <2>1 DEF At, Results, Sound, s
  <2>4. Results(s)' = {} /\ SessionsAt(s) = {}
    <3>1. \A n \in Results(s) : n = m
      BY <2>3 DEF HomeInv
    <3>2. ~At("session", s)
      BY <2>3 DEF HomeInv, Places
    <3> QED BY <1>1, <3>1, <3>2 DEF Results, At
  <2>5. SessionsAt(s)' = {r}
    BY <1>2, <1>6, <1>9, <2>4 DEF SessionsAt, Live
  <2>6. At("session", s)' /\ ~At("result", s)'
    BY <2>4, <2>5 DEF At
  <2>7. \A j \in Places \ {"session", "result"} : At(j, s)' => At(j, s)
    BY <1>1, Untouched DEF At, Places, slotVars, devVars
  <2>8. dev[s] # "free" /\ s \notin lost /\ slot[s].st \in Usable
    BY <2>3 DEF HomeInv, Somewhere, Places
  <2>9. PlaceMoves(s, "result", "session")
    BY <1>1, <2>3, <2>4, <2>5, <2>6, <2>7, <2>8 DEF PlaceMoves, HomeInv, slotVars, devVars
  <2> QED BY <2>1, <2>2, <2>3, <2>9, PlaceMoved DEF Places
<1>10. QueueInv'
  BY <1>1, Untouched DEF Sound, QueueInv, devVars
<1>11. Sound'
  BY <1>2, <1>7, <1>8, <1>9, <1>10, ElsewhereKept, RunnerAssumption DEF Sound
<1>12. RunnerTypeOK'
  BY <1>1 DEF TypeOK, RunnerTypeOK, slotVars, devVars
<1>13. ServerTypeOK'
  BY <1>1, <1>6 DEF TypeOK, ServerTypeOK, SessionStates
<1> QED BY <1>1, <1>11, <1>12, <1>13 DEF TypeOK, slotVars

\* A step of the server keeps all that concerns slots and queues.
LEMMA ServerSound ==
    ASSUME TypeOK, Sound, OwnInv, Server
    PROVE  Sound' /\ TypeOK' /\ slot' = slot
<1>1. ASSUME NEW r \in Requests, Loop(r) PROVE Sound' /\ TypeOK' /\ slot' = slot
  <2>1. CASE Resolve(r)
    <3>1. Take(r, r) /\ session[r].st = "prepared" /\ pc[r] = "ready"
      BY <2>1 DEF Resolve, OwnInv, RequestInv
    <3> QED BY <3>1, TakeSound
  <2>2. CASE SendAlloc(r)
    BY <2>2, SendAllocSound
  <2>3. CASE Refuse(r) \/ ReleaseAgain(r)
    BY <2>3, RefuseSound
  <2>4. CASE Produce(r)
    BY <2>4, ProduceSound
  <2>5. CASE PushCancel(r)
    BY <2>5, PushCancelSound
  <2> QED BY <1>1, <2>1, <2>2, <2>3, <2>4, <2>5 DEF Loop
<1>2. ASSUME NEW r \in Requests, Consume(r) \/ Miss(r) \/ Disconnect(r)
      PROVE  Sound' /\ TypeOK' /\ slot' = slot
  BY <1>2, ConsumeSound, MissSound, DisconnectSound
<1>3. ASSUME NEW r \in Requests, NEW c \in Requests, Hit(r, c)
      PROVE  Sound' /\ TypeOK' /\ slot' = slot
  <2>1. Take(r, c) /\ session[c].st = "idle" /\ pc[r] = "new"
    BY <1>3 DEF Hit
  <2> QED BY <2>1, TakeSound
<1>4. ASSUME NEW c \in Requests, EvictNext(c) PROVE Sound' /\ TypeOK' /\ slot' = slot
  BY <1>4, EvictNextSound
<1>5. ASSUME Memory PROVE Sound' /\ TypeOK' /\ slot' = slot
  BY <1>5, MemoryResultSound, RetryDeallocSound, RetryAllocsSound DEF Memory
<1> QED BY <1>1, <1>2, <1>3, <1>4, <1>5 DEF Server

-----------------------------------------------------------------------------
(* Who has a session: a step that gives none to a request.                 *)

Used == {"idle", "inflight", "gone"}
Left == {"aborting", "releasing", "done"}
Gives_up(c) == \E q \in Requests : /\ on[q] = c
                                   /\ q \in aborted \/ (Owner(q) /\ ~Owner(q)')
OwnStep ==
    /\ on' = on /\ aborted \subseteq aborted'
    /\ evictor' \in Requests => pc'[evictor'] = "evict"
    /\ \A r \in Requests :
          /\ Owner(r)' => Owner(r)
          /\ r \in callbacks' => pc'[r] = "running"
          /\ r \in aborted' <=> pc'[r] \in Left
          /\ pc'[r] = "ready" => session'[r].st = "prepared"
    /\ \A c \in Requests :
          /\ session'[c].st # "none" => session'[c].slot \in Slots
          /\ session[c].st \in Used => session'[c].st \in Used
          /\ session[c].st = "inflight" /\ session'[c].st # "inflight" => Gives_up(c)

LEMMA OwnKept == ASSUME TypeOK, OwnInv, OwnStep PROVE OwnInv'
<1>1. ASSUME NEW r \in Requests PROVE RequestInv(r)'
  <2>1. RequestInv(r) /\ on[r] \in Requests \cup {None} /\ on'[r] = on[r]
    BY DEF OwnInv, OwnStep, TypeOK, ServerTypeOK
  <2>2. on'[r] # None => session'[on'[r]].st \in Used
    BY <2>1 DEF RequestInv, OwnStep, Used
  <2>3. ASSUME Owner(r)' PROVE on'[r] \in Requests /\ (Alone(r)' \/ Shared(r)')
    <3>1. Owner(r) /\ on[r] \in Requests
      BY <2>1, <2>3 DEF OwnStep, RequestInv
    <3>2. CASE Shared(r)
      BY <3>1, <3>2, <2>1 DEF Shared, OwnStep
    <3>3. CASE Alone(r) /\ session'[on[r]].st = "inflight"
      BY <3>1, <3>3, <2>1 DEF Alone, OwnStep
    <3>4. CASE Alone(r) /\ session'[on[r]].st # "inflight"
      <4>1. Gives_up(on[r])
        BY <3>1, <3>4 DEF OwnStep, Alone
      <4>2. PICK q \in Requests : on[q] = on[r] /\ (q \in aborted \/ (Owner(q) /\ ~Owner(q)'))
        BY <4>1 DEF Gives_up
      <4>3. q # r => ~Owner(q)
        BY <3>4, <4>2 DEF Alone
      <4>4. q \in aborted
        BY <2>3, <4>2, <4>3
      <4>5. r \notin aborted
        BY <2>1, <3>1 DEF Owner, RequestInv
      <4> QED BY <2>1, <3>1, <4>2, <4>4, <4>5 DEF Shared, OwnStep
    <3> QED BY <2>1, <3>1, <3>2, <3>3, <3>4 DEF RequestInv
  <2> QED BY <2>2, <2>3 DEF RequestInv, OwnStep, Used, Left
<1> QED BY <1>1 DEF OwnInv, OwnStep

\* A step that touches no session, and moves requests that have none.
LEMMA EarlyOwn ==
    ASSUME TypeOK, OwnInv, UNCHANGED <<session, on, callbacks, aborted>>,
           evictor' \in Requests => pc'[evictor'] = "evict",
           \A q \in Requests : pc'[q] # pc[q] => /\ pc[q] \in Early
                                                 /\ pc'[q] \in Early \cup {"failed"}
    PROVE  OwnInv'
<1>1. ASSUME NEW r \in Requests
      PROVE  /\ Owner(r)' => Owner(r)
             /\ r \in callbacks' => pc'[r] = "running"
             /\ r \in aborted' <=> pc'[r] \in Left
             /\ pc'[r] = "ready" => session'[r].st = "prepared"
  BY DEF OwnInv, RequestInv, Owner, Early, Left
<1> QED BY <1>1, OwnKept DEF OwnStep, OwnInv

\* A request that leaves its session: it is refused, answered, or aborted.
LEMMA LeaveOwn ==
    ASSUME TypeOK, OwnInv, NEW r \in Requests, NEW p \in Points,
           session' = Cleared(on[r]) \/ UNCHANGED session,
           session' # session => Owner(r) \/ r \in aborted,
           pc[r] \notin Early, p \notin Early \cup {"ready", "acquired", "running"},
           pc' = [pc EXCEPT ![r] = p], UNCHANGED <<on, evictor>>,
           callbacks' = callbacks \ {r},
           r \in aborted' <=> p \in Left, aborted \subseteq aborted', aborted' \subseteq aborted \cup {r}
    PROVE  OwnInv'
<1>1. pc'[r] = p /\ \A q \in Requests \ {r} : pc'[q] = pc[q]
  BY DEF TypeOK, ServerTypeOK
<1>2. ASSUME NEW q \in Requests
      PROVE  /\ Owner(q)' => Owner(q)
             /\ q \in callbacks' => pc'[q] = "running"
             /\ q \in aborted' <=> pc'[q] \in Left
             /\ pc'[q] = "ready" => pc[q] = "ready"
  <2>1. RequestInv(q)
    BY DEF OwnInv
  <2>2. CASE q = r
    BY <1>1, <2>2 DEF Owner
  <2>3. CASE q # r
    BY <1>1, <2>1, <2>3 DEF Owner, RequestInv, Left
  <2> QED BY <2>2, <2>3
<1>3. ~Owner(r)'
  BY <1>1 DEF Owner
<1>4. ASSUME NEW c \in Requests
      PROVE  /\ session'[c].slot = session[c].slot
             /\ session'[c] = session[c] \/ (c = on[r] /\ session[c].st = "inflight" /\ session'[c].st = "idle")
  BY ClearedIs
<1>5. ASSUME NEW c \in Requests, session[c].st = "inflight", session'[c].st # "inflight"
      PROVE  Gives_up(c)
  <2>1. c = on[r] /\ session' # session
    BY <1>4, <1>5
  <2> QED BY <1>3, <2>1 DEF Gives_up
<1>6. evictor' \in Requests => pc'[evictor'] = "evict"
  BY <1>1 DEF OwnInv, Early
<1>7. ASSUME NEW c \in Requests
      PROVE  /\ session'[c].st # "none" => session'[c].slot \in Slots
             /\ session[c].st \in Used => session'[c].st \in Used
             /\ pc'[c] = "ready" => session'[c].st = "prepared"
  BY <1>2, <1>4 DEF OwnInv, RequestInv, Used
<1> QED BY <1>2, <1>5, <1>6, <1>7, OwnKept DEF OwnStep

\* A request that takes a session has it to itself, or an abort has cleared it.
LEMMA TakeOwn ==
    ASSUME TypeOK, OwnInv, NEW r \in Requests, NEW c \in Requests, Take(r, c),
           session[c].st \in {"idle", "prepared"}, session[c].st = "prepared" => c = r,
           pc[r] \in {"new", "ready"}
    PROVE  OwnInv'
<1>1. /\ pc' = [pc EXCEPT ![r] = "acquired"] /\ on' = [on EXCEPT ![r] = c]
      /\ session' = [session EXCEPT ![c].st = "inflight"]
      /\ UNCHANGED <<evictor, callbacks, aborted>>
  BY DEF Take, Acquire
<1>2. /\ pc'[r] = "acquired" /\ on'[r] = c
      /\ \A q \in Requests \ {r} : pc'[q] = pc[q] /\ on'[q] = on[q]
      /\ session'[c].st = "inflight" /\ session'[c].slot = session[c].slot
      /\ \A e \in Requests \ {c} : session'[e] = session[e]
  BY <1>1 DEF TypeOK, ServerTypeOK
<1>3. session[c].st \in {"idle", "prepared"} /\ r \notin aborted /\ r \notin callbacks
  BY DEF OwnInv, RequestInv
<1>4. ASSUME NEW q \in Requests \ {r}, Owner(q) PROVE on[q] = c => Shared(q)
  BY <1>3, <1>4 DEF OwnInv, RequestInv, Alone
<1>5. ASSUME NEW q \in Requests \ {r} PROVE RequestInv(q)'
  <2>1. RequestInv(q) /\ (Owner(q)' <=> Owner(q)) /\ on'[q] = on[q]
    BY <1>1, <1>2 DEF OwnInv, Owner
  <2>2. Shared(q) => Shared(q)'
    BY <1>1, <1>2, <1>3 DEF Shared, TypeOK, ServerTypeOK
  <2>3. ASSUME Owner(q), Alone(q) PROVE Alone(q)'
    <3>1. on[q] \in Requests /\ on[q] # c /\ session'[on'[q]].st = "inflight"
      BY <1>2, <1>3, <2>1, <2>3 DEF Alone, RequestInv
    <3>2. ASSUME NEW e \in Requests \ {q}, Owner(e)' PROVE on'[e] # on'[q]
      BY <1>1, <1>2, <2>1, <2>3, <3>1, <3>2 DEF Alone, Owner
    <3> QED BY <3>1, <3>2 DEF Alone
  <2>4. on'[q] # None => session'[on'[q]].st \in Used
    BY <1>2, <2>1 DEF RequestInv, TypeOK, ServerTypeOK, Used
  <2>5. pc'[q] = "ready" => session'[q].st = "prepared"
    BY <1>2, <2>1 DEF RequestInv
  <2> QED BY <1>1, <1>2, <2>1, <2>2, <2>3, <2>4, <2>5 DEF RequestInv, Used
<1>6. RequestInv(r)'
  <2>1. CASE \E q \in Requests \ {r} : Owner(q) /\ on[q] = c
    <3>1. PICK q \in Requests \ {r} : Owner(q) /\ on[q] = c
      BY <2>1
    <3>2. Shared(q)
      BY <1>4, <3>1
    <3>3. Shared(r)'
      BY <1>1, <1>2, <1>3, <3>1, <3>2 DEF Shared, TypeOK, ServerTypeOK
    <3> QED BY <1>1, <1>2, <1>3, <3>3 DEF RequestInv, Used
  <2>2. CASE \A q \in Requests \ {r} : ~(Owner(q) /\ on[q] = c)
    <3>1. Alone(r)'
      BY <1>1, <1>2, <2>2 DEF Alone, Owner
    <3> QED BY <1>1, <1>2, <1>3, <3>1 DEF RequestInv, Used
  <2> QED BY <2>1, <2>2
<1>7. evictor' \in Requests => pc'[evictor'] = "evict"
  BY <1>1, <1>2 DEF OwnInv
<1> QED BY <1>1, <1>2, <1>3, <1>5, <1>6, <1>7 DEF OwnInv

\* handleMemoryResult: a new session for a request that had none.
LEMMA ResultOwn == ASSUME TypeOK, Sound, OwnInv, NEW m \in memRes, MemoryResult(m) PROVE OwnInv'
<1>1. /\ m.slot # None =>
            /\ session' = [session EXCEPT ![m.task] = [st |-> "prepared", slot |-> m.slot]]
            /\ pc' = [pc EXCEPT ![m.task] = "ready"]
      /\ m.slot = None => Again(m.task) /\ UNCHANGED session
      /\ UNCHANGED <<evictor, on, callbacks, aborted>>
  BY DEF MemoryResult
<1>2. m.task \in Requests /\ m.slot \in Slots \cup {None} /\ m = [task |-> m.task, slot |-> m.slot]
  BY DEF TypeOK, RunnerTypeOK
<1>3. Asks("result", m.task)
  BY <1>2 DEF Asks
<1>4. pc[m.task] = "waiting" /\ session[m.task].st = "none"
  BY <1>2, <1>3 DEF Sound, AskInv, Stages, Early
<1>5. evictor \in Requests => evictor # m.task
  BY <1>4 DEF OwnInv
<1>6. CASE m.slot = None
  <2>1. /\ pc'[m.task] \in {"failed", "retry"}
        /\ \A q \in Requests \ {m.task} : pc'[q] = pc[q]
    BY <1>1, <1>2, <1>6, AgainType
  <2> QED BY <1>1, <1>2, <1>4, <1>5, <1>6, <2>1, EarlyOwn DEF OwnInv, Early
<1>7. CASE m.slot # None
  <2>1. /\ pc'[m.task] = "ready" /\ \A q \in Requests \ {m.task} : pc'[q] = pc[q]
        /\ session'[m.task] = [st |-> "prepared", slot |-> m.slot]
        /\ \A e \in Requests \ {m.task} : session'[e] = session[e]
    BY <1>1, <1>2, <1>7 DEF TypeOK, ServerTypeOK
  <2>2. ASSUME NEW q \in Requests
        PROVE  /\ Owner(q)' => Owner(q)
               /\ q \in callbacks' => pc'[q] = "running"
               /\ q \in aborted' <=> pc'[q] \in Left
               /\ pc'[q] = "ready" => session'[q].st = "prepared"
    <3>1. RequestInv(q)
      BY DEF OwnInv
    <3>2. CASE q = m.task
      BY <1>1, <1>4, <2>1, <3>1, <3>2 DEF Owner, RequestInv, Left
    <3>3. CASE q # m.task
      BY <1>1, <2>1, <3>1, <3>3 DEF Owner, RequestInv, Left
    <3> QED BY <3>2, <3>3
  <2>3. ASSUME NEW e \in Requests
        PROVE  /\ session'[e].st # "none" => session'[e].slot \in Slots
               /\ session[e].st \in Used => session'[e].st \in Used
               /\ session[e].st = "inflight" => session'[e].st = "inflight"
    BY <1>2, <1>4, <1>7, <2>1 DEF OwnInv, Used
  <2>4. evictor' \in Requests => pc'[evictor'] = "evict"
    BY <1>1, <1>5, <2>1 DEF OwnInv
  <2> QED BY <1>1, <2>2, <2>3, <2>4, OwnKept DEF OwnStep
<1> QED BY <1>6, <1>7

\* evictOldSessions takes only an idle session, that no request expects tokens of.
LEMMA EvictOwn == ASSUME TypeOK, Sound, OwnInv, NEW c \in Requests, EvictNext(c) PROVE OwnInv'
<1>1. /\ IF session[c].st = "idle"
         THEN session' = [session EXCEPT ![c].st = "gone"] ELSE UNCHANGED session
      /\ UNCHANGED <<on, callbacks, aborted>>
      /\ \/ /\ evictor' = None
            /\ pc' = [r \in Requests |->
                         IF r = evictor \/ (evictor = Reader /\ pc[r] = "due")
                         THEN "send" ELSE pc[r]]
         \/ UNCHANGED <<evictor, pc>>
  BY DEF EvictNext, StillIdle
<1>2. \A q \in Requests : pc'[q] # pc[q] => pc[q] \in {"evict", "due"} /\ pc'[q] = "send"
  BY <1>1 DEF OwnInv
<1>3. evictor' \in Requests => pc'[evictor'] = "evict"
  BY <1>1, RunnerAssumption DEF OwnInv
<1>4. ASSUME NEW e \in Requests
      PROVE  /\ session'[e].slot = session[e].slot
             /\ session'[e] = session[e] \/ (session[e].st = "idle" /\ session'[e].st = "gone")
  BY <1>1 DEF TypeOK, ServerTypeOK
<1>5. ASSUME NEW e \in Requests
      PROVE  /\ session'[e].st # "none" => session'[e].slot \in Slots
             /\ session[e].st \in Used => session'[e].st \in Used
             /\ session[e].st = "inflight" => session'[e].st = "inflight"
             /\ session[e].st = "prepared" => session'[e].st = "prepared"
  BY <1>4 DEF OwnInv, Used
<1>6. ASSUME NEW q \in Requests
      PROVE  /\ Owner(q)' => Owner(q)
             /\ q \in callbacks' => pc'[q] = "running"
             /\ q \in aborted' <=> pc'[q] \in Left
             /\ pc'[q] = "ready" => session'[q].st = "prepared"
  BY <1>1, <1>2, <1>5 DEF OwnInv, RequestInv, Owner, Left
<1> QED BY <1>1, <1>3, <1>5, <1>6, OwnKept DEF OwnStep

\* A step of the server keeps who has a session.
LEMMA ServerOwn == ASSUME TypeOK, Sound, OwnInv, Server PROVE OwnInv'
<1>1. ASSUME NEW r \in Requests, Loop(r) \/ Consume(r) \/ Disconnect(r) PROVE OwnInv'
  <2>0. RequestInv(r) /\ (evictor \in Requests => pc[evictor] = "evict")
    BY DEF OwnInv
  <2>1. CASE SendAlloc(r)
    <3>1. /\ pc[r] = "send" /\ pc'[r] \in {"failed", "retry", "waiting"}
          /\ \A q \in Requests \ {r} : pc'[q] = pc[q]
      <4>1. CASE Again(r)
        BY <2>1, <4>1, AgainType DEF SendAlloc
      <4>2. CASE pc' = [pc EXCEPT ![r] = "waiting"]
        BY <2>1, <4>2 DEF SendAlloc, TypeOK, ServerTypeOK
      <4> QED BY <2>1, <4>1, <4>2 DEF SendAlloc
    <3> QED BY <2>0, <2>1, <3>1, EarlyOwn DEF SendAlloc, sessionVars, Early
  <2>2. CASE Resolve(r)
    <3>1. Take(r, r) /\ session[r].st = "prepared" /\ pc[r] = "ready"
      BY <2>0, <2>2 DEF Resolve, RequestInv
    <3> QED BY <3>1, TakeOwn
  <2>3. CASE Refuse(r)
    <3>1. Owner(r) /\ r \notin callbacks /\ r \notin aborted
      BY <2>0, <2>3 DEF Owner, RequestInv, Refuse
    <3> QED BY <2>3, <3>1, LeaveOwn DEF Refuse, Points, Left, Early
  <2>4. CASE ReleaseAgain(r)
    <3>1. r \in aborted /\ r \notin callbacks
      BY <2>0, <2>4 DEF RequestInv, ReleaseAgain
    <3> QED BY <2>4, <3>1, LeaveOwn DEF ReleaseAgain, Points, Left, Early
  <2>5. CASE PushCancel(r)
    <3>1. r \in aborted /\ r \notin callbacks
      BY <2>0, <2>5 DEF RequestInv, PushCancel
    <3> QED BY <2>5, <3>1, LeaveOwn DEF PushCancel, sessionVars, Points, Left, Early
  <2>6. CASE Consume(r)
    <3>1. CASE r \in callbacks
      <4>1. Owner(r) /\ pc[r] = "running" /\ r \notin aborted
        BY <2>0, <3>1 DEF Owner, RequestInv
      <4> QED BY <2>6, <3>1, <4>1, LeaveOwn DEF Consume, Points, Left, Early
    <3>2. CASE r \notin callbacks
      <4>1. UNCHANGED <<session, on, pc, aborted, evictor>> /\ callbacks' = callbacks
        BY <2>6, <3>2 DEF Consume
      <4> QED BY <4>1, EarlyOwn DEF OwnInv
    <3> QED BY <3>1, <3>2
  <2>7. CASE Disconnect(r)
    <3>1. r \in callbacks => Owner(r)
      BY DEF Owner
    <3> QED BY <2>7, <3>1, LeaveOwn DEF Disconnect, Points, Left, Early
  <2>8. CASE Produce(r)
    <3>1. /\ pc[r] = "acquired" /\ pc' = [pc EXCEPT ![r] = "running"]
          /\ callbacks' = callbacks \cup {r}
          /\ UNCHANGED <<session, evictor, on, aborted>>
      BY <2>8 DEF Produce, sessionVars
    <3>2. pc'[r] = "running" /\ \A q \in Requests \ {r} : pc'[q] = pc[q]
      BY <3>1 DEF TypeOK, ServerTypeOK
    <3>3. ASSUME NEW q \in Requests
          PROVE  /\ Owner(q)' => Owner(q)
                 /\ q \in callbacks' => pc'[q] = "running"
                 /\ q \in aborted' <=> pc'[q] \in Left
                 /\ pc'[q] = "ready" => session'[q].st = "prepared"
      <4>1. RequestInv(q)
        BY DEF OwnInv
      <4>2. CASE q = r
        BY <3>1, <3>2, <4>1, <4>2 DEF Owner, RequestInv, Left
      <4>3. CASE q # r
        BY <3>1, <3>2, <4>1, <4>3 DEF Owner, RequestInv, Left
      <4> QED BY <4>2, <4>3
    <3>4. evictor' \in Requests => pc'[evictor'] = "evict"
      BY <2>0, <3>1, <3>2
    <3> QED BY <3>1, <3>3, <3>4, OwnKept DEF OwnStep, OwnInv
  <2> QED BY <1>1, <2>1, <2>2, <2>3, <2>4, <2>5, <2>6, <2>7, <2>8 DEF Loop
<1>2. ASSUME NEW r \in Requests, Miss(r) PROVE OwnInv'
  <2>1. /\ pc[r] = "new" /\ UNCHANGED <<session, on, callbacks, aborted>>
        /\ \/ evictor' = r /\ pc' = [pc EXCEPT ![r] = "evict"]
           \/ evictor' = evictor /\ pc' = [pc EXCEPT ![r] = "send"]
    BY <1>2 DEF Miss, Evicts, NoEviction
  <2>2. \A q \in Requests : pc'[q] # pc[q] => q = r /\ pc'[q] \in {"evict", "send"}
    BY <2>1 DEF TypeOK, ServerTypeOK
  <2>3. evictor' \in Requests => pc'[evictor'] = "evict"
    BY <2>1 DEF TypeOK, ServerTypeOK, OwnInv
  <2> QED BY <2>1, <2>2, <2>3, EarlyOwn DEF Early
<1>3. ASSUME NEW r \in Requests, NEW c \in Requests, Hit(r, c) PROVE OwnInv'
  <2>1. Take(r, c) /\ session[c].st = "idle" /\ pc[r] = "new"
    BY <1>3 DEF Hit
  <2> QED BY <2>1, TakeOwn
<1>4. ASSUME NEW c \in Requests, EvictNext(c) PROVE OwnInv'
  BY <1>4, EvictOwn
<1>5. ASSUME NEW s \in Slots, RetryDealloc(s) PROVE OwnInv'
  BY <1>5, EarlyOwn DEF RetryDealloc, requestVars, OwnInv
<1>6. ASSUME NEW R \in SUBSET Requests, RetryAllocs(R) PROVE OwnInv'
  <2>1. /\ R \subseteq Retrying /\ UNCHANGED <<session, on, callbacks, aborted>>
        /\ evictor' \in {evictor, Reader}
        /\ \E p \in {"due", "send"} : pc' = [r \in Requests |-> IF r \in R THEN p ELSE pc[r]]
    BY <1>6 DEF RetryAllocs, Evicts, NoEviction
  <2>2. \A q \in Requests : pc'[q] # pc[q] => pc[q] = "retry" /\ pc'[q] \in {"due", "send"}
    BY <2>1 DEF Retrying
  <2>3. evictor' \in Requests => pc'[evictor'] = "evict"
    BY <2>1, <2>2, SessionAssumption DEF Reader, OwnInv
  <2> QED BY <2>1, <2>2, <2>3, EarlyOwn DEF Early
<1> QED BY <1>1, <1>2, <1>3, <1>4, <1>5, <1>6, ResultOwn DEF Server, Memory

-----------------------------------------------------------------------------
(* Until a client leaves, no sequence meets a slot that is not its own, and*)
(* nothing is thrown away.                                                 *)

Calm == aborted = {} /\ CalmInv
Tied(r, s) == Queued(r, s) \/ HeldTask(r, s) \/ Runs(r, s)

\* A request whose sequence is with the worker has its session in flight, and
\* the session's slot is not on its way back.
LEMMA TiedSession ==
    ASSUME TypeOK, Sound, OwnInv, Calm, NEW r \in Requests, NEW s \in Slots, Tied(r, s)
    PROVE  /\ r \in callbacks /\ on[r] \in SessionsAt(s) /\ At("session", s)
           /\ \A k \in Places \ {"session"} : ~At(k, s)
           /\ slot[s].st \in {"IDLE", "RUNNING"}
           /\ \A q \in Requests : Tied(q, s) => q = r
<1>1. ASSUME NEW q \in Requests, Tied(q, s)
      PROVE  /\ q \in callbacks /\ session[on[q]].slot = s /\ on[q] \in Requests
             /\ session[on[q]].st = "inflight"
             /\ \A e \in Requests \ {q} : Owner(e) => on[e] # on[q]
  <2>1. WorkInv(q) /\ RequestInv(q)
    BY DEF Calm, CalmInv, OwnInv
  <2>2. \E k \in Ways : Way(k, q)
    <3>1. Queued(q, s) => Way("queued", q)
      BY DEF Way
    <3>2. HeldTask(q, s) => Way("held", q)
      BY DEF Way
    <3>3. Runs(q, s) => Way("runs", q)
      BY DEF Way
    <3> QED BY <1>1, <3>1, <3>2, <3>3 DEF Tied, Ways
  <2>3. q \in callbacks /\ session[on[q]].slot = s
    BY <1>1, <2>1, <2>2 DEF WorkInv, Tied
  <2>4. Owner(q) /\ ~Shared(q)
    BY <2>3 DEF Owner, Shared, Calm
  <2> QED BY <2>1, <2>3, <2>4 DEF RequestInv, Alone
<1>2. \A q \in Requests : Tied(q, s) => on[q] \in SessionsAt(s)
  BY <1>1 DEF SessionsAt, Live
<1>3. HomeInv(s) /\ slot[s].st # "STOPPING"
  BY DEF Sound, Calm, CalmInv
<1>4. At("session", s)
  BY <1>2 DEF At
<1>5. \A q \in Requests : Tied(q, s) => q = r
  <2>1. \A q \in Requests : Tied(q, s) => on[q] = on[r]
    BY <1>2, <1>3 DEF HomeInv
  <2> QED BY <1>1, <2>1 DEF Owner
<1> QED BY <1>1, <1>2, <1>3, <1>4, <1>5 DEF HomeInv, Places, Usable

\* What becomes of the work of a request in a step that leaves the request's
\* session: it stays where it is, goes from one place to another, or is done.
WorkSame(r) ==
    /\ r \in callbacks =>
          /\ r \in callbacks' /\ on'[r] = on[r]
          /\ session'[on[r]].slot = session[on[r]].slot
    /\ \A k \in Ways : Way(k, r)' => Way(k, r)
    /\ \A s \in Slots : Tied(r, s)' => Tied(r, s)
WorkAt(r, l) ==
    /\ \E k \in Ways : Way(k, r)
    /\ on'[r] = on[r] /\ r \in callbacks' /\ session'[on[r]].slot = session[on[r]].slot
    /\ \A j \in Ways \ {l} : ~Way(j, r)'
    /\ \A s \in Slots : Tied(r, s)' => Tied(r, s)

LEMMA WorkKept == ASSUME NEW r \in Requests, WorkInv(r), WorkSame(r) PROVE WorkInv(r)'
<1>1. \A s \in Slots : Tied(r, s) => \E k \in Ways : Way(k, r)
  <2>1. ASSUME NEW s \in Slots PROVE /\ Queued(r, s) => Way("queued", r)
                                     /\ HeldTask(r, s) => Way("held", r)
                                     /\ Runs(r, s) => Way("runs", r)
    BY DEF Way
  <2> QED BY <2>1 DEF Tied, Ways
<1>2. ASSUME NEW s \in Slots, Tied(r, s)' PROVE session'[on'[r]].slot = s
  BY <1>1, <1>2 DEF WorkInv, WorkSame, Tied
<1>3. /\ \A k, l \in Ways : Way(k, r)' /\ Way(l, r)' => k = l
      /\ \A k \in Ways : Way(k, r)' => r \in callbacks'
  BY DEF WorkInv, WorkSame
<1> QED BY <1>2, <1>3 DEF WorkInv, Tied

LEMMA WorkMoved ==
    ASSUME NEW r \in Requests, NEW l \in Ways, WorkInv(r), WorkAt(r, l)
    PROVE  WorkInv(r)'
<1>1. \A j \in Ways : Way(j, r)' => j = l
  BY DEF WorkInv, WorkAt
<1>2. \A s \in Slots : Tied(r, s)' => session'[on'[r]].slot = s
  BY DEF WorkInv, WorkAt, Tied
<1> QED BY <1>1, <1>2 DEF WorkInv, WorkAt, Tied

\* The worker's step changes no work: a slot that changes is not RUNNING after it.
LEMMA CalmQuiet ==
    ASSUME TypeOK, Calm, UNCHANGED <<sessionVars, requestVars>>,
           UNCHANGED <<pendTask, pendCancel, taskQ, cancelQ, tokens, lost>>,
           \A s \in Slots : slot'[s] = slot[s] \/ slot'[s].st \in {"IDLE", "FREE", "EVICTING"}
    PROVE  CalmInv'
<1>1. ASSUME NEW r \in Requests PROVE WorkInv(r)'
  <2>1. ASSUME NEW s \in Slots
        PROVE  /\ Queued(r, s)' => Queued(r, s)
               /\ HeldTask(r, s)' => HeldTask(r, s)
               /\ Runs(r, s)' => Runs(r, s)
    <3>1. Runs(r, s)' => Runs(r, s)
      BY DEF Runs
    <3> QED BY <3>1 DEF Queued, HeldTask
  <2>2. WorkSame(r)
    BY <2>1 DEF WorkSame, Way, Tied, sessionVars, requestVars
  <2> QED BY <2>2, WorkKept DEF Calm, CalmInv
<1> QED BY <1>1 DEF Calm, CalmInv

\* The last token of a run: the work is with the token now.
LEMMA CalmOutput ==
    ASSUME TypeOK, Sound, OwnInv, Calm, UNCHANGED <<sessionVars, requestVars>>,
           NEW s \in Slots, HandleOutput(s)
    PROVE  CalmInv'
<1>1. /\ IF slot[s].st = "RUNNING"
         THEN tokens' = tokens \cup {slot[s].task} /\ slot' = [slot EXCEPT ![s] = Idle]
         ELSE UNCHANGED <<tokens, slot>>
      /\ UNCHANGED <<pendTask, pendCancel, taskQ, cancelQ, lost>>
  BY DEF HandleOutput, Hears
<1>2. CASE slot[s].st # "RUNNING"
  BY <1>1, <1>2, CalmQuiet
<1>3. CASE slot[s].st = "RUNNING"
  <2>1. PICK t \in Requests : t = slot[s].task
    BY <1>3, RunsARequest DEF Sound
  <2>2. /\ tokens' = tokens \cup {t} /\ slot'[s].st = "IDLE"
        /\ \A x \in Slots \ {s} : slot'[x] = slot[x]
    BY <1>1, <1>3, <2>1, ContextKinds DEF TypeOK, RunnerTypeOK
  <2>3. ASSUME NEW r \in Requests, NEW x \in Slots
        PROVE  /\ Queued(r, x)' => Queued(r, x)
               /\ HeldTask(r, x)' => HeldTask(r, x)
               /\ Runs(r, x)' => Runs(r, x) /\ x # s
    <3>1. Runs(r, x)' => Runs(r, x) /\ x # s
      BY <2>2 DEF Runs
    <3> QED BY <1>1, <3>1 DEF Queued, HeldTask
  <2>4. Runs(t, s) /\ Way("runs", t) /\ WorkInv(t)
    BY <1>3, <2>1 DEF Runs, Way, Calm, CalmInv
  <2>5. WorkInv(t)'
    <3>1. ~Way("runs", t)'
      <4>1. \A x \in Slots : Runs(t, x) => x = s
        BY <2>4 DEF WorkInv
      <4> QED BY <2>3, <4>1 DEF Way
    <3>2. \A k \in {"queued", "held"} : ~Way(k, t)'
      <4>1. \A k \in {"queued", "held"} : ~Way(k, t)
        BY <2>4 DEF WorkInv, Ways
      <4> QED BY <2>3, <4>1 DEF Way
    <3>3. WorkAt(t, "token")
      BY <2>3, <2>4, <3>1, <3>2 DEF WorkAt, WorkInv, Ways, Tied, sessionVars, requestVars
    <3> QED BY <2>4, <3>3, WorkMoved DEF Ways
  <2>6. ASSUME NEW r \in Requests, r # t PROVE WorkInv(r)'
    <3>1. WorkSame(r)
      BY <2>2, <2>3, <2>6 DEF WorkSame, Way, Tied, sessionVars, requestVars
    <3> QED BY <3>1, WorkKept DEF Calm, CalmInv
  <2>7. \A x \in Slots : slot'[x].st # "STOPPING"
    BY <2>2 DEF Calm, CalmInv
  <2> QED BY <1>1, <2>5, <2>6, <2>7 DEF Calm, CalmInv
<1> QED BY <1>2, <1>3

\* getRequest: the held-back sequence, or the next of the queue.
LEMMA TaskTaken ==
    ASSUME TypeOK, Calm, pendTask \o taskQ # <<>>,
           taskQ' = IF pendTask = <<>> /\ taskQ # <<>> THEN Tail(taskQ) ELSE taskQ,
           NEW q \in Work, q = Head(pendTask \o taskQ)
    PROVE  /\ q \in Range(pendTask) \cup Range(taskQ)
           /\ Range(pendTask) \subseteq {q} /\ Range(taskQ)' \subseteq Range(taskQ)
           /\ \A e \in Range(taskQ)' : e.task # q.task
           /\ \A i, j \in DOMAIN taskQ' : taskQ'[i].task = taskQ'[j].task => i = j
<1>1. /\ pendTask \in Seq(Work) /\ Len(pendTask) <= 1 /\ taskQ \in Seq(Work)
      /\ \A i, j \in DOMAIN taskQ : taskQ[i].task = taskQ[j].task => i = j
  BY DEF TypeOK, RunnerTypeOK, Calm, CalmInv
<1>2. CASE pendTask # <<>>
  <2>1. Range(pendTask) = {q} /\ taskQ' = taskQ
    BY <1>1, <1>2, FirstOf, OnePlace
  <2>2. HeldTask(q.task, q.slot)
    <3>1. q = [task |-> q.task, slot |-> q.slot]
      BY DEF Work
    <3> QED BY <2>1, <3>1 DEF HeldTask
  <2>3. Way("held", q.task) /\ q.task \in Requests /\ q.slot \in Slots
    BY <2>2 DEF Way, Work
  <2>4. ~Way("queued", q.task)
    BY <2>3 DEF Calm, CalmInv, WorkInv, Ways
  <2>5. ASSUME NEW e \in Range(taskQ) PROVE e.task # q.task
    <3>1. e \in Work
      BY <1>1 DEF Range
    <3>2. e = [task |-> e.task, slot |-> e.slot] /\ e.slot \in Slots
      BY <3>1 DEF Work
    <3> QED BY <2>4, <3>2 DEF Way, Queued
  <2> QED BY <1>1, <2>1, <2>5
<1>3. CASE pendTask = <<>>
  <2>1. taskQ # <<>> /\ q = Head(taskQ) /\ taskQ' = Tail(taskQ) /\ Range(pendTask) = {}
    BY <1>1, <1>3, FirstOf, OnePlace
  <2>2. /\ q \in Range(taskQ) /\ q = taskQ[1] /\ Len(taskQ) \in Nat \ {0}
        /\ DOMAIN Tail(taskQ) = 1..(Len(taskQ) - 1)
        /\ \A i \in 1..(Len(taskQ) - 1) : Tail(taskQ)[i] = taskQ[i + 1]
        /\ Range(Tail(taskQ)) \subseteq Range(taskQ)
    BY <1>1, <2>1, Popped
  <2>3. DOMAIN taskQ = 1..Len(taskQ)
    BY <1>1
  <2> HIDE <1>3, <2>1
  <2>4. \A e \in Range(Tail(taskQ)) : e.task # q.task
    <3>1. ASSUME NEW i \in 1..(Len(taskQ) - 1) PROVE taskQ[i + 1].task # taskQ[1].task
      <4>1. i + 1 \in DOMAIN taskQ /\ 1 \in DOMAIN taskQ /\ i + 1 # 1
        BY <2>2, <2>3
      <4> QED BY <1>1, <4>1
    <3>2. ASSUME NEW e \in Range(Tail(taskQ))
          PROVE  \E i \in 1..(Len(taskQ) - 1) : e = taskQ[i + 1]
      BY <2>2 DEF Range
    <3> QED BY <2>2, <3>1, <3>2
  <2>5. \A i, j \in DOMAIN Tail(taskQ) : Tail(taskQ)[i].task = Tail(taskQ)[j].task => i = j
    BY <1>1, <2>2, <2>3
  <2> QED BY <2>1, <2>2, <2>4, <2>5
<1> QED BY <1>2, <1>3

\* handleRequest finds the slot of the sequence IDLE.
LEMMA CalmRequest ==
    ASSUME TypeOK, Sound, OwnInv, Calm, UNCHANGED <<sessionVars, requestVars>>, HandleRequest
    PROVE  CalmInv'
<1>1. /\ \/ pendTask \o taskQ = <<>> /\ UNCHANGED <<slot, pendTask, pendMem, tokens, schedQ, lost>>
         \/ pendTask \o taskQ # <<>> /\ Route(Head(pendTask \o taskQ))
      /\ taskQ' = IF pendTask = <<>> /\ taskQ # <<>> THEN Tail(taskQ) ELSE taskQ
      /\ UNCHANGED <<pendCancel, cancelQ>>
  BY DEF HandleRequest
<1>2. /\ pendTask \in Seq(Work) /\ Len(pendTask) <= 1 /\ taskQ \in Seq(Work)
  BY DEF TypeOK, RunnerTypeOK
<1>3. CASE pendTask \o taskQ = <<>>
  <2>1. pendTask = <<>> /\ taskQ = <<>>
    BY <1>2, <1>3, FirstOf
  <2> QED BY <1>1, <1>3, <2>1, CalmQuiet
<1>4. CASE pendTask \o taskQ # <<>>
  <2>1. PICK q \in Work : q = Head(pendTask \o taskQ)
    BY <1>2, <1>4, FirstOf
  <2>2. PICK t \in Requests, s \in Slots : q.task = t /\ q.slot = s /\ q = [task |-> t, slot |-> s]
    BY DEF Work
  <2>3. /\ q \in Range(pendTask) \cup Range(taskQ)
        /\ Range(pendTask) \subseteq {q} /\ Range(taskQ)' \subseteq Range(taskQ)
        /\ \A e \in Range(taskQ)' : e.task # t
        /\ \A i, j \in DOMAIN taskQ' : taskQ'[i].task = taskQ'[j].task => i = j
    BY <1>1, <1>4, <2>1, <2>2, TaskTaken
  <2>4. Route(q)
    BY <1>1, <1>4, <2>1
  <2>5. Queued(t, s) \/ HeldTask(t, s)
    BY <2>2, <2>3 DEF Queued, HeldTask
  <2>6. WorkInv(t) /\ t \in callbacks /\ slot[s].st \in {"IDLE", "RUNNING"}
        /\ \A r \in Requests : Tied(r, s) => r = t
    BY <2>5, TiedSession DEF Tied, Calm, CalmInv
  <2>7. \E k \in {"queued", "held"} : Way(k, t)
    BY <2>5 DEF Way
  <2>8. ~Way("runs", t) /\ ~Way("token", t)
    BY <2>6, <2>7 DEF WorkInv, Ways
  <2>9. slot[s].st = "IDLE"
    <3>1. ASSUME slot[s].st = "RUNNING" PROVE FALSE
      <4>1. PICK r \in Requests : Runs(r, s)
        BY <3>1, RunsARequest DEF Sound, Runs
      <4>2. r = t
        BY <2>6, <4>1 DEF Tied
      <4> QED BY <2>8, <4>1, <4>2 DEF Way
    <3> QED BY <2>6, <3>1
  <2>10. Run(s, t, <<>>) /\ UNCHANGED tokens
    BY <2>2, <2>4, <2>9 DEF Route
  <2>11. Tasks(<<>>) = {}
    BY DEF Tasks
  <2>12. /\ lost' = lost
         /\ \A x \in Slots \ {s} : slot'[x] = slot[x]
         /\ \/ slot'[s].st = "RUNNING" /\ slot'[s].task = t /\ Range(pendTask)' = {}
            \/ slot'[s].st = "IDLE" /\ Range(pendTask)' = {q}
    <3>1. Range(<<>>) = {}
      BY Nothing
    <3>2. Range(<<q>>) = {q}
      BY Singly
    <3>3. Room => lost' = lost /\ slot' = [slot EXCEPT ![s] = Running(t)] /\ pendTask' = <<>>
      BY <2>10 DEF Run
    <3>4. ~Room => lost' = lost /\ slot' = [slot EXCEPT ![s] = Idle] /\ pendTask' = <<q>>
      BY <2>2, <2>10, <2>11 DEF Run
    <3>5. slot \in [Slots -> Contexts]
      BY DEF TypeOK, RunnerTypeOK
    <3>6. Running(t).st = "RUNNING" /\ Running(t).task = t /\ Idle.st = "IDLE"
      BY ContextKinds
    <3>7. CASE Room
      BY <3>1, <3>3, <3>5, <3>6, <3>7
    <3>8. CASE ~Room
      BY <3>2, <3>4, <3>5, <3>6, <3>8
    <3> QED BY <3>7, <3>8
  <2>13. ASSUME NEW r \in Requests, NEW x \in Slots
         PROVE  /\ Queued(r, x)' => Queued(r, x) /\ r # t
                /\ HeldTask(r, x)' => r = t /\ x = s
                /\ Runs(r, x)' => (Runs(r, x) /\ x # s) \/ (r = t /\ x = s)
    <3>1. Queued(r, x)' => Queued(r, x) /\ r # t
      BY <2>3 DEF Queued
    <3>2. HeldTask(r, x)' => r = t /\ x = s
      BY <2>2, <2>12 DEF HeldTask
    <3>3. Runs(r, x)' => (Runs(r, x) /\ x # s) \/ (r = t /\ x = s)
      <4>1. CASE x = s
        BY <2>12, <4>1 DEF Runs
      <4>2. CASE x # s
        BY <2>12, <4>2 DEF Runs
      <4> QED BY <4>1, <4>2
    <3> QED BY <3>1, <3>2, <3>3
  <2>14. \/ /\ \A x \in Slots : ~Runs(t, x)'
         \/ /\ \A x \in Slots : ~HeldTask(t, x)'
    <3>1. \A x \in Slots : ~Runs(t, x)
      BY <2>8 DEF Way
    <3>2. CASE slot'[s].st = "IDLE"
      <4>1. ~Runs(t, s)'
        BY <3>2 DEF Runs
      <4>2. \A x \in Slots \ {s} : ~Runs(t, x)'
        BY <2>12, <3>1 DEF Runs
      <4> QED BY <4>1, <4>2
    <3>3. CASE Range(pendTask)' = {}
      BY <3>3 DEF HeldTask
    <3> QED BY <2>12, <3>2, <3>3
  <2>15. WorkInv(t)'
    <3>1. ~Way("queued", t)' /\ ~Way("token", t)'
      BY <2>8, <2>10, <2>13 DEF Way
    <3>2. PICK l \in {"held", "runs"} : \A j \in Ways \ {l} : ~Way(j, t)'
      BY <2>14, <3>1 DEF Way, Ways
    <3>3. \A x \in Slots : Tied(t, x)' => Tied(t, x)
      BY <2>5, <2>13 DEF Tied
    <3>4. WorkAt(t, l)
      BY <2>6, <2>7, <3>2, <3>3 DEF WorkAt, Ways, sessionVars, requestVars
    <3> QED BY <2>6, <3>4, WorkMoved DEF Ways
  <2>16. ASSUME NEW r \in Requests, r # t PROVE WorkInv(r)'
    <3>1. WorkSame(r)
      BY <2>10, <2>13, <2>16 DEF WorkSame, Way, Tied, sessionVars, requestVars
    <3> QED BY <3>1, WorkKept DEF Calm, CalmInv
  <2>17. \A x \in Slots : slot'[x].st # "STOPPING"
    BY <2>12 DEF Calm, CalmInv
  <2>18. \A r \in Requests : WorkInv(r)'
    BY <2>15, <2>16
  <2>19. lost' = {} /\ cancelQ' = {} /\ pendCancel' = None
    BY <1>1, <2>12 DEF Calm, CalmInv
  <2>20. \A i, j \in DOMAIN taskQ' : taskQ'[i].task = taskQ'[j].task => i = j
    BY <2>3
  <2> QED BY <2>17, <2>18, <2>19, <2>20 DEF CalmInv
<1> QED BY <1>3, <1>4

\* An answer comes for a slot that is free, or being evicted.
LEMMA CalmAnswer ==
    ASSUME TypeOK, Sound, OwnInv, Calm, UNCHANGED <<sessionVars, requestVars>>, HandleAnswer
    PROVE  CalmInv'
<1> DEFINE a == Head(answers)
<1>1. /\ answers # <<>> /\ answers' = Tail(answers)
      /\ \/ a.type = "ALLOCATE" /\ AllocAck(a)
         \/ a.type = "EVICT" /\ EvictAck(a)
         \/ a.type = "STOP" /\ StopAck(a)
         \/ UNCHANGED <<slotVars, memRes, tokens, schedQ, lost>>
      /\ UNCHANGED <<pendCancel, taskQ, cancelQ>>
  BY DEF HandleAnswer
<1>2. a \in Acks
  BY <1>1, Popped DEF TypeOK, RunnerTypeOK
<1> HIDE DEF a
<1>3. slot \in [Slots -> Contexts]
  BY DEF TypeOK, RunnerTypeOK
<1>4. CASE a.type = "ALLOCATE" /\ AllocAck(a)
  <2>1. /\ UNCHANGED <<pendTask, tokens, lost>>
        /\ slot' = slot \/ slot' = [slot EXCEPT ![a.slot].st = "IDLE"]
    BY <1>4 DEF AllocAck
  <2>2. \A s \in Slots : slot'[s] = slot[s] \/ slot'[s].st \in {"IDLE", "FREE", "EVICTING"}
    BY <1>3, <2>1 DEF Contexts
  <2> QED BY <1>1, <2>1, <2>2, CalmQuiet
<1>5. CASE a.type = "EVICT" /\ EvictAck(a)
  <2>1. UNCHANGED <<pendTask, tokens, lost>> /\ slot' = [slot EXCEPT ![a.slot] = Free]
    BY <1>5 DEF EvictAck
  <2>2. \A s \in Slots : slot'[s] = slot[s] \/ slot'[s].st \in {"IDLE", "FREE", "EVICTING"}
    BY <1>3, <2>1, ContextKinds
  <2> QED BY <1>1, <2>1, <2>2, CalmQuiet
<1>6. CASE a.type = "STOP"
  <2>1. PICK t \in Requests, s \in Slots : a = StopIt(t, s)
    BY <1>2, <1>6, AckKinds
  <2>2. slot[s].st = "STOPPING"
    BY <1>1, <2>1, StopMet DEF a
  <2> QED BY <2>2 DEF Calm, CalmInv
<1>7. CASE UNCHANGED <<slotVars, memRes, tokens, schedQ, lost>>
  BY <1>1, <1>7, CalmQuiet DEF slotVars
<1> QED BY <1>1, <1>4, <1>5, <1>6, <1>7

\* A slot that is given back is IDLE: its session was, and no sequence waits for it.
LEMMA CalmMemory ==
    ASSUME TypeOK, Sound, OwnInv, Calm, UNCHANGED <<sessionVars, requestVars>>, HandleMemory
    PROVE  CalmInv'
<1> DEFINE m == Head(pendMem \o memReq)
<1>1. /\ \/ UNCHANGED <<slot, pendTask, pendMem, tokens, schedQ, lost>>
         \/ pendMem \o memReq # <<>> /\ m.action = "ALLOCATE" /\ HandleAllocate(m)
         \/ pendMem \o memReq # <<>> /\ m.action = "DEALLOCATE" /\ HandleEvict(m)
      /\ UNCHANGED <<pendCancel, taskQ, cancelQ>>
  BY DEF HandleMemory, MemoryWaiting
<1>2. /\ pendMem \in Seq(Mem) /\ Len(pendMem) <= 1 /\ memReq \in Seq(Mem)
  BY DEF TypeOK, RunnerTypeOK
<1>3. pendMem \o memReq # <<>> => m \in Mem /\ m \in Range(pendMem) \cup Range(memReq)
  <2>1. CASE pendMem # <<>>
    BY <1>2, <2>1, FirstOf, OnePlace
  <2>2. CASE pendMem = <<>>
    BY <1>2, <2>2, FirstOf, Popped
  <2> QED BY <2>1, <2>2
<1> HIDE DEF m
<1>4. CASE UNCHANGED <<slot, pendTask, pendMem, tokens, schedQ, lost>>
  BY <1>1, <1>4, CalmQuiet
<1>5. CASE HandleAllocate(m)
  <2>1. UNCHANGED <<slot, pendTask, tokens, lost>>
    BY <1>5 DEF HandleAllocate
  <2> QED BY <1>1, <2>1, CalmQuiet
<1>6. CASE pendMem \o memReq # <<>> /\ m.action = "DEALLOCATE" /\ HandleEvict(m)
  <2>1. PICK s \in Slots : m.slot = s /\ m = Dealloc(s)
    BY <1>3, <1>6, MemKinds
  <2>2. \E k \in {"asked", "held"} : At(k, s)
    BY <1>3, <1>6, <2>1, MemOf
  <2>3. \A r \in Requests : ~Tied(r, s)
    BY <2>2, TiedSession DEF Places
  <2>4. slot[s].st # "RUNNING" /\ slot[s].st # "STOPPING"
    BY <2>3, RunsARequest DEF Sound, Tied, Runs, Calm, CalmInv
  <2>5. CASE slot[s].st \in {"EVICTING", "FREE"}
    <3>1. UNCHANGED <<slot, pendTask, tokens, lost>>
      BY <1>6, <2>1, <2>5 DEF HandleEvict
    <3> QED BY <1>1, <3>1, CalmQuiet
  <2>6. CASE slot[s].st = "IDLE"
    <3>1. Evict(s, slot[s], <<>>, {})
      BY <1>6, <2>1, <2>4, <2>6 DEF HandleEvict
    <3>2. slot[s].task = None
      <4>1. SlotInv(s)
        BY DEF Sound
      <4> QED BY <2>6, <4>1, ContextKinds
              DEF SlotInv, Coherent, CoherentRunning, CoherentStopping, CoherentEvicting
    <3>3. (IF pendTask # <<>> /\ pendTask[1].slot = s THEN Tasks(pendTask) ELSE {}) = {}
      <4>1. ASSUME pendTask # <<>>, pendTask[1].slot = s PROVE FALSE
        <5>1. pendTask[1] \in Work /\ pendTask[1] \in Range(pendTask)
          BY <4>1, OnePlace DEF TypeOK, RunnerTypeOK
        <5>2. /\ pendTask[1].task \in Requests
              /\ pendTask[1] = [task |-> pendTask[1].task, slot |-> s]
          BY <4>1, <5>1 DEF Work
        <5> QED BY <2>3, <5>1, <5>2 DEF Tied, HeldTask
      <4> QED BY <4>1
    <3>4. UNCHANGED <<pendTask, tokens, lost>> /\ \E c \in {slot[s], Evicting} : slot' = [slot EXCEPT ![s] = c]
      BY <3>1, <3>2, <3>3 DEF Evict
    <3>5. \A x \in Slots : slot'[x] = slot[x] \/ slot'[x].st \in {"IDLE", "FREE", "EVICTING"}
      BY <3>4, ContextKinds DEF TypeOK, RunnerTypeOK
    <3> QED BY <1>1, <3>4, <3>5, CalmQuiet
  <2>7. slot[s].st \in {"EVICTING", "FREE", "IDLE"}
    BY <2>4 DEF TypeOK, RunnerTypeOK, Contexts
  <2> QED BY <2>5, <2>6, <2>7
<1> QED BY <1>1, <1>4, <1>5, <1>6

\* Nobody asks for a STOP.
LEMMA CalmStop ==
    ASSUME TypeOK, Sound, OwnInv, Calm, UNCHANGED <<sessionVars, requestVars>>, HandleStop
    PROVE  CalmInv'
<1>1. cancelQ = {} /\ pendCancel = None
  BY DEF Calm, CalmInv
<1>2. Stop(None, None) /\ UNCHANGED <<taskQ, cancelQ, tokens, lost>>
  BY <1>1 DEF HandleStop
<1>3. None \notin Tasks(pendTask)
  BY TasksType, RunnerAssumption DEF TypeOK, RunnerTypeOK
<1>4. {s \in Slots : slot[s].st = "RUNNING" /\ slot[s].task = None} = {}
  BY RunsARequest, RunnerAssumption DEF Sound
<1>5. UNCHANGED <<slot, pendTask>> /\ pendCancel' = None
  BY <1>2, <1>3, <1>4 DEF Stop
<1> QED BY <1>1, <1>2, <1>5, CalmQuiet

\* A step of the worker or of the scheduler.
LEMMA CalmWorker ==
    ASSUME TypeOK, Sound, OwnInv, Calm, UNCHANGED <<sessionVars, requestVars>>,
           RunnerStep \/ SchedTake \/ \E s \in Slots : Emit(s)
    PROVE  CalmInv'
<1>1. CASE Drained \/ Stopped \/ SchedTake \/ \E s \in Slots : Emit(s)
  <2>1. UNCHANGED <<slot, pendTask, pendCancel, taskQ, cancelQ, tokens, lost>>
    BY <1>1 DEF Drained, Stopped, SchedTake, Emit, slotVars, queueVars
  <2> QED BY <2>1, CalmQuiet
<1>2. CASE RunnerStep
  BY <1>1, <1>2, CalmAnswer, CalmOutput, CalmMemory, CalmStop, CalmRequest DEF RunnerStep
<1> QED BY <1>1, <1>2

\* A step of the server that keeps each expected answer's session and slot.
LEMMA CalmServed ==
    ASSUME TypeOK, Calm,
           UNCHANGED <<slot, pendTask, pendCancel, taskQ, cancelQ, tokens, lost, callbacks>>,
           \A r \in callbacks : on'[r] = on[r] /\ session'[on[r]].slot = session[on[r]].slot
    PROVE  CalmInv'
<1>1. ASSUME NEW r \in Requests PROVE WorkInv(r)'
  <2>1. WorkSame(r)
    BY DEF WorkSame, Way, Tied, Queued, HeldTask, Runs
  <2> QED BY <2>1, WorkKept DEF Calm, CalmInv
<1> QED BY <1>1 DEF Calm, CalmInv

\* produceStream: the work begins in the queue.
LEMMA CalmProduce == ASSUME TypeOK, OwnInv, Calm, NEW r \in Requests, Produce(r) PROVE CalmInv'
<1>1. /\ pc[r] = "acquired" /\ callbacks' = callbacks \cup {r}
      /\ taskQ' = Append(taskQ, [task |-> r, slot |-> session[on[r]].slot])
      /\ UNCHANGED <<slot, pendTask, pendCancel, cancelQ, tokens, lost, session, on>>
  BY DEF Produce, slotVars, sessionVars
<1>2. RequestInv(r) /\ Owner(r) /\ ~Shared(r)
  BY <1>1 DEF OwnInv, Owner, Shared, Calm
<1>3. on[r] \in Requests /\ session[on[r]].st # "none"
  BY <1>2 DEF RequestInv, Alone
<1>4. PICK s \in Slots : s = session[on[r]].slot
  BY <1>3 DEF OwnInv
<1>5. PICK q \in Work : q = [task |-> r, slot |-> s]
  BY DEF Work
<1>6. /\ taskQ' = Append(taskQ, q) /\ taskQ \in Seq(Work)
      /\ Range(taskQ)' = Range(taskQ) \cup {q}
      /\ DOMAIN taskQ' = 1..(Len(taskQ) + 1) /\ taskQ'[Len(taskQ) + 1] = q
      /\ \A i \in DOMAIN taskQ : taskQ'[i] = taskQ[i]
  BY <1>1, <1>4, <1>5, Pushed DEF TypeOK, RunnerTypeOK
<1>7. r \notin callbacks /\ WorkInv(r)
  BY <1>1, <1>2 DEF RequestInv, Calm, CalmInv
<1>8. \A k \in Ways : ~Way(k, r)
  BY <1>7 DEF WorkInv
<1>9. \A i \in DOMAIN taskQ : taskQ[i].task # r
  <2>1. ASSUME NEW i \in DOMAIN taskQ, taskQ[i].task = r PROVE FALSE
    <3>1. taskQ[i] \in Work /\ taskQ[i] \in Range(taskQ)
      BY <1>6 DEF Range
    <3>2. taskQ[i].slot \in Slots /\ taskQ[i] = [task |-> r, slot |-> taskQ[i].slot]
      BY <2>1, <3>1 DEF Work
    <3> QED BY <1>8, <3>1, <3>2 DEF Way, Ways, Queued
  <2> QED BY <2>1
<1>10. \A i, j \in DOMAIN taskQ' : taskQ'[i].task = taskQ'[j].task => i = j
  <2>1. DOMAIN taskQ = 1..Len(taskQ) /\ Len(taskQ) \in Nat
    BY <1>6
  <2>2. \A i, j \in DOMAIN taskQ : taskQ[i].task = taskQ[j].task => i = j
    BY DEF Calm, CalmInv
  <2>3. q.task = r
    BY <1>5
  <2>4. \A i \in DOMAIN taskQ' : i \in DOMAIN taskQ \/ i = Len(taskQ) + 1
    BY <1>6, <2>1
  <2> QED BY <1>6, <1>9, <2>2, <2>3, <2>4
<1>11. ASSUME NEW e \in Requests, NEW x \in Slots
       PROVE  /\ Queued(e, x)' => Queued(e, x) \/ (e = r /\ x = s)
              /\ HeldTask(e, x)' <=> HeldTask(e, x)
              /\ Runs(e, x)' <=> Runs(e, x)
  <2>1. Queued(e, x)' => Queued(e, x) \/ (e = r /\ x = s)
    BY <1>5, <1>6 DEF Queued
  <2> QED BY <1>1, <2>1 DEF HeldTask, Runs
<1>12. WorkInv(r)'
  <2>1. \A k \in Ways \ {"queued"} : ~Way(k, r)'
    BY <1>1, <1>8, <1>11 DEF Way, Ways
  <2>2. \A x \in Slots : ~Queued(r, x) /\ ~HeldTask(r, x) /\ ~Runs(r, x)
    BY <1>8 DEF Way, Ways
  <2>3. \A x \in Slots : (Queued(r, x) \/ HeldTask(r, x) \/ Runs(r, x))' => x = s
    BY <1>11, <2>2
  <2> QED BY <1>1, <1>4, <2>1, <2>3 DEF WorkInv
<1>13. ASSUME NEW e \in Requests, e # r PROVE WorkInv(e)'
  <2>1. WorkSame(e)
    BY <1>1, <1>11, <1>13 DEF WorkSame, Way, Tied
  <2> QED BY <2>1, WorkKept DEF Calm, CalmInv
<1>14. /\ lost' = {} /\ cancelQ' = {} /\ pendCancel' = None
       /\ \A x \in Slots : slot'[x].st # "STOPPING"
  BY <1>1 DEF Calm, CalmInv
<1>15. \A e \in Requests : WorkInv(e)'
  BY <1>12, <1>13
<1> QED BY <1>10, <1>14, <1>15 DEF CalmInv

\* The consumer: the work is over, and the callback gone.
LEMMA CalmConsume == ASSUME TypeOK, OwnInv, Calm, NEW r \in Requests, Consume(r) PROVE CalmInv'
<1>1. /\ r \in tokens /\ tokens' = tokens \ {r} /\ callbacks' = callbacks \ {r}
      /\ session' = Cleared(on[r]) \/ UNCHANGED session
      /\ UNCHANGED <<slot, pendTask, pendCancel, taskQ, cancelQ, lost, on>>
  BY DEF Consume, slotVars
<1>2. \A e \in Requests : session'[e].slot = session[e].slot
  BY <1>1, ClearedIs
<1>3. ASSUME NEW e \in Requests
      PROVE  /\ \A x \in Slots : /\ Queued(e, x)' <=> Queued(e, x)
                                 /\ HeldTask(e, x)' <=> HeldTask(e, x)
                                 /\ Runs(e, x)' <=> Runs(e, x)
  BY <1>1 DEF Queued, HeldTask, Runs
<1>4. WorkInv(r)'
  <2>1. WorkInv(r) /\ Way("token", r)
    BY <1>1 DEF Way, Calm, CalmInv
  <2>2. \A k \in Ways \ {"token"} : ~Way(k, r)
    BY <2>1 DEF WorkInv, Ways
  <2>3. \A k \in Ways : ~Way(k, r)'
    BY <1>1, <1>3, <2>2 DEF Way, Ways
  <2>4. \A x \in Slots : ~(Queued(r, x) \/ HeldTask(r, x) \/ Runs(r, x))'
    BY <2>3 DEF Way, Ways
  <2> QED BY <2>3, <2>4 DEF WorkInv
<1>5. ASSUME NEW e \in Requests, e # r PROVE WorkInv(e)'
  <2>1. e \in callbacks => on[e] \in Requests
    BY DEF OwnInv, RequestInv, Owner
  <2>2. WorkSame(e)
    BY <1>1, <1>2, <1>3, <1>5, <2>1 DEF WorkSame, Way, Tied
  <2> QED BY <2>2, WorkKept DEF Calm, CalmInv
<1>6. \A e \in Requests : WorkInv(e)'
  BY <1>4, <1>5
<1> QED BY <1>1, <1>6 DEF Calm, CalmInv

\* A step of the server after which still no client has left.
LEMMA CalmServer ==
    ASSUME TypeOK, Sound, OwnInv, Calm, Server, aborted' = {} PROVE CalmInv'
<1>1. ASSUME NEW r \in callbacks PROVE r \in Requests /\ pc[r] = "running" /\ on[r] \in Requests
                                       /\ session[on[r]].st \in Used
  BY RunnerAssumption DEF OwnInv, RequestInv, Owner, Used, TypeOK, ServerTypeOK
<1>2. ASSUME NEW r \in Requests, NEW c \in Requests, Take(r, c), pc[r] \in {"new", "ready"}
      PROVE  CalmInv'
  <2>1. /\ on' = [on EXCEPT ![r] = c] /\ session' = [session EXCEPT ![c].st = "inflight"]
        /\ UNCHANGED <<slot, pendTask, pendCancel, taskQ, cancelQ, tokens, lost, callbacks>>
    BY <1>2 DEF Take, Acquire, runnerVars, slotVars, queueVars
  <2>2. \A q \in callbacks : on'[q] = on[q] /\ session'[on[q]].slot = session[on[q]].slot
    BY <1>1, <1>2, <2>1 DEF TypeOK, ServerTypeOK
  <2> QED BY <2>1, <2>2, CalmServed
<1>3. ASSUME NEW r \in Requests, SendAlloc(r) \/ Refuse(r) \/ Miss(r) PROVE CalmInv'
  <2>1. /\ session' = Cleared(on[r]) \/ UNCHANGED session
        /\ UNCHANGED <<slot, pendTask, pendCancel, taskQ, cancelQ, tokens, lost, callbacks, on>>
    BY <1>3 DEF SendAlloc, Refuse, Miss, runnerVars, slotVars, queueVars, sessionVars
  <2>2. \A e \in Requests : session'[e].slot = session[e].slot
    BY <2>1, ClearedIs
  <2> QED BY <1>1, <2>1, <2>2, CalmServed
<1>4. ASSUME NEW r \in Requests, PushCancel(r) \/ ReleaseAgain(r) PROVE FALSE
  BY <1>4 DEF OwnInv, RequestInv, Calm, PushCancel, ReleaseAgain
<1>5. ASSUME NEW r \in Requests, Disconnect(r) PROVE FALSE
  BY <1>5 DEF Disconnect
<1>6. ASSUME NEW r \in Requests, Loop(r) PROVE CalmInv'
  <2>1. CASE Resolve(r)
    <3>1. Take(r, r) /\ pc[r] = "ready"
      BY <2>1 DEF Resolve
    <3> QED BY <1>2, <3>1
  <2>2. CASE SendAlloc(r) \/ Refuse(r) \/ PushCancel(r) \/ ReleaseAgain(r)
    BY <1>3, <1>4, <2>2
  <2>3. CASE Produce(r)
    BY <2>3, CalmProduce
  <2> QED BY <1>6, <2>1, <2>2, <2>3 DEF Loop
<1>7. ASSUME NEW r \in Requests, NEW c \in Requests, Hit(r, c) PROVE CalmInv'
  <2>1. Take(r, c) /\ pc[r] = "new"
    BY <1>7 DEF Hit
  <2> QED BY <1>2, <2>1
<1>8. ASSUME NEW c \in Requests, EvictNext(c) PROVE CalmInv'
  <2>1. /\ session' = [session EXCEPT ![c].st = "gone"] \/ UNCHANGED session
        /\ UNCHANGED <<slot, pendTask, pendCancel, taskQ, cancelQ, tokens, lost, callbacks, on>>
    BY <1>8 DEF EvictNext, slotVars
  <2>2. \A e \in Requests : session'[e].slot = session[e].slot
    BY <2>1 DEF TypeOK, ServerTypeOK
  <2> QED BY <1>1, <2>1, <2>2, CalmServed
<1>9. CASE Memory
  <2>1. ASSUME NEW m \in memRes, MemoryResult(m) PROVE CalmInv'
    <3>1. /\ \/ session' = [session EXCEPT ![m.task] = [st |-> "prepared", slot |-> m.slot]]
             \/ UNCHANGED session
          /\ UNCHANGED <<slot, pendTask, pendCancel, taskQ, cancelQ, tokens, lost, callbacks, on>>
      BY <2>1 DEF MemoryResult, slotVars
    <3>2. m.task \in Requests /\ m.slot \in Slots \cup {None}
          /\ m = [task |-> m.task, slot |-> m.slot]
      BY DEF TypeOK, RunnerTypeOK
    <3>3. session[m.task].st = "none"
      <4>1. Asks("result", m.task)
        BY <3>2 DEF Asks
      <4> QED BY <3>2, <4>1 DEF Sound, AskInv, Stages, Early
    <3>4. \A q \in callbacks : session'[on[q]].slot = session[on[q]].slot
      BY <1>1, <3>1, <3>3 DEF Used, TypeOK, ServerTypeOK
    <3> QED BY <3>1, <3>4, CalmServed
  <2>2. ASSUME NEW s \in Slots, RetryDealloc(s) PROVE CalmInv'
    <3>1. UNCHANGED <<slot, pendTask, pendCancel, taskQ, cancelQ, tokens, lost, callbacks, on,
                      session>>
      BY <2>2 DEF RetryDealloc, slotVars, requestVars
    <3> QED BY <3>1, CalmServed
  <2>3. ASSUME NEW R \in SUBSET Requests, RetryAllocs(R) PROVE CalmInv'
    <3>1. UNCHANGED <<slot, pendTask, pendCancel, taskQ, cancelQ, tokens, lost, callbacks, on,
                      session>>
      BY <2>3 DEF RetryAllocs, runnerVars, slotVars, queueVars
    <3> QED BY <3>1, CalmServed
  <2> QED BY <1>9, <2>1, <2>2, <2>3 DEF Memory
<1> QED BY <1>3, <1>5, <1>6, <1>7, <1>8, <1>9, CalmConsume DEF Server

-----------------------------------------------------------------------------
(* The invariant.                                                          *)

\* At first every slot is free and every request new.
LEMMA IInvInit == Init => IInv
<1> SUFFICES ASSUME Init PROVE IInv
  OBVIOUS
<1>1. /\ slot = [s \in Slots |-> Free]
      /\ pendTask = <<>> /\ pendMem = <<>> /\ pendCancel = None
      /\ phase = "answers"
      /\ memReq = <<>> /\ memRes = {} /\ taskQ = <<>> /\ cancelQ = {} /\ tokens = {}
      /\ schedQ = <<>> /\ dev = [s \in Slots |-> "free"]
      /\ answers = <<>> /\ outputs = {} /\ lost = {}
  BY DEF Init, RunnerInit
<1>2. /\ pc = [r \in Requests |-> "new"]
      /\ session = [r \in Requests |-> [st |-> "none", slot |-> None]]
      /\ on = [r \in Requests |-> None]
      /\ callbacks = {} /\ aborted = {}
      /\ attempts = [r \in Requests |-> Retries]
      /\ evictor = None /\ candidates = {} /\ deferred = {}
  BY DEF Init
<1>3. /\ Range(schedQ) = {} /\ Range(answers) = {} /\ Range(memReq) = {}
      /\ Range(pendMem) = {} /\ Range(pendTask) = {} /\ Range(taskQ) = {}
  BY <1>1, Nothing
<1>4. TypeOK
  <2>1. RunnerTypeOK
    <3>1. /\ schedQ \in Seq(Cmds) /\ answers \in Seq(Acks) /\ memReq \in Seq(Mem)
          /\ pendMem \in Seq(Mem) /\ Len(pendMem) <= 1 /\ taskQ \in Seq(Work)
          /\ pendTask \in Seq(Work) /\ Len(pendTask) <= 1
      BY <1>1, Nothing
    <3>2. slot \in [Slots -> Contexts]
      BY <1>1, ContextKinds
    <3> QED BY <1>1, <3>1, <3>2 DEF RunnerTypeOK
  <2>2. ServerTypeOK
    BY <1>2, SessionAssumption DEF ServerTypeOK, Points
  <2> QED BY <2>1, <2>2 DEF TypeOK
<1>5. QueueInv
  BY <1>1 DEF QueueInv, Distinct, Ordered
<1>6. ASSUME NEW s \in Slots PROVE SlotInv(s) /\ HomeInv(s)
  <2>1. /\ slot[s] = Free /\ dev[s] = "free" /\ s \notin outputs
        /\ CmdsOf(s) = {} /\ AcksOf(s) = {} /\ SessionsAt(s) = {} /\ Results(s) = {}
    BY <1>1, <1>2, <1>3 DEF CmdsOf, AcksOf, SessionsAt, Live, Results
  <2>2. SlotInv(s)
    BY <2>1 DEF SlotInv, Coherent, Given
  <2>3. ~slot[s].evict
    BY <2>1, ContextKinds
  <2>4. \A k \in Places : ~At(k, s)
    BY <1>2, <1>3, <2>1, <2>3 DEF At, Places
  <2> QED BY <1>1, <2>1, <2>2, <2>3, <2>4 DEF HomeInv, Somewhere
<1>7. ASSUME NEW r \in Requests PROVE AskInv(r)
  <2>1. \A k \in Stages : ~Asks(k, r)
    BY <1>1, <1>3 DEF Asks, Stages
  <2> QED BY <1>1, <1>2, <1>3, <2>1 DEF AskInv
<1>8. OwnInv
  BY <1>2, RunnerAssumption DEF OwnInv, RequestInv, Owner
<1>9. CalmInv
  <2>1. \A s \in Slots : slot[s].st = "FREE"
    BY <1>1, ContextKinds
  <2>2. ASSUME NEW r \in Requests PROVE WorkInv(r)
    <3>1. \A s \in Slots : ~Queued(r, s) /\ ~HeldTask(r, s) /\ ~Runs(r, s)
      BY <1>3, <2>1 DEF Queued, HeldTask, Runs
    <3>2. \A k \in Ways : ~Way(k, r)
      BY <1>1, <3>1 DEF Way, Ways
    <3> QED BY <3>1, <3>2 DEF WorkInv
  <2> QED BY <1>1, <2>1, <2>2 DEF CalmInv
<1> QED BY <1>4, <1>5, <1>6, <1>7, <1>8, <1>9 DEF IInv, Sound

\* Each step keeps the invariant, and moves no slot but along the table.
LEMMA IInvNext == IInv /\ [Next]_vars => IInv' /\ (Legally \/ UNCHANGED vars)
<1> SUFFICES ASSUME IInv, [Next]_vars PROVE IInv' /\ (Legally \/ UNCHANGED vars)
  OBVIOUS
<1>1. TypeOK /\ Sound /\ OwnInv /\ (aborted = {} => Calm)
  BY DEF IInv, Calm
<1>2. CASE Server
  <2>1. Sound' /\ TypeOK' /\ slot' = slot
    BY <1>1, <1>2, ServerSound
  <2>2. OwnInv'
    BY <1>1, <1>2, ServerOwn
  <2>3. aborted' = {} => CalmInv'
    <3>1. aborted \subseteq aborted'
      BY <1>2 DEF Server, Loop, Memory, Consume, Miss, Disconnect, Hit, EvictNext, MemoryResult,
                  RetryDealloc, RetryAllocs, SendAlloc, Resolve, Refuse, Produce, PushCancel,
                  ReleaseAgain, Take, requestVars
    <3> QED BY <1>1, <1>2, <3>1, CalmServer
  <2>4. Legally
    BY <2>1 DEF Legally
  <2> QED BY <2>1, <2>2, <2>3, <2>4 DEF IInv
<1>3. CASE /\ RunnerStep \/ SchedTake \/ (\E s \in Slots : Emit(s))
           /\ UNCHANGED <<sessionVars, requestVars>>
  <2>1. Sound' /\ Legally /\ TypeOK'
    BY <1>1, <1>3, WorkerSound
  <2>2. OwnInv'
    BY <1>1, <1>3, EarlyOwn DEF sessionVars, requestVars, OwnInv
  <2>3. aborted' = {} => CalmInv'
    BY <1>1, <1>3, CalmWorker DEF requestVars
  <2> QED BY <2>1, <2>2, <2>3 DEF IInv
<1>4. CASE UNCHANGED vars
  <2>1. /\ UNCHANGED <<sessionVars, requestVars, slotVars, devVars, queueVars>>
        /\ UNCHANGED <<phase, lost>>
    BY <1>4 DEF vars, runnerVars
  <2>2. Sound'
    BY <1>1, <2>1, EarlyMoves DEF sessionVars, requestVars, slotVars, devVars, queueVars
  <2>3. OwnInv'
    BY <1>1, <2>1, EarlyOwn DEF sessionVars, requestVars, OwnInv
  <2>4. aborted' = {} => CalmInv'
    BY <1>1, <2>1, CalmQuiet DEF requestVars, slotVars, queueVars
  <2>5. RunnerTypeOK'
    BY <1>1, <2>1 DEF TypeOK, RunnerTypeOK, slotVars, devVars, queueVars
  <2>6. ServerTypeOK'
    BY <1>1, <2>1 DEF TypeOK, ServerTypeOK, sessionVars, requestVars
  <2> QED BY <1>4, <2>2, <2>3, <2>4, <2>5, <2>6 DEF IInv, TypeOK
<1> QED BY <1>2, <1>3, <1>4 DEF Next

LEMMA Inductive == Spec => []IInv
  BY IInvInit, IInvNext, PTL DEF Spec

-----------------------------------------------------------------------------
(* Counting the places of a slot.                                          *)

\* A set whose elements are all the same has one of them, or none.
LEMMA AtMostOne ==
    ASSUME NEW S, \A x, y \in S : x = y
    PROVE  Cardinality(S) = One(S # {})
<1>1. CASE S = {}
  BY <1>1, FS_EmptySet DEF One
<1>2. CASE S # {}
  <2>1. PICK x : x \in S
    BY <1>2
  <2>2. S = {x}
    BY <2>1
  <2> QED BY <1>2, <2>2, FS_Singleton DEF One
<1> QED BY <1>1, <1>2

\* An element of a queue without repetitions occurs once.
LEMMA OccursOnce ==
    ASSUME NEW T, NEW q \in Seq(T), Distinct(q), NEW e
    PROVE  Occurs(q, e) = One(e \in Range(q))
<1> DEFINE I == {i \in DOMAIN q : q[i] = e}
<1>1. \A i, j \in I : i = j
  BY DEF Distinct
<1>2. I # {} <=> e \in Range(q)
  BY DEF Range
<1> HIDE DEF I
<1>3. Cardinality(I) = One(I # {})
  BY <1>1, AtMostOne
<1> QED BY <1>2, <1>3 DEF Occurs, I, One

\* ... nor does one that is in either of a queue and the place before it.
LEMMA OccursInEither ==
    ASSUME NEW T, NEW p \in Seq(T), Len(p) <= 1, NEW q \in Seq(T), Distinct(q), NEW e,
           ~(e \in Range(p) /\ e \in Range(q))
    PROVE  Occurs(p \o q, e) = One(e \in Range(p) \/ e \in Range(q))
<1>1. CASE p = <<>>
  <2>1. p \o q = q /\ Range(p) = {}
    BY <1>1, FirstOf, OnePlace
  <2>2. Occurs(q, e) = One(e \in Range(q))
    BY OccursOnce
  <2> QED BY <2>1, <2>2 DEF One
<1>2. CASE p # <<>>
  <2>1. Len(p) = 1 /\ Range(p) = {p[1]}
    BY <1>2, OnePlace
  <2>2. p \o q \in Seq(T) /\ Len(p \o q) = Len(q) + 1 /\ Len(q) \in Nat
    <3>1. Len(p \o q) = Len(p) + Len(q)
      BY ConcatProperties
    <3>2. p \o q \in Seq(T) /\ Len(q) \in Nat
      BY ConcatProperties
    <3> QED BY <2>1, <3>1, <3>2
  <2>3. \A i \in 1..(Len(q) + 1) : (p \o q)[i] = IF i = 1 THEN p[1] ELSE q[i - 1]
    BY <2>1, <2>2, ConcatProperties
  <2>4. DOMAIN (p \o q) = 1..(Len(q) + 1) /\ DOMAIN q = 1..Len(q)
    BY <2>2
  <2> DEFINE c == p \o q
  <2> HIDE DEF c
  <2>5. /\ DOMAIN c = 1..(Len(q) + 1)
        /\ \A i \in 1..(Len(q) + 1) : c[i] = IF i = 1 THEN p[1] ELSE q[i - 1]
    BY <2>3, <2>4 DEF c
  <2> DEFINE I == {i \in DOMAIN c : c[i] = e}
  <2>6. \A i \in I : i # 1 => i - 1 \in DOMAIN q /\ q[i - 1] = e /\ e \in Range(q)
    BY <2>2, <2>4, <2>5 DEF Range
  <2>7. \A i \in I : i = 1 => e \in Range(p)
    BY <2>1, <2>2, <2>5
  <2>8. \A i, j \in I : i = j
    <3>1. ASSUME NEW i \in I, NEW j \in I PROVE i = j
      <4>1. CASE i = 1 \/ j = 1
        BY <2>6, <2>7, <4>1
      <4>2. CASE i # 1 /\ j # 1
        <5>1. i - 1 = j - 1
          BY <2>6, <4>2 DEF Distinct
        <5>2. i \in Int /\ j \in Int
          BY <2>2, <2>5
        <5> QED BY <5>1, <5>2
      <4> QED BY <4>1, <4>2
    <3> QED BY <3>1
  <2>9. I # {} <=> e \in Range(p) \/ e \in Range(q)
    <3>1. e \in Range(p) => 1 \in I
      BY <2>1, <2>2, <2>5
    <3>2. ASSUME e \in Range(q) PROVE I # {}
      <4>1. PICK i \in DOMAIN q : q[i] = e
        BY <3>2 DEF Range
      <4>2. i + 1 \in DOMAIN c /\ c[i + 1] = e
        BY <2>2, <2>4, <2>5, <4>1
      <4> QED BY <4>2
    <3> QED BY <2>6, <2>7, <3>1, <3>2
  <2> HIDE DEF I
  <2>10. Cardinality(I) = One(I # {})
    BY <2>8, AtMostOne
  <2> QED BY <2>9, <2>10 DEF Occurs, I, c, One
<1> QED BY <1>1, <1>2

\* The places of a slot, counted.
LEMMA PlacesCounted ==
    ASSUME IInv, NEW s \in Slots
    PROVE  /\ WithSession(s) = One(At("session", s))
           /\ Arriving(s) = One(At("answer", s)) + One(At("result", s))
           /\ Returning(s) = One(At("held", s) \/ At("asked", s)) + One(At("deferred", s))
                                 + One(At("flag", s))
           /\ Leaving(s) = One(At("leaving", s))
<1>1. TypeOK /\ QueueInv /\ SlotInv(s) /\ HomeInv(s)
  BY DEF IInv, Sound
<1>2. WithSession(s) = One(At("session", s))
  <2>1. Cardinality(SessionsAt(s)) = One(SessionsAt(s) # {})
    BY <1>1, AtMostOne DEF HomeInv
  <2> QED BY <2>1 DEF WithSession, SessionsAt, At, One
<1>3. Arriving(s) = One(At("answer", s)) + One(At("result", s))
  <2> DEFINE I == {i \in DOMAIN answers : answers[i].type = "ALLOCATE" /\ answers[i].slot = s}
  <2>1. ASSUME NEW i \in I
        PROVE  \E r \in Requests : answers[i] = Alloc(r, s) /\ Alloc(r, s) \in AcksOf(s)
    <3>1. answers[i] \in Acks /\ answers[i] \in Range(answers)
      BY <1>1 DEF TypeOK, RunnerTypeOK, Range
    <3>2. answers[i].id \in Requests /\ answers[i] = Alloc(answers[i].id, s)
      BY <3>1, AckKinds
    <3> QED BY <3>1, <3>2 DEF AcksOf
  <2>2. \A r, q \in Requests : Alloc(r, s) \in AcksOf(s) /\ Alloc(q, s) \in AcksOf(s) =>
                                   Alloc(r, s) = Alloc(q, s)
    <3>1. ASSUME NEW r \in Requests, NEW q \in Requests,
                 Alloc(r, s) \in AcksOf(s), Alloc(q, s) \in AcksOf(s)
          PROVE  Alloc(r, s) = Alloc(q, s)
      <4>1. \A u, x : Alloc(u, s) # EvictIt(s) /\ Alloc(u, s) # StopIt(x, s)
        BY Letters
      <4>2. \E d : Given(s, d, AcksOf(s)) \/ Given(s, d, AcksOf(s) \ {EvictIt(s)})
        BY <1>1, <3>1, <4>1
           DEF SlotInv, Coherent, CoherentRunning, CoherentStopping, CoherentEvicting
      <4>3. PICK u \in Requests : AcksOf(s) \ {EvictIt(s)} \subseteq {Alloc(u, s)}
        BY <4>2 DEF Given
      <4> QED BY <3>1, <4>1, <4>3
    <3> QED BY <3>1
  <2>3. \A i, j \in I : i = j
    BY <1>1, <2>1, <2>2 DEF QueueInv, Distinct
  <2>4. I # {} <=> At("answer", s)
    <3>1. ASSUME NEW r \in Requests, Alloc(r, s) \in AcksOf(s) PROVE I # {}
      <4>1. PICK i \in DOMAIN answers : answers[i] = Alloc(r, s)
        BY <3>1 DEF AcksOf, Range
      <4> QED BY <4>1, Letters
    <3> QED BY <2>1, <3>1 DEF At
  <2> HIDE DEF I
  <2>5. Cardinality(I) = One(I # {})
    BY <2>3, AtMostOne
  <2>6. Cardinality(Results(s)) = One(Results(s) # {})
    BY <1>1, AtMostOne DEF HomeInv
  <2>7. Arriving(s) = Cardinality(I) + Cardinality(Results(s))
    BY DEF Arriving, I, Results
  <2>8. Cardinality(I) = One(At("answer", s))
    BY <2>4, <2>5 DEF One
  <2>9. Cardinality(Results(s)) = One(At("result", s))
    BY <2>6 DEF At, One
  <2> QED BY <2>7, <2>8, <2>9
<1>4. Returning(s) = One(At("held", s) \/ At("asked", s)) + One(At("deferred", s))
                         + One(At("flag", s))
  <2>1. ~(At("held", s) /\ At("asked", s))
    BY <1>1 DEF HomeInv, Places
  <2>2. Occurs(pendMem \o memReq, Dealloc(s)) = One(At("held", s) \/ At("asked", s))
    BY <1>1, <2>1, OccursInEither DEF At, TypeOK, RunnerTypeOK, QueueInv
  <2>3. One(s \in deferred) = One(At("deferred", s)) /\ One(slot[s].evict) = One(At("flag", s))
    BY DEF At, One
  <2> QED BY <2>2, <2>3 DEF Returning
<1>5. Leaving(s) = One(At("leaving", s))
  <2>1. EvictIt(s) \in CmdsOf(s) <=> EvictIt(s) \in Range(schedQ)
    BY Letters DEF CmdsOf
  <2>2. Occurs(schedQ, EvictIt(s)) = One(EvictIt(s) \in Range(schedQ))
    BY <1>1, OccursOnce DEF TypeOK, RunnerTypeOK, QueueInv
  <2> QED BY <2>1, <2>2 DEF Leaving, EvictIt, At, One
<1> QED BY <1>2, <1>3, <1>4, <1>5

-----------------------------------------------------------------------------
(* The theorems.                                                           *)

\* Type correctness: each variable stays in its type, each queue holds only what
\* its reader knows, and the worker holds back one request of a kind at most.
THEOREM TypeCorrect == Spec => []TypeOK
<1>1. IInv => TypeOK
  BY DEF IInv
<1> QED BY <1>1, Inductive, PTL

\* A slot moves only along the table of SlotContext::setState, so that the
\* worker never throws: no answer, request or cancellation meets a slot in a
\* state its handler does not expect.
THEOREM TransitionsAreLegal == Spec => LegalTransitions
<1>1. IInv /\ [Next]_vars =>
        [\A s \in Slots : slot'[s].st # slot[s].st => slot'[s].st \in Legal[slot[s].st]]_vars
  BY IInvNext DEF Legally
<1> QED BY <1>1, Inductive, PTL DEF Spec, LegalTransitions

\* A slot given away by the scheduler is in one place, whatever queues are full
\* and whoever leaves: it is neither leaked nor given back twice.
THEOREM SlotHomeHolds == Spec => []SlotHome
<1>1. IInv => SlotHome
  <2> SUFFICES ASSUME IInv, NEW s \in Slots
               PROVE  /\ WithSession(s) + Arriving(s) + Returning(s) + Leaving(s) =
                            One(dev[s] # "free" /\ s \notin lost)
                      /\ WithSession(s) + Returning(s) > 0 => slot[s].st \in Usable
    BY DEF SlotHome, Usable
  <2>1. HomeInv(s)
    BY DEF IInv, Sound
  <2>2. /\ WithSession(s) = One(At("session", s))
        /\ Arriving(s) = One(At("answer", s)) + One(At("result", s))
        /\ Returning(s) = One(At("held", s) \/ At("asked", s)) + One(At("deferred", s))
                              + One(At("flag", s))
        /\ Leaving(s) = One(At("leaving", s))
    BY PlacesCounted
  <2>3. CASE ~Somewhere(s)
    <3>1. \A k \in Places : ~At(k, s)
      BY <2>3 DEF Somewhere
    <3>2. WithSession(s) = 0 /\ Arriving(s) = 0 /\ Returning(s) = 0 /\ Leaving(s) = 0
      BY <2>2, <3>1 DEF One, Places
    <3>3. One(dev[s] # "free" /\ s \notin lost) = 0
      BY <2>1, <2>3 DEF HomeInv, One
    <3> QED BY <3>2, <3>3
  <2>4. CASE Somewhere(s)
    <3>1. PICK k \in Places : At(k, s) /\ \A j \in Places \ {k} : ~At(j, s)
      BY <2>1, <2>4 DEF Somewhere, HomeInv
    <3>2. One(dev[s] # "free" /\ s \notin lost) = 1
      BY <2>1, <2>4 DEF HomeInv, One
    <3>3. k \notin {"answer", "leaving"} => slot[s].st \in Usable
      BY <2>1, <3>1 DEF HomeInv
    <3>4. CASE k \in {"answer", "result"}
      <4>1. WithSession(s) = 0 /\ Arriving(s) = 1 /\ Returning(s) = 0 /\ Leaving(s) = 0
        BY <2>2, <3>1, <3>4 DEF One, Places
      <4> QED BY <3>2, <4>1
    <3>5. CASE k = "leaving"
      <4>1. WithSession(s) = 0 /\ Arriving(s) = 0 /\ Returning(s) = 0 /\ Leaving(s) = 1
        BY <2>2, <3>1, <3>5 DEF One, Places
      <4> QED BY <3>2, <4>1
    <3>6. CASE k = "session"
      <4>1. WithSession(s) = 1 /\ Arriving(s) = 0 /\ Returning(s) = 0 /\ Leaving(s) = 0
        BY <2>2, <3>1, <3>6 DEF One, Places
      <4> QED BY <3>2, <3>3, <3>6, <4>1
    <3>7. CASE k \in {"held", "asked", "deferred", "flag"}
      <4>1. WithSession(s) = 0 /\ Arriving(s) = 0 /\ Returning(s) = 1 /\ Leaving(s) = 0
        BY <2>2, <3>1, <3>7 DEF One, Places
      <4> QED BY <3>2, <3>3, <3>7, <4>1
    <3> QED BY <3>4, <3>5, <3>6, <3>7 DEF Places
  <2> QED BY <2>3, <2>4
<1> QED BY <1>1, Inductive, PTL

\* A request that expects tokens has its session in flight and to itself, unless
\* an abort of another request cleared it: no eviction takes it.
THEOREM InFlightOwnedHolds == Spec => []InFlightOwned
<1>1. IInv => InFlightOwned
  <2> SUFFICES ASSUME IInv, NEW r \in callbacks
               PROVE  \/ session[on[r]].st = "inflight"
                         /\ \A q \in callbacks \ {r} : on[q] # on[r]
                      \/ \E q \in aborted \ {r} : on[q] = on[r]
    BY DEF InFlightOwned
  <2>1. r \in Requests /\ callbacks \subseteq Requests
    BY DEF IInv, TypeOK, ServerTypeOK
  <2>2. Alone(r) \/ Shared(r)
    BY <2>1 DEF IInv, OwnInv, RequestInv, Owner
  <2> QED BY <2>1, <2>2 DEF Alone, Shared, Owner
<1> QED BY <1>1, Inductive, PTL

\* As long as no client leaves, the worker throws nothing away, whichever queues
\* are full: no sequence meets a slot that is free, running or being evicted.
THEOREM LossNeedsAbortHolds == Spec => []LossNeedsAbort
<1>1. IInv => LossNeedsAbort
  BY DEF IInv, CalmInv, LossNeedsAbort
<1> QED BY <1>1, Inductive, PTL
=============================================================================
