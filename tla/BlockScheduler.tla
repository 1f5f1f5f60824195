--------------------------- MODULE BlockScheduler ---------------------------
(***************************************************************************)
(* The C++ LLM runner: the loop of LLMRunner::step, the schedulers         *)
(* (scheduler.cpp, prefill first or maximum occupancy) and the block       *)
(* manager of the KV cache (block_manager.cpp).                            *)
(*                                                                         *)
(* Every worker process runs one such loop on one thread.  The processes   *)
(* share the task queue, which carries serialized copies of sequences; a   *)
(* cancellation is broadcast to a queue per worker.  A preempted sequence  *)
(* goes back into the shared task queue as a copy, the original staying in *)
(* the map of the worker that preempted it.                                *)
(*                                                                         *)
(* The loops over the blocks of a sequence take one step per block; only   *)
(* the worker that runs them sees the states in between.  A sequence is    *)
(* its prompt and the number of tokens generated so far, each of which is  *)
(* the token 0.  A hash is the token prefix it stands for (collisions of   *)
(* hashTokenIds are left out), <<>> is the hash -1, and the tokens of a    *)
(* block are the last BlockSize tokens of its hash.                        *)
(***************************************************************************)
EXTENDS Integers, Sequences, FiniteSets

CONSTANTS
    Workers,      \* the worker processes
    Tasks,        \* the requests
    Prompt,       \* the prompt of each task, a non-empty sequence of tokens
    MaxTokens,    \* max_tokens of every request
    NumBlocks,    \* num_kvcache_blocks
    BlockSize,    \* kvcache_block_size
    MaxInFlight,  \* max_in_flight_count
    MaxBatched,   \* max_num_batched_tokens
    Policies,     \* the scheduling policies the configuration may name
    Cancellable,  \* the tasks whose client may give up
    MayBreak      \* whether the device runner may raise

ASSUME SizesAssumption ==
    /\ NumBlocks \in Nat \ {0}
    /\ BlockSize \in Nat \ {0, 1}
    /\ MaxInFlight \in Nat \ {0}
    /\ MaxTokens \in Nat \ {0}
    /\ MaxBatched \in Nat
ASSUME PromptAssumption == Prompt \in [Tasks -> Seq(Nat) \ {<<>>}]
ASSUME PolicyAssumption == Policies \subseteq {"PREFILL_FIRST", "MAX_OCCUPANCY"}
ASSUME BreakAssumption == MayBreak \in BOOLEAN
ASSUME TasksAssumption == Tasks # {}

VARIABLES
    \* the server and the queues between the processes
    policy, sent, cancelled, queue, cancelQ,
    \* Scheduler: sequences (status, gen, table), decodeQueue, pendingAborts
    status, gen, table, decodeQ, pending,
    \* BlockManager: refCount, hash, hashToBlockId, freeBlockIds
    ref, hash, index, free,
    \* where the loop of a worker is, and its local variables
    pc, task, after, hold, miss, batched, batch,
    \* the device runner has raised; what the clients were sent
    dead, emitted, ended

serverVars == <<policy, sent, cancelled>>
blockVars  == <<ref, hash, index, free>>
localVars  == <<hold, miss, batched>>
outVars    == <<dead, emitted, ended>>
vars == <<serverVars, queue, cancelQ, status, gen, table, decodeQ, pending,
          blockVars, pc, task, after, localVars, batch, outVars>>

Blocks == 1..NumBlocks
Copies == [task : Tasks, gen : Nat]
Steps == {"idle", "receive", "pushback", "plan", "prefill", "alloc", "decode",
          "release", "start", "run"}

-----------------------------------------------------------------------------
(* Sequences, hashes and queues.                                           *)

Tokens(t, n) == Prompt[t] \o [i \in 1..n |-> 0]
Size(t, n) == Len(Prompt[t]) + n
BlocksFor(size) == (size + BlockSize - 1) \div BlockSize
Prefix(t, n, i) == SubSeq(Tokens(t, n), 1, i * BlockSize)
TokensOf(h) == SubSeq(h, Len(h) - BlockSize + 1, Len(h))

Elems(s) == {s[i] : i \in DOMAIN s}
LastOf(s) == s[Len(s)]
FrontOf(s) == SubSeq(s, 1, Len(s) - 1)
Without(s, e) ==
    IF e \notin Elems(s) THEN s
    ELSE LET at == CHOOSE i \in DOMAIN s : s[i] = e
         IN [i \in 1..(Len(s) - 1) |-> IF i < at THEN s[i] ELSE s[i + 1]]

Indexed(w, h, b) == {p \in index[w] : p[1] # h} \cup {<<h, b>>}
SizeOn(w, t) == Size(t, gen[w][t])

Init ==
    /\ policy \in Policies
    /\ sent = {} /\ cancelled = {} /\ queue = <<>>
    /\ cancelQ = [w \in Workers |-> <<>>]
    /\ status = [w \in Workers |-> [t \in Tasks |-> "none"]]
    /\ gen = [w \in Workers |-> [t \in Tasks |-> 0]]
    /\ table = [w \in Workers |-> [t \in Tasks |-> <<>>]]
    /\ decodeQ = [w \in Workers |-> <<>>]
    /\ pending = [w \in Workers |-> {}]
    /\ ref = [w \in Workers |-> [b \in Blocks |-> 0]]
    /\ hash = [w \in Workers |-> [b \in Blocks |-> <<>>]]
    /\ index = [w \in Workers |-> {}]
    /\ free = [w \in Workers |-> [i \in 1..NumBlocks |-> i]]
    /\ pc = [w \in Workers |-> "idle"]
    /\ task = [w \in Workers |-> CHOOSE t \in Tasks : TRUE]
    /\ after = [w \in Workers |-> "erase"]
    /\ hold = [w \in Workers |-> <<>>]
    /\ miss = [w \in Workers |-> FALSE]
    /\ batched = [w \in Workers |-> 0]
    /\ batch = [w \in Workers |-> <<>>]
    /\ dead = [w \in Workers |-> FALSE]
    /\ emitted = [t \in Tasks |-> 0]
    /\ ended = {}

-----------------------------------------------------------------------------
(* The server: LLMService pushes a sequence, and broadcasts a cancellation. *)

Submit(t) ==
    /\ t \notin sent
    /\ sent' = sent \cup {t}
    /\ queue' = Append(queue, [task |-> t, gen |-> 0])
    /\ UNCHANGED <<policy, cancelled, cancelQ, status, gen, table, decodeQ,
                   pending, blockVars, pc, task, after, localVars, batch, outVars>>

Cancel(t) ==
    /\ t \in (sent \cap Cancellable) \ cancelled
    /\ cancelled' = cancelled \cup {t}
    /\ cancelQ' = [w \in Workers |-> Append(cancelQ[w], t)]
    /\ UNCHANGED <<policy, sent, queue, status, gen, table, decodeQ, pending,
                   blockVars, pc, task, after, localVars, batch, outVars>>

-----------------------------------------------------------------------------
(* BlockManager::deallocate, one block per step, from the back of the table. *)

\* the caller's loop goes on after the release of t
ReleaseThen(w, t, then) ==
    /\ pc' = [pc EXCEPT ![w] = "release"]
    /\ task' = [task EXCEPT ![w] = t]
    /\ after' = [after EXCEPT ![w] = then]

Release(w) ==
    LET t == task[w]
        b == LastOf(table[w][t])
    IN /\ pc[w] = "release" /\ table[w][t] # <<>>
       /\ ref' = [ref EXCEPT ![w] = [ref[w] EXCEPT ![b] = ref[w][b] - 1]]
       /\ free' = IF ref[w][b] = 1
                  THEN [free EXCEPT ![w] = Append(free[w], b)] ELSE free
       /\ table' = [table EXCEPT ![w] = [table[w] EXCEPT ![t] = FrontOf(table[w][t])]]
       /\ UNCHANGED <<serverVars, queue, cancelQ, status, gen, decodeQ, pending,
                      hash, index, pc, task, after, localVars, batch, outVars>>

\* preempt pushes a copy and keeps the original; the other callers erase it
Released(w) ==
    LET t == task[w] IN
    /\ pc[w] = "release" /\ table[w][t] = <<>>
    /\ \/ /\ after[w] = "preempt"
          /\ status' = [status EXCEPT ![w] = [status[w] EXCEPT ![t] = "WAITING"]]
          /\ queue' = Append(queue, [task |-> t, gen |-> gen[w][t]])
          /\ pc' = [pc EXCEPT ![w] = "decode"]
       \/ /\ after[w] = "erase"
          /\ status' = [status EXCEPT ![w] = [status[w] EXCEPT ![t] = "none"]]
          /\ pc' = [pc EXCEPT ![w] = IF batch[w] = <<>> THEN "idle" ELSE "run"]
          /\ UNCHANGED queue
    /\ UNCHANGED <<serverVars, cancelQ, gen, table, decodeQ, pending, blockVars,
                   task, after, localVars, batch, outVars>>

-----------------------------------------------------------------------------
(* LLMRunner::step: the cancellations first, then Scheduler::schedule.      *)

\* abortRequest: a task that is not tracked or waits may have a copy in the task
\* queue, and is marked for it to be skipped, unless there are too many marks
OnlyUntracked(w, t) == status[w][t] = "none"    \* mutant: a waiting one is not
MayBeQueued(w, t) == status[w][t] \in {"none", "WAITING"}
LeftLinked(w, t) == decodeQ[w]    \* mutant: the pointer stays in the queue
Unlinked(w, t) == Without(decodeQ[w], t)

Abort(w) ==
    LET t == Head(cancelQ[w]) IN
    /\ pc[w] = "idle" /\ cancelQ[w] # <<>>
    /\ cancelQ' = [cancelQ EXCEPT ![w] = Tail(cancelQ[w])]
    /\ pending' = IF /\ MayBeQueued(w, t)
                     /\ Cardinality(pending[w]) < 2 * MaxInFlight
                  THEN [pending EXCEPT ![w] = pending[w] \cup {t}] ELSE pending
    /\ \/ status[w][t] = "none" /\ UNCHANGED <<decodeQ, pc, task, after>>
       \/ /\ status[w][t] # "none"
          /\ decodeQ' = [decodeQ EXCEPT ![w] = Unlinked(w, t)]
          /\ ReleaseThen(w, t, "erase")
    /\ UNCHANGED <<serverVars, queue, status, gen, table, blockVars,
                   localVars, batch, outVars>>

\* with nothing to do the worker blocks in receive() on the task queue, and
\* then pushes what it received back
QueueIsEmpty(w) == queue = <<>>    \* mutant: the decode queue is not looked at
NothingToDo(w) == queue = <<>> /\ decodeQ[w] = <<>>

Wait(w) ==
    /\ pc[w] = "idle" /\ cancelQ[w] = <<>> /\ NothingToDo(w)
    /\ pc' = [pc EXCEPT ![w] = "receive"]
    /\ UNCHANGED <<serverVars, queue, cancelQ, status, gen, table, decodeQ,
                   pending, blockVars, task, after, localVars, batch, outVars>>

Receive(w) ==
    /\ pc[w] = "receive" /\ queue # <<>>
    /\ hold' = [hold EXCEPT ![w] = <<Head(queue)>>]
    /\ queue' = Tail(queue)
    /\ pc' = [pc EXCEPT ![w] = "pushback"]
    /\ UNCHANGED <<serverVars, cancelQ, status, gen, table, decodeQ, pending,
                   blockVars, task, after, miss, batched, batch, outVars>>

PushBack(w) ==
    /\ pc[w] = "pushback"
    /\ queue' = queue \o hold[w]
    /\ hold' = [hold EXCEPT ![w] = <<>>]
    /\ pc' = [pc EXCEPT ![w] = "plan"]
    /\ UNCHANGED <<serverVars, cancelQ, status, gen, table, decodeQ, pending,
                   blockVars, task, after, miss, batched, batch, outVars>>

PrefillLimit(w) ==
    IF policy = "PREFILL_FIRST" THEN MaxInFlight
    ELSE IF Len(decodeQ[w]) < MaxInFlight THEN MaxInFlight - Len(decodeQ[w]) ELSE 0

Plan(w) ==
    /\ \/ pc[w] = "plan"
       \/ /\ pc[w] = "idle" /\ cancelQ[w] = <<>>
          /\ queue # <<>> \/ decodeQ[w] # <<>>
    /\ pc' = [pc EXCEPT ![w] =
                IF queue # <<>> /\ PrefillLimit(w) > 0 THEN "prefill" ELSE "decode"]
    /\ batched' = [batched EXCEPT ![w] = 0]
    /\ UNCHANGED <<serverVars, queue, cancelQ, status, gen, table, decodeQ,
                   pending, blockVars, task, after, hold, miss, batch, outVars>>

-----------------------------------------------------------------------------
(* trySchedulePrefill and BlockManager::allocate.                           *)

AfterPrefill(w) == IF batch[w] = <<>> THEN "decode" ELSE "start"

Fits(w, c) ==
    /\ batched[w] + Size(c.task, c.gen) <= MaxBatched
    /\ Len(free[w]) >= BlocksFor(Size(c.task, c.gen))

\* the copy of an aborted task is dropped, with the original
SkipAborted(w) ==
    LET t == Head(queue).task IN
    /\ pc[w] = "prefill" /\ Len(batch[w]) < PrefillLimit(w)
    /\ queue # <<>> /\ t \in pending[w]
    /\ queue' = Tail(queue)
    /\ pending' = [pending EXCEPT ![w] = pending[w] \ {t}]
    /\ status' = [status EXCEPT ![w] = [status[w] EXCEPT ![t] = "none"]]
    /\ UNCHANGED <<serverVars, cancelQ, gen, table, decodeQ, blockVars, pc, task,
                   after, localVars, batch, outVars>>

\* a copy that finds no room goes to the back of the queue and ends the batch
Dropped(c) == Tail(queue)    \* mutant: it is not pushed back
Returned(c) == Append(Tail(queue), c)

PutBack(w) ==
    LET c == Head(queue) IN
    /\ pc[w] = "prefill" /\ Len(batch[w]) < PrefillLimit(w)
    /\ queue # <<>> /\ c.task \notin pending[w] /\ ~Fits(w, c)
    /\ queue' = Returned(c)
    /\ pc' = [pc EXCEPT ![w] = AfterPrefill(w)]
    /\ UNCHANGED <<serverVars, cancelQ, status, gen, table, decodeQ, pending,
                   blockVars, task, after, localVars, batch, outVars>>

\* the copy takes the place of the original, if there was one
Take(w) ==
    LET c == Head(queue)
        t == c.task
    IN /\ pc[w] = "prefill" /\ Len(batch[w]) < PrefillLimit(w)
       /\ queue # <<>> /\ t \notin pending[w] /\ Fits(w, c)
       /\ queue' = Tail(queue)
       /\ status' = [status EXCEPT ![w] = [status[w] EXCEPT ![t] = "WAITING"]]
       /\ gen' = [gen EXCEPT ![w] = [gen[w] EXCEPT ![t] = c.gen]]
       /\ table' = [table EXCEPT ![w] = [table[w] EXCEPT ![t] = <<>>]]
       /\ batched' = [batched EXCEPT ![w] = batched[w] + Size(t, c.gen)]
       /\ miss' = [miss EXCEPT ![w] = FALSE]
       /\ task' = [task EXCEPT ![w] = t]
       /\ pc' = [pc EXCEPT ![w] = "alloc"]
       /\ UNCHANGED <<serverVars, cancelQ, decodeQ, pending, blockVars, after,
                      hold, batch, outVars>>

PrefillEnds(w) ==
    /\ pc[w] = "prefill"
    /\ queue = <<>> \/ Len(batch[w]) >= PrefillLimit(w)
    /\ pc' = [pc EXCEPT ![w] = AfterPrefill(w)]
    /\ UNCHANGED <<serverVars, queue, cancelQ, status, gen, table, decodeQ,
                   pending, blockVars, task, after, localVars, batch, outVars>>

\* the next block of the task: its hash, and the cached block that serves it
NextIsFull(w) == (Len(table[w][task[w]]) + 1) * BlockSize <= SizeOn(w, task[w])
NextHash(w) ==
    LET t == task[w]
    IN IF NextIsFull(w) THEN Prefix(t, gen[w][t], Len(table[w][t]) + 1) ELSE <<>>
Hits(w) ==
    {b \in Blocks :
        /\ NextHash(w) # <<>> /\ ~miss[w]
        /\ <<NextHash(w), b>> \in index[w]
        /\ hash[w][b] # <<>> /\ TokensOf(hash[w][b]) = TokensOf(NextHash(w))}
InTable(w, b) ==
    LET t == task[w]
    IN table' = [table EXCEPT ![w] = [table[w] EXCEPT ![t] = Append(table[w][t], b)]]
Allocating(w) ==
    pc[w] = "alloc" /\ Len(table[w][task[w]]) < BlocksFor(SizeOn(w, task[w]))

Uncounted(w, b) == 1    \* mutant: the other users of the block are forgotten
OneMore(w, b) == ref[w][b] + 1

AllocHit(w) ==
    \E b \in Hits(w) :
        /\ Allocating(w)
        /\ batched' = [batched EXCEPT ![w] = batched[w] - BlockSize]
        /\ ref' = [ref EXCEPT ![w] = [ref[w] EXCEPT ![b] = OneMore(w, b)]]
        /\ \/ b \notin Elems(free[w]) /\ UNCHANGED <<hash, index, free>>
           \/ /\ b \in Elems(free[w])
              /\ hash' = [hash EXCEPT ![w] = [hash[w] EXCEPT ![b] = NextHash(w)]]
              /\ index' = [index EXCEPT ![w] = Indexed(w, NextHash(w), b)]
              /\ free' = [free EXCEPT ![w] = Without(free[w], b)]
        /\ InTable(w, b)
        /\ UNCHANGED <<serverVars, queue, cancelQ, status, gen, decodeQ, pending,
                       pc, task, after, hold, miss, batch, outVars>>

AllocMiss(w) ==
    LET b == Head(free[w])
        h == NextHash(w)
    IN /\ Allocating(w) /\ Hits(w) = {}
       /\ miss' = [miss EXCEPT ![w] = TRUE]
       /\ ref' = [ref EXCEPT ![w] = [ref[w] EXCEPT ![b] = 1]]
       /\ hash' = [hash EXCEPT ![w] = [hash[w] EXCEPT ![b] = h]]
       /\ index' = IF h = <<>> THEN index
                   ELSE [index EXCEPT ![w] = Indexed(w, h, b)]
       /\ free' = [free EXCEPT ![w] = Tail(free[w])]
       /\ InTable(w, b)
       /\ UNCHANGED <<serverVars, queue, cancelQ, status, gen, decodeQ, pending,
                      pc, task, after, hold, batched, batch, outVars>>

Allocated(w) ==
    /\ pc[w] = "alloc" /\ ~Allocating(w)
    /\ batch' = [batch EXCEPT ![w] = Append(batch[w], task[w])]
    /\ pc' = [pc EXCEPT ![w] = "prefill"]
    /\ UNCHANGED <<serverVars, queue, cancelQ, status, gen, table, decodeQ,
                   pending, blockVars, task, after, localVars, outVars>>

-----------------------------------------------------------------------------
(* tryScheduleDecode, BlockManager::canAppend and mayAppend.                *)

StartsBlock(w, t) == SizeOn(w, t) % BlockSize = 1
CanAppend(w, t) == StartsBlock(w, t) => free[w] # <<>>

Decoding(w) == pc[w] = "decode" /\ decodeQ[w] # <<>> /\ Len(batch[w]) < MaxInFlight

\* a sequence that starts a block takes a free one, and one that fills its last
\* block gives it a hash, chained to the hash of the block before it
Append1(w) ==
    LET t == Head(decodeQ[w])
        tab == table[w][t]
        last == LastOf(tab)
        before == IF Len(tab) > 1 THEN hash[w][tab[Len(tab) - 1]] ELSE <<>>
        h == before \o TokensOf(Tokens(t, gen[w][t]))
        b == Head(free[w])
    IN /\ Decoding(w) /\ CanAppend(w, t)
       /\ decodeQ' = [decodeQ EXCEPT ![w] = Tail(decodeQ[w])]
       /\ batch' = [batch EXCEPT ![w] = Append(batch[w], t)]
       /\ \/ /\ StartsBlock(w, t)
             /\ ref' = [ref EXCEPT ![w] = [ref[w] EXCEPT ![b] = 1]]
             /\ hash' = [hash EXCEPT ![w] = [hash[w] EXCEPT ![b] = <<>>]]
             /\ free' = [free EXCEPT ![w] = Tail(free[w])]
             /\ table' = [table EXCEPT ![w] = [table[w] EXCEPT ![t] = Append(tab, b)]]
             /\ UNCHANGED index
          \/ /\ SizeOn(w, t) % BlockSize = 0
             /\ hash' = [hash EXCEPT ![w] = [hash[w] EXCEPT ![last] = h]]
             /\ index' = [index EXCEPT ![w] = Indexed(w, h, last)]
             /\ UNCHANGED <<ref, free, table>>
          \/ SizeOn(w, t) % BlockSize > 1 /\ UNCHANGED <<blockVars, table>>
       /\ UNCHANGED <<serverVars, queue, cancelQ, status, gen, pending, pc, task,
                      after, localVars, outVars>>

\* without a free block the last sequence of the queue gives up its blocks,
\* the sequence itself when it is the only one
Preempt(w) ==
    /\ Decoding(w) /\ ~CanAppend(w, Head(decodeQ[w]))
    /\ decodeQ' = [decodeQ EXCEPT ![w] = FrontOf(decodeQ[w])]
    /\ ReleaseThen(w, LastOf(decodeQ[w]), "preempt")
    /\ UNCHANGED <<serverVars, queue, cancelQ, status, gen, table, pending,
                   blockVars, localVars, batch, outVars>>

\* the marks are trimmed when the task queue is seen empty
DecodeEnds(w) ==
    /\ pc[w] = "decode"
    /\ decodeQ[w] = <<>> \/ Len(batch[w]) >= MaxInFlight
    /\ pending' = IF queue = <<>> /\ Cardinality(pending[w]) > MaxInFlight
                  THEN [pending EXCEPT ![w] = {}] ELSE pending
    /\ pc' = [pc EXCEPT ![w] = IF batch[w] = <<>> THEN "idle" ELSE "start"]
    /\ UNCHANGED <<serverVars, queue, cancelQ, status, gen, table, decodeQ,
                   blockVars, task, after, localVars, batch, outVars>>

-----------------------------------------------------------------------------
(* The device runner and the callback it makes for each sequence.           *)

\* a runner that has raised returns at once and calls nobody back
Launch(w) ==
    /\ pc[w] = "start"
    /\ \/ ~dead[w] /\ pc' = [pc EXCEPT ![w] = "run"] /\ UNCHANGED <<batch, dead>>
       \/ /\ ~dead[w] /\ MayBreak
          /\ dead' = [dead EXCEPT ![w] = TRUE]
          /\ pc' = [pc EXCEPT ![w] = "run"]
          /\ UNCHANGED batch
       \/ /\ dead[w]
          /\ batch' = [batch EXCEPT ![w] = <<>>]
          /\ pc' = [pc EXCEPT ![w] = "idle"]
          /\ UNCHANGED dead
    /\ UNCHANGED <<serverVars, queue, cancelQ, status, gen, table, decodeQ,
                   pending, blockVars, task, after, localVars, emitted, ended>>

NextToken(w, t) ==
    /\ gen' = [gen EXCEPT ![w] = [gen[w] EXCEPT ![t] = gen[w][t] + 1]]
    /\ emitted' = [emitted EXCEPT ![t] = emitted[t] + 1]

\* postprocess: a token that does not finish the sequence
Token(w) ==
    LET t == Head(batch[w]) IN
    /\ pc[w] = "run" /\ ~dead[w] /\ batch[w] # <<>>
    /\ gen[w][t] + 1 < MaxTokens
    /\ NextToken(w, t)
    /\ status' = [status EXCEPT ![w] = [status[w] EXCEPT ![t] = "RUNNING"]]
    /\ decodeQ' = [decodeQ EXCEPT ![w] = Append(decodeQ[w], t)]
    /\ batch' = [batch EXCEPT ![w] = Tail(batch[w])]
    /\ pc' = [pc EXCEPT ![w] = IF Len(batch[w]) = 1 THEN "idle" ELSE "run"]
    /\ UNCHANGED <<serverVars, queue, cancelQ, table, pending, blockVars, task,
                   after, localVars, dead, ended>>

\* a stop token, the last token allowed, or a completed grammar
Finish(w) ==
    LET t == Head(batch[w]) IN
    /\ pc[w] = "run" /\ ~dead[w] /\ batch[w] # <<>>
    /\ NextToken(w, t)
    /\ ended' = ended \cup {t}
    /\ batch' = [batch EXCEPT ![w] = Tail(batch[w])]
    /\ ReleaseThen(w, t, "erase")
    /\ UNCHANGED <<serverVars, queue, cancelQ, status, table, decodeQ, pending,
                   blockVars, localVars, dead>>

\* an error of the device for this sequence, or a token its grammar rejects
Fail(w) ==
    LET t == Head(batch[w]) IN
    /\ pc[w] = "run" /\ batch[w] # <<>>
    /\ ended' = ended \cup {t}
    /\ batch' = [batch EXCEPT ![w] = Tail(batch[w])]
    /\ ReleaseThen(w, t, "erase")
    /\ UNCHANGED <<serverVars, queue, cancelQ, status, gen, table, decodeQ,
                   pending, blockVars, localVars, dead, emitted>>

-----------------------------------------------------------------------------
WorkerStep(w) ==
    \/ Abort(w) \/ Wait(w) \/ Receive(w) \/ PushBack(w) \/ Plan(w)
    \/ SkipAborted(w) \/ PutBack(w) \/ Take(w) \/ PrefillEnds(w)
    \/ AllocHit(w) \/ AllocMiss(w) \/ Allocated(w)
    \/ Append1(w) \/ Preempt(w) \/ DecodeEnds(w)
    \/ Launch(w) \/ Token(w) \/ Finish(w) \/ Fail(w)
    \/ Release(w) \/ Released(w)

Next ==
    \/ \E t \in Tasks : Submit(t) \/ Cancel(t)
    \/ \E w \in Workers : WorkerStep(w)

Spec == Init /\ [][Next]_vars
FairSpec == Spec /\ \A w \in Workers : WF_vars(WorkerStep(w))

-----------------------------------------------------------------------------
TypeOK ==
    /\ policy \in Policies
    /\ sent \subseteq Tasks /\ cancelled \subseteq sent
    /\ queue \in Seq(Copies)
    /\ cancelQ \in [Workers -> Seq(Tasks)]
    /\ status \in [Workers -> [Tasks -> {"none", "WAITING", "RUNNING"}]]
    /\ gen \in [Workers -> [Tasks -> Nat]]
    /\ table \in [Workers -> [Tasks -> Seq(Blocks)]]
    /\ decodeQ \in [Workers -> Seq(Tasks)]
    /\ pending \in [Workers -> SUBSET Tasks]
    /\ ref \in [Workers -> [Blocks -> Int]]
    /\ hash \in [Workers -> [Blocks -> Seq(Nat)]]
    /\ index \in [Workers -> SUBSET (Seq(Nat) \X Blocks)]
    /\ free \in [Workers -> Seq(Blocks)]
    /\ pc \in [Workers -> Steps]
    /\ task \in [Workers -> Tasks]
    /\ after \in [Workers -> {"erase", "preempt"}]
    /\ hold \in [Workers -> Seq(Copies)]
    /\ miss \in [Workers -> BOOLEAN]
    /\ batched \in [Workers -> Int]
    /\ batch \in [Workers -> Seq(Tasks)]
    /\ dead \in [Workers -> BOOLEAN]
    /\ emitted \in [Tasks -> Nat]
    /\ ended \subseteq Tasks

-----------------------------------------------------------------------------
(* Properties.                                                              *)

Distinct(s) == \A i, j \in DOMAIN s : s[i] = s[j] => i = j
Uses(w, b) ==
    UNION {{<<t, i>> : i \in {j \in DOMAIN table[w][t] : table[w][t][j] = b}} : t \in Tasks}

\* The reference count of a block is the number of places it has in the block
\* tables of the sequences the worker tracks, and the free list holds exactly
\* the blocks that nobody uses, each of them once: no block leaks with an
\* aborted, failed, finished or preempted sequence, and none is handed out
\* while somebody uses it.
BlocksAccounted ==
    \A w \in Workers :
        /\ \A b \in Blocks :
             /\ ref[w][b] = Cardinality(Uses(w, b))
             /\ b \in Elems(free[w]) <=> Uses(w, b) = {}
        /\ Distinct(free[w])
        /\ \A t \in Tasks : status[w][t] = "none" => table[w][t] = <<>>

\* The pointers in the decode queue and in the batch are to sequences the map
\* still owns, and no sequence is in them twice.
NoDangling ==
    \A w \in Workers :
        /\ Distinct(decodeQ[w] \o batch[w])
        /\ \A t \in Elems(decodeQ[w]) : status[w][t] = "RUNNING"
        /\ \A t \in Elems(batch[w]) : status[w][t] # "none"

\* Where a request is: copies in the task queue, held by a worker in receive(),
\* or a worker that runs, decodes or allocates it.
Homes(t) ==
    {<<"queue", i>> : i \in {j \in DOMAIN queue : queue[j].task = t}}
    \cup {<<"held", w>> : w \in {v \in Workers : t \in {c.task : c \in Elems(hold[v])}}}
    \cup {<<"worker", w>> : w \in {v \in Workers :
            \/ t \in Elems(decodeQ[v]) \cup Elems(batch[v])
            \/ pc[v] = "alloc" /\ task[v] = t
            \/ pc[v] = "release" /\ after[v] = "preempt" /\ task[v] = t}}
GenAt(t) ==
    {queue[i].gen : i \in {j \in DOMAIN queue : queue[j].task = t}}
    \cup (UNION {{c.gen : c \in {d \in Elems(hold[w]) : d.task = t}} : w \in Workers})
    \cup {gen[w][t] : w \in {v \in Workers : <<"worker", v>> \in Homes(t)}}

\* A request that was sent and is neither answered nor cancelled is in exactly
\* one place, with exactly the tokens its client has been sent: preemption and
\* the queue between the workers lose, repeat and fork nothing.
OneHome ==
    \A t \in sent \ (ended \cup cancelled) :
        \/ \E w \in Workers : dead[w]
        \/ Cardinality(Homes(t)) = 1 /\ GenAt(t) = {emitted[t]}

\* Once every worker has taken the cancellation of a request from its queue,
\* no token of the request is sent any more.
AbortIsFinal ==
    [][\A t \in cancelled :
         (\A w \in Workers : t \notin Elems(cancelQ[w])) => emitted'[t] = emitted[t]]_vars

\* A request that was sent is answered, unless it is cancelled or a device
\* runner has raised.
Served ==
    \A t \in Tasks :
        t \in sent ~> t \in ended \cup cancelled \/ \E w \in Workers : dead[w]

\* Two sequences share a block only where they share the prefix that ends with
\* it (README.md of cpp_server, "Prefix caching").
SharedBlocksSharePrefix ==
    \A w \in Workers : \A t, u \in Tasks :
        \A i \in DOMAIN table[w][t], j \in DOMAIN table[w][u] :
            table[w][t][i] = table[w][u][j] /\ t # u =>
                i = j /\ Prefix(t, gen[w][t], i) = Prefix(u, gen[w][u], j)
=============================================================================
