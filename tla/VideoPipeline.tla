---------------------------- MODULE VideoPipeline ----------------------------
(***************************************************************************)
(* The path of a video request between the device worker and the external  *)
(* video runner: SPRunner (sp_runner.py) with its event loop and its       *)
(* drainer thread on one side, rank 0 of the runner (video_runner.py) with *)
(* its inference loop, encode queue and encoder thread on the other.       *)
(*                                                                         *)
(* The two rings between them are bounded queues, as VideoFifo promises    *)
(* and VideoRing implements.  submit() and health_check() are synchronous  *)
(* calls inside the event loop: while one of them waits, no other request  *)
(* of the worker goes on.  All canary probes of one kind use one task id.  *)
(* The other ranks follow rank 0 and are left out; so are the warm-up ping *)
(* and the orderly shutdown of either side.                                *)
(***************************************************************************)
EXTENDS Integers, Sequences, FiniteSets

CONSTANTS
    Requests,      \* task ids of real requests
    Conditioned,   \* those with an image side-file (I2V)
    Canaries,      \* the task ids of the probes: one for each kind, used over and over
    InputSlots, OutputSlots,   \* slots of the two rings
    QueueMax,      \* ENCODER_QUEUE_MAXSIZE
    MaxProbes,     \* bound on the canary probes
    MaxRestarts    \* bound on the restarts of the server's worker

Ids == Requests \cup Canaries

ASSUME ConditionedAssumption == Conditioned \subseteq Requests
ASSUME SlotsAssumption ==
    /\ InputSlots \in Nat \ {0} /\ OutputSlots \in Nat \ {0} /\ QueueMax \in Nat \ {0}
    /\ MaxProbes \in Nat /\ MaxRestarts \in Nat
ASSUME CanaryAssumption ==
    Canaries \subseteq {"shallow", "deep"} /\ Canaries \cap Requests = {}

VARIABLES
    \* SPRunner: what each request has come to, its future, _pending,
    \* _pending_image_paths, who holds the event loop
    stage, fut, pending, parked, loop,
    \* the drainer thread and the response in its hand
    drainer,
    \* the rings, the runner's inference loop, encode queue and encoder
    input, peer, jobs, encoder, output,
    \* files on tmpfs: image side-files and videos, by request
    side, mp4,
    \* counters of the bounds
    probes, restarts

serverVars == <<stage, fut, pending, parked, loop>>
runnerVars == <<peer, jobs, encoder>>
boundVars  == <<probes, restarts>>
vars == <<serverVars, drainer, input, runnerVars, output, side, mp4, boundVars>>

Nobody == <<"free", "">>
Idle == [at |-> "idle"]
Ended == {"answered", "error", "timeout", "lost"}

Init ==
    /\ stage = [r \in Requests |-> "new"]
    /\ fut = [i \in Ids |-> "none"]
    /\ pending = {} /\ parked = {} /\ loop = Nobody
    /\ drainer = [at |-> "off"]
    /\ input = <<>> /\ output = <<>> /\ jobs = <<>>
    /\ peer = Idle /\ encoder = Idle
    /\ side = {} /\ mp4 = {}
    /\ probes = 0 /\ restarts = 0

LoopIsFree == loop = Nobody
Started == IF drainer.at = "off" THEN Idle ELSE drainer

-----------------------------------------------------------------------------
(* submit(), await_result() and _run_async().                               *)

\* the side-file is written and the future registered before the ring is tried
Submit(r) ==
    /\ LoopIsFree /\ stage[r] = "new"
    /\ stage' = [stage EXCEPT ![r] = "writing"]
    /\ fut' = [fut EXCEPT ![r] = "pending"]
    /\ pending' = pending \cup {r}
    /\ side' = side \cup ({r} \cap Conditioned)
    /\ loop' = <<"submit", r>>
    /\ UNCHANGED <<parked, drainer, input, runnerVars, output, mp4,
                   boundVars>>

UnlinkedAtOnce(r) == side \ {r}   \* mutant: the side-file goes once it is written
KeptForPeer(r) == side

Written(r) ==
    /\ loop = <<"submit", r>> /\ Len(input) < InputSlots
    /\ input' = Append(input, r)
    /\ stage' = [stage EXCEPT ![r] = "waiting"]
    /\ parked' = parked \cup ({r} \cap Conditioned)
    /\ side' = KeptForPeer(r)
    /\ drainer' = Started
    /\ loop' = Nobody
    /\ UNCHANGED <<fut, pending, runnerVars, output, mp4, boundVars>>

\* a field that cannot be packed: the request is refused, with nothing left behind
WriteFails(r) ==
    /\ loop = <<"submit", r>> /\ Len(input) < InputSlots
    /\ stage' = [stage EXCEPT ![r] = "error"]
    /\ fut' = [fut EXCEPT ![r] = "none"]
    /\ pending' = pending \ {r}
    /\ side' = side \ {r}
    /\ loop' = Nobody
    /\ UNCHANGED <<parked, drainer, input, runnerVars, output, mp4, boundVars>>

\* every way out of await_result pops the future, and _run_async the side-file
Leave(r, how) ==
    /\ LoopIsFree /\ stage[r] = "waiting"
    /\ stage' = [stage EXCEPT ![r] = how]
    /\ pending' = pending \ {r}
    /\ parked' = parked \ {r}
    /\ side' = side \ (parked \cap {r})
    /\ UNCHANGED <<loop, drainer, input, runnerVars, output, mp4,
                   boundVars>>

Resume(r) ==
    /\ UNCHANGED fut
    /\ \/ fut[r] = "ok" /\ Leave(r, "answered")
       \/ fut[r] = "failed" /\ Leave(r, "error")

\* wait_for cancels the future; a result that is set but has not reached the
\* event loop yet is lost
TimeOut(r) ==
    /\ fut' = IF fut[r] = "pending" THEN [fut EXCEPT ![r] = "cancelled"] ELSE fut
    /\ Leave(r, "timeout")

-----------------------------------------------------------------------------
(* health_check(): one probe, on the event loop, until its ack or its time. *)

Probe(id) ==
    /\ LoopIsFree /\ probes < MaxProbes
    /\ id \notin pending
    /\ probes' = probes + 1
    /\ fut' = [fut EXCEPT ![id] = "pending"]
    /\ pending' = pending \cup {id}
    /\ loop' = <<"write", id>>
    /\ UNCHANGED <<stage, parked, drainer, input, runnerVars, output, side, mp4,
                   restarts>>

ProbeWritten(id) ==
    /\ loop = <<"write", id>> /\ Len(input) < InputSlots
    /\ input' = Append(input, id)
    /\ loop' = <<"probe", id>>
    /\ drainer' = Started
    /\ UNCHANGED <<stage, fut, pending, parked, runnerVars, output,
                   side, mp4, boundVars>>

\* the future goes with its entry, whatever the verdict
ProbeEnds(id) ==
    /\ pending' = pending \ {id}
    /\ fut' = [fut EXCEPT ![id] = "none"]
    /\ loop' = Nobody
    /\ UNCHANGED <<stage, parked, drainer, input, runnerVars, output, side, mp4,
                   boundVars>>

ProbeAcked(id) ==
    loop = <<"probe", id>> /\ fut[id] \in {"ok", "failed"} /\ ProbeEnds(id)

ProbeTimesOut(id) ==
    loop \in {<<"write", id>>, <<"probe", id>>} /\ ProbeEnds(id)

-----------------------------------------------------------------------------
(* The drainer thread.  It holds the response it read, and then the future  *)
(* it found for it; gen tells the future of one probe from another's.       *)

DrainerRead ==
    /\ drainer.at = "idle" /\ output # <<>>
    /\ drainer' = [at |-> "read", id |-> Head(output).id, ok |-> Head(output).ok]
    /\ output' = Tail(output)
    /\ UNCHANGED <<serverVars, input, runnerVars, side, mp4, boundVars>>

\* mutant: the drainer only drops the response
DiscardKeepsVideo ==
    /\ UNCHANGED mp4
    /\ drainer' = Idle

\* an orphan, or a response to a future that is done: the video is unlinked
Discard ==
    /\ mp4' = mp4 \ {drainer.id}
    /\ drainer' = Idle

DrainerLooksUp ==
    /\ drainer.at = "read"
    /\ \/ drainer.id \notin pending /\ Discard
       \/ /\ drainer.id \in pending
          /\ drainer' = [at |-> "found", id |-> drainer.id, ok |-> drainer.ok,
                         gen |-> probes]
          /\ UNCHANGED mp4
    /\ UNCHANGED <<serverVars, input, runnerVars, output, side, boundVars>>

\* done() of the future it found: the future of an earlier probe is never done
DoneAlready == drainer.id \in Requests /\ fut[drainer.id] # "pending"

DrainerTests ==
    /\ drainer.at = "found"
    /\ \/ DoneAlready /\ Discard
       \/ ~DoneAlready /\ drainer' = [drainer EXCEPT !.at = "set"] /\ UNCHANGED mp4
    /\ UNCHANGED <<serverVars, input, runnerVars, output, side, boundVars>>

\* set_result raises on a future that was cancelled since the test, and the
\* thread ends: nothing catches it, and _ensure_drainer starts no other
DrainerSets ==
    LET id == drainer.id IN
    /\ drainer.at = "set"
    /\ \/ /\ fut[id] = "cancelled"
          /\ drainer' = [drainer EXCEPT !.at = "dead"]
          /\ UNCHANGED fut
       \/ /\ fut[id] # "cancelled"
          /\ fut' = IF id \in Canaries /\ (id \notin pending \/ drainer.gen # probes)
                    THEN fut
                    ELSE [fut EXCEPT ![id] = IF drainer.ok THEN "ok" ELSE "failed"]
          /\ drainer' = Idle
    /\ UNCHANGED <<stage, pending, parked, loop, input, runnerVars, output,
                   side, mp4, boundVars>>

-----------------------------------------------------------------------------
(* _run_inference_loop of rank 0, and _encoder_loop.                        *)

Read ==
    /\ peer.at = "idle" /\ input # <<>>
    /\ peer' = [at |-> "load", id |-> Head(input)]
    /\ input' = Tail(input)
    /\ UNCHANGED <<serverVars, drainer, jobs, encoder, output, side, mp4, boundVars>>

\* the side-file is read once: a request without it is answered with an error
Load ==
    /\ peer.at = "load"
    /\ peer' = IF peer.id \in Conditioned \ side
               THEN [at |-> "put", id |-> peer.id, kind |-> "error"]
               ELSE [at |-> "run", id |-> peer.id]
    /\ UNCHANGED <<serverVars, drainer, input, jobs, encoder, output, side, mp4,
                   boundVars>>

\* the forward, the collective of a canary, or their failure; the barrier of a
\* shallow probe does not fail, it hangs or passes
Run ==
    /\ peer.at = "run"
    /\ \E kind \in {"done", "error"} :
         /\ kind = "error" => peer.id # "shallow"
         /\ peer' = [at |-> "put", id |-> peer.id, kind |-> kind]
    /\ UNCHANGED <<serverVars, drainer, input, jobs, encoder, output, side, mp4,
                   boundVars>>

Job == [id |-> peer.id, kind |-> peer.kind]

\* mutant: the loop writes an error to the output ring itself
PutErrorPast ==
    /\ peer.at = "put" /\ peer' = Idle
    /\ \/ /\ peer.kind = "done" /\ Len(jobs) < QueueMax
          /\ jobs' = Append(jobs, Job) /\ UNCHANGED output
       \/ /\ peer.kind = "error" /\ Len(output) < OutputSlots
          /\ output' = Append(output, [id |-> peer.id, ok |-> FALSE])
          /\ UNCHANGED jobs
    /\ UNCHANGED <<serverVars, drainer, input, encoder, side, mp4, boundVars>>

Put ==
    /\ peer.at = "put" /\ Len(jobs) < QueueMax
    /\ jobs' = Append(jobs, Job)
    /\ peer' = Idle
    /\ UNCHANGED <<serverVars, drainer, input, encoder, output, side, mp4, boundVars>>

\* mutant: a failed export is logged and not answered
AnswerIfExported(j, ok) ==
    IF ok THEN [at |-> "write", id |-> j.id, ok |-> ok] ELSE Idle
AnswerTo(j, ok) == [at |-> "write", id |-> j.id, ok |-> ok]

\* a canary's job is acknowledged whatever it says; frames are exported to a
\* video file, which may fail
Encode ==
    LET j == Head(jobs) IN
    /\ encoder.at = "idle" /\ jobs # <<>>
    /\ jobs' = Tail(jobs)
    /\ \E ok \in BOOLEAN :
         /\ j.id \in Canaries => ok
         /\ j.id \in Requests /\ j.kind = "error" => ~ok
         /\ encoder' = AnswerTo(j, ok)
         /\ mp4' = mp4 \cup {r \in Requests : r = j.id /\ ok}
    /\ UNCHANGED <<serverVars, drainer, input, peer, output, side, boundVars>>

Respond ==
    /\ encoder.at = "write" /\ Len(output) < OutputSlots
    /\ output' = Append(output, [id |-> encoder.id, ok |-> encoder.ok])
    /\ encoder' = Idle
    /\ UNCHANGED <<serverVars, drainer, input, peer, jobs, side, mp4, boundVars>>

-----------------------------------------------------------------------------
\* The worker process dies and another one opens the rings: set_device drains
\* and unlinks the responses it finds and sweeps the image side-files.
Restart ==
    /\ restarts < MaxRestarts
    /\ \E r \in Requests : stage[r] \in {"writing", "waiting"}
    /\ restarts' = restarts + 1
    /\ stage' = [r \in Requests |-> IF stage[r] \in {"writing", "waiting"}
                                    THEN "lost" ELSE stage[r]]
    /\ fut' = [i \in Ids |-> "none"]
    /\ pending' = {} /\ parked' = {} /\ loop' = Nobody
    /\ drainer' = [at |-> "off"]
    /\ mp4' = mp4 \ {output[i].id : i \in DOMAIN output}
    /\ output' = <<>>
    /\ side' = {}
    /\ UNCHANGED <<input, runnerVars, probes>>

LoopStep ==
    \/ \E r \in Requests : Written(r) \/ WriteFails(r) \/ Resume(r)
    \/ \E id \in Canaries : ProbeWritten(id) \/ ProbeAcked(id) \/ ProbeTimesOut(id)
DrainerStep == DrainerRead \/ DrainerLooksUp \/ DrainerTests \/ DrainerSets
PeerStep == Read \/ Load \/ Run \/ Put
EncoderStep == Encode \/ Respond

Next ==
    \/ \E r \in Requests : Submit(r) \/ TimeOut(r)
    \/ \E id \in Canaries : Probe(id)
    \/ LoopStep \/ DrainerStep \/ PeerStep \/ EncoderStep \/ Restart

Spec == Init /\ [][Next]_vars

\* Every thread goes on when it can.  Nothing is assumed of the deadline of a
\* request: the pipeline has to answer before it, however far off it is.
FairSpec ==
    /\ Spec
    /\ WF_vars(LoopStep) /\ WF_vars(DrainerStep)
    /\ WF_vars(PeerStep) /\ WF_vars(EncoderStep)

-----------------------------------------------------------------------------
Response == [id : Ids, ok : BOOLEAN]
TypeOK ==
    /\ stage \in [Requests -> {"new", "writing", "waiting"} \cup Ended]
    /\ fut \in [Ids -> {"none", "pending", "ok", "failed", "cancelled"}]
    /\ pending \subseteq Ids /\ parked \subseteq Requests
    /\ loop \in {Nobody} \cup ({"submit"} \X Requests) \cup ({"write", "probe"} \X Canaries)
    /\ drainer \in {[at |-> "off"], Idle}
         \cup [at : {"read"}, id : Ids, ok : BOOLEAN]
         \cup [at : {"found", "set", "dead"}, id : Ids, ok : BOOLEAN, gen : Nat]
    /\ input \in Seq(Ids) /\ output \in Seq(Response)
    /\ jobs \in Seq([id : Ids, kind : {"done", "error"}])
    /\ peer \in {Idle} \cup [at : {"load", "run"}, id : Ids]
                \cup [at : {"put"}, id : Ids, kind : {"done", "error"}]
    /\ encoder \in {Idle} \cup [at : {"write"}, id : Ids, ok : BOOLEAN]
    /\ side \subseteq Requests /\ mp4 \subseteq Requests
    /\ probes \in Nat /\ restarts \in Nat

-----------------------------------------------------------------------------
(* Properties.                                                              *)

IdsOf(s) == [i \in DOMAIN s |-> s[i].id]
Hand(x) == IF x.at = "idle" THEN <<>> ELSE <<x.id>>

\* The runner's queues between the rings, with the rings, are one line in the
\* order in which the requests were written: no answer overtakes another one,
\* and no request is lost or answered twice, whether it succeeds or fails.
Line == INSTANCE AnswerLine WITH
    line <- IdsOf(output) \o Hand(encoder) \o IdsOf(jobs) \o Hand(peer) \o input
OneLine == Line!Spec

\* While a request waits for its answer and the runner has not read its
\* side-file, the file is there: unlinking it on the way out of _run_async,
\* and the sweep of a restarted worker, take nothing that is still needed.
SideFileKept ==
    \A r \in Conditioned :
        /\ stage[r] = "waiting"
        /\ r \in {input[i] : i \in DOMAIN input} \/ peer = [at |-> "load", id |-> r]
        => r \in side

\* A video file is on its way to the server, in the hand of a caller that will
\* have it or has it, or gone, except where its request gave up after the
\* drainer had resolved its future, or the drainer or its process died with it.
OnItsWay(r) ==
    \/ encoder.at = "write" /\ encoder.id = r
    \/ \E i \in DOMAIN output : output[i].id = r
    \/ drainer.at \in {"read", "found", "set"} /\ drainer.id = r
VideoHasOwner ==
    \A r \in mp4 :
        \/ OnItsWay(r)
        \/ fut[r] = "ok" /\ stage[r] \in {"waiting", "answered", "timeout"}
        \/ stage[r] = "answered"
        \/ drainer.at = "dead" /\ drainer.id = r
        \/ restarts > 0 /\ stage[r] \in {"lost", "timeout"}

\* A request that was submitted is answered or refused however small the
\* rings and the queue are, unless the drainer has died: the event loop that
\* waits for room, the two threads of the runner and the drainer never all
\* wait for each other.
AllAnswered ==
    \A r \in Requests :
        stage[r] = "writing" ~> stage[r] \in Ended \/ drainer.at = "dead"
=============================================================================
