--------------------------- MODULE CanaryMonitor ----------------------------
(***************************************************************************)
(* The canary monitor (health_monitoring/canary_monitor.py): when no real  *)
(* request is in flight it sends a probe through the task queue, a worker  *)
(* runs the model's health check, and the answer comes back through the    *)
(* result listener.  Shallow probes ask for the host, every DeepEvery-th   *)
(* one for the device; misses are counted per tier.                        *)
(*                                                                         *)
(* Probes carry one of two fixed ids, so the answer to a probe that timed  *)
(* out is taken for the answer to the next one of its tier.  Real requests *)
(* are the entries they have in the registry of result queues; what else   *)
(* happens to them is RequestPath's subject.                               *)
(***************************************************************************)
EXTENDS Integers, Sequences, FiniteSets

CONSTANTS
    DeadMisses,   \* canary_dead_misses
    DeepEvery,    \* canary_deep_every_n, 0 when deep probes are disabled
    QueueSize,    \* capacity of the task queue
    Threads,      \* bound: health checks a worker runs at once
    MaxAnswers,   \* bound: answers in the result queue
    MaxBusy       \* bound: real requests in the registry

ASSUME CanaryAssumption ==
    /\ DeadMisses \in Nat \ {0} /\ DeepEvery \in Nat /\ QueueSize \in Nat \ {0}
    /\ Threads \in Nat \ {0} /\ MaxAnswers \in Nat \ {0} /\ MaxBusy \in Nat

Tiers  == {"shallow", "deep"}
Models == {"prompt", "slow", "hostonly", "hung"}
None   == "none"

VARIABLES
    state,     \* CanaryState
    misses,    \* consecutive misses per tier, DeadMisses standing for all above
    probe,     \* tier of the probe whose answer is awaited, or None
    cadence,   \* _probe_count modulo DeepEvery
    rested,    \* canary_wait_seconds have passed since the last activity
    grace,     \* in the startup grace period
    inbox,     \* the first answer routed to the awaited probe, or None
    busy,      \* real requests in the registry of result queues
    taskQ,     \* probes in the task queue
    held,      \* per tier: health checks the worker runs
    answers,   \* the result queue
    model      \* what the model is able to do

monitor == <<state, misses, probe, cadence, rested, grace>>
plumbing == <<taskQ, held, answers>>
canaryVars == <<monitor, inbox, busy, plumbing, model>>

Verdict == {"up", "down"}
Answer  == [tier : Tiers, says : Verdict]

CanaryTypeOK ==
    /\ state \in {"starting", "healthy", "probing", "suspect", "dead"}
    /\ misses \in [Tiers -> 0..DeadMisses]
    /\ probe \in Tiers \cup {None} /\ inbox \in Verdict \cup {None}
    /\ cadence \in Nat /\ (DeepEvery > 0 => cadence < DeepEvery)
    /\ rested \in BOOLEAN /\ grace \in BOOLEAN
    /\ busy \in 0..MaxBusy
    /\ taskQ \in Seq(Tiers) /\ Len(taskQ) <= QueueSize
    /\ held \in [Tiers -> 0..Threads]
    /\ answers \in Seq(Answer) /\ Len(answers) <= MaxAnswers
    /\ model \in Models

NoMisses == [t \in Tiers |-> 0]

CanaryInit ==
    /\ state = "starting" /\ misses = NoMisses /\ probe = None /\ cadence = 0
    /\ rested = FALSE /\ grace = TRUE
    /\ inbox = None /\ busy = 0 /\ taskQ = <<>> /\ held = NoMisses /\ answers = <<>>
    /\ model \in Models

-----------------------------------------------------------------------------
(* The monitor.                                                            *)

\* The worst tier decides.
Severity(m) ==
    IF \E t \in Tiers : m[t] >= DeadMisses THEN "dead"
    ELSE IF \E t \in Tiers : m[t] > 0 THEN "suspect"
    ELSE "healthy"

\* A request in flight counts as proof of both tiers.
OnRealActivity ==
    /\ rested' = FALSE /\ misses' = NoMisses /\ state' = "healthy"

OnProbeSuccess_KeepsMisses(t) ==
    /\ rested' = FALSE
    /\ state' = Severity(misses)
    /\ UNCHANGED misses

OnProbeSuccess(t) ==
    /\ misses' = [misses EXCEPT ![t] = 0]
    /\ rested' = FALSE
    /\ state' = Severity(misses')

OnProbeMiss(t) ==
    /\ misses' = [misses EXCEPT ![t] = IF @ < DeadMisses THEN @ + 1 ELSE @]
    /\ state' = Severity(misses')
    /\ UNCHANGED rested

\* Every DeepEvery-th probe issued is a deep one.
NextCadence == IF DeepEvery = 0 THEN 0 ELSE (cadence + 1) % DeepEvery

NextTier_NeverDeep == "shallow"

NextTier == IF DeepEvery > 0 /\ NextCadence = 0 THEN "deep" ELSE "shallow"

\* A tick that finds the server busy.
TickBusy ==
    /\ probe = None /\ ~grace /\ busy > 0
    /\ OnRealActivity
    /\ UNCHANGED <<probe, cadence, grace, inbox, busy, plumbing, model>>

\* A tick of an idle server: issue a probe, or skip it when the queue is full.
TickProbe ==
    /\ probe = None /\ ~grace /\ busy = 0 /\ rested
    /\ cadence' = NextCadence
    /\ IF Len(taskQ) < QueueSize
       THEN /\ taskQ' = Append(taskQ, NextTier)
            /\ probe' = NextTier /\ state' = "probing"
       ELSE UNCHANGED <<taskQ, probe, state>>
    /\ UNCHANGED <<misses, rested, grace, inbox, busy, held, answers, model>>

\* The probe is over; a request that came meanwhile annuls it.
ProbeEnds(says) ==
    /\ probe # None
    /\ probe' = None /\ inbox' = None
    /\ \/ busy > 0 /\ OnRealActivity
       \/ busy = 0 /\ says = "up" /\ OnProbeSuccess(probe)
       \/ busy = 0 /\ says = "down" /\ OnProbeMiss(probe)
    /\ UNCHANGED <<cadence, grace, busy, plumbing, model>>

TakeAnswer == inbox # None /\ ProbeEnds(inbox)

\* A model that is up answers in time; only what does not makes a probe time out.
Timeout == inbox = None /\ model \in {"slow", "hung"} /\ ProbeEnds("down")

GraceEnds == grace /\ grace' = FALSE
             /\ UNCHANGED <<state, misses, probe, cadence, rested, inbox, busy, plumbing, model>>

TimePasses == ~rested /\ rested' = TRUE
              /\ UNCHANGED <<state, misses, probe, cadence, grace, inbox, busy, plumbing, model>>

-----------------------------------------------------------------------------
(* The worker, the listener, the requests and the model.                   *)

\* handle_canary runs the health check in a thread of its own.
TakeProbe ==
    /\ taskQ # <<>> /\ held["shallow"] + held["deep"] < Threads
    /\ held' = [held EXCEPT ![Head(taskQ)] = @ + 1]
    /\ taskQ' = Tail(taskQ)
    /\ UNCHANGED <<monitor, inbox, busy, answers, model>>

\* What the health check may say; a raise says it is down.
Verdicts(t) ==
    CASE model = "prompt" -> {"up"}
      [] model = "slow" -> Verdict
      [] model = "hostonly" -> {IF t = "shallow" THEN "up" ELSE "down"}
      [] OTHER -> {}

HealthCheck(t) ==
    /\ held[t] > 0 /\ Len(answers) < MaxAnswers
    /\ \E v \in Verdicts(t) : answers' = Append(answers, [tier |-> t, says |-> v])
    /\ held' = [held EXCEPT ![t] = @ - 1]
    /\ UNCHANGED <<monitor, inbox, busy, taskQ, model>>

\* The listener knows a probe by its id; an answer nobody waits for is dropped.
RouteAnswer ==
    /\ answers # <<>>
    /\ answers' = Tail(answers)
    /\ inbox' = IF probe = Head(answers).tier /\ inbox = None THEN Head(answers).says
                ELSE inbox
    /\ UNCHANGED <<monitor, busy, taskQ, held, model>>

RequestArrives ==
    /\ busy < MaxBusy /\ busy' = busy + 1
    /\ UNCHANGED <<monitor, inbox, plumbing, model>>

RequestEnds ==
    /\ busy > 0 /\ busy' = busy - 1
    /\ UNCHANGED <<monitor, inbox, plumbing, model>>

ModelChanges ==
    /\ model' \in Models \ {model}
    /\ UNCHANGED <<monitor, inbox, busy, plumbing>>

MonitorMoves == TickBusy \/ TickProbe \/ TakeAnswer \/ Timeout \/ GraceEnds \/ TimePasses
Server == TakeProbe \/ (\E t \in Tiers : HealthCheck(t)) \/ RouteAnswer
Environment == RequestArrives \/ RequestEnds \/ ModelChanges

CanaryNext == MonitorMoves \/ Server \/ Environment

CanarySpec == CanaryInit /\ [][CanaryNext]_canaryVars

\* The loops of monitor, worker and listener go round, clocks advance, and a
\* health check that can answer does.
CanaryFairness ==
    /\ WF_canaryVars(TickBusy) /\ WF_canaryVars(TickProbe)
    /\ WF_canaryVars(TakeAnswer) /\ WF_canaryVars(Timeout)
    /\ WF_canaryVars(GraceEnds) /\ WF_canaryVars(TimePasses)
    /\ WF_canaryVars(TakeProbe) /\ WF_canaryVars(RouteAnswer)
    /\ \A t \in Tiers : WF_canaryVars(HealthCheck(t))

FairSpec == CanarySpec /\ CanaryFairness

-----------------------------------------------------------------------------
(* Safety.                                                                 *)

\* While no probe is under way the reported state is what the worst tier says, and
\* only then: a probe that ends, in whichever way, leaves no state behind that its
\* tier's or the other tier's misses do not bear out.
StateMatchesMisses ==
    IF probe # None THEN state = "probing"
    ELSE state = Severity(misses) \/ (state = "starting" /\ misses = NoMisses)

\* A tier's misses are forgotten for two reasons only: a probe of that tier was
\* answered, or a request is in flight.  A shallow success never clears a deep
\* streak.
OwnTierClears ==
    [][\A t \in Tiers : misses'[t] < misses[t] =>
          busy > 0 \/ (probe = t /\ inbox = "up")]_canaryVars

-----------------------------------------------------------------------------
(* Liveness.                                                               *)

Quiet(m) == model = m /\ busy = 0

\* The task queue is full of probes nobody waits for any more: probes are skipped,
\* and the skipped ones count for the cadence.
Flooded == Len(taskQ) = QueueSize

\* A device that is dead under a live host is declared dead, although every
\* shallow probe in between succeeds.
DeviceNoticed == <>[]Quiet("hostonly") => []<>(state = "dead" \/ Flooded)

\* A model that has recovered is healthy for good, apart from probes under way.
RecoveryNoticed == <>[]Quiet("prompt") => <>[](state \in {"healthy", "probing"}) \/ []<>Flooded

=============================================================================
