--------------------------- MODULE PrefillGateway ----------------------------
(***************************************************************************)
(* The prefill gateway (tt-media-server/prefill_gateway) in its default    *)
(* ZMQ mode: one decode server, several prefill servers, and a dispatcher  *)
(* that assigns each prefill request to a server and returns one verdict.  *)
(*                                                                         *)
(* Four threads share the dispatcher's table of tasks in flight, the       *)
(* registry and the affinity cache, each behind a mutex of its own:        *)
(*   decode    the message loop of the decode socket: requests, cancels    *)
(*   io        the router's loop: registrations, results, every send       *)
(*   watchdog  servers that have not registered for a while are down       *)
(*   timer     tasks that have been in flight for too long                 *)
(* Steps of a thread that no other thread can tell apart are one action.   *)
(***************************************************************************)
EXTENDS Integers, FiniteSets

CONSTANTS
    Tasks, Servers, Keys,
    NoTask, NoServer, \* no task and no server
    NoKey,            \* the key of a request without registration hashes
    KeyOf,            \* first registration hash of each task
    MaxInFlight,      \* capacity a server registers with, 0 for unlimited
    Threshold,        \* timeouts within the window that block a server
    MaxConnections,   \* bound: connections a server makes
    MaxStale          \* bound: times the watchdog finds servers silent

ASSUME GatewayAssumption ==
    /\ IsFiniteSet(Tasks)
    /\ NoTask \notin Tasks /\ NoServer \notin Servers /\ NoKey \notin Keys
    /\ KeyOf \in [Tasks -> Keys \cup {NoKey}]
    /\ MaxInFlight \in Nat /\ Threshold \in Nat \ {0}
    /\ MaxConnections \in Nat \ {0} /\ MaxStale \in Nat

Target == Servers \cup {NoServer}

VARIABLES
    stage,      \* decode: "new", "asked", or "handled" by the dispatcher
    aborted,    \* decode: tasks it has given up
    cancels,    \* decode: cancel messages on their way
    forwarded,  \* per task: results of a server that reached decode
    failed,     \* per task: failures made by the gateway that reached decode
    healthy, accepting, inFlight,   \* the registry
    entry,      \* in_flight_: the server a task in flight is assigned to
    affinity,   \* the affinity cache
    strikes,    \* timeouts of a server in the window
    blocked,    \* servers in their cooldown
    peer,       \* connection the router knows a server by, 0 for none
    decode,     \* the request the decode thread is in
    io,         \* the result the io thread is in
    silent,     \* servers the watchdog has taken out of the router
    downing,    \* the server the watchdog has marked down and not finished with
    due,        \* tasks the timer took out of the table, with their servers
    stales,     \* how often the watchdog found servers silent
    conn,       \* number of a server's current connection
    introduced, \* servers whose connection has sent its registration
    work,       \* tasks a server computes
    results,    \* results on their way to the router
    slot,       \* history: the server whose count stands for a task
    orphaned,   \* history: tasks the loss of a server failed
    accepted    \* history: cancelled tasks that were in flight

decodeSide == <<stage, aborted, cancels>>
verdicts   == <<forwarded, failed>>
registry   == <<healthy, accepting, inFlight>>
watchdog   == <<silent, downing, stales>>
timer      == <<strikes, blocked, due>>
prefills   == <<conn, introduced, work, results>>
history    == <<slot, orphaned, accepted>>
vars == <<decodeSide, verdicts, registry, entry, affinity, peer, decode, io, watchdog,
          timer, prefills, history>>

Stages == {"idle", "record", "lookup", "sending", "drop"}

DecodeIdle == [pc |-> "idle", task |-> NoTask, server |-> NoServer, to |-> 0]
IoIdle     == [task |-> NoTask, server |-> NoServer]
Result     == [task : Tasks, server : Servers, on : 1..MaxConnections]

TypeOK ==
    /\ stage \in [Tasks -> {"new", "asked", "handled"}]
    /\ aborted \in SUBSET Tasks /\ cancels \in SUBSET Tasks
    /\ forwarded \in [Tasks -> Nat] /\ failed \in [Tasks -> Nat]
    /\ healthy \in [Servers -> BOOLEAN] /\ accepting \in [Servers -> BOOLEAN]
    /\ inFlight \in [Servers -> Nat]
    /\ entry \in [Tasks -> Target] /\ affinity \in [Keys -> Target]
    /\ strikes \in [Servers -> 0..(Threshold - 1)] /\ blocked \in SUBSET Servers
    /\ peer \in [Servers -> 0..MaxConnections]
    /\ decode \in [pc : Stages, task : Tasks \cup {NoTask}, server : Target,
                   to : 0..MaxConnections]
    /\ io \in [task : Tasks \cup {NoTask}, server : Target]
    /\ silent \in SUBSET Servers /\ stales \in 0..MaxStale
    /\ downing \in Target
    /\ due \in [Tasks -> Target]
    /\ conn \in [Servers -> 1..MaxConnections] /\ introduced \in SUBSET Servers
    /\ work \in SUBSET (Tasks \X Servers) /\ results \in SUBSET Result
    /\ slot \in [Tasks -> Target]
    /\ orphaned \in SUBSET Tasks /\ accepted \in SUBSET Tasks

Nowhere == [t \in Tasks |-> NoServer]

Init ==
    /\ stage = [t \in Tasks |-> "new"] /\ aborted = {} /\ cancels = {}
    /\ forwarded = [t \in Tasks |-> 0] /\ failed = [t \in Tasks |-> 0]
    /\ healthy = [s \in Servers |-> FALSE] /\ accepting = [s \in Servers |-> TRUE]
    /\ inFlight = [s \in Servers |-> 0]
    /\ entry = Nowhere /\ affinity = [k \in Keys |-> NoServer]
    /\ strikes = [s \in Servers |-> 0] /\ blocked = {} /\ due = Nowhere
    /\ peer = [s \in Servers |-> 0] /\ decode = DecodeIdle /\ io = IoIdle
    /\ silent = {} /\ downing = NoServer /\ stales = 0
    /\ conn = [s \in Servers |-> 1] /\ introduced = {} /\ work = {} /\ results = {}
    /\ slot = Nowhere /\ orphaned = {} /\ accepted = {}

-----------------------------------------------------------------------------
(* The decode server.                                                      *)

Ask(t) ==
    /\ stage[t] = "new"
    /\ stage' = [stage EXCEPT ![t] = "asked"]
    /\ UNCHANGED <<aborted, cancels, verdicts, registry, entry, affinity, peer, decode, io,
                   watchdog, timer, prefills, history>>

Answered(t) == forwarded[t] + failed[t] > 0

\* The cancel follows its request on the same connection.
Abort(t) ==
    /\ stage[t] # "new" /\ ~Answered(t) /\ t \notin aborted
    /\ aborted' = aborted \cup {t} /\ cancels' = cancels \cup {t}
    /\ UNCHANGED <<stage, verdicts, registry, entry, affinity, peer, decode, io, watchdog,
                   timer, prefills, history>>

-----------------------------------------------------------------------------
(* The decode thread.                                                      *)

Fail(tasks) == failed' = [t \in Tasks |-> IF t \in tasks THEN failed[t] + 1 ELSE failed[t]]

Eligible(s) ==
    healthy[s] /\ accepting[s] /\ (MaxInFlight > 0 => inFlight[s] < MaxInFlight)

\* The server that had the same prefix, else any of the least loaded ones: the
\* round-robin cursor, of all requests, is not kept.
Selection(key) ==
    LET eligible == {s \in Servers : Eligible(s)} IN
    IF key # NoKey /\ affinity[key] \in eligible THEN {affinity[key]}
    ELSE {s \in eligible : \A other \in eligible : inFlight[s] <= inFlight[other]}

Increment(s) == inFlight' = [inFlight EXCEPT ![s] = @ + 1]

\* onPrefillRequest up to the increment: a server chosen from a copy of the registry.
Select(t) ==
    /\ decode = DecodeIdle /\ stage[t] = "asked"
    /\ stage' = [stage EXCEPT ![t] = "handled"]
    /\ \/ /\ Selection(KeyOf[t]) = {} /\ Fail({t})
          /\ UNCHANGED <<decode, inFlight, slot>>
       \/ \E s \in Selection(KeyOf[t]) :
          /\ decode' = [pc |-> "record", task |-> t, server |-> s, to |-> 0]
          /\ Increment(s)
          /\ slot' = [slot EXCEPT ![t] = s]
          /\ UNCHANGED failed
    /\ UNCHANGED <<aborted, cancels, forwarded, healthy, accepting, entry, affinity, peer, io,
                   watchdog, timer, prefills, orphaned, accepted>>

Goes(pc) == decode' = [decode EXCEPT !.pc = pc]

Record ==
    /\ decode.pc = "record" /\ Goes("lookup")
    /\ entry' = [entry EXCEPT ![decode.task] = decode.server]
    /\ UNCHANGED <<decodeSide, verdicts, registry, affinity, peer, io, watchdog, timer,
                   prefills, history>>

\* sendObject looks the connection up before it queues the message ...
Lookup ==
    /\ decode.pc = "lookup"
    /\ decode' = [pc |-> IF peer[decode.server] = 0 THEN "drop" ELSE "sending",
                  task |-> decode.task, server |-> decode.server,
                  to |-> peer[decode.server]]
    /\ UNCHANGED <<decodeSide, verdicts, registry, entry, affinity, peer, io, watchdog, timer,
                   prefills, history>>

\* ... and waits until the io thread, between two messages, has sent it.  A
\* connection that is gone may still swallow it.
Send ==
    /\ decode.pc = "sending" /\ io = IoIdle
    /\ \/ /\ decode' = DecodeIdle
          /\ work' = IF decode.to = conn[decode.server]
                     THEN work \cup {<<decode.task, decode.server>>} ELSE work
       \/ Goes("drop") /\ UNCHANGED work
    /\ UNCHANGED <<decodeSide, verdicts, registry, entry, affinity, peer, io, watchdog, timer,
                   conn, introduced, results, history>>

Decrement(s) == inFlight' = [inFlight EXCEPT ![s] = IF @ > 0 THEN @ - 1 ELSE 0]

Drop ==
    /\ decode.pc = "drop" /\ decode' = DecodeIdle
    /\ Decrement(decode.server)
    /\ slot' = [slot EXCEPT ![decode.task] = NoServer]
    /\ entry' = [entry EXCEPT ![decode.task] = NoServer]
    /\ Fail({decode.task})
    /\ UNCHANGED <<decodeSide, forwarded, healthy, accepting, affinity, peer, io, watchdog,
                   timer, prefills, orphaned, accepted>>

\* The cancel that goes on to the server is best effort.
StopsMaybe(t) == \/ UNCHANGED work
                 \/ work' = {w \in work : w[1] # t}

Cancel(t) ==
    /\ decode = DecodeIdle /\ t \in cancels /\ stage[t] = "handled"
    /\ cancels' = cancels \ {t}
    /\ IF entry[t] = NoServer
       THEN UNCHANGED <<inFlight, entry, work, slot, accepted>>
       ELSE /\ entry' = [entry EXCEPT ![t] = NoServer]
            /\ Decrement(entry[t])
            /\ slot' = [slot EXCEPT ![t] = NoServer]
            /\ StopsMaybe(t)
            /\ accepted' = accepted \cup {t}
    /\ UNCHANGED <<stage, aborted, verdicts, healthy, accepting, affinity, peer, decode, io,
                   watchdog, timer, conn, introduced, results, orphaned>>

-----------------------------------------------------------------------------
(* The io thread.                                                          *)

\* A registration, repeated as a heartbeat: rememberRegistration, preRegister and
\* markRegistered.
Register(s) ==
    /\ io = IoIdle
    /\ peer' = [peer EXCEPT ![s] = conn[s]]
    /\ healthy' = [healthy EXCEPT ![s] = TRUE]
    /\ introduced' = introduced \cup {s}
    /\ UNCHANGED <<decodeSide, verdicts, accepting, inFlight, entry, affinity, decode, io,
                   watchdog, timer, conn, work, results, history>>

TakeResult_KeepsEntry(m) ==
    /\ io = IoIdle /\ m \in results
    /\ results' = results \ {m}
    /\ io' = IF peer[m.server] = m.on /\ entry[m.task] # NoServer
             THEN [task |-> m.task, server |-> m.server] ELSE io
    /\ UNCHANGED <<decodeSide, verdicts, registry, entry, affinity, peer, decode, watchdog,
                   timer, conn, introduced, work, history>>

\* A result on a connection the router does not know, or for a task that is not in
\* flight, is dropped.
TakeResult(m) ==
    /\ io = IoIdle /\ m \in results
    /\ results' = results \ {m}
    /\ IF peer[m.server] = m.on /\ entry[m.task] # NoServer
       THEN /\ entry' = [entry EXCEPT ![m.task] = NoServer]
            /\ io' = [task |-> m.task, server |-> m.server]
       ELSE UNCHANGED <<entry, io>>
    /\ UNCHANGED <<decodeSide, verdicts, registry, affinity, peer, decode, watchdog, timer,
                   conn, introduced, work, history>>

RecordAffinity(key, s) ==
    affinity' = IF key = NoKey THEN affinity ELSE [affinity EXCEPT ![key] = s]

\* A result that is an error is forwarded all the same, and says nothing of its prefix.
FinishResult ==
    /\ io # IoIdle /\ io' = IoIdle
    /\ Decrement(io.server)
    /\ slot' = [slot EXCEPT ![io.task] = NoServer]
    /\ RecordAffinity(KeyOf[io.task], io.server) \/ UNCHANGED affinity
    /\ forwarded' = [forwarded EXCEPT ![io.task] = @ + 1]
    /\ UNCHANGED <<decodeSide, failed, healthy, accepting, entry, peer, decode, watchdog,
                   timer, prefills, orphaned, accepted>>

-----------------------------------------------------------------------------
(* The watchdog thread.                                                    *)

\* takeStaleServers
TakeStale(stale) ==
    /\ silent = {} /\ downing = NoServer /\ stales < MaxStale
    /\ stale # {} /\ \A s \in stale : peer[s] # 0
    /\ peer' = [s \in Servers |-> IF s \in stale THEN 0 ELSE peer[s]]
    /\ silent' = stale /\ stales' = stales + 1
    /\ UNCHANGED <<decodeSide, verdicts, registry, entry, affinity, decode, io, downing,
                   timer, prefills, history>>

EvictPrefill(s) ==
    affinity' = [k \in Keys |-> IF affinity[k] = s THEN NoServer ELSE affinity[k]]

\* markDown up to evictPrefill.
MarkDown(s) ==
    /\ downing = NoServer /\ s \in silent
    /\ silent' = silent \ {s} /\ downing' = s
    /\ healthy' = [healthy EXCEPT ![s] = FALSE]
    /\ EvictPrefill(s)
    /\ UNCHANGED <<decodeSide, verdicts, accepting, inFlight, entry, peer, decode, io, stales,
                   timer, prefills, history>>

FailOrphans_KeepsEntries ==
    LET orphans == {t \in Tasks : entry[t] = downing} IN
    /\ downing # NoServer /\ downing' = NoServer
    /\ Fail(orphans)
    /\ orphaned' = orphaned \cup orphans
    /\ UNCHANGED <<decodeSide, forwarded, registry, entry, affinity, peer, decode, io, silent,
                   stales, timer, prefills, slot, accepted>>

FailOrphans_Silently ==
    LET orphans == {t \in Tasks : entry[t] = downing} IN
    /\ downing # NoServer /\ downing' = NoServer
    /\ entry' = [t \in Tasks |-> IF t \in orphans THEN NoServer ELSE entry[t]]
    /\ orphaned' = orphaned \cup orphans
    /\ UNCHANGED <<decodeSide, verdicts, registry, affinity, peer, decode, io, silent,
                   stales, timer, prefills, slot, accepted>>

FailOrphans_GivesBack ==
    LET orphans == {t \in Tasks : entry[t] = downing} IN
    /\ downing # NoServer /\ downing' = NoServer
    /\ entry' = [t \in Tasks |-> IF t \in orphans THEN NoServer ELSE entry[t]]
    /\ Fail(orphans)
    /\ inFlight' = [inFlight EXCEPT ![downing] = @ - Cardinality(orphans)]
    /\ orphaned' = orphaned \cup orphans
    /\ UNCHANGED <<decodeSide, forwarded, healthy, accepting, affinity, peer, decode, io,
                   silent, stales, timer, prefills, slot, accepted>>

\* onPrefillDown: the server's tasks are failed; its count stays as it is.
FailOrphans ==
    LET orphans == {t \in Tasks : entry[t] = downing} IN
    /\ downing # NoServer /\ downing' = NoServer
    /\ entry' = [t \in Tasks |-> IF t \in orphans THEN NoServer ELSE entry[t]]
    /\ Fail(orphans)
    /\ orphaned' = orphaned \cup orphans
    /\ UNCHANGED <<decodeSide, forwarded, registry, affinity, peer, decode, io, silent,
                   stales, timer, prefills, slot, accepted>>

-----------------------------------------------------------------------------
(* The timer thread.                                                       *)

\* onRequestTimeouts: cooldowns end, and tasks that are overdue leave the table.
\* A task whose send is under way is not old enough.
Tick(recovered, overdue) ==
    /\ due = Nowhere
    /\ recovered \in SUBSET blocked
    /\ overdue \in SUBSET {t \in Tasks : entry[t] # NoServer /\ t # decode.task}
    /\ recovered \cup overdue # {}
    /\ blocked' = blocked \ recovered
    /\ accepting' = [s \in Servers |-> s \in recovered \/ accepting[s]]
    /\ due' = [t \in Tasks |-> IF t \in overdue THEN entry[t] ELSE NoServer]
    /\ entry' = [t \in Tasks |-> IF t \in overdue THEN NoServer ELSE entry[t]]
    /\ UNCHANGED <<decodeSide, verdicts, healthy, inFlight, affinity, peer, decode, io,
                   watchdog, strikes, prefills, history>>

\* This timeout and those of the last ones that are still in the window.
Strike(s) ==
    \E n \in 1..strikes[s] + 1 :
        IF n >= Threshold
        THEN /\ strikes' = [strikes EXCEPT ![s] = 0]
             /\ blocked' = blocked \cup {s}
             /\ accepting' = [accepting EXCEPT ![s] = FALSE]
        ELSE /\ strikes' = [strikes EXCEPT ![s] = n]
             /\ UNCHANGED <<blocked, accepting>>

Expire(t) ==
    /\ due[t] # NoServer
    /\ due' = [due EXCEPT ![t] = NoServer]
    /\ Decrement(due[t])
    /\ slot' = [slot EXCEPT ![t] = NoServer]
    /\ StopsMaybe(t)
    /\ Strike(due[t])
    /\ Fail({t})
    /\ UNCHANGED <<decodeSide, forwarded, healthy, entry, affinity, peer, decode, io,
                   watchdog, conn, introduced, results, orphaned, accepted>>

-----------------------------------------------------------------------------
(* The prefill servers.                                                    *)

\* A result, or one of several chunks that each are sent as a result.
Respond(t, s) ==
    /\ <<t, s>> \in work /\ s \in introduced
    /\ results' = results \cup {[task |-> t, server |-> s, on |-> conn[s]]}
    /\ work' \in {work, work \ {<<t, s>>}}
    /\ UNCHANGED <<decodeSide, verdicts, registry, entry, affinity, peer, decode, io,
                   watchdog, timer, conn, introduced, history>>

\* The process is replaced, or only its connection; what was under way may be lost.
Reconnect(s) ==
    /\ conn[s] < MaxConnections
    /\ conn' = [conn EXCEPT ![s] = @ + 1] /\ introduced' = introduced \ {s}
    /\ work' \in {work, {w \in work : w[2] # s}}
    /\ results' \in {results, {m \in results : m.server # s}}
    /\ UNCHANGED <<decodeSide, verdicts, registry, entry, affinity, peer, decode, io,
                   watchdog, timer, history>>

-----------------------------------------------------------------------------
Decode == \E t \in Tasks : Ask(t) \/ Abort(t)
DecodeThread == (\E t \in Tasks : Select(t) \/ Cancel(t))
                \/ Record \/ Lookup \/ Send \/ Drop
IoThread == (\E s \in Servers : Register(s)) \/ (\E m \in results : TakeResult(m))
            \/ FinishResult
Watchdog == (\E stale \in SUBSET Servers : TakeStale(stale)) \/ (\E s \in Servers : MarkDown(s))
            \/ FailOrphans
Timer == (\E recovered \in SUBSET Servers, overdue \in SUBSET Tasks : Tick(recovered, overdue))
         \/ (\E t \in Tasks : Expire(t))
Prefills == \E s \in Servers : Reconnect(s) \/ \E t \in Tasks : Respond(t, s)

Next == Decode \/ DecodeThread \/ IoThread \/ Watchdog \/ Timer \/ Prefills

Spec == Init /\ [][Next]_vars

\* The gateway's threads go on; every task that stays in flight gets old.
Fairness ==
    /\ \A t \in Tasks : WF_vars(Select(t)) /\ WF_vars(Cancel(t)) /\ WF_vars(Expire(t))
    /\ WF_vars(Record) /\ WF_vars(Lookup) /\ WF_vars(Send) /\ WF_vars(Drop)
    /\ WF_vars(FinishResult)
    /\ \A t \in Tasks : WF_vars(\E recovered \in SUBSET Servers, overdue \in SUBSET Tasks :
                                    t \in overdue /\ Tick(recovered, overdue))

FairSpec == Spec /\ Fairness

-----------------------------------------------------------------------------
(* Safety.                                                                 *)

\* Decode gets at most one server's result for a task, and none beside a failure
\* the gateway made: whoever takes a task out of the table has its verdict.
OneVerdict ==
    \A t \in Tasks : forwarded[t] <= 1 /\ (forwarded[t] = 1 => failed[t] = 0)

\* A task is failed twice only when its server was lost while its send failed.
FailedTwiceOnlyByLoss == \A t \in Tasks : failed[t] <= (IF t \in orphaned THEN 2 ELSE 1)

\* A cancel that found its task in flight is the last word on it.
AcceptedCancelIsFinal ==
    \A t \in accepted : forwarded[t] = 0 /\ failed[t] = 0

\* The watchdog leaves no task behind at a server it has taken out: what is still
\* assigned to one is the request the decode thread is about to fail.
DownServerHoldsNoTask ==
    \A t \in Tasks : LET s == entry[t] IN
        s # NoServer /\ peer[s] = 0 /\ s \notin silent /\ downing # s
            => decode.task = t

\* A server never has more tasks in flight than it registered for.
CapacityRespected ==
    MaxInFlight > 0 =>
        \A s \in Servers : Cardinality({t \in Tasks : entry[t] = s}) <= MaxInFlight

\* A thread, or the table, has the task that a unit of some server's count stands for.
Held(t) ==
    \/ entry[t] # NoServer \/ due[t] # NoServer \/ io.task = t
    \/ decode.task = t

\* A unit of a count that nobody will give back belongs to a task that was failed with
\* its server: capacity is lost with a server that goes down, and in no other way.
CapacityLostOnlyByLoss == \A t \in Tasks : slot[t] # NoServer => Held(t) \/ t \in orphaned

\* A thread, or the table, has the task for that server.
Holds(t, s) ==
    \/ entry[t] = s \/ due[t] = s \/ io = [task |-> t, server |-> s]
    \/ decode.task = t /\ decode.server = s

\* No count runs short: whoever takes a task out of the table and gives its unit back is
\* the only one to do so, and a server is never offered more than it has room for.  The
\* count may run over: the tasks failed with a lost server stay in it, although
\* prefill_registry.cpp:40-41 says that onPrefillDown will "decrement counts via the
\* normal path".
CountCovers ==
    \A s \in Servers : Cardinality({t \in Tasks : Holds(t, s)}) <= inFlight[s]

-----------------------------------------------------------------------------
(* Liveness.                                                               *)

\* Every task the decode server asks for gets a verdict or is given up, whatever
\* becomes of its server.
EveryTaskSettled == \A t \in Tasks : stage[t] = "asked" ~> Answered(t) \/ t \in aborted

=============================================================================
