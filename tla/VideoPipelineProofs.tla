------------------------- MODULE VideoPipelineProofs -------------------------
(***************************************************************************)
(* Proofs about the video pipeline, for any rings and queues, any requests *)
(* and any number of restarts: its types, that image side-files stay as    *)
(* long as they are needed, and that what is between the two writers is    *)
(* the line AnswerLine promises.                                           *)
(***************************************************************************)
EXTENDS VideoPipeline, SequenceTheorems, TLAPS

USE DEF Ids

-----------------------------------------------------------------------------
(* Types.                                                                   *)

DrainerType ==
    {[at |-> "off"], Idle}
         \cup [at : {"read"}, id : Ids, ok : BOOLEAN]
         \cup [at : {"found", "set", "dead"}, id : Ids, ok : BOOLEAN, gen : Nat]
PeerType ==
    {Idle} \cup [at : {"load", "run"}, id : Ids]
           \cup [at : {"put"}, id : Ids, kind : {"done", "error"}]
EncoderType == {Idle} \cup [at : {"write"}, id : Ids, ok : BOOLEAN]
JobType == [id : Ids, kind : {"done", "error"}]

TypeServer ==
    /\ stage \in [Requests -> {"new", "writing", "waiting"} \cup Ended]
    /\ fut \in [Ids -> {"none", "pending", "ok", "failed", "cancelled"}]
    /\ pending \subseteq Ids /\ parked \subseteq Requests
    /\ loop \in {Nobody} \cup ({"submit"} \X Requests) \cup ({"write", "probe"} \X Canaries)
TypeLine ==
    /\ input \in Seq(Ids) /\ output \in Seq(Response) /\ jobs \in Seq(JobType)
    /\ peer \in PeerType /\ encoder \in EncoderType
TypeRest ==
    /\ drainer \in DrainerType
    /\ side \subseteq Requests /\ mp4 \subseteq Requests
    /\ probes \in Nat /\ restarts \in Nat

LEMMA TypeSplit == TypeOK <=> TypeServer /\ TypeLine /\ TypeRest
  BY DEF TypeOK, TypeServer, TypeLine, TypeRest, DrainerType, PeerType, EncoderType, JobType

\* Every variable keeps its type.
THEOREM VideoTypeCorrect == Spec => []TypeOK
<1>1. Init => TypeServer /\ TypeLine /\ TypeRest
  <2> SUFFICES ASSUME Init PROVE TypeServer /\ TypeLine /\ TypeRest
    OBVIOUS
  <2>1. TypeServer
    BY DEF Init, TypeServer
  <2>2. TypeLine
    <3>1. <<>> \in Seq(Ids) /\ <<>> \in Seq(Response) /\ <<>> \in Seq(JobType)
      OBVIOUS
    <3> QED
      BY <3>1 DEF Init, TypeLine, PeerType, EncoderType
  <2>3. TypeRest
    BY DEF Init, TypeRest, DrainerType
  <2> QED
    BY <2>1, <2>2, <2>3
<1>2. TypeServer /\ TypeLine /\ TypeRest /\ [Next]_vars => TypeServer'
  <2> SUFFICES ASSUME TypeServer, TypeLine, TypeRest, [Next]_vars PROVE TypeServer'
    OBVIOUS
  <2> USE DEF TypeServer
  <2>1. ASSUME NEW r \in Requests, Submit(r) PROVE TypeServer'
    BY <2>1 DEF Submit
  <2>2. ASSUME NEW r \in Requests, TimeOut(r) PROVE TypeServer'
    BY <2>2 DEF TimeOut, Leave, Ended
  <2>3. ASSUME NEW id \in Canaries, Probe(id) PROVE TypeServer'
    BY <2>3 DEF Probe
  <2>4. ASSUME NEW r \in Requests, Written(r) PROVE TypeServer'
    BY <2>4 DEF Written
  <2>5. ASSUME NEW r \in Requests, WriteFails(r) PROVE TypeServer'
    BY <2>5 DEF WriteFails, Ended
  <2>6. ASSUME NEW r \in Requests, Resume(r) PROVE TypeServer'
    BY <2>6 DEF Resume, Leave, Ended
  <2>7. ASSUME NEW id \in Canaries, ProbeWritten(id) PROVE TypeServer'
    BY <2>7 DEF ProbeWritten
  <2>8. ASSUME NEW id \in Canaries, ProbeAcked(id) \/ ProbeTimesOut(id) PROVE TypeServer'
    BY <2>8 DEF ProbeAcked, ProbeTimesOut, ProbeEnds
  <2>9. CASE DrainerSets
    BY <2>9 DEF DrainerSets
  <2>10. CASE Restart
    BY <2>10 DEF Restart, Ended
  <2>11. CASE DrainerRead \/ DrainerLooksUp \/ DrainerTests \/ PeerStep \/ EncoderStep
              \/ UNCHANGED vars
    BY <2>11 DEF DrainerRead, DrainerLooksUp, DrainerTests, PeerStep, Read, Load, Run, Put,
       EncoderStep, Encode, Respond, vars, serverVars
  <2> QED
    BY <2>1, <2>2, <2>3, <2>4, <2>5, <2>6, <2>7, <2>8, <2>9, <2>10, <2>11
       DEF Next, LoopStep, DrainerStep
<1>3. TypeServer /\ TypeLine /\ TypeRest /\ [Next]_vars => TypeLine'
  <2> SUFFICES ASSUME TypeServer, TypeLine, TypeRest, [Next]_vars PROVE TypeLine'
    OBVIOUS
  <2> USE DEF TypeLine
  <2>1. ASSUME NEW id \in Ids, input' = Append(input, id),
               UNCHANGED <<runnerVars, output>> PROVE TypeLine'
    BY <2>1 DEF runnerVars
  <2>2. CASE DrainerRead
    BY <2>2 DEF DrainerRead, runnerVars
  <2>3. CASE Read
    <3>1. Head(input) \in Ids /\ Tail(input) \in Seq(Ids)
      BY <2>3 DEF Read
    <3> QED
      BY <2>3, <3>1 DEF Read, PeerType, Idle
  <2>4. CASE Load
    BY <2>4 DEF Load, PeerType, Idle
  <2>5. CASE Run
    BY <2>5 DEF Run, PeerType, Idle
  <2>6. CASE Put
    BY <2>6 DEF Put, Job, JobType, PeerType, Idle
  <2>7. CASE Encode
    <3>1. Head(jobs) \in JobType /\ Tail(jobs) \in Seq(JobType)
      BY <2>7 DEF Encode
    <3> QED
      BY <2>7, <3>1 DEF Encode, AnswerTo, JobType, EncoderType
  <2>8. CASE Respond
    BY <2>8 DEF Respond, Response, EncoderType, Idle
  <2>9. CASE Restart
    BY <2>9 DEF Restart, runnerVars
  <2>10. CASE UNCHANGED <<input, runnerVars, output>>
    BY <2>10 DEF runnerVars
  <2> QED
    BY <2>1, <2>2, <2>3, <2>4, <2>5, <2>6, <2>7, <2>8, <2>9, <2>10
       DEF Next, LoopStep, DrainerStep, PeerStep, EncoderStep, Submit, TimeOut, Leave, Probe,
           Written, WriteFails, Resume, ProbeWritten, ProbeAcked, ProbeTimesOut, ProbeEnds,
           DrainerLooksUp, DrainerTests, DrainerSets, vars
<1>4. TypeServer /\ TypeLine /\ TypeRest /\ [Next]_vars => TypeRest'
  <2> SUFFICES ASSUME TypeServer, TypeLine, TypeRest, [Next]_vars PROVE TypeRest'
    OBVIOUS
  <2> USE DEF TypeRest
  <2>1. ASSUME NEW r \in Requests, Submit(r) \/ WriteFails(r) \/ TimeOut(r) \/ Resume(r)
        PROVE  TypeRest'
    BY <2>1 DEF Submit, WriteFails, TimeOut, Resume, Leave, boundVars
  <2>2. ASSUME NEW id \in Canaries, Probe(id) \/ ProbeAcked(id) \/ ProbeTimesOut(id)
        PROVE  TypeRest'
    BY <2>2 DEF Probe, ProbeAcked, ProbeTimesOut, ProbeEnds, boundVars
  <2>3. ASSUME NEW r \in Requests, Written(r) PROVE TypeRest'
    BY <2>3 DEF Written, KeptForPeer, Started, DrainerType, boundVars
  <2>4. ASSUME NEW id \in Canaries, ProbeWritten(id) PROVE TypeRest'
    BY <2>4 DEF ProbeWritten, Started, DrainerType, boundVars
  <2>5. CASE DrainerRead
    <3>1. Head(output) \in Response
      BY <2>5 DEF DrainerRead, TypeLine
    <3> QED
      BY <2>5, <3>1 DEF DrainerRead, Response, DrainerType, boundVars
  <2>6. CASE DrainerLooksUp
    BY <2>6 DEF DrainerLooksUp, Discard, DrainerType, Idle, boundVars
  <2>7. CASE DrainerTests
    BY <2>7 DEF DrainerTests, Discard, DrainerType, Idle, boundVars
  <2>8. CASE DrainerSets
    BY <2>8 DEF DrainerSets, DrainerType, Idle, boundVars
  <2>9. CASE PeerStep \/ Respond
    BY <2>9 DEF PeerStep, Read, Load, Run, Put, Respond, boundVars
  <2>10. CASE Encode
    BY <2>10 DEF Encode, boundVars
  <2>11. CASE Restart
    BY <2>11 DEF Restart, DrainerType
  <2>12. CASE UNCHANGED vars
    BY <2>12 DEF vars, boundVars
  <2> QED
    BY <2>1, <2>2, <2>3, <2>4, <2>5, <2>6, <2>7, <2>8, <2>9, <2>10, <2>11, <2>12
       DEF Next, LoopStep, DrainerStep, EncoderStep
<1> QED
  BY <1>1, <1>2, <1>3, <1>4, TypeSplit, PTL DEF Spec

(* Image side-files.                                                        *)

\* the event loop holds a request only while it is being written, and a request
\* that waits still has its side-file, read by the runner or not
Held ==
    \A r \in Requests :
        /\ loop = <<"submit", r>> => stage[r] = "writing"
        /\ r \in Conditioned /\ stage[r] \in {"writing", "waiting"} => r \in side

LEMMA HeldHolds == Spec => []Held
<1>1. Init => Held
  <2>1. \A r \in Requests : Nobody # <<"submit", r>>
    BY DEF Nobody
  <2> QED
    BY <2>1 DEF Init, Held
<1>2. TypeOK /\ Held /\ [Next]_vars => Held'
  <2> SUFFICES ASSUME TypeOK, Held, [Next]_vars PROVE Held'
    OBVIOUS
  <2>a. TypeServer
    BY TypeSplit
  <2> USE DEF Held
  <2>1. ASSUME NEW r \in Requests, Submit(r) PROVE Held'
    BY <2>1, <2>a DEF Submit, TypeServer
  <2>2. ASSUME NEW r \in Requests, NEW how \in Ended, Leave(r, how) PROVE Held'
    BY <2>2, <2>a DEF Leave, TypeServer, Ended, LoopIsFree, Nobody
  <2>3. ASSUME NEW r \in Requests, Written(r) PROVE Held'
    BY <2>3, <2>a DEF Written, TypeServer, KeptForPeer, Nobody
  <2>4. ASSUME NEW r \in Requests, WriteFails(r) PROVE Held'
    BY <2>4, <2>a DEF WriteFails, TypeServer, Nobody
  <2>5. ASSUME NEW id \in Canaries, Probe(id) \/ ProbeWritten(id) \/ ProbeAcked(id)
               \/ ProbeTimesOut(id)
        PROVE  Held'
    <3>1. loop' \in {Nobody, <<"write", id>>, <<"probe", id>>} /\ UNCHANGED <<stage, side>>
      BY <2>5 DEF Probe, ProbeWritten, ProbeAcked, ProbeTimesOut, ProbeEnds
    <3>2. \A r : loop' # <<"submit", r>>
      <4>1. \A r : Nobody # <<"submit", r>> /\ <<"write", id>> # <<"submit", r>>
                  /\ <<"probe", id>> # <<"submit", r>>
        BY DEF Nobody
      <4> QED
        BY <3>1, <4>1
    <3> QED
      BY <3>1, <3>2
  <2>6. CASE DrainerStep \/ PeerStep \/ EncoderStep \/ UNCHANGED vars
    <3>1. UNCHANGED <<stage, loop, side>>
      BY <2>6 DEF DrainerStep, DrainerRead, DrainerLooksUp, DrainerTests, DrainerSets,
         PeerStep, Read, Load, Run, Put, EncoderStep, Encode, Respond, vars, serverVars
    <3> QED
      BY <3>1
  <2>7. CASE Restart
    BY <2>7, <2>a DEF Restart, TypeServer, Nobody
  <2>8. ASSUME NEW r \in Requests, Resume(r) \/ TimeOut(r) PROVE Held'
    BY <2>8, <2>2 DEF Resume, TimeOut, Ended
  <2> QED
    BY <2>1, <2>3, <2>4, <2>5, <2>6, <2>7, <2>8 DEF Next, LoopStep
<1> QED
  BY <1>1, <1>2, VideoTypeCorrect, PTL DEF Spec

\* While a request waits, the runner finds its image side-file: what _run_async
\* unlinks on its way out and what set_device sweeps is never still needed.
THEOREM SideFileKeptHolds == Spec => []SideFileKept
<1>1. Held => SideFileKept
  BY ConditionedAssumption DEF Held, SideFileKept
<1> QED
  BY <1>1, HeldHolds, PTL

-----------------------------------------------------------------------------
(* The line.                                                                *)

HIDE DEF Ids

Queue == IdsOf(output) \o Hand(encoder) \o IdsOf(jobs) \o Hand(peer) \o input

LEMMA IdsSeq ==
    ASSUME NEW S, NEW s \in Seq(S), \A x \in S : x.id \in Ids
    PROVE  IdsOf(s) \in Seq(Ids) /\ Len(IdsOf(s)) = Len(s)
  BY DEF IdsOf

LEMMA IdsAppend ==
    ASSUME NEW S, NEW s \in Seq(S), NEW x \in S, \A y \in S : y.id \in Ids
    PROVE  IdsOf(Append(s, x)) = IdsOf(s) \o <<x.id>>
<1>1. IdsOf(s) \in Seq(Ids) /\ Len(IdsOf(s)) = Len(s)
  BY IdsSeq
<1>2. IdsOf(Append(s, x)) \in Seq(Ids) /\ Len(IdsOf(Append(s, x))) = Len(s) + 1
  <2>1. Append(s, x) \in Seq(S) /\ Len(Append(s, x)) = Len(s) + 1
    OBVIOUS
  <2> QED
    BY <2>1, IdsSeq
<1>3. \A i \in 1..(Len(s) + 1) : IdsOf(Append(s, x))[i] = (IdsOf(s) \o <<x.id>>)[i]
  BY <1>1 DEF IdsOf
<1>4. IdsOf(s) \o <<x.id>> \in Seq(Ids) /\ Len(IdsOf(s) \o <<x.id>>) = Len(s) + 1
  BY <1>1
<1> QED
  BY <1>2, <1>3, <1>4, SeqEqual

LEMMA IdsHead ==
    ASSUME NEW S, NEW s \in Seq(S), s # <<>>, \A y \in S : y.id \in Ids
    PROVE  IdsOf(s) = <<Head(s).id>> \o IdsOf(Tail(s))
<1>1. IdsOf(s) \in Seq(Ids) /\ Len(IdsOf(s)) = Len(s)
  BY IdsSeq
<1>2. Tail(s) \in Seq(S) /\ Len(Tail(s)) = Len(s) - 1 /\ Head(s) \in S
  OBVIOUS
<1>3. IdsOf(Tail(s)) \in Seq(Ids) /\ Len(IdsOf(Tail(s))) = Len(s) - 1
  BY <1>2, IdsSeq
<1>4. \A i \in 1..Len(s) : IdsOf(s)[i] = (<<Head(s).id>> \o IdsOf(Tail(s)))[i]
  BY <1>1, <1>2, <1>3 DEF IdsOf
<1>5. /\ <<Head(s).id>> \o IdsOf(Tail(s)) \in Seq(Ids)
      /\ Len(<<Head(s).id>> \o IdsOf(Tail(s))) = Len(s)
  <2>1. Head(s).id \in Ids /\ Len(s) \in Nat
    BY <1>2
  <2>2. <<Head(s).id>> \in Seq(Ids) /\ Len(<<Head(s).id>>) = 1
    BY <2>1
  <2> QED
    BY <1>3, <2>1, <2>2, ConcatProperties
<1> QED
  BY <1>1, <1>4, <1>5, SeqEqual

\* the head of a part moves to the part before it
LEMMA Forward ==
    ASSUME NEW p \in Seq(Ids), NEW x \in Ids, NEW q \in Seq(Ids)
    PROVE  (p \o <<>>) \o (<<x>> \o q) = (p \o <<x>>) \o q
<1>1. <<x>> \in Seq(Ids)
  OBVIOUS
<1>2. p \o <<>> = p
  BY ConcatEmptySeq
<1>3. (p \o <<x>>) \o q = p \o (<<x>> \o q)
  BY <1>1, ConcatAssociative
<1> QED
  BY <1>2, <1>3

LEMMA IdsAssociative ==
    \A x, s, t \in Seq(Ids) : (x \o s) \o t = x \o (s \o t)
<1> SUFFICES ASSUME NEW x \in Seq(Ids), NEW s \in Seq(Ids), NEW t \in Seq(Ids)
             PROVE  (x \o s) \o t = x \o (s \o t)
  OBVIOUS
<1> QED
  BY ConcatAssociative

\* what is in front of the first part is in front of the line
Grouped(x, a, b, c, d, e) ==
    (x \o a) \o b \o c \o d \o e = x \o (a \o b \o c \o d \o e)

LEMMA Front == \A x, a, b, c, d, e \in Seq(Ids) : Grouped(x, a, b, c, d, e)
<1> SUFFICES ASSUME NEW x \in Seq(Ids), NEW a \in Seq(Ids), NEW b \in Seq(Ids),
                    NEW c \in Seq(Ids), NEW d \in Seq(Ids), NEW e \in Seq(Ids)
             PROVE  Grouped(x, a, b, c, d, e)
  OBVIOUS
<1>1. \A s, t \in Seq(Ids) : s \o t \in Seq(Ids)
  BY ConcatProperties
<1>2. \A s, t \in Seq(Ids) : (x \o s) \o t = x \o (s \o t)
  BY IdsAssociative, Zenon
<1>3. a \o b \in Seq(Ids)
  BY <1>1
<1>4. a \o b \o c \in Seq(Ids)
  BY <1>1, <1>3
<1>5. a \o b \o c \o d \in Seq(Ids)
  BY <1>1, <1>4
<1>6. (x \o a) \o b = x \o (a \o b)
  BY <1>2
<1>7. (x \o (a \o b)) \o c = x \o (a \o b \o c)
  BY <1>2, <1>3
<1>8. (x \o (a \o b \o c)) \o d = x \o (a \o b \o c \o d)
  BY <1>2, <1>4
<1>9. (x \o (a \o b \o c \o d)) \o e = x \o (a \o b \o c \o d \o e)
  BY <1>2, <1>5
<1> QED
  BY <1>6, <1>7, <1>8, <1>9, Zenon DEF Grouped

LEMMA TailOfConcat ==
    ASSUME NEW x \in Ids, NEW q \in Seq(Ids)
    PROVE  <<x>> \o q # <<>> /\ Tail(<<x>> \o q) = q /\ Head(<<x>> \o q) = x
<1>1. /\ <<x>> \o q \in Seq(Ids) /\ Len(<<x>> \o q) = 1 + Len(q)
      /\ \A i \in 1..Len(q) : (<<x>> \o q)[i + 1] = q[i]
  OBVIOUS
<1>2. <<x>> \o q # <<>>
  BY <1>1
<1>3. /\ Tail(<<x>> \o q) \in Seq(Ids) /\ Len(Tail(<<x>> \o q)) = Len(q)
      /\ \A i \in 1..Len(q) : Tail(<<x>> \o q)[i] = q[i]
  BY <1>1, <1>2
<1> QED
  BY <1>2, <1>3, SeqEqual

LEMMA RestOfConcat ==
    ASSUME NEW p \in Seq(Ids), NEW q \in Seq(Ids)
    PROVE  SubSeq(p \o q, Len(p) + 1, Len(p \o q)) = q
<1>1. /\ p \o q \in Seq(Ids) /\ Len(p \o q) = Len(p) + Len(q)
      /\ \A i \in 1..Len(q) : (p \o q)[Len(p) + i] = q[i]
  OBVIOUS
<1>2. /\ SubSeq(p \o q, Len(p) + 1, Len(p \o q)) \in Seq(Ids)
      /\ Len(SubSeq(p \o q, Len(p) + 1, Len(p \o q))) = Len(q)
      /\ \A i \in 1..Len(q) : SubSeq(p \o q, Len(p) + 1, Len(p \o q))[i] = q[i]
  BY <1>1
<1> QED
  BY <1>2, SeqEqual

LEMMA PartsType ==
    ASSUME TypeOK
    PROVE  /\ IdsOf(output) \in Seq(Ids) /\ Hand(encoder) \in Seq(Ids)
           /\ IdsOf(jobs) \in Seq(Ids) /\ Hand(peer) \in Seq(Ids) /\ input \in Seq(Ids)
           /\ Len(IdsOf(output)) = Len(output)
<1> USE TypeSplit DEF TypeLine
<1>1. IdsOf(output) \in Seq(Ids) /\ Len(IdsOf(output)) = Len(output)
  <2>1. \A x \in Response : x.id \in Ids
    BY DEF Response
  <2> QED
    BY <2>1, IdsSeq
<1>2. IdsOf(jobs) \in Seq(Ids)
  <2>1. \A x \in JobType : x.id \in Ids
    BY DEF JobType
  <2> QED
    BY <2>1, IdsSeq
<1>3. Hand(encoder) \in Seq(Ids)
  <2>1. CASE encoder.at = "idle"
    BY <2>1 DEF Hand
  <2>2. CASE encoder.at # "idle"
    <3>1. encoder.id \in Ids
      BY <2>2 DEF EncoderType, Idle
    <3> QED
      BY <2>2, <3>1 DEF Hand
  <2> QED
    BY <2>1, <2>2
<1>4. Hand(peer) \in Seq(Ids)
  <2>1. CASE peer.at = "idle"
    BY <2>1 DEF Hand
  <2>2. CASE peer.at # "idle"
    <3>1. peer.id \in Ids
      BY <2>2 DEF PeerType, Idle
    <3> QED
      BY <2>2, <3>1 DEF Hand
  <2> QED
    BY <2>1, <2>2
<1> QED
  BY <1>1, <1>2, <1>3, <1>4

\* a request that is written joins the line at its end
LEMMA AskSteps ==
    ASSUME TypeOK, NEW id \in Ids, input' = Append(input, id),
           UNCHANGED <<output, encoder, jobs, peer>>
    PROVE  Queue' = Append(Queue, id)
<1> DEFINE p == IdsOf(output) \o Hand(encoder) \o IdsOf(jobs) \o Hand(peer)
<1>1. p \in Seq(Ids) /\ input \in Seq(Ids) /\ p' = p
  BY PartsType DEF IdsOf, Hand
<1>2. p \o Append(input, id) = Append(p \o input, id)
  <2> HIDE DEF p
  <2>1. Append(input, id) = input \o <<id>>
    BY <1>1, AppendIsConcat
  <2>2. <<id>> \in Seq(Ids) /\ p \o input \in Seq(Ids)
    BY <1>1
  <2>3. (p \o input) \o <<id>> = p \o (input \o <<id>>)
    BY <1>1, <2>2, ConcatAssociative
  <2>4. Append(p \o input, id) = (p \o input) \o <<id>>
    BY <2>2, AppendIsConcat
  <2> QED
    BY <2>1, <2>3, <2>4
<1> QED
  BY <1>1, <1>2 DEF Queue

\* inside the runner the line does not change
LEMMA InnerSteps ==
    ASSUME TypeOK, PeerStep \/ EncoderStep
    PROVE  Queue' = Queue
<1>a. TypeLine
  BY TypeSplit
<1>b. \A x \in JobType : x.id \in Ids
  BY DEF JobType
<1>1. CASE Read
  <2>1. input = <<Head(input)>> \o Tail(input) /\ Head(input) \in Ids /\ Tail(input) \in Seq(Ids)
    BY <1>1, <1>a DEF Read, TypeLine
  <2>2. /\ Hand(peer) = <<>> /\ Hand(peer)' = <<Head(input)>> /\ input' = Tail(input)
        /\ UNCHANGED <<output, encoder, jobs>>
    BY <1>1 DEF Read, Hand
  <2>3. PICK p \in Seq(Ids) : p = IdsOf(output) \o Hand(encoder) \o IdsOf(jobs)
    <3>1. IdsOf(output) \o Hand(encoder) \in Seq(Ids)
      BY PartsType, ConcatProperties
    <3>2. IdsOf(output) \o Hand(encoder) \o IdsOf(jobs) \in Seq(Ids)
      BY <3>1, PartsType, ConcatProperties
    <3> QED
      BY <3>2
  <2>4. p = (IdsOf(output) \o Hand(encoder) \o IdsOf(jobs))'
    BY <2>2, <2>3 DEF IdsOf, Hand
  <2>5. (p \o <<>>) \o (<<Head(input)>> \o Tail(input)) = (p \o <<Head(input)>>) \o Tail(input)
    BY <2>1, Forward
  <2>6. Queue = (p \o <<>>) \o (<<Head(input)>> \o Tail(input))
    BY <2>1, <2>2, <2>3 DEF Queue
  <2>7. Queue' = (p \o <<Head(input)>>) \o Tail(input)
    BY <2>2, <2>4 DEF Queue
  <2> QED
    BY <2>5, <2>6, <2>7
<1>2. CASE Load \/ Run
  <2>1. Hand(peer)' = Hand(peer) /\ UNCHANGED <<output, encoder, jobs, input>>
    BY <1>2 DEF Load, Run, Hand
  <2> QED
    BY <2>1 DEF Queue, IdsOf, Hand
<1>3. CASE Put
  <2>1. /\ Hand(peer) = <<peer.id>> /\ Hand(peer)' = <<>> /\ jobs' = Append(jobs, Job)
        /\ UNCHANGED <<output, encoder, input>>
    BY <1>3 DEF Put, Hand, Idle
  <2>2. Job \in JobType /\ peer.id \in Ids /\ Job.id = peer.id /\ jobs \in Seq(JobType)
    BY <1>3, <1>a DEF Put, Job, JobType, TypeLine, PeerType, Idle
  <2>3. IdsOf(jobs)' = IdsOf(jobs) \o <<peer.id>>
    BY <2>1, <2>2, <1>b, IdsAppend
  <2>4. PICK p \in Seq(Ids), c \in Seq(Ids) :
            p = IdsOf(output) \o Hand(encoder) /\ c = IdsOf(jobs)
    <3>1. IdsOf(output) \o Hand(encoder) \in Seq(Ids)
      BY PartsType, ConcatProperties
    <3> QED
      BY <3>1, PartsType
  <2>5. p = (IdsOf(output) \o Hand(encoder))'
    BY <2>1, <2>4 DEF IdsOf, Hand
  <2>6. (p \o (c \o <<peer.id>>)) \o <<>> = (p \o c) \o <<peer.id>>
    <3>1. <<peer.id>> \in Seq(Ids)
      BY <2>2
    <3>2. p \o (c \o <<peer.id>>) = (p \o c) \o <<peer.id>>
      BY <3>1, ConcatAssociative
    <3>3. p \o (c \o <<peer.id>>) \in Seq(Ids)
      BY <3>1, ConcatProperties
    <3> QED
      BY <3>2, <3>3, ConcatEmptySeq
  <2>7. Queue = ((p \o c) \o <<peer.id>>) \o input
    BY <2>1, <2>4 DEF Queue
  <2>8. Queue' = ((p \o (c \o <<peer.id>>)) \o <<>>) \o input
    BY <2>1, <2>3, <2>4, <2>5 DEF Queue
  <2> QED
    BY <2>6, <2>7, <2>8
<1>4. CASE Encode
  <2>1. jobs # <<>> /\ jobs \in Seq(JobType)
    BY <1>4, <1>a DEF Encode, TypeLine
  <2>2. Head(jobs) \in JobType /\ Head(jobs).id \in Ids
    BY <2>1, <1>b
  <2>3. IdsOf(jobs) = <<Head(jobs).id>> \o IdsOf(Tail(jobs)) /\ IdsOf(Tail(jobs)) \in Seq(Ids)
    <3>1. Tail(jobs) \in Seq(JobType)
      BY <2>1
    <3> QED
      BY <2>1, <3>1, <1>b, IdsHead, IdsSeq
  <2>4. /\ Hand(encoder) = <<>> /\ Hand(encoder)' = <<Head(jobs).id>>
        /\ IdsOf(jobs)' = IdsOf(Tail(jobs))
        /\ UNCHANGED <<output, peer, input>>
    BY <1>4 DEF Encode, AnswerTo, Hand
  <2>5. PICK a \in Seq(Ids), c \in Seq(Ids) : a = IdsOf(output) /\ c = IdsOf(Tail(jobs))
    BY <2>3, PartsType
  <2>6. (a \o <<>>) \o (<<Head(jobs).id>> \o c) = (a \o <<Head(jobs).id>>) \o c
    BY <2>2, Forward
  <2>7. Queue = (a \o <<>>) \o (<<Head(jobs).id>> \o c) \o Hand(peer) \o input
    BY <2>3, <2>4, <2>5 DEF Queue
  <2>8. Queue' = (a \o <<Head(jobs).id>>) \o c \o Hand(peer) \o input
    BY <2>4, <2>5 DEF Queue, IdsOf, Hand
  <2> QED
    BY <2>6, <2>7, <2>8
<1>5. CASE Respond
  <2> DEFINE x == [id |-> encoder.id, ok |-> encoder.ok]
  <2>1. /\ Hand(encoder) = <<x.id>> /\ Hand(encoder)' = <<>> /\ output' = Append(output, x)
        /\ UNCHANGED <<peer, jobs, input>>
    BY <1>5 DEF Respond, Hand, Idle
  <2>2. x \in Response /\ output \in Seq(Response) /\ \A y \in Response : y.id \in Ids
    BY <1>5, <1>a DEF Respond, Response, TypeLine, EncoderType, Idle
  <2>3. IdsOf(output)' = IdsOf(output) \o <<x.id>>
    BY <2>1, <2>2, IdsAppend
  <2>4. IdsOf(output) \o <<x.id>> \in Seq(Ids)
    BY <2>2, PartsType
  <2>5. IdsOf(output)' \o Hand(encoder)' = IdsOf(output) \o Hand(encoder)
    BY <2>1, <2>3, <2>4, ConcatEmptySeq
  <2>6. IdsOf(jobs)' = IdsOf(jobs) /\ Hand(peer)' = Hand(peer)
    BY <2>1 DEF IdsOf, Hand
  <2> QED
    BY <2>1, <2>5, <2>6 DEF Queue
<1> QED
  BY <1>1, <1>2, <1>3, <1>4, <1>5 DEF PeerStep, EncoderStep

\* an answer leaves the line at its front
LEMMA AnswerSteps ==
    ASSUME TypeOK, DrainerRead
    PROVE  Queue # <<>> /\ Queue' = Tail(Queue) /\ Head(output).id = Head(Queue)
<1>1. output # <<>> /\ output' = Tail(output) /\ UNCHANGED <<encoder, jobs, peer, input>>
  BY DEF DrainerRead, runnerVars
<1>2. output \in Seq(Response) /\ \A y \in Response : y.id \in Ids
  BY TypeSplit DEF TypeLine, Response
<1>3. Head(output).id \in Ids /\ IdsOf(Tail(output)) \in Seq(Ids)
  <2>1. Head(output) \in Response /\ Tail(output) \in Seq(Response)
    BY <1>1, <1>2
  <2> QED
    BY <1>2, <2>1, IdsSeq
<1>4. IdsOf(output) = <<Head(output).id>> \o IdsOf(Tail(output))
  BY <1>1, <1>2, IdsHead
<1>5. PICK a \in Seq(Ids), b \in Seq(Ids), c \in Seq(Ids), d \in Seq(Ids), e \in Seq(Ids),
           h \in Ids :
        /\ a = IdsOf(Tail(output)) /\ b = Hand(encoder) /\ c = IdsOf(jobs) /\ d = Hand(peer)
        /\ e = input /\ h = Head(output).id
  BY <1>3, PartsType
<1>6. Queue = (<<h>> \o a) \o b \o c \o d \o e
  BY <1>4, <1>5 DEF Queue
<1>7. Queue' = a \o b \o c \o d \o e
  BY <1>1, <1>5 DEF Queue, IdsOf, Hand
<1>8. Queue = <<h>> \o (a \o b \o c \o d \o e)
  <2>1. <<h>> \in Seq(Ids)
    OBVIOUS
  <2>2. Grouped(<<h>>, a, b, c, d, e)
    BY <2>1, Front
  <2>3. (<<h>> \o a) \o b \o c \o d \o e = <<h>> \o (a \o b \o c \o d \o e)
    BY <2>2 DEF Grouped
  <2> QED
    BY <1>6, <2>3
<1>9. a \o b \o c \o d \o e \in Seq(Ids)
  BY ConcatProperties
<1> QED
  BY <1>5, <1>7, <1>8, <1>9, TailOfConcat

\* a worker that starts throws the front of the line away
LEMMA FlushSteps ==
    ASSUME TypeOK, Restart
    PROVE  \/ Queue' = Queue
           \/ \E n \in 1..Len(Queue) : Queue' = SubSeq(Queue, n + 1, Len(Queue))
<1>1. output' = <<>> /\ UNCHANGED <<encoder, jobs, peer, input>>
  BY DEF Restart, runnerVars
<1>2. PICK a \in Seq(Ids), b \in Seq(Ids), c \in Seq(Ids), d \in Seq(Ids), e \in Seq(Ids) :
        /\ a = IdsOf(output) /\ b = Hand(encoder) /\ c = IdsOf(jobs) /\ d = Hand(peer)
        /\ e = input
  BY PartsType
<1>3. Queue = a \o b \o c \o d \o e
  BY <1>2 DEF Queue
<1>4. IdsOf(output)' = <<>>
  BY <1>1 DEF IdsOf
<1>5. Queue' = <<>> \o b \o c \o d \o e
  BY <1>1, <1>2, <1>4 DEF Queue, IdsOf, Hand
<1>6. <<>> \in Seq(Ids) /\ a \o <<>> = a
  BY ConcatEmptySeq
<1>7. PICK q \in Seq(Ids) : q = <<>> \o b \o c \o d \o e
  BY <1>6, ConcatProperties
<1>8. Queue = a \o q
  <2>1. (a \o <<>>) \o b \o c \o d \o e = a \o (<<>> \o b \o c \o d \o e)
    <3>1. Grouped(a, <<>>, b, c, d, e)
      BY <1>6, Front
    <3> QED
      BY <3>1 DEF Grouped
  <2> QED
    BY <1>3, <1>6, <1>7, <2>1, Zenon
<1>9. CASE a = <<>>
  BY <1>5, <1>7, <1>8, <1>9, ConcatEmptySeq
<1>10. CASE a # <<>>
  <2>1. Len(a) \in 1..Len(Queue)
    BY <1>8, <1>10
  <2>2. q = SubSeq(Queue, Len(a) + 1, Len(Queue))
    BY <1>8, RestOfConcat
  <2> QED
    BY <1>5, <1>7, <2>1, <2>2
<1> QED
  BY <1>9, <1>10

\* The rings, the runner's loop, its queue and its encoder together are the one
\* line of AnswerLine: every answer, also one that says the request failed,
\* comes in the order of the requests, once.
THEOREM OneLineHolds == Spec => OneLine
<1> USE DEF Line!Init, Line!Next, Line!Ask, Line!Answer, Line!Flush
<1>1. Init => Line!Init
  <2>1. ASSUME Init PROVE Queue = <<>>
    <3>1. IdsOf(output) = <<>> /\ IdsOf(jobs) = <<>>
      BY <2>1 DEF Init, IdsOf
    <3>2. Hand(encoder) = <<>> /\ Hand(peer) = <<>> /\ input = <<>>
      BY <2>1 DEF Init, Hand, Idle
    <3> QED
      BY <3>1, <3>2 DEF Queue
  <2> QED
    BY <2>1 DEF Queue
<1>2. TypeOK /\ [Next]_vars => [Line!Next]_Queue
  <2> SUFFICES ASSUME TypeOK, [Next]_vars PROVE Line!Next \/ Queue' = Queue
    OBVIOUS
  <2>1. ASSUME NEW id \in Ids, input' = Append(input, id),
               UNCHANGED <<output, encoder, jobs, peer>>
        PROVE  Line!Next
    BY <2>1, AskSteps DEF Queue
  <2>2. CASE PeerStep \/ EncoderStep
    BY <2>2, InnerSteps
  <2>3. CASE DrainerRead
    BY <2>3, AnswerSteps DEF Queue
  <2>4. CASE Restart
    BY <2>4, FlushSteps DEF Queue
  <2>5. CASE UNCHANGED <<output, encoder, jobs, peer, input>>
    BY <2>5 DEF Queue, IdsOf, Hand
  <2> QED
    BY <2>1, <2>2, <2>3, <2>4, <2>5
       DEF Next, LoopStep, DrainerStep, Submit, TimeOut, Leave, Probe, Written, WriteFails,
           Resume, ProbeWritten, ProbeAcked, ProbeTimesOut, ProbeEnds, DrainerLooksUp,
           DrainerTests, DrainerSets, vars, runnerVars, Ids
<1> QED
  BY <1>1, <1>2, VideoTypeCorrect, PTL DEF Spec, OneLine, Line!Spec, Queue

-----------------------------------------------------------------------------
(* Every request is in one place.                                           *)

In(s) == {s[i] : i \in DOMAIN s}
Once(r, s) == \A i, j \in DOMAIN s : s[i] = r /\ s[j] = r => i = j

LEMMA OnceAppend ==
    ASSUME NEW s \in Seq(Ids), NEW x \in Ids
    PROVE  /\ In(Append(s, x)) = In(s) \cup {x}
           /\ \A r : Once(r, s) /\ (r = x => r \notin In(s)) => Once(r, Append(s, x))
<1>1. DOMAIN Append(s, x) = 1..(Len(s) + 1) /\ DOMAIN s = 1..Len(s) /\ Len(s) \in Nat
  OBVIOUS
<1>2. /\ \A i \in 1..Len(s) : Append(s, x)[i] = s[i]
      /\ Append(s, x)[Len(s) + 1] = x
  OBVIOUS
<1>3. In(Append(s, x)) = In(s) \cup {x}
  BY <1>1, <1>2 DEF In
<1>4. ASSUME NEW r, Once(r, s), r = x => r \notin In(s) PROVE Once(r, Append(s, x))
  BY <1>1, <1>2, <1>4 DEF In, Once
<1> QED
  BY <1>3, <1>4

\* what a suffix of the line holds
LEMMA OnceSuffix ==
    ASSUME NEW s \in Seq(Ids), NEW n \in 0..Len(s)
    PROVE  /\ In(SubSeq(s, n + 1, Len(s))) \subseteq In(s)
           /\ \A r : Once(r, s) => Once(r, SubSeq(s, n + 1, Len(s)))
           /\ \A r : \A i \in 1..n : Once(r, s) /\ s[i] = r => r \notin In(SubSeq(s, n + 1, Len(s)))
<1> DEFINE t == SubSeq(s, n + 1, Len(s))
<1>1. /\ Len(s) \in Nat /\ DOMAIN s = 1..Len(s) /\ DOMAIN t = 1..(Len(s) - n)
      /\ \A i \in 1..(Len(s) - n) : t[i] = s[i + n] /\ i + n \in 1..Len(s) /\ i + n > n
  OBVIOUS
<1> HIDE DEF t
<1>2. In(t) \subseteq In(s)
  BY <1>1 DEF In
<1>3. ASSUME NEW r, Once(r, s) PROVE Once(r, t)
  <2> SUFFICES ASSUME NEW i \in 1..(Len(s) - n), NEW j \in 1..(Len(s) - n),
                      t[i] = r, t[j] = r
               PROVE  i = j
    BY <1>1 DEF Once
  <2>1. i + n = j + n
    BY <1>1, <1>3 DEF Once
  <2> QED
    BY <1>1, <2>1
<1>4. ASSUME NEW r, NEW i \in 1..n, Once(r, s), s[i] = r PROVE r \notin In(t)
  <2> SUFFICES ASSUME NEW j \in 1..(Len(s) - n), t[j] = r PROVE FALSE
    BY <1>1 DEF In
  <2>1. s[j + n] = r /\ j + n \in 1..Len(s) /\ i \in 1..Len(s) /\ j + n # i
    BY <1>1
  <2> QED
    BY <1>1, <1>4, <2>1 DEF Once
<1> QED
  BY <1>2, <1>3, <1>4 DEF t

LEMMA OnceConcat ==
    ASSUME NEW s \in Seq(Ids), NEW t \in Seq(Ids)
    PROVE  /\ In(s \o t) = In(s) \cup In(t)
           /\ \A r : Once(r, s \o t)
                => Once(r, s) /\ Once(r, t) /\ ~(r \in In(s) /\ r \in In(t))
<1>1. /\ DOMAIN s = 1..Len(s) /\ DOMAIN t = 1..Len(t) /\ Len(s) \in Nat /\ Len(t) \in Nat
      /\ DOMAIN (s \o t) = 1..(Len(s) + Len(t))
  OBVIOUS
<1>2. /\ \A i \in 1..Len(s) : (s \o t)[i] = s[i]
      /\ \A i \in 1..Len(t) : (s \o t)[i + Len(s)] = t[i]
      /\ \A i \in 1..(Len(s) + Len(t)) : i \in 1..Len(s) \/ i - Len(s) \in 1..Len(t)
  BY <1>1
<1>3. In(s \o t) = In(s) \cup In(t)
  <2>1. In(s) \subseteq In(s \o t)
    BY <1>1, <1>2 DEF In
  <2>2. In(t) \subseteq In(s \o t)
    <3>1. \A i \in 1..Len(t) : i + Len(s) \in 1..(Len(s) + Len(t))
      BY <1>1
    <3> QED
      BY <3>1, <1>1, <1>2 DEF In
  <2>3. ASSUME NEW i \in 1..(Len(s) + Len(t)) PROVE (s \o t)[i] \in In(s) \cup In(t)
    <3>1. CASE i \in 1..Len(s)
      BY <3>1, <1>1, <1>2 DEF In
    <3>2. CASE i - Len(s) \in 1..Len(t)
      <4>1. (s \o t)[i] = t[i - Len(s)]
        BY <3>2, <1>1, <1>2
      <4> QED
        BY <3>2, <4>1, <1>1 DEF In
    <3> QED
      BY <1>2, <3>1, <3>2
  <2> QED
    BY <1>1, <2>1, <2>2, <2>3 DEF In
<1>4. ASSUME NEW r, Once(r, s \o t) PROVE Once(r, s)
  BY <1>1, <1>2, <1>4 DEF Once
<1>5. ASSUME NEW r, Once(r, s \o t) PROVE Once(r, t)
  <2> SUFFICES ASSUME NEW i \in 1..Len(t), NEW j \in 1..Len(t), t[i] = r, t[j] = r
               PROVE  i = j
    BY <1>1 DEF Once
  <2>1. i + Len(s) \in 1..(Len(s) + Len(t)) /\ j + Len(s) \in 1..(Len(s) + Len(t))
    BY <1>1
  <2>2. i + Len(s) = j + Len(s)
    BY <1>1, <1>2, <1>5, <2>1 DEF Once
  <2> QED
    BY <1>1, <2>2
<1>6. ASSUME NEW r, Once(r, s \o t), r \in In(s), r \in In(t) PROVE FALSE
  <2>1. PICK i \in 1..Len(s), j \in 1..Len(t) : s[i] = r /\ t[j] = r
    BY <1>1, <1>6 DEF In
  <2>2. j + Len(s) \in 1..(Len(s) + Len(t)) /\ i \in 1..(Len(s) + Len(t)) /\ i # j + Len(s)
    BY <1>1
  <2> QED
    BY <1>1, <1>2, <1>6, <2>1, <2>2 DEF Once
<1> QED
  BY <1>3, <1>4, <1>5, <1>6

InDrainer(r) == drainer.at \notin {"off", "idle"} /\ drainer.id = r

\* a request is written once, so that it is in one place between the event loop
\* that wrote it and the drainer that resolves it; until then nothing but its
\* deadline, or the end of the worker, changes what it has come to
Travels(r) ==
    /\ Once(r, Queue)
    /\ InDrainer(r) => r \notin In(Queue)
    /\ r \in In(Queue) \/ InDrainer(r)
       => stage[r] \in {"waiting", "timeout", "lost"} /\ fut[r] \notin {"ok", "failed"}
    /\ stage[r] = "writing" => fut[r] = "pending"
    /\ fut[r] = "pending" => stage[r] \in {"writing", "waiting"}
AllTravel == \A r \in Requests : Travels(r)

LEMMA CanariesApart == \A r \in Requests : r \notin Canaries
  BY CanaryAssumption

LEMMA SameLine == UNCHANGED <<output, encoder, jobs, peer, input>> => Queue' = Queue
  BY DEF Queue, IdsOf, Hand

LEMMA QueueType == TypeOK => Queue \in Seq(Ids)
<1> SUFFICES ASSUME TypeOK PROVE Queue \in Seq(Ids)
  OBVIOUS
<1>1. IdsOf(output) \o Hand(encoder) \in Seq(Ids)
  BY PartsType, ConcatProperties
<1>2. IdsOf(output) \o Hand(encoder) \o IdsOf(jobs) \in Seq(Ids)
  BY <1>1, PartsType, ConcatProperties
<1>3. IdsOf(output) \o Hand(encoder) \o IdsOf(jobs) \o Hand(peer) \in Seq(Ids)
  BY <1>2, PartsType, ConcatProperties
<1> QED
  BY <1>3, PartsType, ConcatProperties DEF Queue

LEMMA TravelHolds == Spec => []AllTravel
<1>1. Init => AllTravel
  <2> SUFFICES ASSUME Init, NEW r \in Requests PROVE Travels(r)
    BY DEF AllTravel
  <2>1. IdsOf(output) = <<>> /\ IdsOf(jobs) = <<>>
    BY DEF Init, IdsOf
  <2>2. Hand(encoder) = <<>> /\ Hand(peer) = <<>> /\ input = <<>>
    BY DEF Init, Hand, Idle
  <2>3. Queue = <<>>
    BY <2>1, <2>2 DEF Queue
  <2>4. In(Queue) = {} /\ Once(r, Queue)
    BY <2>3 DEF In, Once
  <2> QED
    BY <2>4 DEF Init, Travels, InDrainer, Ids
<1>2. TypeOK /\ Held /\ AllTravel /\ [Next]_vars => AllTravel'
  <2> SUFFICES ASSUME TypeOK, Held, AllTravel, [Next]_vars, NEW r \in Requests
               PROVE  Travels(r)'
    BY DEF AllTravel
  <2>a. TypeServer /\ TypeRest
    BY TypeSplit
  <2>b. Queue \in Seq(Ids) /\ r \in Ids
    BY QueueType DEF Ids
  <2>c. Travels(r)
    BY DEF AllTravel
  <2> HIDE DEF Queue
  <2> DEFINE Stays == Queue' = Queue /\ (InDrainer(r)' => InDrainer(r))
  <2>1. ASSUME Stays, UNCHANGED <<stage[r], fut[r]>> PROVE Travels(r)'
    BY <2>c, <2>1 DEF Travels, Once
  <2>2. ASSUME NEW q \in Requests, Submit(q) PROVE Travels(r)'
    <3>1. Stays
      BY <2>2, SameLine DEF Submit, InDrainer, runnerVars
    <3>2. CASE q = r
      <4>1. stage[r] = "new" /\ stage'[r] = "writing" /\ fut'[r] = "pending"
        BY <2>2, <3>2, <2>a, <2>b DEF Submit, TypeServer
      <4> QED
        BY <2>c, <3>1, <4>1 DEF Travels, Once
    <3>3. CASE q # r
      BY <2>1, <2>2, <3>1, <3>3, <2>a DEF Submit, TypeServer
    <3> QED
      BY <3>2, <3>3
  <2>3. ASSUME NEW q \in Requests, WriteFails(q) PROVE Travels(r)'
    <3>1. Stays
      BY <2>3, SameLine DEF WriteFails, InDrainer, runnerVars
    <3>2. CASE q = r
      <4>1. stage[r] = "writing" /\ stage'[r] = "error" /\ fut'[r] = "none"
        BY <2>3, <3>2, <2>a, <2>b DEF WriteFails, TypeServer, Held
      <4> QED
        BY <2>c, <3>1, <4>1 DEF Travels, Once
    <3>3. CASE q # r
      BY <2>1, <2>3, <3>1, <3>3, <2>a DEF WriteFails, TypeServer
    <3> QED
      BY <3>2, <3>3
  <2>4. ASSUME NEW q \in Requests, Resume(q) PROVE Travels(r)'
    <3>1. Stays
      BY <2>4, SameLine DEF Resume, Leave, InDrainer, runnerVars
    <3>2. CASE q = r
      <4>1. fut[r] \in {"ok", "failed"} /\ fut' = fut /\ stage'[r] \in {"answered", "error"}
        BY <2>4, <3>2, <2>a DEF Resume, Leave, TypeServer
      <4> QED
        BY <2>c, <3>1, <4>1 DEF Travels, Once
    <3>3. CASE q # r
      BY <2>1, <2>4, <3>1, <3>3, <2>a DEF Resume, Leave, TypeServer
    <3> QED
      BY <3>2, <3>3
  <2>5. ASSUME NEW q \in Requests, TimeOut(q) PROVE Travels(r)'
    <3>1. Stays
      BY <2>5, SameLine DEF TimeOut, Leave, InDrainer, runnerVars
    <3>2. CASE q = r
      <4>1. /\ stage[r] = "waiting" /\ stage'[r] = "timeout"
            /\ fut'[r] = IF fut[r] = "pending" THEN "cancelled" ELSE fut[r]
        BY <2>5, <3>2, <2>a, <2>b DEF TimeOut, Leave, TypeServer
      <4> QED
        BY <2>c, <3>1, <4>1 DEF Travels, Once
    <3>3. CASE q # r
      BY <2>1, <2>5, <3>1, <3>3, <2>a DEF TimeOut, Leave, TypeServer
    <3> QED
      BY <3>2, <3>3
  <2>6. ASSUME NEW id \in Canaries, Probe(id) \/ ProbeAcked(id) \/ ProbeTimesOut(id)
        PROVE  Travels(r)'
    <3>1. Stays
      BY <2>6, SameLine DEF Probe, ProbeAcked, ProbeTimesOut, ProbeEnds, InDrainer, runnerVars
    <3>2. r # id
      BY CanariesApart
    <3> QED
      BY <2>1, <2>6, <3>1, <3>2, <2>a, <2>b DEF Probe, ProbeAcked, ProbeTimesOut, ProbeEnds, TypeServer
  <2>7. ASSUME NEW id \in Ids, input' = Append(input, id), UNCHANGED <<output, encoder, jobs, peer>>,
               id = r => stage[r] = "writing" /\ stage'[r] = "waiting",
               id # r => stage'[r] = stage[r], fut' = fut, drainer' = Started
        PROVE  Travels(r)'
    <3>1. Queue' = Append(Queue, id)
      BY <2>7, AskSteps
    <3>2. InDrainer(r)' = InDrainer(r)
      BY <2>7 DEF Started, InDrainer, Idle
    <3>3. In(Queue)' = In(Queue) \cup {id}
      <4>1. In(Queue') = In(Queue) \cup {id}
        BY <3>1, <2>b, <2>7, OnceAppend
      <4> QED
        BY <4>1 DEF In
    <3>4. Once(r, Queue)'
      <4>1. r = id => r \notin In(Queue)
        BY <2>7, <2>c DEF Travels
      <4> QED
        BY <3>1, <4>1, <2>b, <2>c, <2>7, OnceAppend DEF Travels, Once
    <3> QED
      BY <2>c, <2>7, <3>2, <3>3, <3>4 DEF Travels
  <2>8. ASSUME NEW q \in Requests, Written(q) PROVE Travels(r)'
    <3>1. stage[q] = "writing" /\ q \in Ids
      BY <2>8 DEF Written, Held, Ids
    <3>2. /\ input' = Append(input, q) /\ UNCHANGED <<output, encoder, jobs, peer>>
          /\ q = r => stage[r] = "writing" /\ stage'[r] = "waiting"
          /\ q # r => stage'[r] = stage[r]
          /\ fut' = fut /\ drainer' = Started
      BY <2>8, <3>1, <2>a DEF Written, TypeServer, runnerVars
    <3> QED
      BY <2>7, <3>1, <3>2
  <2>9. ASSUME NEW id \in Canaries, ProbeWritten(id) PROVE Travels(r)'
    <3>1. id \in Ids /\ id # r
      BY CanariesApart DEF Ids
    <3>2. /\ input' = Append(input, id) /\ UNCHANGED <<output, encoder, jobs, peer>>
          /\ stage' = stage /\ fut' = fut /\ drainer' = Started
      BY <2>9 DEF ProbeWritten, runnerVars
    <3> QED
      BY <2>7, <3>1, <3>2
  <2>10. CASE DrainerRead
    <3>1. Queue # <<>> /\ Queue' = Tail(Queue) /\ Head(output).id = Head(Queue)
      BY <2>10, AnswerSteps
    <3>2. /\ Queue' = SubSeq(Queue, 1 + 1, Len(Queue)) /\ 1 \in 0..Len(Queue) /\ 1 \in 1..1
          /\ Queue[1] = Head(Queue) /\ Head(Queue) \in In(Queue)
      BY <3>1, <2>b, TailIsSubSeq DEF In
    <3>3. InDrainer(r)' => Queue[1] = r
      BY <2>10, <3>1, <3>2 DEF DrainerRead, InDrainer
    <3>4. /\ In(Queue)' \subseteq In(Queue) /\ Once(r, Queue)'
          /\ Queue[1] = r => r \notin In(Queue')
      BY <3>2, <2>b, <2>c, OnceSuffix DEF Travels, In, Once
    <3>5. stage' = stage /\ fut' = fut
      BY <2>10 DEF DrainerRead, serverVars
    <3> QED
      BY <2>c, <3>2, <3>3, <3>4, <3>5 DEF Travels, In
  <2>11. CASE DrainerLooksUp \/ DrainerTests
    <3>1. Stays
      <4>1. Queue' = Queue
        BY <2>11, SameLine DEF DrainerLooksUp, DrainerTests, runnerVars
      <4>2. CASE DrainerLooksUp
        BY <4>1, <4>2 DEF DrainerLooksUp, Discard, InDrainer, Idle
      <4>3. CASE DrainerTests
        BY <4>1, <4>3, <2>a DEF DrainerTests, Discard, InDrainer, Idle, TypeRest, DrainerType
      <4> QED
        BY <2>11, <4>2, <4>3
    <3> QED
      BY <2>1, <2>11, <3>1 DEF DrainerLooksUp, DrainerTests, serverVars
  <2>12. CASE DrainerSets
    <3>1. Stays
      <4>1. Queue' = Queue
        BY <2>12, SameLine DEF DrainerSets, runnerVars
      <4> QED
        BY <4>1, <2>12, <2>a DEF DrainerSets, InDrainer, Idle, TypeRest, DrainerType
    <3>2. stage' = stage
      BY <2>12 DEF DrainerSets
    <3>3. CASE fut' = fut
      BY <2>1, <3>1, <3>2, <3>3
    <3>4. CASE drainer.id # r
      BY <2>1, <2>12, <3>1, <3>2, <3>4, <2>a, <2>b DEF DrainerSets, TypeServer
    <3>5. CASE drainer.id = r /\ fut' # fut
      <4>1. InDrainer(r) /\ ~InDrainer(r)'
        BY <2>12, <3>5 DEF DrainerSets, InDrainer, Idle
      <4>2. fut'[r] \in {"ok", "failed"}
        BY <2>12, <3>5, <2>a, <2>b DEF DrainerSets, TypeServer
      <4> QED
        BY <2>c, <3>1, <3>2, <4>1, <4>2 DEF Travels, Once
    <3> QED
      BY <3>3, <3>4, <3>5
  <2>13. CASE PeerStep \/ EncoderStep
    <3>1. Queue' = Queue
      BY <2>13, InnerSteps
    <3>2. UNCHANGED <<serverVars, drainer>>
      BY <2>13 DEF PeerStep, Read, Load, Run, Put, EncoderStep, Encode, Respond
    <3> QED
      BY <2>1, <3>1, <3>2 DEF serverVars, InDrainer
  <2>14. CASE Restart
    <3>1. /\ In(Queue)' \subseteq In(Queue) /\ Once(r, Queue)'
      <4>1. PICK n \in 0..Len(Queue) : Queue' = Queue \/ Queue' = SubSeq(Queue, n + 1, Len(Queue))
        BY <2>14, <2>b, FlushSteps
      <4> QED
        <5>1. CASE Queue' = Queue
          BY <5>1, <2>c DEF Travels, In, Once
        <5>2. CASE Queue' = SubSeq(Queue, n + 1, Len(Queue))
          <6>1. In(Queue') \subseteq In(Queue) /\ Once(r, Queue')
            BY <5>2, <2>b, <2>c, OnceSuffix DEF Travels
          <6> QED
            BY <6>1 DEF In, Once
        <5> QED
          BY <4>1, <5>1, <5>2
    <3>2. /\ stage'[r] = (IF stage[r] \in {"writing", "waiting"} THEN "lost" ELSE stage[r])
          /\ fut'[r] = "none" /\ ~InDrainer(r)'
      BY <2>14, <2>b DEF Restart, InDrainer
    <3> QED
      BY <2>c, <3>1, <3>2 DEF Travels
  <2>15. CASE UNCHANGED vars
    <3>1. Stays
      BY <2>15, SameLine DEF vars, runnerVars, InDrainer
    <3> QED
      BY <2>1, <2>15, <3>1 DEF vars, serverVars
  <2> QED
    BY <2>2, <2>3, <2>4, <2>5, <2>6, <2>8, <2>9, <2>10, <2>11, <2>12, <2>13, <2>14, <2>15
       DEF Next, LoopStep, DrainerStep
<1> QED
  BY <1>1, <1>2, VideoTypeCorrect, HeldHolds, PTL DEF Spec

-----------------------------------------------------------------------------
(* Video files.                                                             *)

\* the runner has still to work on r
ToDo(r) ==
    \/ r \in In(input)
    \/ peer.at # "idle" /\ peer.id = r
    \/ \E i \in DOMAIN jobs : jobs[i].id = r

\* an answer on its way says that r failed
Refused(r) ==
    \/ encoder.at = "write" /\ encoder.id = r /\ ~encoder.ok
    \/ \E i \in DOMAIN output : output[i].id = r /\ ~output[i].ok
    \/ InDrainer(r) /\ ~drainer.ok

Owned(r) ==
    \/ OnItsWay(r)
    \/ fut[r] = "ok" /\ stage[r] \in {"waiting", "answered", "timeout"}
    \/ stage[r] = "answered"
    \/ drainer.at = "dead" /\ drainer.id = r
    \/ restarts > 0 /\ stage[r] \in {"lost", "timeout"}

\* a video is exported after the runner's last work on its request, and no
\* answer contradicts it; the test of the drainer holds until it sets the
\* result, or the request has timed out
Filed(r) ==
    /\ drainer.at = "set" /\ drainer.id = r
       => \/ fut[r] = "pending" /\ stage[r] = "waiting"
          \/ fut[r] = "cancelled" /\ stage[r] = "timeout"
    /\ r \in mp4 => /\ stage[r] \notin {"new", "writing"}
                    /\ ~ToDo(r) /\ ~Refused(r)
                    /\ Owned(r)
AllFiled == \A r \in Requests : Filed(r)

LEMMA JobIsAlone ==
    ASSUME TypeOK, NEW r \in Requests, Once(r, Queue), jobs # <<>>, Head(jobs).id = r
    PROVE  /\ r \in In(Queue) /\ r \notin In(input)
           /\ ~(peer.at # "idle" /\ peer.id = r)
           /\ \A i \in DOMAIN output : output[i].id # r
           /\ \A i \in DOMAIN jobs : jobs[i].id = r => i = 1
<1> DEFINE a == IdsOf(output)  b == Hand(encoder)  c == IdsOf(jobs)  d == Hand(peer)
<1>1. a \in Seq(Ids) /\ b \in Seq(Ids) /\ c \in Seq(Ids) /\ d \in Seq(Ids) /\ input \in Seq(Ids)
  BY PartsType
<1>2. /\ \A i \in DOMAIN output : output[i].id \in In(a)
      /\ \A i \in DOMAIN jobs : i \in DOMAIN c /\ c[i] = jobs[i].id
      /\ peer.at # "idle" => peer.id \in In(d)
  BY DEF In, IdsOf, Hand
<1>3. 1 \in DOMAIN jobs /\ jobs[1].id = r
  BY TypeSplit DEF TypeLine
<1>4. r \in In(c) /\ 1 \in DOMAIN c /\ c[1] = r
  BY <1>2, <1>3 DEF In
<1>5. Queue = a \o b \o c \o d \o input
  BY DEF Queue
<1> HIDE DEF a, b, c, d
<1>6. a \o b \in Seq(Ids)
  BY <1>1, ConcatProperties
<1>7. a \o b \o c \in Seq(Ids)
  BY <1>1, <1>6, ConcatProperties
<1>8. a \o b \o c \o d \in Seq(Ids)
  BY <1>1, <1>7, ConcatProperties
<1>9. /\ In(Queue) = In(a \o b \o c \o d) \cup In(input)
      /\ Once(r, a \o b \o c \o d) /\ ~(r \in In(a \o b \o c \o d) /\ r \in In(input))
  BY <1>1, <1>5, <1>8, OnceConcat
<1>10. /\ In(a \o b \o c \o d) = In(a \o b \o c) \cup In(d)
       /\ Once(r, a \o b \o c) /\ ~(r \in In(a \o b \o c) /\ r \in In(d))
  BY <1>1, <1>7, <1>9, OnceConcat
<1>11. /\ In(a \o b \o c) = In(a \o b) \cup In(c)
       /\ Once(r, c) /\ ~(r \in In(a \o b) /\ r \in In(c))
  BY <1>1, <1>6, <1>10, OnceConcat
<1>12. In(a \o b) = In(a) \cup In(b)
  BY <1>1, OnceConcat
<1>13. r \in In(Queue) /\ r \notin In(input) /\ r \notin In(d) /\ r \notin In(a)
  BY <1>4, <1>9, <1>10, <1>11, <1>12
<1>14. \A i \in DOMAIN jobs : jobs[i].id = r => i = 1
  BY <1>2, <1>4, <1>11 DEF Once
<1> QED
  BY <1>2, <1>13, <1>14

LEMMA FiledHolds == Spec => []AllFiled
<1>1. Init => AllFiled
  BY DEF Init, AllFiled, Filed
<1>2. TypeOK /\ Held /\ AllTravel /\ AllFiled /\ [Next]_vars => AllFiled'
  <2> SUFFICES ASSUME TypeOK, Held, AllTravel, AllFiled, [Next]_vars, NEW r \in Requests
               PROVE  Filed(r)'
    BY DEF AllFiled
  <2>a. TypeServer /\ TypeLine /\ TypeRest /\ r \in Ids
    BY TypeSplit DEF Ids
  <2>b. Filed(r) /\ Travels(r)
    BY DEF AllFiled, AllTravel
  <2>c. InDrainer(r) => stage[r] \in {"waiting", "timeout", "lost"} /\ fut[r] \notin {"ok", "failed"}
    BY <2>b DEF Travels
  <2> DEFINE Same == UNCHANGED <<output, encoder, jobs, peer, input>>
  <2>1. ASSUME Same, UNCHANGED <<stage[r], fut[r], mp4, drainer, restarts>> PROVE Filed(r)'
    BY <2>b, <2>1 DEF Filed, ToDo, Refused, Owned, InDrainer, OnItsWay, In
  <2>2. ASSUME NEW q \in Requests, Submit(q) PROVE Filed(r)'
    <3>1. Same /\ UNCHANGED <<mp4, drainer, restarts>>
      BY <2>2 DEF Submit, runnerVars, boundVars
    <3>2. CASE q = r
      <4>1. stage[r] = "new" /\ r \notin mp4 /\ ~InDrainer(r)
        BY <2>2, <3>2, <2>b, <2>c DEF Submit, Filed
      <4> QED
        BY <3>1, <4>1 DEF Filed, InDrainer
    <3>3. CASE q # r
      BY <2>1, <2>2, <3>1, <3>3, <2>a DEF Submit, TypeServer
    <3> QED
      BY <3>2, <3>3
  <2>3. ASSUME NEW q \in Requests, WriteFails(q) PROVE Filed(r)'
    <3>1. Same /\ UNCHANGED <<mp4, drainer, restarts>>
      BY <2>3 DEF WriteFails, runnerVars, boundVars
    <3>2. CASE q = r
      <4>1. stage[r] = "writing" /\ r \notin mp4 /\ ~InDrainer(r)
        BY <2>3, <3>2, <2>b, <2>c DEF WriteFails, Filed, Held
      <4> QED
        BY <3>1, <4>1 DEF Filed, InDrainer
    <3>3. CASE q # r
      BY <2>1, <2>3, <3>1, <3>3, <2>a DEF WriteFails, TypeServer
    <3> QED
      BY <3>2, <3>3
  <2>4. ASSUME NEW q \in Requests, Resume(q) PROVE Filed(r)'
    <3>1. Same /\ UNCHANGED <<mp4, drainer, restarts, fut>>
      BY <2>4 DEF Resume, Leave, runnerVars, boundVars
    <3>2. CASE q = r
      <4>1. /\ stage[r] = "waiting"
            /\ \/ fut[r] = "ok" /\ stage'[r] = "answered"
               \/ fut[r] = "failed" /\ stage'[r] = "error"
        BY <2>4, <3>2, <2>a DEF Resume, Leave, TypeServer
      <4>2. ~InDrainer(r)
        BY <4>1, <2>c
      <4> QED
        BY <3>1, <4>1, <4>2, <2>b DEF Filed, ToDo, Refused, Owned, InDrainer, OnItsWay, In
    <3>3. CASE q # r
      BY <2>1, <2>4, <3>1, <3>3, <2>a DEF Resume, Leave, TypeServer
    <3> QED
      BY <3>2, <3>3
  <2>5. ASSUME NEW q \in Requests, TimeOut(q) PROVE Filed(r)'
    <3>1. Same /\ UNCHANGED <<mp4, drainer, restarts>>
      BY <2>5 DEF TimeOut, Leave, runnerVars, boundVars
    <3>2. CASE q = r
      <4>1. /\ stage[r] = "waiting" /\ stage'[r] = "timeout"
            /\ fut'[r] = IF fut[r] = "pending" THEN "cancelled" ELSE fut[r]
        BY <2>5, <3>2, <2>a DEF TimeOut, Leave, TypeServer
      <4> QED
        BY <3>1, <4>1, <2>b DEF Filed, ToDo, Refused, Owned, InDrainer, OnItsWay, In
    <3>3. CASE q # r
      BY <2>1, <2>5, <3>1, <3>3, <2>a DEF TimeOut, Leave, TypeServer
    <3> QED
      BY <3>2, <3>3
  <2>6. ASSUME NEW id \in Canaries, Probe(id) \/ ProbeAcked(id) \/ ProbeTimesOut(id)
        PROVE  Filed(r)'
    <3>1. Same /\ UNCHANGED <<mp4, drainer, restarts, stage>>
      BY <2>6 DEF Probe, ProbeAcked, ProbeTimesOut, ProbeEnds, runnerVars, boundVars
    <3>2. r # id
      BY CanariesApart
    <3>3. fut'[r] = fut[r]
      BY <2>6, <3>2, <2>a DEF Probe, ProbeAcked, ProbeTimesOut, ProbeEnds, TypeServer
    <3> QED
      BY <2>1, <3>1, <3>3
  <2>7. ASSUME NEW id \in Ids, input' = Append(input, id),
               UNCHANGED <<output, encoder, jobs, peer, mp4, restarts, fut>>,
               id = r => stage[r] = "writing", id # r => stage'[r] = stage[r],
               drainer' = Started
        PROVE  Filed(r)'
    <3>1. In(input') = In(input) \cup {id}
      BY <2>a, <2>7, OnceAppend DEF TypeLine
    <3>2. /\ InDrainer(r)' = InDrainer(r) /\ (InDrainer(r)' => drainer' = drainer)
          /\ drainer.at \in {"read", "found", "set", "dead"} => drainer' = drainer
          /\ drainer'.at = "set" => drainer.at = "set"
      BY <2>7 DEF Started, InDrainer, Idle
    <3>3. CASE id = r
      <4>1. r \notin mp4 /\ ~InDrainer(r)
        BY <2>7, <3>3, <2>b, <2>c DEF Filed
      <4> QED
        BY <2>7, <3>2, <4>1 DEF Filed, InDrainer
    <3>4. CASE id # r
      <4>1. ToDo(r)' <=> ToDo(r)
        BY <2>7, <3>1, <3>4 DEF ToDo, In
      <4>2. Refused(r)' <=> Refused(r)
        BY <2>7, <3>2 DEF Refused
      <4>3. Owned(r) => Owned(r)'
        BY <2>7, <3>2, <3>4 DEF Owned, OnItsWay
      <4> QED
        BY <2>7, <3>2, <3>4, <4>1, <4>2, <4>3, <2>b DEF Filed
    <3> QED
      BY <3>3, <3>4
  <2>8. ASSUME NEW q \in Requests, Written(q) PROVE Filed(r)'
    <3>1. stage[q] = "writing" /\ q \in Ids
      BY <2>8 DEF Written, Held, Ids
    <3>2. /\ input' = Append(input, q)
          /\ UNCHANGED <<output, encoder, jobs, peer, mp4, restarts, fut>>
          /\ q = r => stage[r] = "writing"
          /\ q # r => stage'[r] = stage[r]
          /\ drainer' = Started
      BY <2>8, <3>1, <2>a DEF Written, TypeServer, runnerVars, boundVars
    <3> QED
      BY <2>7, <3>1, <3>2
  <2>9. ASSUME NEW id \in Canaries, ProbeWritten(id) PROVE Filed(r)'
    <3>1. id \in Ids /\ id # r
      BY CanariesApart DEF Ids
    <3>2. /\ input' = Append(input, id)
          /\ UNCHANGED <<output, encoder, jobs, peer, mp4, restarts, fut, stage>>
          /\ drainer' = Started
      BY <2>9 DEF ProbeWritten, runnerVars, boundVars
    <3> QED
      BY <2>7, <3>1, <3>2
  <2>10. CASE DrainerRead
    <3>1. /\ output # <<>> /\ output \in Seq(Response) /\ output' = Tail(output)
          /\ drainer.at = "idle"
          /\ drainer' = [at |-> "read", id |-> output[1].id, ok |-> output[1].ok]
          /\ UNCHANGED <<stage, fut, encoder, jobs, peer, input, mp4, restarts>>
      BY <2>10, <2>a DEF DrainerRead, TypeLine, serverVars, runnerVars, boundVars
    <3>2. /\ 1 \in DOMAIN output
          /\ \A i \in DOMAIN Tail(output) : i + 1 \in DOMAIN output /\ Tail(output)[i] = output[i + 1]
          /\ \A i \in DOMAIN output : i = 1 \/ (i - 1 \in DOMAIN Tail(output)
                                             /\ Tail(output)[i - 1] = output[i])
      BY <3>1
    <3>3. Refused(r)' => Refused(r)
      BY <3>1, <3>2 DEF Refused, InDrainer
    <3>4. OnItsWay(r) => OnItsWay(r)'
      BY <3>1, <3>2 DEF OnItsWay
    <3>5. Owned(r) => Owned(r)'
      BY <3>1, <3>4 DEF Owned
    <3>6. ToDo(r)' <=> ToDo(r)
      BY <3>1 DEF ToDo, In
    <3> QED
      BY <3>1, <3>3, <3>5, <3>6, <2>b DEF Filed
  <2>11. CASE DrainerLooksUp \/ DrainerTests \/ DrainerSets
    <3>1. Same /\ UNCHANGED <<stage, restarts>> /\ mp4' \subseteq mp4
      BY <2>11 DEF DrainerLooksUp, DrainerTests, DrainerSets, Discard, serverVars, runnerVars,
         boundVars
    <3>2. ToDo(r)' <=> ToDo(r)
      BY <3>1 DEF ToDo, In
    <3>3. CASE UNCHANGED mp4 /\ UNCHANGED fut /\ drainer.at \in {"read", "found"}
               /\ drainer'.at \in {"found", "set"}
               /\ drainer'.id = drainer.id /\ drainer'.ok = drainer.ok
      <4>1. Refused(r)' => Refused(r)
        BY <3>1, <3>3 DEF Refused, InDrainer
      <4>2. Owned(r) => Owned(r)'
        BY <3>1, <3>3 DEF Owned, OnItsWay
      <4>3. drainer'.at = "set" /\ drainer'.id = r => fut[r] = "pending" /\ stage[r] = "waiting"
        <5> SUFFICES ASSUME drainer'.at = "set", drainer'.id = r
                     PROVE  fut[r] = "pending" /\ stage[r] = "waiting"
          OBVIOUS
        <5>1. DrainerTests /\ InDrainer(r)
          BY <2>11, <3>3 DEF DrainerLooksUp, DrainerSets, Discard, Idle, InDrainer
        <5>2. fut[r] = "pending"
          BY <5>1, <3>3 DEF DrainerTests, DoneAlready, Discard, Idle
        <5> QED
          BY <5>1, <5>2, <2>b DEF Travels
      <4> QED
        BY <3>1, <3>2, <3>3, <4>1, <4>2, <4>3, <2>b DEF Filed
    <3>4. CASE drainer.at \in {"read", "found"} /\ drainer' = Idle /\ UNCHANGED fut
               /\ mp4' = mp4 \ {drainer.id}
      <4>1. Refused(r)' => Refused(r)
        BY <3>1, <3>4 DEF Refused, InDrainer, Idle
      <4>2. drainer.id # r /\ Owned(r) => Owned(r)'
        BY <3>1, <3>4 DEF Owned, OnItsWay
      <4> QED
        BY <3>1, <3>2, <3>4, <4>1, <4>2, <2>b DEF Filed, Idle
    <3>5. CASE DrainerSets
      <4> DEFINE id == drainer.id
      <4>1. drainer.at = "set" /\ UNCHANGED mp4
        BY <3>5 DEF DrainerSets
      <4>2. CASE fut[id] = "cancelled" /\ drainer' = [drainer EXCEPT !.at = "dead"] /\ fut' = fut
        <5>1. drainer'.at = "dead" /\ drainer'.id = drainer.id /\ drainer'.ok = drainer.ok
          BY <4>1, <4>2, <2>a DEF TypeRest, DrainerType, Idle
        <5>2. Refused(r)' => Refused(r)
          BY <3>1, <4>1, <5>1 DEF Refused, InDrainer
        <5>3. Owned(r) => Owned(r)'
          BY <3>1, <4>1, <4>2, <5>1 DEF Owned, OnItsWay
        <5> QED
          BY <3>1, <3>2, <4>1, <5>1, <5>2, <5>3, <2>b DEF Filed
      <4>3. CASE fut[id] # "cancelled" /\ drainer' = Idle /\ id # r
        <5>1. fut'[r] = fut[r]
          BY <3>5, <4>3, <2>a DEF DrainerSets, TypeServer
        <5>2. Refused(r)' => Refused(r)
          BY <3>1, <4>3 DEF Refused, InDrainer, Idle
        <5>3. Owned(r) => Owned(r)'
          BY <3>1, <4>1, <4>3, <5>1 DEF Owned, OnItsWay
        <5> QED
          BY <3>1, <3>2, <4>1, <4>3, <5>2, <5>3, <2>b DEF Filed, Idle
      <4>4. CASE fut[id] # "cancelled" /\ drainer' = Idle /\ id = r
        <5>1. InDrainer(r) /\ stage[r] = "waiting"
          BY <4>1, <4>4, <2>b DEF Filed, InDrainer
        <5>2. r \notin Canaries
          BY CanariesApart
        <5>3. drainer.ok => fut'[r] = "ok"
          BY <3>5, <4>4, <5>2, <2>a DEF DrainerSets, TypeServer
        <5>4. r \in mp4 => drainer.ok
          BY <5>1, <2>b DEF Filed, Refused
        <5>5. Refused(r)' => Refused(r)
          BY <3>1, <4>4 DEF Refused, InDrainer, Idle
        <5>6. r \in mp4 => Owned(r)'
          BY <3>1, <5>1, <5>3, <5>4 DEF Owned
        <5> QED
          BY <3>1, <3>2, <4>1, <4>4, <5>5, <5>6, <2>b DEF Filed, Idle
      <4> QED
        BY <3>5, <4>2, <4>3, <4>4 DEF DrainerSets
    <3>6. CASE DrainerLooksUp
      BY <3>3, <3>4, <3>6 DEF DrainerLooksUp, Discard, serverVars
    <3>7. CASE DrainerTests
      <4>1. CASE Discard
        BY <3>4, <3>7, <4>1 DEF DrainerTests, Discard, serverVars
      <4>2. CASE drainer' = [drainer EXCEPT !.at = "set"] /\ UNCHANGED mp4
        <5>1. drainer.at = "found" /\ UNCHANGED fut
          BY <3>7 DEF DrainerTests, serverVars
        <5>2. drainer'.at = "set" /\ drainer'.id = drainer.id /\ drainer'.ok = drainer.ok
          BY <4>2, <5>1, <2>a DEF TypeRest, DrainerType, Idle
        <5> QED
          BY <3>3, <4>2, <5>1, <5>2
      <4> QED
        BY <3>7, <4>1, <4>2 DEF DrainerTests
    <3> QED
      BY <2>11, <3>5, <3>6, <3>7
  <2>12. CASE PeerStep
    <3>1. UNCHANGED <<stage, fut, drainer, output, encoder, mp4, restarts>>
      BY <2>12 DEF PeerStep, Read, Load, Run, Put, serverVars, boundVars
    <3>2. ToDo(r)' => ToDo(r)
      <4>1. CASE Read
        <5>1. Head(input) \in In(input) /\ In(Tail(input)) \subseteq In(input)
          BY <4>1, <2>a DEF Read, TypeLine, In
        <5> QED
          BY <4>1, <5>1 DEF Read, ToDo, In
      <4>2. CASE Load \/ Run
        BY <4>2 DEF Load, Run, ToDo, In
      <4>3. CASE Put
        <5>1. /\ jobs' = Append(jobs, Job) /\ jobs \in Seq(JobType) /\ Job.id = peer.id
              /\ peer.at = "put" /\ peer' = Idle /\ input' = input
          BY <4>3, <2>a DEF Put, Job, TypeLine
        <5>2. \A i \in DOMAIN jobs' : (i \in DOMAIN jobs /\ jobs'[i] = jobs[i]) \/ jobs'[i] = Job
          BY <5>1
        <5> QED
          BY <5>1, <5>2 DEF ToDo, In, Idle
      <4> QED
        BY <2>12, <4>1, <4>2, <4>3 DEF PeerStep
    <3> QED
      BY <3>1, <3>2, <2>b DEF Filed, Refused, Owned, InDrainer, OnItsWay
  <2>13. CASE Encode
    <3>1. /\ jobs # <<>> /\ jobs \in Seq(JobType) /\ jobs' = Tail(jobs)
          /\ encoder.at = "idle" /\ encoder'.at = "write" /\ encoder'.id = Head(jobs).id
          /\ UNCHANGED <<stage, fut, drainer, input, peer, output, restarts>>
      BY <2>13, <2>a DEF Encode, AnswerTo, TypeLine, serverVars, boundVars
    <3>2. /\ 1 \in DOMAIN jobs /\ jobs[1] = Head(jobs)
          /\ \A i \in DOMAIN Tail(jobs) : i + 1 \in DOMAIN jobs /\ i + 1 # 1
                                         /\ Tail(jobs)[i] = jobs[i + 1]
      BY <3>1
    <3>3. ToDo(r)' => ToDo(r)
      BY <3>1, <3>2 DEF ToDo, In
    <3>4. OnItsWay(r) => OnItsWay(r)'
      BY <3>1 DEF OnItsWay
    <3>5. Owned(r) => Owned(r)'
      BY <3>1, <3>4 DEF Owned
    <3>6. CASE Head(jobs).id # r
      <4>1. r \in mp4' => r \in mp4
        BY <2>13, <3>6 DEF Encode
      <4>2. Refused(r)' => Refused(r)
        BY <3>1, <3>6 DEF Refused, InDrainer
      <4> QED
        BY <3>1, <3>3, <3>5, <4>1, <4>2, <2>b DEF Filed
    <3>7. CASE Head(jobs).id = r
      <4>1. /\ r \in In(Queue) /\ r \notin In(input) /\ ~(peer.at # "idle" /\ peer.id = r)
            /\ \A i \in DOMAIN output : output[i].id # r
            /\ \A i \in DOMAIN jobs : jobs[i].id = r => i = 1
        BY <3>1, <3>7, <2>b, JobIsAlone DEF Travels
      <4>2. ~InDrainer(r) /\ stage[r] \in {"waiting", "timeout", "lost"}
        BY <4>1, <2>b DEF Travels
      <4>3. r \notin mp4
        BY <3>2, <3>7, <2>b DEF Filed, ToDo
      <4>4. ~ToDo(r)'
        BY <3>1, <3>2, <4>1 DEF ToDo, In
      <4>5. r \in mp4' => encoder'.ok
        BY <2>13, <3>7, <4>3 DEF Encode, AnswerTo
      <4>6. r \in mp4' => ~Refused(r)'
        BY <3>1, <4>1, <4>2, <4>5 DEF Refused, InDrainer
      <4>7. Owned(r)'
        BY <3>1, <3>7 DEF Owned, OnItsWay
      <4> QED
        BY <3>1, <4>2, <4>4, <4>6, <4>7, <2>b DEF Filed, InDrainer
    <3> QED
      BY <3>6, <3>7
  <2>14. CASE Respond
    <3>1. /\ output \in Seq(Response) /\ encoder.at = "write" /\ encoder'.at = "idle"
          /\ output' = Append(output, [id |-> encoder.id, ok |-> encoder.ok])
          /\ UNCHANGED <<stage, fut, drainer, input, peer, jobs, mp4, restarts>>
      BY <2>14, <2>a DEF Respond, TypeLine, Idle, serverVars, boundVars
    <3>2. [id |-> encoder.id, ok |-> encoder.ok] \in Response
      BY <3>1, <2>a DEF TypeLine, EncoderType, Response, Idle
    <3>3. /\ \A i \in DOMAIN output' : \/ i \in DOMAIN output /\ output'[i] = output[i]
                                       \/ output'[i].id = encoder.id /\ output'[i].ok = encoder.ok
          /\ \A i \in DOMAIN output : i \in DOMAIN output' /\ output'[i] = output[i]
          /\ \E i \in DOMAIN output' : output'[i].id = encoder.id
      <4>1. /\ DOMAIN output = 1..Len(output) /\ DOMAIN output' = 1..(Len(output) + 1)
            /\ Len(output) \in Nat
        BY <3>1, <3>2
      <4>2. output'[Len(output) + 1] = [id |-> encoder.id, ok |-> encoder.ok]
        BY <3>1, <3>2
      <4>3. \A i \in 1..Len(output) : output'[i] = output[i]
        BY <3>1, <3>2
      <4>4. Len(output) + 1 \in DOMAIN output'
        BY <4>1
      <4>5. \A i \in DOMAIN output' : i \in 1..Len(output) \/ i = Len(output) + 1
        BY <4>1
      <4> QED
        BY <4>1, <4>2, <4>3, <4>4, <4>5
    <3>4. Refused(r)' => Refused(r)
      BY <3>1, <3>3 DEF Refused, InDrainer
    <3>5. OnItsWay(r) => OnItsWay(r)'
      BY <3>1, <3>3 DEF OnItsWay
    <3>6. Owned(r) => Owned(r)'
      BY <3>1, <3>5 DEF Owned
    <3>7. ToDo(r)' <=> ToDo(r)
      BY <3>1 DEF ToDo, In
    <3> QED
      BY <3>1, <3>4, <3>6, <3>7, <2>b DEF Filed
  <2>15. CASE Restart
    <3>1. /\ stage'[r] = (IF stage[r] \in {"writing", "waiting"} THEN "lost" ELSE stage[r])
          /\ drainer' = [at |-> "off"] /\ output' = <<>> /\ restarts' > 0
          /\ mp4' = mp4 \ {output[i].id : i \in DOMAIN output}
          /\ UNCHANGED <<input, peer, jobs, encoder>>
      BY <2>15, <2>a DEF Restart, runnerVars, TypeRest
    <3>2. ~Refused(r) => ~Refused(r)'
      BY <3>1 DEF Refused, InDrainer
    <3>3. ToDo(r)' <=> ToDo(r)
      BY <3>1 DEF ToDo, In
    <3>4. r \in mp4' /\ Owned(r) => Owned(r)'
      <4> SUFFICES ASSUME r \in mp4', Owned(r) PROVE Owned(r)'
        OBVIOUS
      <4>1. CASE encoder.at = "write" /\ encoder.id = r
        BY <3>1, <4>1 DEF Owned, OnItsWay
      <4>2. ~ \E i \in DOMAIN output : output[i].id = r
        BY <3>1
      <4>3. CASE InDrainer(r)
        BY <3>1, <4>3, <2>c DEF Owned
      <4>4. CASE stage[r] \in {"waiting", "answered", "timeout", "lost"}
        BY <3>1, <4>4 DEF Owned
      <4>5. CASE drainer.at \in {"read", "found", "set", "dead"} /\ drainer.id = r
        BY <4>3, <4>5 DEF InDrainer
      <4> QED
        BY <4>1, <4>2, <4>4, <4>5 DEF Owned, OnItsWay
    <3> QED
      BY <3>1, <3>2, <3>3, <3>4, <2>b DEF Filed
  <2>16. CASE UNCHANGED vars
    <3>1. Same /\ UNCHANGED <<stage, fut, mp4, drainer, restarts>>
      BY <2>16 DEF vars, serverVars, runnerVars, boundVars
    <3> QED
      BY <2>1, <3>1
  <2> QED
    BY <2>2, <2>3, <2>4, <2>5, <2>6, <2>8, <2>9, <2>10, <2>11, <2>12, <2>13, <2>14, <2>15, <2>16
       DEF Next, LoopStep, DrainerStep, EncoderStep
<1> QED
  BY <1>1, <1>2, VideoTypeCorrect, HeldHolds, TravelHolds, PTL DEF Spec

\* A video file is on its way to the server, or in the hand of a caller that
\* will have it or has it, except where its request gave up, or the drainer or
\* its process died: no file is left without anybody to unlink it otherwise.
THEOREM VideoHasOwnerHolds == Spec => []VideoHasOwner
<1>1. TypeOK /\ AllFiled => VideoHasOwner
  <2> SUFFICES ASSUME TypeOK, AllFiled, NEW r \in mp4 PROVE Owned(r)
    BY DEF VideoHasOwner, Owned
  <2>1. r \in Requests
    BY TypeSplit DEF TypeRest
  <2> QED
    BY <2>1 DEF AllFiled, Filed
<1> QED
  BY <1>1, VideoTypeCorrect, FiledHolds, PTL
=============================================================================
