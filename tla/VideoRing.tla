------------------------------ MODULE VideoRing ------------------------------
(***************************************************************************)
(* The shared-memory ring VideoShm (tt-media-server/ipc/video_shm.py) that *)
(* links the media server to the video pipeline: a ring of slots, each     *)
(* with a state word, and two monotonic indices in a second segment.  One  *)
(* process writes and one reads, without locks.  A write is "pack the      *)
(* payload, flip the slot to FILLED, bump writer_index"; a read is "unpack *)
(* the payload, flip the slot to EMPTY, bump reader_index".  The segments  *)
(* survive their processes: either may be killed between any two stores    *)
(* and a new one attaches and calls recover() for its own side.            *)
(*                                                                         *)
(* The payload is abstracted to two words, each holding the number of the  *)
(* message it was packed from, so that a torn payload shows.  Timeouts and *)
(* shutdown make write_request return FALSE and read_request return None   *)
(* before either has changed anything: they are stuttering steps here.     *)
(***************************************************************************)
EXTENDS Integers, Sequences

CONSTANTS Slots,       \* INPUT_SLOTS or OUTPUT_SLOTS
          MaxMsgs,     \* bound: messages the writer starts to write
          MaxCrashes,  \* bound: crashes of either process
          Discipline   \* what the crashes are assumed to respect, see below

(***************************************************************************)
(* "peerWaits" : while a process is dead between its flip and its bump,    *)
(*               the peer does not touch the slot of that half-made step   *)
(*               (the residual hazard the class documents).                *)
(* "settled"   : recover() does not run while the peer is alive and itself *)
(*               between its flip and its bump.                            *)
(***************************************************************************)
Disciplines == {"peerWaits", "settled"}

ASSUME RingAssumption ==
  /\ Slots \in Nat \ {0}
  /\ MaxMsgs \in Nat
  /\ MaxCrashes \in Nat
  /\ Discipline \subseteq Disciplines

VARIABLES
  state,    \* state word of each slot
  id,       \* first payload word of each slot (task_id)
  body,     \* last payload word of each slot
  widx,     \* writer_index
  ridx,     \* reader_index
  wpc,      \* where the writer process is in write_request, or "down"
  rpc,      \* where the reader process is in read_request, or "down"
  rId,      \* the reader's local copy of the first payload word
  rBody,    \* the reader's local copy of the last payload word
  wGap,     \* the writer died between its flip and its bump (ghost)
  rGap,     \* the reader died between its flip and its bump (ghost)
  sent,     \* number of the message being written or last written (ghost)
  out,      \* number of the message last returned to the caller (ghost)
  returns,  \* how many messages were returned (ghost)
  crashes   \* how many crashes happened so far (bound)

shared == <<state, id, body, widx, ridx>>
writer == <<wpc, wGap, sent>>
reader == <<rpc, rGap, rId, rBody, out, returns>>
vars == <<shared, writer, reader, crashes>>

Slot == 0..Slots - 1
WSlot == widx % Slots
RSlot == ridx % Slots

WriterPC == {"idle", "claimed", "half", "packed", "flipped", "down"}
ReaderPC == {"idle", "seen", "half", "read", "flipped", "bumped", "down"}

TypeOK ==
  /\ state \in [Slot -> {"EMPTY", "FILLED"}]
  /\ id \in [Slot -> 0..MaxMsgs]
  /\ body \in [Slot -> 0..MaxMsgs]
  /\ widx \in Nat
  /\ ridx \in Nat
  /\ wpc \in WriterPC
  /\ rpc \in ReaderPC
  /\ rId \in 0..MaxMsgs
  /\ rBody \in 0..MaxMsgs
  /\ wGap \in BOOLEAN
  /\ rGap \in BOOLEAN
  /\ sent \in 0..MaxMsgs
  /\ out \in 0..MaxMsgs
  /\ returns \in Nat
  /\ crashes \in 0..MaxCrashes

\* The creator of the segments gets zeroed memory: every slot EMPTY, both
\* indices zero.
Init ==
  /\ state = [s \in Slot |-> "EMPTY"]
  /\ id = [s \in Slot |-> 0]
  /\ body = [s \in Slot |-> 0]
  /\ widx = 0
  /\ ridx = 0
  /\ wpc = "idle"
  /\ rpc = "idle"
  /\ rId = 0
  /\ rBody = 0
  /\ wGap = FALSE
  /\ rGap = FALSE
  /\ sent = 0
  /\ out = 0
  /\ returns = 0
  /\ crashes = 0

(* ------------------------------- mutants ------------------------------- *)
(* Plausible slips in this code; none is part of the specification.          *)

\* The reader frees the slot before it has unpacked it.
See_FreesEarly ==
  /\ rpc = "idle"
  /\ state[RSlot] = "FILLED"
  /\ state' = [state EXCEPT ![RSlot] = "EMPTY"]
  /\ rpc' = "seen"
  /\ UNCHANGED <<id, body, widx, ridx, writer, rGap, rId, rBody, out, returns, crashes>>

\* recover(side="reader") never finds a gap.
ReaderGapSeen_Never == FALSE

(* ------------------------------ the writer ----------------------------- *)

\* The spin on the slot's state word ends.
Claim ==
  /\ wpc = "idle"
  /\ sent < MaxMsgs
  /\ state[WSlot] = "EMPTY"
  /\ wpc' = "claimed"
  /\ sent' = sent + 1
  /\ UNCHANGED <<shared, reader, wGap, crashes>>

PackId ==
  /\ wpc = "claimed"
  /\ id' = [id EXCEPT ![WSlot] = sent]
  /\ wpc' = "half"
  /\ UNCHANGED <<state, body, widx, ridx, reader, wGap, sent, crashes>>

PackBody ==
  /\ wpc = "half"
  /\ body' = [body EXCEPT ![WSlot] = sent]
  /\ wpc' = "packed"
  /\ UNCHANGED <<state, id, widx, ridx, reader, wGap, sent, crashes>>

FlipFilled ==
  /\ wpc = "packed"
  /\ state' = [state EXCEPT ![WSlot] = "FILLED"]
  /\ wpc' = "flipped"
  /\ UNCHANGED <<id, body, widx, ridx, reader, wGap, sent, crashes>>

BumpWriter ==
  /\ wpc = "flipped"
  /\ widx' = widx + 1
  /\ wpc' = "idle"
  /\ UNCHANGED <<state, id, body, ridx, reader, wGap, sent, crashes>>

CrashWriter ==
  /\ wpc # "down"
  /\ crashes < MaxCrashes
  /\ wGap' = (wpc = "flipped")
  /\ wpc' = "down"
  /\ crashes' = crashes + 1
  /\ UNCHANGED <<shared, reader, sent>>

\* recover(side="writer"): the next slot to write is FILLED although the ring
\* is not full.
WriterGapSeen == widx < ridx + Slots /\ state[WSlot] = "FILLED"

\* A new writer attaches and runs recover(side="writer"); the repair is the
\* bump the dead writer did not make.
RestartWriter ==
  /\ wpc = "down"
  /\ "settled" \in Discipline => rpc # "flipped"
  /\ wpc' = IF WriterGapSeen THEN "flipped" ELSE "idle"
  /\ wGap' = FALSE
  /\ UNCHANGED <<shared, reader, sent, crashes>>

(* ------------------------------ the reader ----------------------------- *)

See ==
  /\ rpc = "idle"
  /\ state[RSlot] = "FILLED"
  /\ rpc' = "seen"
  /\ UNCHANGED <<shared, writer, rGap, rId, rBody, out, returns, crashes>>

UnpackId ==
  /\ rpc = "seen"
  /\ rId' = id[RSlot]
  /\ rpc' = "half"
  /\ UNCHANGED <<shared, writer, rGap, rBody, out, returns, crashes>>

UnpackBody ==
  /\ rpc = "half"
  /\ rBody' = body[RSlot]
  /\ rpc' = "read"
  /\ UNCHANGED <<shared, writer, rGap, rId, out, returns, crashes>>

FlipEmpty ==
  /\ rpc = "read"
  /\ state' = [state EXCEPT ![RSlot] = "EMPTY"]
  /\ rpc' = "flipped"
  /\ UNCHANGED <<id, body, widx, ridx, writer, rGap, rId, rBody, out, returns, crashes>>

BumpReader ==
  /\ rpc = "flipped"
  /\ ridx' = ridx + 1
  /\ rpc' = "bumped"
  /\ UNCHANGED <<state, id, body, widx, writer, rGap, rId, rBody, out, returns, crashes>>

Return ==
  /\ rpc = "bumped"
  /\ out' = rId
  /\ returns' = returns + 1
  /\ rpc' = "idle"
  /\ UNCHANGED <<shared, writer, rGap, rId, rBody, crashes>>

CrashReader ==
  /\ rpc # "down"
  /\ crashes < MaxCrashes
  /\ rGap' = (rpc = "flipped")
  /\ rpc' = "down"
  /\ crashes' = crashes + 1
  /\ UNCHANGED <<shared, writer, rId, rBody, out, returns>>

\* recover(side="reader"): the next slot to read is EMPTY although the ring
\* is not empty.
ReaderGapSeen == ridx < widx /\ state[RSlot] = "EMPTY"

RestartReader ==
  /\ rpc = "down"
  /\ "settled" \in Discipline => wpc # "flipped"
  /\ ridx' = IF ReaderGapSeen THEN ridx + 1 ELSE ridx
  /\ rpc' = "idle"
  /\ rGap' = FALSE
  /\ UNCHANGED <<state, id, body, widx, writer, rId, rBody, out, returns, crashes>>

(* ----------------------- the operator's recovery ----------------------- *)

\* `video_shm_bootstrap recover`, run while both processes are dead:
\* recover(side="both") repairs the writer's side, then the reader's side
\* with the repaired writer_index.
OperatorRecover ==
  LET w == IF WriterGapSeen THEN widx + 1 ELSE widx
      r == IF ridx < w /\ state[RSlot] = "EMPTY" THEN ridx + 1 ELSE ridx
  IN /\ wpc = "down"
     /\ rpc = "down"
     /\ w # widx \/ r # ridx
     /\ widx' = w
     /\ ridx' = r
     /\ wGap' = FALSE
     /\ rGap' = FALSE
     /\ UNCHANGED <<state, id, body, wpc, sent, rpc, rId, rBody, out, returns, crashes>>

(* ---------------------------- the whole ring --------------------------- *)

\* Positions between which the ring holds committed messages: an index counts
\* as bumped from the flip on, also while its owner is dead in between.
W == IF wpc = "flipped" \/ wGap THEN widx + 1 ELSE widx
R == IF rpc = "flipped" \/ rGap THEN ridx + 1 ELSE ridx

\* The peer of a process that died half way through a step has gone on to
\* use the slot of that step.
PeerLaps ==
  \/ wGap /\ (R > widx \/ (ridx = widx /\ rpc \in {"seen", "half", "read"}))
  \/ rGap /\ (W > ridx + Slots
               \/ (widx = ridx + Slots /\ wpc \in {"claimed", "half", "packed"}))

Disciplined == "peerWaits" \in Discipline => ~PeerLaps'

WriterStep == Claim \/ PackId \/ PackBody \/ FlipFilled \/ BumpWriter
ReaderStep == See \/ UnpackId \/ UnpackBody \/ FlipEmpty \/ BumpReader \/ Return
Next == /\ \/ Claim \/ PackId \/ PackBody \/ FlipFilled \/ BumpWriter
           \/ See \/ UnpackId \/ UnpackBody \/ FlipEmpty \/ BumpReader \/ Return
           \/ CrashWriter \/ CrashReader
           \/ RestartWriter \/ RestartReader
           \/ OperatorRecover
        /\ Disciplined

Spec == Init /\ [][Next]_vars

(***************************************************************************)
(* Each live process keeps polling (the spin loops have no other way out   *)
(* than shutdown), and the orchestrator respawns a dead one.  Nothing is   *)
(* assumed of crashes and of the operator.                                 *)
(***************************************************************************)
Fairness ==
  /\ WF_vars(WriterStep /\ Disciplined)
  /\ WF_vars(ReaderStep /\ Disciplined)
  /\ WF_vars(RestartWriter /\ Disciplined)
  /\ WF_vars(RestartReader /\ Disciplined)

FairSpec == Spec /\ Fairness

(* ------------------------------ properties ----------------------------- *)

InRing(m) == \E s \in Slot : state[s] = "FILLED" /\ id[s] = m

\* The handshake through the state words that keeps the two processes off each
\* other's slot: it holds whatever the indices have become.
Handshake ==
  /\ rpc \in {"seen", "half", "read"} => state[RSlot] = "FILLED"
  /\ wpc \in {"claimed", "half", "packed"} => state[WSlot] = "EMPTY"
  /\ \A s \in Slot : state[s] = "FILLED" => id[s] = body[s]
  /\ wpc = "half" => id[WSlot] = sent
  /\ wpc = "packed" => id[WSlot] = body[WSlot]
  /\ rpc = "half" => rId = id[RSlot]
  /\ rpc \in {"read", "flipped", "bumped"} => rId = rBody

\* What read_request returns is one message, not two halves of two messages:
\* the payload is unpacked only between the flip to FILLED that follows the
\* whole pack and the flip to EMPTY that follows the whole unpack.
NoTornPayload == rpc \in {"read", "flipped", "bumped"} => rId = rBody

\* Messages are returned in the order they were written and none twice,
\* whatever process died in between.
InOrder == [][returns' > returns => out' > out]_vars

\* The state words agree with the indices: exactly the slots between the two
\* positions are FILLED.  It is what makes recover()'s test of a state word
\* against the indices mean "a bump is missing".
IndicesMatchSlots ==
  /\ R <= W /\ W <= R + Slots
  /\ \A i \in R..(R + Slots - 1) : state[i % Slots] = "FILLED" <=> i < W

\* The message being packed is newer than all others.
Packing == wpc \in {"claimed", "half", "packed"}
InHand == rpc \in {"flipped", "bumped"}

Live == R..(W - 1)
MsgAt(i) == id[i % Slots]

\* Committed messages are numbered in the order of their positions, above the
\* messages already in the reader's hand or returned, below the one being
\* packed.
Ordered ==
  /\ \A i, j \in Live : i < j => MsgAt(i) < MsgAt(j)
  /\ \A i \in Live : /\ out < MsgAt(i) /\ MsgAt(i) <= sent
                     /\ Packing => MsgAt(i) < sent
                     /\ InHand => rId < MsgAt(i)
  /\ out <= sent /\ (Packing => out < sent)
  /\ InHand => out < rId /\ rId <= sent /\ (Packing => rId < sent)
  /\ rpc \in {"half", "read"} => rId = id[RSlot]
  /\ wpc \in {"half", "packed"} => id[WSlot] = sent

\* The inductive invariant of a ring whose crashes respect both disciplines.
RingInv ==
  /\ wGap => wpc = "down"
  /\ rGap => rpc = "down"
  /\ ~PeerLaps
  /\ IndicesMatchSlots
  /\ Ordered

\* Every committed message leaves the ring: the reader never waits for ever on
\* a slot that is not the one the next message is in.
Drains == \A m \in 1..MaxMsgs : InRing(m) ~> ~InRing(m)

\* A ring whose processes died and came back is a bounded FIFO channel that
\* loses at most the message a dying reader had in its hand.
Queue == [k \in 1..(W - R) |-> id[(R + k - 1) % Slots]]
Hand == IF InHand THEN rId ELSE 0
Fifo == INSTANCE VideoFifo WITH queue <- Queue, hand <- Hand
FifoSpec == Fifo!Spec
=============================================================================
