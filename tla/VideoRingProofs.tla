--------------------------- MODULE VideoRingProofs ---------------------------
(***************************************************************************)
(* Theorems about VideoRing, for every number of slots, messages and       *)
(* crashes.                                                                *)
(***************************************************************************)
EXTENDS VideoRing, SequenceTheorems, TLAPS

(* --------------------------- slots of indices -------------------------- *)

\* An index always names a slot of the ring.
LEMMA SlotOfIndex == ASSUME NEW i \in Nat PROVE i % Slots \in Slot
  BY RingAssumption DEF Slot

(* --------------------------- type correctness -------------------------- *)

\* One step keeps the types.
LEMMA TypeStep == TypeOK /\ [Next]_vars => TypeOK'
  <1> SUFFICES ASSUME TypeOK, [Next]_vars PROVE TypeOK'
    OBVIOUS
  <1> USE RingAssumption DEF TypeOK, WriterPC, ReaderPC, shared, writer, reader
  <1>0. WSlot \in Slot /\ RSlot \in Slot
    BY SlotOfIndex DEF WSlot, RSlot
  <1>1. CASE Claim BY <1>1 DEF Claim
  <1>2. CASE PackId BY <1>0, <1>2 DEF PackId
  <1>3. CASE PackBody BY <1>0, <1>3 DEF PackBody
  <1>4. CASE FlipFilled BY <1>0, <1>4 DEF FlipFilled
  <1>5. CASE BumpWriter BY <1>5 DEF BumpWriter
  <1>6. CASE CrashWriter BY <1>6 DEF CrashWriter
  <1>7. CASE RestartWriter BY <1>7 DEF RestartWriter
  <1>8. CASE See BY <1>8 DEF See
  <1>9. CASE UnpackId BY <1>0, <1>9 DEF UnpackId
  <1>10. CASE UnpackBody BY <1>0, <1>10 DEF UnpackBody
  <1>11. CASE FlipEmpty BY <1>0, <1>11 DEF FlipEmpty
  <1>12. CASE BumpReader BY <1>12 DEF BumpReader
  <1>13. CASE Return BY <1>13 DEF Return
  <1>14. CASE CrashReader BY <1>14 DEF CrashReader
  <1>15. CASE RestartReader
    <2>1. ridx' \in Nat BY <1>15 DEF RestartReader
    <2> QED BY <2>1, <1>15 DEF RestartReader
  <1>16. CASE OperatorRecover
    <2>1. widx' \in Nat BY <1>16 DEF OperatorRecover
    <2>2. ridx' \in Nat BY <1>16 DEF OperatorRecover
    <2> QED BY <2>1, <2>2, <1>16 DEF OperatorRecover
  <1>17. CASE UNCHANGED vars BY <1>17 DEF vars
  <1> QED
    BY <1>1, <1>2, <1>3, <1>4, <1>5, <1>6, <1>7, <1>8, <1>9, <1>10, <1>11,
       <1>12, <1>13, <1>14, <1>15, <1>16, <1>17 DEF Next

\* Type correctness: the state words, payloads, indices and program counters
\* stay in their types under every crash and every recovery.
THEOREM RingTypeCorrect == Spec => []TypeOK
<1>1. Init => TypeOK
  <2> SUFFICES ASSUME Init PROVE TypeOK
    OBVIOUS
  <2>1. 0 \in 0..MaxMsgs /\ 0 \in 0..MaxCrashes
    BY RingAssumption
  <2>2. wGap \in BOOLEAN /\ rGap \in BOOLEAN
    BY DEF Init
  <2> QED BY <2>1, <2>2 DEF Init, TypeOK, WriterPC, ReaderPC
<1> QED BY <1>1, TypeStep, PTL DEF Spec

(* ---------------------- no torn payload, ever -------------------------- *)

\* One step keeps the handshake.
LEMMA HandshakeStep == TypeOK /\ Handshake /\ [Next]_vars => Handshake'
  <1> SUFFICES ASSUME TypeOK, Handshake, [Next]_vars PROVE Handshake'
    OBVIOUS
  <1>0. WSlot \in Slot /\ RSlot \in Slot
    BY SlotOfIndex DEF WSlot, RSlot, TypeOK
  <1> USE <1>0 DEF TypeOK, Handshake, WriterPC, ReaderPC, shared, writer, reader
  <1>1. CASE Claim BY <1>1 DEF Claim, WSlot, RSlot
  <1>2. CASE PackId BY <1>2 DEF PackId, WSlot, RSlot
  <1>3. CASE PackBody BY <1>3 DEF PackBody, WSlot, RSlot
  <1>4. CASE FlipFilled BY <1>4 DEF FlipFilled, WSlot, RSlot
  <1>5. CASE BumpWriter BY <1>5 DEF BumpWriter, RSlot
  <1>6. CASE CrashWriter BY <1>6 DEF CrashWriter, RSlot
  <1>7. CASE RestartWriter BY <1>7 DEF RestartWriter, RSlot
  <1>8. CASE See BY <1>8 DEF See, WSlot, RSlot
  <1>9. CASE UnpackId BY <1>9 DEF UnpackId, WSlot, RSlot
  <1>10. CASE UnpackBody BY <1>10 DEF UnpackBody, WSlot, RSlot
  <1>11. CASE FlipEmpty BY <1>11 DEF FlipEmpty, WSlot, RSlot
  <1>12. CASE BumpReader BY <1>12 DEF BumpReader, WSlot
  <1>13. CASE Return BY <1>13 DEF Return, WSlot
  <1>14. CASE CrashReader BY <1>14 DEF CrashReader, WSlot
  <1>15. CASE RestartReader BY <1>15 DEF RestartReader, WSlot
  <1>16. CASE OperatorRecover BY <1>16 DEF OperatorRecover
  <1>17. CASE UNCHANGED vars BY <1>17 DEF vars, WSlot, RSlot
  <1> QED
    BY <1>1, <1>2, <1>3, <1>4, <1>5, <1>6, <1>7, <1>8, <1>9, <1>10, <1>11,
       <1>12, <1>13, <1>14, <1>15, <1>16, <1>17 DEF Next

\* The handshake survives every step, every crash and every repair, under any
\* discipline: recover() only moves an index of a process that is not inside
\* a slot.
THEOREM HandshakeHolds == Spec => []Handshake
<1>1. Init => Handshake
  BY DEF Init, Handshake
<1> QED BY <1>1, HandshakeStep, RingTypeCorrect, PTL DEF Spec

\* No read ever returns a payload mixed from two writes, even when the peer
\* laps the slot of a dead process.
THEOREM NoTornPayloadHolds == Spec => []NoTornPayload
<1>1. Handshake => NoTornPayload
  BY DEF Handshake, NoTornPayload
<1> QED BY <1>1, HandshakeHolds, PTL

(* ------------------ the ring as a lossy FIFO channel ------------------- *)

\* Division with remainder, the only fact about % that is needed.
LEMMA DivMod ==
  ASSUME NEW n \in Nat \ {0}, NEW i \in Nat
  PROVE  i \div n \in Int /\ i % n \in 0..n - 1 /\ i = n * (i \div n) + (i % n)
  OBVIOUS

LEMMA Product ==
  ASSUME NEW n \in Nat \ {0}, NEW a \in Int, NEW b \in Int, a < b
  PROVE  n * b >= n * a + n
  OBVIOUS

\* Fewer than Slots positions apart, two positions share a slot only if equal.
LEMMA SlotInjective ==
  ASSUME NEW i \in Nat, NEW j \in Nat, i <= j, j < i + Slots,
         i % Slots = j % Slots
  PROVE  i = j
<1>1. /\ i = Slots * (i \div Slots) + (i % Slots) /\ i \div Slots \in Int
      /\ j = Slots * (j \div Slots) + (j % Slots) /\ j \div Slots \in Int
  BY DivMod, RingAssumption
<1>2. j - i = Slots * (j \div Slots) - Slots * (i \div Slots)
  BY <1>1, RingAssumption
<1>3. ~(i \div Slots < j \div Slots)
  BY <1>1, <1>2, Product, RingAssumption
<1>4. ~(j \div Slots < i \div Slots)
  BY <1>1, <1>2, Product, RingAssumption
<1> QED BY <1>1, <1>3, <1>4, RingAssumption

\* A full turn of the ring comes back to the same slot.
LEMMA SlotWraps == ASSUME NEW i \in Nat PROVE (i + Slots) % Slots = i % Slots
<1> DEFINE a == i \div Slots
           b == (i + Slots) \div Slots
           r == i % Slots
           s == (i + Slots) % Slots
<1>1. a \in Int /\ b \in Int /\ r \in 0..Slots - 1 /\ s \in 0..Slots - 1
  BY DivMod, RingAssumption
<1>2. i = Slots * a + r /\ i + Slots = Slots * b + s
  BY DivMod, RingAssumption
<1> HIDE DEF a, b, r, s
<1>3. Slots * (b - a) + (s - r) = Slots
  BY <1>1, <1>2, RingAssumption
<1>4. ~(b - a >= 2) /\ ~(b - a <= 0)
  <2>1. ASSUME b - a >= 2 PROVE FALSE
    <3>1. Slots * (b - a) >= Slots * 1 + Slots
      BY <2>1, <1>1, Product, RingAssumption
    <3> QED BY <3>1, <1>1, <1>3, RingAssumption
  <2>2. ASSUME b - a <= 0 PROVE FALSE
    <3>1. Slots * 1 >= Slots * (b - a) + Slots
      BY <2>2, <1>1, Product, RingAssumption
    <3> QED BY <3>1, <1>1, <1>3, RingAssumption
  <2> QED BY <2>1, <2>2
<1>5. b - a = 1
  BY <1>1, <1>4
<1> QED BY <1>1, <1>3, <1>5, RingAssumption DEF r, s

\* The two positions are natural numbers.
LEMMA PositionsType == TypeOK => W \in Nat /\ R \in Nat
  BY DEF TypeOK, W, R

\* The writer works on a slot that holds no committed message.
LEMMA WriterSlotFree ==
  ASSUME TypeOK, RingInv, state[WSlot] = "EMPTY", W = widx
  PROVE  W < R + Slots /\ \A i \in Live : i % Slots # WSlot
<1>1. W \in Nat /\ R \in Nat /\ R <= W /\ W <= R + Slots
  BY PositionsType DEF RingInv, IndicesMatchSlots
<1>2. W # R + Slots
  <2> SUFFICES ASSUME W = R + Slots PROVE FALSE
    OBVIOUS
  <2>1. state[R % Slots] = "FILLED"
    BY <1>1, RingAssumption DEF RingInv, IndicesMatchSlots
  <2> QED BY <2>1, <1>1, SlotWraps DEF WSlot
<1>3. ASSUME NEW i \in Live PROVE state[i % Slots] = "FILLED"
  <2>1. i \in R..(R + Slots - 1) /\ i < W
    BY <1>1, RingAssumption DEF Live
  <2> QED BY <2>1 DEF RingInv, IndicesMatchSlots
<1> QED BY <1>1, <1>2, <1>3, RingAssumption

\* recover(side="writer") finds FILLED past the end exactly when the bump of a
\* dead writer is missing, if the reader is not itself between two stores.
LEMMA WriterGap ==
  ASSUME TypeOK, RingInv, wpc = "down", rpc # "flipped"
  PROVE  WriterGapSeen <=> wGap
<1> USE DEF TypeOK, RingInv
<1>0. /\ W \in Nat /\ R \in Nat /\ R <= W /\ W <= R + Slots
      /\ widx \in Nat /\ ridx \in Nat /\ R \in {ridx, ridx + 1}
  BY PositionsType DEF IndicesMatchSlots, R
<1>1. ASSUME wGap PROVE WriterGapSeen
  <2>1. W = widx + 1 /\ R <= widx
    BY <1>0, <1>1 DEF W, PeerLaps
  <2>2. widx < ridx + Slots
    BY <2>1, <1>0, RingAssumption DEF PeerLaps, R
  <2>3. widx \in R..(R + Slots - 1) /\ widx < W
    BY <2>1, <1>0, RingAssumption
  <2>4. state[widx % Slots] = "FILLED"
    BY <2>3 DEF IndicesMatchSlots
  <2> QED BY <2>2, <2>4 DEF WriterGapSeen, WSlot
<1>2. ASSUME ~wGap, widx < ridx + Slots PROVE state[WSlot] # "FILLED"
  <2>1. W = widx BY <1>2 DEF W
  <2>2. widx \in R..(R + Slots - 1) BY <2>1, <1>2, <1>0, RingAssumption
  <2> QED BY <2>1, <2>2, <1>0 DEF IndicesMatchSlots, WSlot
<1> QED BY <1>1, <1>2 DEF WriterGapSeen

\* The same for recover(side="reader"), and for the test recover(side="both")
\* makes after it has repaired writer_index.
LEMMA ReaderGap ==
  ASSUME TypeOK, RingInv, rpc = "down", wpc # "flipped"
  PROVE  /\ ReaderGapSeen <=> rGap
         /\ ridx < W /\ state[RSlot] = "EMPTY" <=> rGap
<1> USE DEF TypeOK, RingInv
<1>0. /\ W \in Nat /\ R \in Nat /\ R <= W /\ W <= R + Slots
      /\ widx \in Nat /\ ridx \in Nat
      /\ W = (IF wGap THEN widx + 1 ELSE widx)
      /\ R = (IF rGap THEN ridx + 1 ELSE ridx)
  BY PositionsType DEF IndicesMatchSlots, R, W
<1>1. ASSUME rGap PROVE ridx < widx /\ ridx < W /\ state[RSlot] = "EMPTY"
  <2>0. wGap => R <= widx
    BY <1>0 DEF PeerLaps
  <2>1. ridx < widx /\ ridx < W /\ W <= ridx + Slots
    <3>1. R = ridx + 1 /\ ~(W > ridx + Slots)
      BY <1>0, <1>1 DEF PeerLaps
    <3>2. CASE wGap BY <3>1, <3>2, <2>0, <1>0, RingAssumption
    <3>3. CASE ~wGap BY <3>1, <3>3, <1>0, RingAssumption
    <3> QED BY <3>2, <3>3
  <2>2. ridx + Slots \in R..(R + Slots - 1)
    BY <1>0, <1>1, RingAssumption
  <2>3. state[(ridx + Slots) % Slots] # "FILLED"
    BY <2>1, <2>2, <1>0 DEF IndicesMatchSlots
  <2>4. RSlot \in Slot /\ RSlot = (ridx + Slots) % Slots
    BY SlotWraps, SlotOfIndex, <1>0 DEF RSlot
  <2> QED BY <2>1, <2>3, <2>4
<1>2. ASSUME ~rGap, ridx < W PROVE state[RSlot] # "EMPTY"
  <2>1. ridx \in R..(R + Slots - 1) BY <1>0, <1>2, RingAssumption
  <2> QED BY <2>1, <1>2, <1>0 DEF IndicesMatchSlots, RSlot
<1>3. ridx < widx => ridx < W BY <1>0
<1> QED BY <1>1, <1>2, <1>3 DEF ReaderGapSeen

\* Only the two flips move a position: bumps, crashes and repairs do not.
LEMMA PositionsStep ==
  ASSUME TypeOK, RingInv, Handshake, [Next]_vars, Discipline = Disciplines
  PROVE  /\ FlipFilled => W' = W + 1 /\ R' = R
         /\ FlipEmpty => W' = W /\ R' = R + 1
         /\ ~FlipFilled /\ ~FlipEmpty => W' = W /\ R' = R /\ state' = state
<1> USE DEF TypeOK, RingInv, shared, writer, reader
<1>0. W \in Nat /\ R \in Nat /\ R <= W /\ W <= R + Slots
  BY PositionsType DEF IndicesMatchSlots
<1>1. CASE Claim BY <1>1 DEF Claim, W, R, FlipFilled, FlipEmpty
<1>2. CASE PackId BY <1>2 DEF PackId, W, R, FlipFilled, FlipEmpty
<1>3. CASE PackBody BY <1>3 DEF PackBody, W, R, FlipFilled, FlipEmpty
<1>4. CASE FlipFilled BY <1>4 DEF W, R, FlipFilled, FlipEmpty
<1>5. CASE BumpWriter BY <1>5 DEF BumpWriter, W, R, FlipFilled, FlipEmpty
<1>6. CASE CrashWriter BY <1>6 DEF CrashWriter, W, R, FlipFilled, FlipEmpty
<1>7. CASE RestartWriter
  <2>1. WriterGapSeen <=> wGap
    BY <1>7, WriterGap DEF RestartWriter, Disciplines
  <2> QED BY <2>1, <1>7 DEF RestartWriter, W, R, FlipFilled, FlipEmpty
<1>8. CASE See BY <1>8 DEF See, W, R, FlipFilled, FlipEmpty
<1>9. CASE UnpackId BY <1>9 DEF UnpackId, W, R, FlipFilled, FlipEmpty
<1>10. CASE UnpackBody BY <1>10 DEF UnpackBody, W, R, FlipFilled, FlipEmpty
<1>11. CASE FlipEmpty BY <1>11 DEF W, R, FlipFilled, FlipEmpty
<1>12. CASE BumpReader BY <1>12 DEF BumpReader, W, R, FlipFilled, FlipEmpty
<1>13. CASE Return BY <1>13 DEF Return, W, R, FlipFilled, FlipEmpty
<1>14. CASE CrashReader BY <1>14 DEF CrashReader, W, R, FlipFilled, FlipEmpty
<1>15. CASE RestartReader
  <2>1. ReaderGapSeen <=> rGap
    BY <1>15, ReaderGap DEF RestartReader, Disciplines
  <2> QED BY <2>1, <1>15 DEF RestartReader, W, R, FlipFilled, FlipEmpty
<1>16. CASE OperatorRecover
  <2>0. wpc = "down" /\ rpc = "down"
    BY <1>16 DEF OperatorRecover
  <2>1. WriterGapSeen <=> wGap
    BY <2>0, WriterGap
  <2>2. ridx < W /\ state[RSlot] = "EMPTY" <=> rGap
    BY <2>0, ReaderGap
  <2>3. widx' = W /\ ridx' = R
    BY <2>0, <2>1, <2>2, <1>16 DEF OperatorRecover, W, R
  <2> QED BY <2>0, <2>3, <1>16 DEF OperatorRecover, W, R, FlipFilled, FlipEmpty
<1>17. CASE UNCHANGED vars BY <1>17 DEF vars, W, R, FlipFilled, FlipEmpty
<1> QED
  BY <1>1, <1>2, <1>3, <1>4, <1>5, <1>6, <1>7, <1>8, <1>9, <1>10, <1>11,
     <1>12, <1>13, <1>14, <1>15, <1>16, <1>17 DEF Next

\* The slots between the positions stay the FILLED ones.
LEMMA IndicesStep ==
  ASSUME TypeOK, RingInv, Handshake, [Next]_vars, Discipline = Disciplines
  PROVE  IndicesMatchSlots'
<1>0. W \in Nat /\ R \in Nat /\ R <= W /\ W <= R + Slots
  BY PositionsType DEF RingInv, IndicesMatchSlots
<1>1. CASE FlipFilled
  <2>1. W = widx /\ state[WSlot] = "EMPTY" /\ WSlot \in Slot /\ widx \in Nat
    BY <1>1, SlotOfIndex DEF FlipFilled, W, WSlot, RingInv, Handshake, TypeOK
  <2>2. W < R + Slots BY <2>1, WriterSlotFree
  <2>3. W' = W + 1 /\ R' = R BY <1>1, PositionsStep
  <2>4. ASSUME NEW i \in R..(R + Slots - 1)
        PROVE  state'[i % Slots] = "FILLED" <=> i < W + 1
    <3>1. i \in Nat /\ i % Slots \in Slot
      BY <1>0, SlotOfIndex, RingAssumption
    <3>2. ASSUME i % Slots = WSlot PROVE i = W
      <4>1. CASE i <= W
        <5>1. W < i + Slots BY <2>2, <1>0, RingAssumption
        <5> QED BY <3>2, <5>1, <4>1, <2>1, <1>0, <3>1, SlotInjective DEF WSlot
      <4>2. CASE W <= i
        <5>1. i < W + Slots BY <1>0, RingAssumption
        <5> QED BY <3>2, <5>1, <4>2, <2>1, <1>0, <3>1, SlotInjective DEF WSlot
      <4>3. i <= W \/ W <= i BY <3>1, <1>0
      <4> QED BY <4>1, <4>2, <4>3
    <3>3. CASE i = W
      BY <3>3, <1>1, <2>1, <1>0 DEF FlipFilled, TypeOK, WSlot
    <3>4. CASE i # W
      <4>1. state'[i % Slots] = state[i % Slots]
        BY <3>1, <3>2, <3>4, <1>1 DEF FlipFilled, TypeOK
      <4> QED BY <4>1, <3>4, <3>1, <1>0 DEF RingInv, IndicesMatchSlots
    <3> QED BY <3>3, <3>4
  <2> QED BY <2>2, <2>3, <2>4, <1>0, RingAssumption DEF IndicesMatchSlots
<1>2. CASE FlipEmpty
  <2>1. R = ridx /\ state[RSlot] = "FILLED" /\ RSlot \in Slot /\ ridx \in Nat
    BY <1>2, SlotOfIndex DEF FlipEmpty, R, RSlot, RingInv, Handshake, TypeOK
  <2>2. R < W
    <3>1. R \in R..(R + Slots - 1) BY <1>0, RingAssumption
    <3> QED BY <3>1, <2>1 DEF RingInv, IndicesMatchSlots, RSlot
  <2>3. W' = W /\ R' = R + 1 BY <1>2, PositionsStep
  <2>4. ASSUME NEW i \in (R + 1)..(R + Slots)
        PROVE  state'[i % Slots] = "FILLED" <=> i < W
    <3>1. i \in Nat /\ i % Slots \in Slot
      BY <1>0, SlotOfIndex, RingAssumption
    <3>2. CASE i = R + Slots
      <4>1. i % Slots = RSlot
        BY <3>2, <2>1, SlotWraps DEF RSlot
      <4> QED BY <4>1, <3>2, <1>2, <2>1, <1>0 DEF FlipEmpty, TypeOK
    <3>3. CASE i # R + Slots
      <4>0. i \in R..(R + Slots - 1) /\ R < i /\ i < R + Slots
        BY <3>3, <1>0, RingAssumption
      <4>1. i % Slots # RSlot
        BY <4>0, <2>1, <3>1, SlotInjective DEF RSlot
      <4>2. state'[i % Slots] = state[i % Slots]
        BY <3>1, <4>1, <1>2 DEF FlipEmpty, TypeOK
      <4> QED BY <4>2, <4>0 DEF RingInv, IndicesMatchSlots
    <3> QED BY <3>2, <3>3
  <2>5. R + 1 <= W /\ W <= R + 1 + Slots /\ (R + 1) + Slots - 1 = R + Slots
    BY <2>2, <1>0, RingAssumption
  <2> QED BY <2>3, <2>4, <2>5 DEF IndicesMatchSlots
<1>3. CASE ~FlipFilled /\ ~FlipEmpty
  <2>1. W' = W /\ R' = R /\ state' = state BY <1>3, PositionsStep
  <2> QED BY <2>1 DEF RingInv, IndicesMatchSlots
<1> QED BY <1>1, <1>2, <1>3

\* The numbers of the messages stay in order.
LEMMA OrderedStep ==
  ASSUME TypeOK, RingInv, Handshake, [Next]_vars, Discipline = Disciplines
  PROVE  Ordered'
<1>0. W \in Nat /\ R \in Nat /\ R <= W /\ W <= R + Slots
  BY PositionsType DEF RingInv, IndicesMatchSlots
<1>1. WSlot \in Slot /\ RSlot \in Slot
  BY SlotOfIndex DEF WSlot, RSlot, TypeOK
<1>2. \A i \in Live : i \in Nat /\ i % Slots \in Slot /\ MsgAt(i) \in 0..MaxMsgs
  BY <1>0, SlotOfIndex DEF Live, MsgAt, TypeOK
<1>3. Packing => \A i \in Live : i % Slots # WSlot
  <2>1. Packing => W = widx /\ state[WSlot] = "EMPTY"
    BY DEF Packing, W, RingInv, Handshake
  <2> QED BY <2>1, WriterSlotFree
<1> USE <1>1, <1>2 DEF TypeOK, Ordered, RingInv, Packing, InHand, MsgAt,
        shared, writer, reader
<1>4. ASSUME W' = W, R' = R PROVE Live' = Live
  BY <1>4 DEF Live
<1>5. CASE Claim
  BY <1>5, <1>4, PositionsStep DEF Claim, FlipFilled, FlipEmpty, RSlot, WSlot
<1>6. CASE PackId
  <2>1. W' = W /\ R' = R /\ Live' = Live /\ WSlot' = WSlot /\ RSlot' = RSlot
    BY <1>6, <1>4, PositionsStep DEF PackId, FlipFilled, FlipEmpty, WSlot, RSlot
  <2>2. \A i \in Live : id'[i % Slots] = id[i % Slots]
    BY <1>6, <1>3 DEF PackId
  <2>3. rpc \in {"half", "read"} => RSlot # WSlot
    BY <1>6 DEF PackId, Handshake
  <2> QED BY <1>6, <2>1, <2>2, <2>3 DEF PackId
<1>7. CASE PackBody
  BY <1>7, <1>4, PositionsStep DEF PackBody, FlipFilled, FlipEmpty, WSlot, RSlot
<1>8. CASE FlipFilled
  <2>1. W' = W + 1 /\ R' = R /\ W = widx
    BY <1>8, PositionsStep DEF FlipFilled, W
  <2>2. Live' = Live \cup {W} /\ W \notin Live
    BY <2>1, <1>0 DEF Live
  <2>3. id[W % Slots] = sent /\ \A i \in Live : i < W
    BY <1>8, <2>1, <1>0 DEF FlipFilled, WSlot, Live
  <2> QED BY <1>8, <2>1, <2>2, <2>3 DEF FlipFilled, RSlot, WSlot
<1>9. CASE BumpWriter
  BY <1>9, <1>4, PositionsStep DEF BumpWriter, FlipFilled, FlipEmpty, RSlot, WSlot
<1>10. CASE CrashWriter
  BY <1>10, <1>4, PositionsStep DEF CrashWriter, FlipFilled, FlipEmpty, RSlot, WSlot
<1>11. CASE RestartWriter
  BY <1>11, <1>4, PositionsStep DEF RestartWriter, FlipFilled, FlipEmpty, RSlot, WSlot
<1>12. CASE See
  BY <1>12, <1>4, PositionsStep DEF See, FlipFilled, FlipEmpty, RSlot, WSlot
<1>13. CASE UnpackId
  BY <1>13, <1>4, PositionsStep DEF UnpackId, FlipFilled, FlipEmpty, RSlot, WSlot
<1>14. CASE UnpackBody
  BY <1>14, <1>4, PositionsStep DEF UnpackBody, FlipFilled, FlipEmpty, RSlot, WSlot
<1>15. CASE FlipEmpty
  <2>1. W' = W /\ R' = R + 1 /\ R = ridx
    BY <1>15, PositionsStep DEF FlipEmpty, R
  <2>2. Live' \subseteq Live /\ \A i \in Live' : R < i
    BY <2>1, <1>0 DEF Live
  <2>3. R \in Live
    <3>1. R \in R..(R + Slots - 1) BY <1>0, RingAssumption
    <3> QED BY <3>1, <2>1, <1>15, <1>0
            DEF FlipEmpty, Handshake, IndicesMatchSlots, RSlot, Live
  <2>4. rId = id[R % Slots]
    BY <1>15, <2>1 DEF FlipEmpty, RSlot
  <2> QED BY <1>15, <2>1, <2>2, <2>3, <2>4 DEF FlipEmpty, RSlot, WSlot
<1>16. CASE BumpReader
  BY <1>16, <1>4, PositionsStep DEF BumpReader, FlipFilled, FlipEmpty, RSlot, WSlot
<1>17. CASE Return
  BY <1>17, <1>4, PositionsStep DEF Return, FlipFilled, FlipEmpty, RSlot, WSlot
<1>18. CASE CrashReader
  BY <1>18, <1>4, PositionsStep DEF CrashReader, FlipFilled, FlipEmpty, RSlot, WSlot
<1>19. CASE RestartReader
  BY <1>19, <1>4, PositionsStep DEF RestartReader, FlipFilled, FlipEmpty, RSlot, WSlot
<1>20. CASE OperatorRecover
  BY <1>20, <1>4, PositionsStep DEF OperatorRecover, FlipFilled, FlipEmpty, RSlot, WSlot
<1>21. CASE UNCHANGED vars
  BY <1>21 DEF vars, RSlot, WSlot, Live, W, R
<1> QED
  BY <1>5, <1>6, <1>7, <1>8, <1>9, <1>10, <1>11, <1>12, <1>13, <1>14, <1>15,
     <1>16, <1>17, <1>18, <1>19, <1>20, <1>21 DEF Next

LEMMA RingInvStep ==
  ASSUME TypeOK, RingInv, Handshake, [Next]_vars, Discipline = Disciplines
  PROVE  RingInv'
<1>1. (wGap => wpc = "down")' /\ (rGap => rpc = "down")'
  BY DEF RingInv, TypeOK, Next, vars, shared, writer, reader, Claim, PackId,
         PackBody, FlipFilled, BumpWriter, CrashWriter, RestartWriter, See,
         UnpackId, UnpackBody, FlipEmpty, BumpReader, Return, CrashReader,
         RestartReader, OperatorRecover
<1>2. ~PeerLaps'
  <2>1. CASE UNCHANGED vars
    BY <2>1 DEF vars, shared, writer, reader, RingInv, PeerLaps, W, R
  <2>2. CASE Next
    BY <2>2 DEF Next, Disciplined, Disciplines
  <2> QED BY <2>1, <2>2
<1> QED BY <1>1, <1>2, IndicesStep, OrderedStep DEF RingInv

LEMMA RingInvInit == Init => RingInv
<1> SUFFICES ASSUME Init PROVE RingInv
  OBVIOUS
<1> USE RingAssumption DEF Init
<1>1. W = 0 /\ R = 0 /\ Live = {}
  BY DEF W, R, Live
<1>2. ~PeerLaps
  BY DEF PeerLaps
<1>3. IndicesMatchSlots
  BY <1>1, SlotOfIndex DEF IndicesMatchSlots
<1>4. Ordered
  BY <1>1 DEF Ordered, Packing, InHand
<1> QED BY <1>2, <1>3, <1>4 DEF RingInv

\* If the peer of a dead process keeps off the slot of its half-made step, and
\* recover() does not run while the live peer is between its two stores, the
\* FILLED slots are at every moment exactly those between the two positions:
\* recover() repairs the bump that is missing and nothing else.
THEOREM IndicesMatchSlotsHolds ==
  ASSUME Discipline = Disciplines
  PROVE  Spec => []IndicesMatchSlots
<1>1. TypeOK /\ Handshake /\ RingInv /\ [Next]_vars => RingInv'
  BY RingInvStep
<1>2. RingInv => IndicesMatchSlots
  BY DEF RingInv
<1> QED
  BY <1>1, <1>2, RingInvInit, RingTypeCorrect, HandshakeHolds, PTL DEF Spec

\* Under the same discipline no crash makes a message come twice or out of
\* order.
THEOREM InOrderHolds ==
  ASSUME Discipline = Disciplines
  PROVE  Spec => InOrder
<1>1. TypeOK /\ Handshake /\ RingInv /\ [Next]_vars => RingInv'
  BY RingInvStep
<1>2. TypeOK /\ RingInv /\ [Next]_vars => [returns' > returns => out' > out]_vars
  BY DEF RingInv, Ordered, InHand, TypeOK, Next, vars, shared, writer, reader,
         Claim, PackId, PackBody, FlipFilled, BumpWriter, CrashWriter,
         RestartWriter, See, UnpackId, UnpackBody, FlipEmpty, BumpReader,
         Return, CrashReader, RestartReader, OperatorRecover
<1> QED
  BY <1>1, <1>2, RingInvInit, RingTypeCorrect, HandshakeHolds, PTL
     DEF Spec, InOrder

(* ----------------- the ring implements the FIFO channel ---------------- *)

LEMMA QueueType ==
  ASSUME TypeOK, RingInv
  PROVE  /\ Queue \in Seq(0..MaxMsgs)
         /\ Len(Queue) = W - R
         /\ \A k \in 1..(W - R) : R + k - 1 \in Live /\ Queue[k] = MsgAt(R + k - 1)
<1>0. W \in Nat /\ R \in Nat /\ R <= W /\ W <= R + Slots
  BY PositionsType DEF RingInv, IndicesMatchSlots
<1>1. ASSUME NEW k \in 1..(W - R)
      PROVE  /\ R + k - 1 \in Live /\ R + k - 1 \in Nat
             /\ id[(R + k - 1) % Slots] \in 0..MaxMsgs
  <2>1. R + k - 1 \in Live /\ R + k - 1 \in Nat
    BY <1>0 DEF Live
  <2>2. (R + k - 1) % Slots \in Slot
    BY <2>1, SlotOfIndex
  <2> QED BY <2>1, <2>2 DEF TypeOK
<1>2. W - R \in Nat
  BY <1>0
<1>3. Queue \in [1..(W - R) -> 0..MaxMsgs]
  BY <1>1 DEF Queue
<1>4. Queue \in Seq(0..MaxMsgs)
  BY <1>2, <1>3, SeqDef
<1>5. Len(Queue) = W - R
  BY <1>2, <1>3, <1>4, LenProperties
<1> QED BY <1>1, <1>4, <1>5 DEF Queue, MsgAt

\* A step that moves no position and no queued word leaves the queue alone.
LEMMA QueueStutter ==
  ASSUME TypeOK, RingInv, W' = W, R' = R,
         \A i \in Live : id'[i % Slots] = id[i % Slots]
  PROVE  Queue' = Queue
<1>1. \A k \in 1..(W - R) : R + k - 1 \in Live
  BY QueueType
<1> QED BY <1>1 DEF Queue

LEMMA CommitStep ==
  ASSUME TypeOK, RingInv, Handshake, [Next]_vars, Discipline = Disciplines,
         FlipFilled
  PROVE  sent \in 1..MaxMsgs /\ Fifo!Commit(sent)
<1>0. W \in Nat /\ R \in Nat /\ R <= W /\ W <= R + Slots
  BY PositionsType DEF RingInv, IndicesMatchSlots
<1>1. W = widx /\ state[WSlot] = "EMPTY" /\ W < R + Slots
  <2>1. W = widx /\ state[WSlot] = "EMPTY"
    BY DEF FlipFilled, W, RingInv, Handshake
  <2> QED BY <2>1, WriterSlotFree
<1>2. W' = W + 1 /\ R' = R /\ id' = id /\ id[W % Slots] = sent
  BY PositionsStep, <1>1 DEF FlipFilled, RingInv, Ordered, WSlot
<1>3. Len(Queue) < Slots
  BY <1>0, <1>1, QueueType, RingAssumption
<1>4. Queue' = Append(Queue, sent)
  <2>1. Queue' = [k \in 1..(W - R + 1) |-> id[(R + k - 1) % Slots]]
    BY <1>0, <1>2 DEF Queue
  <2>2. ASSUME NEW k \in 1..(W - R + 1)
        PROVE  id[(R + k - 1) % Slots] = Append(Queue, sent)[k]
    <3>1. CASE k = W - R + 1
      <4>1. R + k - 1 = W BY <3>1, <1>0
      <4> QED BY <4>1, <3>1, <1>2, QueueType
    <3>2. CASE k # W - R + 1
      <4>1. k \in 1..(W - R) BY <3>2, <1>0
      <4> QED BY <4>1, QueueType DEF MsgAt
    <3> QED BY <3>1, <3>2
  <2>3. sent \in 0..MaxMsgs
    BY DEF TypeOK
  <2>4. /\ Append(Queue, sent) \in Seq(0..MaxMsgs)
        /\ Len(Append(Queue, sent)) = W - R + 1
    BY <2>3, QueueType, AppendProperties
  <2>5. Append(Queue, sent) = [k \in 1..(W - R + 1) |-> Append(Queue, sent)[k]]
    BY <2>4, LenProperties
  <2> QED BY <2>1, <2>2, <2>5
<1>5. sent \in 1..MaxMsgs /\ out < sent /\ Hand < sent
  BY DEF FlipFilled, RingInv, Ordered, Packing, Hand, TypeOK
<1>6. \A k \in DOMAIN Queue : Queue[k] < sent
  <2>1. DOMAIN Queue = 1..(W - R) BY DEF Queue
  <2> QED BY <2>1, QueueType DEF FlipFilled, RingInv, Ordered, Packing
<1>7. Hand' = Hand /\ out' = out
  BY DEF FlipFilled, Hand, InHand, reader
<1> QED BY <1>3, <1>4, <1>5, <1>6, <1>7 DEF Fifo!Commit, Fifo!Newer

LEMMA TakeStep ==
  ASSUME TypeOK, RingInv, Handshake, [Next]_vars, Discipline = Disciplines,
         FlipEmpty
  PROVE  Fifo!Take
<1>0. W \in Nat /\ R \in Nat /\ R <= W /\ W <= R + Slots
  BY PositionsType DEF RingInv, IndicesMatchSlots
<1>1. R = ridx /\ state[RSlot] = "FILLED"
  BY DEF FlipEmpty, R, RingInv, Handshake
<1>2. R < W
  <2>1. R \in R..(R + Slots - 1) BY <1>0, RingAssumption
  <2> QED BY <2>1, <1>0, <1>1 DEF RingInv, IndicesMatchSlots, RSlot
<1>3. W' = W /\ R' = R + 1 /\ id' = id
  BY PositionsStep DEF FlipEmpty
<1>4. Len(Queue) = W - R /\ Len(Queue) # 0 /\ Queue # <<>>
  BY <1>0, <1>2, QueueType
<1>5. Head(Queue) = rId
  <2>1. 1 \in 1..(W - R) /\ R + 1 - 1 = R BY <1>0, <1>2
  <2> QED BY <2>1, <1>1, <1>4, QueueType
          DEF MsgAt, FlipEmpty, RingInv, Ordered, RSlot
<1>6. Queue' = Tail(Queue)
  <2>1. Queue' = [k \in 1..(W - (R + 1)) |-> id[((R + 1) + k - 1) % Slots]]
    BY <1>3 DEF Queue
  <2>2. Tail(Queue) = [k \in 1..(Len(Queue) - 1) |-> Queue[k + 1]]
    <3>1. /\ Tail(Queue) \in Seq(0..MaxMsgs)
          /\ Len(Tail(Queue)) = Len(Queue) - 1
          /\ \A k \in 1..Len(Tail(Queue)) : Tail(Queue)[k] = Queue[k + 1]
      BY <1>4, QueueType, HeadTailProperties
    <3> QED BY <3>1, LenProperties
  <2>3. ASSUME NEW k \in 1..(W - (R + 1))
        PROVE  id[((R + 1) + k - 1) % Slots] = Queue[k + 1]
    <3>1. k + 1 \in 1..(W - R) /\ R + (k + 1) - 1 = (R + 1) + k - 1
      BY <1>0
    <3> QED BY <3>1, QueueType DEF MsgAt
  <2>4. W - (R + 1) = Len(Queue) - 1
    BY <1>0, <1>4
  <2> QED BY <2>1, <2>2, <2>3, <2>4
<1>7. Hand = 0 /\ Hand' = rId /\ out' = out
  BY DEF FlipEmpty, Hand, InHand
<1> QED BY <1>4, <1>5, <1>6, <1>7 DEF Fifo!Take

\* The ring is the lossy FIFO channel: one flip commits or takes a message, a
\* reader's crash loses the one in its hand, all other steps are invisible.
THEOREM RingImplementsFifo ==
  ASSUME Discipline = Disciplines
  PROVE  Spec => FifoSpec
<1>1. TypeOK /\ Handshake /\ RingInv /\ [Next]_vars => RingInv'
  BY RingInvStep
<1>2. Init => Fifo!Init
  <2> SUFFICES ASSUME Init PROVE Fifo!Init
    OBVIOUS
  <2>1. W = 0 /\ R = 0 BY DEF Init, W, R
  <2>2. Queue = <<>> BY <2>1 DEF Queue
  <2> QED BY <2>2 DEF Init, Fifo!Init, Hand, InHand
<1>3. TypeOK /\ Handshake /\ RingInv /\ [Next]_vars => [Fifo!Next]_(Fifo!vars)
  <2> SUFFICES ASSUME TypeOK, Handshake, RingInv, [Next]_vars
               PROVE  [Fifo!Next]_(Fifo!vars)
    OBVIOUS
  <2> USE DEF TypeOK, shared, writer, reader
  <2>0. ASSUME ~FlipFilled, ~FlipEmpty,
               \A i \in Live : id'[i % Slots] = id[i % Slots]
        PROVE  Queue' = Queue
    BY <2>0, PositionsStep, QueueStutter
  <2>1. CASE Claim
    BY <2>1, <2>0 DEF Claim, FlipFilled, FlipEmpty, Fifo!vars, Hand, InHand
  <2>2. CASE PackId
    <3>1. \A i \in Live : i % Slots # WSlot
      <4>1. W = widx /\ state[WSlot] = "EMPTY"
        BY <2>2 DEF PackId, W, RingInv, Handshake
      <4> QED BY <4>1, WriterSlotFree
    <3> QED
      BY <2>2, <3>1, <2>0 DEF PackId, FlipFilled, FlipEmpty, Fifo!vars, Hand, InHand
  <2>3. CASE PackBody
    BY <2>3, <2>0 DEF PackBody, FlipFilled, FlipEmpty, Fifo!vars, Hand, InHand
  <2>4. CASE FlipFilled
    BY <2>4, CommitStep DEF Fifo!Next
  <2>5. CASE BumpWriter
    BY <2>5, <2>0 DEF BumpWriter, FlipFilled, FlipEmpty, Fifo!vars, Hand, InHand
  <2>6. CASE CrashWriter
    BY <2>6, <2>0 DEF CrashWriter, FlipFilled, FlipEmpty, Fifo!vars, Hand, InHand
  <2>7. CASE RestartWriter
    BY <2>7, <2>0 DEF RestartWriter, FlipFilled, FlipEmpty, Fifo!vars, Hand, InHand
  <2>8. CASE See
    BY <2>8, <2>0 DEF See, FlipFilled, FlipEmpty, Fifo!vars, Hand, InHand
  <2>9. CASE UnpackId
    BY <2>9, <2>0 DEF UnpackId, FlipFilled, FlipEmpty, Fifo!vars, Hand, InHand
  <2>10. CASE UnpackBody
    BY <2>10, <2>0 DEF UnpackBody, FlipFilled, FlipEmpty, Fifo!vars, Hand, InHand
  <2>11. CASE FlipEmpty
    BY <2>11, TakeStep DEF Fifo!Next
  <2>12. CASE BumpReader
    BY <2>12, <2>0 DEF BumpReader, FlipFilled, FlipEmpty, Fifo!vars, Hand, InHand
  <2>13. CASE Return
    <3>1. Queue' = Queue BY <2>13, <2>0 DEF Return, FlipFilled, FlipEmpty
    <3>2. Hand = rId /\ rId # 0 /\ Hand' = 0
      BY <2>13 DEF Return, Hand, InHand, RingInv, Ordered
    <3> QED BY <2>13, <3>1, <3>2 DEF Return, Fifo!Next, Fifo!Return
  <2>14. CASE CrashReader
    <3>1. Queue' = Queue /\ Hand' = 0 /\ out' = out
      BY <2>14, <2>0 DEF CrashReader, FlipFilled, FlipEmpty, Hand, InHand
    <3> QED BY <3>1 DEF Fifo!Next, Fifo!LoseHand, Fifo!vars
  <2>15. CASE RestartReader
    BY <2>15, <2>0 DEF RestartReader, FlipFilled, FlipEmpty, Fifo!vars, Hand, InHand
  <2>16. CASE OperatorRecover
    BY <2>16, <2>0 DEF OperatorRecover, FlipFilled, FlipEmpty, Fifo!vars, Hand, InHand
  <2>17. CASE UNCHANGED vars
    BY <2>17 DEF vars, Fifo!vars, Queue, W, R, Hand, InHand
  <2> QED
    BY <2>1, <2>2, <2>3, <2>4, <2>5, <2>6, <2>7, <2>8, <2>9, <2>10, <2>11,
       <2>12, <2>13, <2>14, <2>15, <2>16, <2>17 DEF Next
<1> QED
  BY <1>1, <1>2, <1>3, RingInvInit, RingTypeCorrect, HandshakeHolds, PTL
     DEF Spec, FifoSpec, Fifo!Spec
=============================================================================
