-------------------------- MODULE TxBuffer_proofs --------------------------
(***************************************************************************)
(* Proofs about TxBuffer, for every set of snapshots and identities and    *)
(* every stale limit.  Inv is the inductive invariant the other theorems   *)
(* rest on: the type invariant, ClearedIsNeutral and WireIsArmed, which    *)
(* together are preserved by every operation.                              *)
(***************************************************************************)
EXTENDS TxBuffer, TLAPS

Inv == TypeOK /\ ClearedIsNeutral /\ WireIsArmed

\* A publish writes the staging buffer only: the armed frame, and with it the
\* frame on the wire, stays what it was (rimlink_snapshot_publish).
LEMMA PublishSparesArmed ==
  ASSUME TypeOK, NEW in \in Inputs, snapshot_publish(in)
  PROVE  /\ buf' \in [0..1 -> Frame]
         /\ buf'[armed] = buf[armed]
         /\ buf'[staging] = [id |-> current_id, in |-> in]
  BY DEF TypeOK, snapshot_publish, staging, Frame, frame_build

\* An acquire returns a frame in the armed buffer: the staged one after a
\* swap, a neutral one after a silence, else the one already there
\* (rimlink_tx_acquire).
LEMMA AcquireCases ==
  ASSUME TypeOK, tx_acquire
  PROVE  \/ fresh /\ buf' = buf /\ armed' = staging
         \/ /\ ~fresh /\ silence > STALE_MS /\ armed' = armed
            /\ buf' = [buf EXCEPT ![armed] = [id |-> current_id, in |-> Neutral]]
         \/ /\ ~fresh /\ buf' = buf /\ armed' = armed
            /\ stale_cleared \/ silence <= STALE_MS
  BY DEF TypeOK, tx_acquire, swap_staging, clear_stale, repeat_frame, frame_build

-----------------------------------------------------------------------------
\* Every variable keeps its type.
THEOREM TypeCorrect == Spec => []TypeOK
<1>1. Init => TypeOK
  <2> SUFFICES ASSUME Init
               PROVE  TypeOK
    OBVIOUS
  <2>1. buf \in [0..1 -> Frame]
    BY NeutralAssumption DEF Init, Frame, frame_build
  <2>2. silence \in 0..(STALE_MS + 1) /\ stale_clear \in 0..(CounterMod - 1)
    BY StaleAssumption, CounterAssumption DEF Init
  <2>3. fresh \in BOOLEAN /\ stale_cleared \in BOOLEAN
    BY DEF Init
  <2> QED
    BY <2>1, <2>2, <2>3 DEF Init, TypeOK, NoBuffer
<1>2. TypeOK /\ [Next]_vars => TypeOK'
  <2> SUFFICES ASSUME TypeOK, [Next]_vars
               PROVE  TypeOK'
    OBVIOUS
  <2>1. ASSUME NEW in \in Inputs, snapshot_publish(in)
        PROVE  TypeOK'
    <3>1. buf' \in [0..1 -> Frame]
      BY <2>1, PublishSparesArmed
    <3>2. silence' \in 0..(STALE_MS + 1)
      BY <2>1, StaleAssumption DEF snapshot_publish
    <3> QED
      BY <2>1, <3>1, <3>2 DEF snapshot_publish, TypeOK
  <2>2. CASE tx_acquire
    <3>1. CASE swap_staging
      <4>1. armed' \in 0..1
        BY <3>1 DEF swap_staging, staging, TypeOK
      <4>2. wire' \in {NoBuffer, 0, 1}
        BY <2>2, <4>1 DEF tx_acquire
      <4> QED
        BY <2>2, <3>1, <4>1, <4>2 DEF tx_acquire, swap_staging, TypeOK
    <3>2. CASE clear_stale
      <4>1. buf' \in [0..1 -> Frame]
        BY <3>2, NeutralAssumption DEF clear_stale, frame_build, Frame, TypeOK
      <4>2. stale_clear' \in 0..(CounterMod - 1)
        BY <3>2, CounterAssumption DEF clear_stale, TypeOK
      <4> QED
        BY <2>2, <3>2, <4>1, <4>2 DEF tx_acquire, clear_stale, TypeOK
    <3>3. CASE repeat_frame
      BY <2>2, <3>3 DEF tx_acquire, repeat_frame, TypeOK
    <3> QED
      BY <2>2, <3>1, <3>2, <3>3 DEF tx_acquire
  <2>3. ASSUME NEW id \in Idents, identity_set(id)
        PROVE  TypeOK'
    BY <2>3 DEF identity_set, TypeOK
  <2>4. CASE elapse
    BY <2>4, StaleAssumption DEF elapse, TypeOK
  <2>5. CASE stats_reset
    <3>1. stale_clear' \in 0..(CounterMod - 1)
      BY <2>5, CounterAssumption DEF stats_reset
    <3> QED
      BY <2>5, <3>1 DEF stats_reset, TypeOK
  <2>6. CASE UNCHANGED vars
    BY <2>6 DEF vars, TypeOK
  <2> QED
    BY <2>1, <2>2, <2>3, <2>4, <2>5, <2>6 DEF Next
<1> QED
  BY <1>1, <1>2, PTL DEF Spec

\* The frame on the wire is the armed one, and it is neutral from the moment
\* the stale rule fires to the next publish.
THEOREM Invariant == Spec => []Inv
<1>1. Init => ClearedIsNeutral /\ WireIsArmed
  BY DEF Init, ClearedIsNeutral, WireIsArmed
<1>2. TypeOK /\ ClearedIsNeutral /\ WireIsArmed /\ [Next]_vars
        => ClearedIsNeutral' /\ WireIsArmed'
  <2> SUFFICES ASSUME TypeOK, ClearedIsNeutral, WireIsArmed, [Next]_vars
               PROVE  ClearedIsNeutral' /\ WireIsArmed'
    OBVIOUS
  <2>1. ASSUME NEW in \in Inputs, snapshot_publish(in)
        PROVE  ClearedIsNeutral' /\ WireIsArmed'
    BY <2>1 DEF snapshot_publish, ClearedIsNeutral, WireIsArmed
  <2>2. CASE tx_acquire
    <3>1. WireIsArmed'
      BY <2>2 DEF tx_acquire, WireIsArmed
    <3>2. ClearedIsNeutral'
      <4>1. CASE swap_staging
        BY <4>1 DEF swap_staging, ClearedIsNeutral
      <4>2. CASE clear_stale
        <5>1. buf'[armed].in = Neutral
          BY <4>2 DEF clear_stale, frame_build, TypeOK
        <5> QED
          BY <4>2, <5>1 DEF clear_stale, ClearedIsNeutral
      <4>3. CASE repeat_frame
        BY <4>3 DEF repeat_frame, ClearedIsNeutral
      <4> QED
        BY <2>2, <4>1, <4>2, <4>3 DEF tx_acquire
    <3> QED
      BY <3>1, <3>2
  <2>3. ASSUME NEW id \in Idents, identity_set(id)
        PROVE  ClearedIsNeutral' /\ WireIsArmed'
    BY <2>3 DEF identity_set, ClearedIsNeutral, WireIsArmed
  <2>4. CASE elapse
    BY <2>4 DEF elapse, ClearedIsNeutral, WireIsArmed
  <2>5. CASE stats_reset
    BY <2>5 DEF stats_reset, ClearedIsNeutral, WireIsArmed
  <2>6. CASE UNCHANGED vars
    BY <2>6 DEF vars, ClearedIsNeutral, WireIsArmed
  <2> QED
    BY <2>1, <2>2, <2>3, <2>4, <2>5, <2>6 DEF Next
<1> QED
  BY <1>1, <1>2, TypeCorrect, PTL DEF Spec, Inv

\* Once the stale rule has fired nothing is pending and the armed frame is
\* neutral, until the next publish.
THEOREM ClearedStaysNeutral == Spec => []ClearedIsNeutral
BY Invariant, PTL DEF Inv

-----------------------------------------------------------------------------
\* The frame the SPI peripheral reads changes at re-arm points only.
THEOREM ArmedFrameIsImmutable == Spec => ArmedFrameImmutable
<1>1. Inv /\ [Next]_vars
        => [wire # NoBuffer /\ buf'[wire] # buf[wire] => tx_acquire]_vars
  <2> SUFFICES ASSUME Inv, Next, wire # NoBuffer, ~tx_acquire
               PROVE  buf'[wire] = buf[wire]
    BY DEF Inv
  <2>1. wire = armed /\ TypeOK
    BY DEF Inv, WireIsArmed
  <2>2. ASSUME NEW in \in Inputs, snapshot_publish(in)
        PROVE  buf'[wire] = buf[wire]
    BY <2>1, <2>2, PublishSparesArmed
  <2> QED
    BY <2>2 DEF Next, identity_set, stats_reset, elapse
<1> QED
  BY <1>1, Invariant, PTL DEF Spec, ArmedFrameImmutable

\* No snapshot is repeated once it is older than STALE_MS.
THEOREM StaleIsNotRepeated == Spec => StaleNotRepeated
<1>1. Inv /\ [Next]_vars
        => [tx_acquire /\ ~fresh /\ silence > STALE_MS
              => buf'[wire'].in = Neutral]_vars
  <2> SUFFICES ASSUME Inv, tx_acquire, ~fresh, silence > STALE_MS
               PROVE  buf'[wire'].in = Neutral
    OBVIOUS
  <2>1. wire' = armed' /\ TypeOK /\ ClearedIsNeutral
    BY DEF tx_acquire, Inv
  <2>2. silence \in Int /\ STALE_MS \in Int
    BY <2>1, StaleAssumption DEF TypeOK
  <2> QED
    BY <2>1, <2>2, AcquireCases DEF ClearedIsNeutral, TypeOK
<1> QED
  BY <1>1, Invariant, PTL DEF Spec, StaleNotRepeated

-----------------------------------------------------------------------------
\* The double buffer implements the register: every step of TxBuffer is a
\* step of SnapshotRegister or changes nothing the register shows.
THEOREM ImplementsRegister == Spec => LatestDelivered
<1>1. Init => Register!Init
  BY NeutralAssumption, StaleAssumption
  DEF Init, Register!Init, Register!Frame, frame_build, staging
<1>2. Inv /\ [Next]_vars => [Register!Next]_Register!vars
  <2> SUFFICES ASSUME Inv, [Next]_vars
               PROVE  [Register!Next]_Register!vars
    OBVIOUS
  <2> USE StaleAssumption DEF staging
  <2>0. TypeOK /\ ClearedIsNeutral /\ WireIsArmed
    BY DEF Inv
  <2>1. ASSUME NEW in \in Inputs, snapshot_publish(in)
        PROVE  Register!Write
    <3>1. /\ buf'[armed] = buf[armed]
          /\ buf'[staging] = [id |-> current_id, in |-> in]
      BY <2>0, <2>1, PublishSparesArmed
    <3>2. fresh' = TRUE /\ silence' = 0 /\ armed' = armed /\ wire' = wire
      BY <2>1 DEF snapshot_publish
    <3>3. (buf[IF fresh THEN staging ELSE armed])' \in Register!Frame
      BY <2>0, <3>1, <3>2 DEF TypeOK, Register!Frame
    <3>4. UNCHANGED (IF wire = NoBuffer THEN NoFrame ELSE buf[wire])
      BY <2>0, <3>1, <3>2 DEF WireIsArmed
    <3> QED
      BY <3>2, <3>3, <3>4 DEF Register!Write
  <2>2. CASE tx_acquire
    <3> SUFFICES Register!Read \/ Register!ReadCleared
      BY DEF Register!Next
    <3>1. wire' = armed' /\ silence' = silence /\ fresh' = FALSE /\ armed' \in 0..1
      BY <2>0, <2>2 DEF tx_acquire, swap_staging, clear_stale, repeat_frame, TypeOK
    <3>2. wire' # NoBuffer
      BY <3>1 DEF NoBuffer
    <3>3. (IF wire = NoBuffer THEN NoFrame ELSE buf[wire])' = buf'[armed']
      BY <3>1, <3>2 DEF NoBuffer
    <3>4. (buf[IF fresh THEN staging ELSE armed])' = buf'[armed']
      BY <3>1
    <3>5. UNCHANGED (silence > STALE_MS)
      BY <3>1
    <3>6. CASE fresh /\ buf' = buf /\ armed' = staging
      <4>1. buf'[armed'] = buf[IF fresh THEN staging ELSE armed]
        BY <3>6
      <4> QED
        BY <3>1, <3>3, <3>4, <3>5, <3>6, <4>1 DEF Register!Read
    <3>7. CASE /\ ~fresh /\ silence > STALE_MS /\ armed' = armed
               /\ buf' = [buf EXCEPT ![armed] =
                                        [id |-> current_id, in |-> Neutral]]
      <4>1. buf'[armed'] = [id |-> current_id, in |-> Neutral]
        BY <2>0, <3>7 DEF TypeOK
      <4>2. buf'[armed'] \in Register!Frame /\ buf'[armed'].in = Neutral
        BY <2>0, <4>1, NeutralAssumption DEF TypeOK, Register!Frame
      <4>3. fresh = FALSE
        BY <2>0, <3>7 DEF TypeOK
      <4> QED
        BY <3>1, <3>3, <3>4, <3>5, <3>7, <4>2, <4>3 DEF Register!ReadCleared
    <3>8. CASE /\ ~fresh /\ buf' = buf /\ armed' = armed
               /\ stale_cleared \/ silence <= STALE_MS
      <4>1. silence > STALE_MS => buf[armed].in = Neutral
        BY <2>0, <3>8 DEF TypeOK, ClearedIsNeutral
      <4>2. buf'[armed'] = buf[IF fresh THEN staging ELSE armed]
        BY <3>8
      <4> QED
        BY <3>1, <3>3, <3>4, <3>5, <3>8, <4>1, <4>2 DEF Register!Read
    <3> QED
      BY <2>0, <2>2, <3>6, <3>7, <3>8, AcquireCases
  <2>3. ASSUME NEW id \in Idents, identity_set(id)
        PROVE  UNCHANGED Register!vars
    BY <2>3 DEF identity_set, Register!vars
  <2>4. CASE elapse
    <3>1. CASE silence > STALE_MS
      BY <2>4, <3>1 DEF elapse, Register!vars
    <3>2. CASE ~(silence > STALE_MS)
      BY <2>4, <3>2 DEF elapse, Register!vars, Register!Next, Register!FallSilent
    <3> QED
      BY <3>1, <3>2
  <2>5. CASE stats_reset \/ UNCHANGED vars
    BY <2>5 DEF stats_reset, vars, Register!vars
  <2> QED
    BY <2>1, <2>2, <2>3, <2>4, <2>5 DEF Next, Register!Next
<1> QED
  BY <1>1, <1>2, Invariant, PTL DEF Spec, Register!Spec, LatestDelivered
=============================================================================
