------------------------------ MODULE TxBuffer ------------------------------
(***************************************************************************)
(* The TX double buffer of the rimlink adapter (lib/rimlink/rimlink_link.c *)
(* with the identity of rimlink_frame.c).  The input service publishes     *)
(* snapshots into the staging buffer; the link thread acquires the armed   *)
(* buffer at every re-arm point and hands it to the SPI peripheral, which  *)
(* reads it for as long as the transfer lasts.  Each operation runs under  *)
(* lnk.lock and is one step.  A frame is abstracted to what it was sealed  *)
(* from: an identity and a snapshot; its CRC is module Crc8's subject.     *)
(***************************************************************************)
EXTENDS Integers

CONSTANTS
  Inputs,       \* struct rim_inputs: logical input snapshots
  Neutral,      \* the all-zero snapshot
  Idents,       \* enum rim_id
  STALE_MS,     \* RIMLINK_STALE_MS
  CounterMod,   \* modulus of the statistics counters, 2^32 in the code
  NoFrame       \* what the register holds before the first acquire

ASSUME NeutralAssumption == Neutral \in Inputs
ASSUME StaleAssumption   == STALE_MS \in Nat
ASSUME CounterAssumption == CounterMod \in Nat \ {0}

VARIABLES
  buf,            \* lnk.buf
  armed,          \* lnk.armed: index of the buffer the transfer owns
  fresh,          \* lnk.fresh: staging was sealed since the last swap
  stale_cleared,  \* lnk.stale_cleared: a neutral frame was substituted
  silence,        \* uptime - lnk.last_publish in ms, saturated at STALE_MS + 1
  stale_clear,    \* lnk.stats.stale_clear
  current_id,     \* the identity the next frame is built with
  wire            \* txb.buf of the link thread: the buffer handed to SPI

vars == <<buf, armed, fresh, stale_cleared, silence, stale_clear, current_id,
          wire>>

NoBuffer == -1    \* txb.buf before the first acquire

Frame == [id : Idents, in : Inputs]

TypeOK ==
  /\ buf \in [0..1 -> Frame]
  /\ armed \in 0..1
  /\ fresh \in BOOLEAN
  /\ stale_cleared \in BOOLEAN
  /\ silence \in 0..(STALE_MS + 1)
  /\ stale_clear \in 0..(CounterMod - 1)
  /\ current_id \in Idents
  /\ wire \in {NoBuffer, 0, 1}

-----------------------------------------------------------------------------
(* Operations *)

\* A sealed frame carries the snapshot and the identity of the moment it is
\* built, which a later change of identity does not touch.
frame_build(in) == [id |-> current_id, in |-> in]

staging == 1 - armed

\* The adapter starts with the identity frame sealed in both buffers.
Init ==
  /\ current_id \in Idents
  /\ buf = [b \in 0..1 |-> frame_build(Neutral)]
  /\ armed = 0
  /\ fresh = FALSE
  /\ stale_cleared = FALSE
  /\ silence = 0
  /\ stale_clear = 0
  /\ wire = NoBuffer

\* Mutant: the snapshot is built over the buffer the transfer owns.
publish_into_armed(in) ==
  /\ buf' = [buf EXCEPT ![armed] = frame_build(in)]
  /\ fresh' = TRUE
  /\ stale_cleared' = FALSE
  /\ silence' = 0
  /\ UNCHANGED <<armed, stale_clear, current_id, wire>>

\* Mutant: the mark of the previous silence survives a publish.
publish_keeps_cleared(in) ==
  /\ buf' = [buf EXCEPT ![staging] = frame_build(in)]
  /\ fresh' = TRUE
  /\ silence' = 0
  /\ UNCHANGED <<armed, stale_cleared, stale_clear, current_id, wire>>

snapshot_publish(in) ==
  /\ buf' = [buf EXCEPT ![staging] = frame_build(in)]
  /\ fresh' = TRUE
  /\ stale_cleared' = FALSE
  /\ silence' = 0
  /\ UNCHANGED <<armed, stale_clear, current_id, wire>>

\* Mutant: the freshness mark is left set, so the next acquire swaps back.
swap_keeps_fresh ==
  /\ fresh
  /\ armed' = staging
  /\ UNCHANGED <<buf, fresh, stale_cleared, stale_clear>>

swap_staging ==
  /\ fresh
  /\ armed' = staging
  /\ fresh' = FALSE
  /\ UNCHANGED <<buf, stale_cleared, stale_clear>>

\* Mutant: the neutral frame is built into the buffer that is not sent.
clear_stale_in_staging ==
  /\ ~fresh
  /\ ~stale_cleared
  /\ silence > STALE_MS
  /\ buf' = [buf EXCEPT ![staging] = frame_build(Neutral)]
  /\ stale_cleared' = TRUE
  /\ stale_clear' = (stale_clear + 1) % CounterMod
  /\ UNCHANGED <<armed, fresh>>

\* The stale-input rule: with no snapshot for more than STALE_MS, the next
\* sealed frame carries no input.
clear_stale ==
  /\ ~fresh
  /\ ~stale_cleared
  /\ silence > STALE_MS
  /\ buf' = [buf EXCEPT ![armed] = frame_build(Neutral)]
  /\ stale_cleared' = TRUE
  /\ stale_clear' = (stale_clear + 1) % CounterMod
  /\ UNCHANGED <<armed, fresh>>

repeat_frame ==
  /\ ~fresh
  /\ stale_cleared \/ silence <= STALE_MS
  /\ UNCHANGED <<buf, armed, fresh, stale_cleared, stale_clear>>

tx_acquire ==
  /\ swap_staging \/ clear_stale \/ repeat_frame
  /\ wire' = armed'
  /\ UNCHANGED <<silence, current_id>>

identity_set(id) ==
  /\ current_id' = id
  /\ UNCHANGED <<buf, armed, fresh, stale_cleared, silence, stale_clear, wire>>

\* The counters go to zero (rim reset); the rest of lnk stays.
stats_reset ==
  /\ stale_clear' = 0
  /\ UNCHANGED <<buf, armed, fresh, stale_cleared, silence, current_id, wire>>

\* One millisecond of uptime passes.
elapse ==
  /\ silence' = IF silence > STALE_MS THEN silence ELSE silence + 1
  /\ UNCHANGED <<buf, armed, fresh, stale_cleared, stale_clear, current_id, wire>>

Next ==
  \/ \E in \in Inputs : snapshot_publish(in)
  \/ tx_acquire
  \/ \E id \in Idents : identity_set(id)
  \/ stats_reset
  \/ elapse

Spec == Init /\ [][Next]_vars

-----------------------------------------------------------------------------
(* Properties *)

\* Once the stale rule has fired and until the next publish, nothing is
\* pending and the frame on the wire is neutral: the rule may then be skipped
\* by rimlink_tx_acquire (its !stale_cleared test) without a stale input
\* coming back.
ClearedIsNeutral == stale_cleared => ~fresh /\ buf[armed].in = Neutral

\* The buffer the SPI peripheral reads from is the armed one, so staging,
\* where a publish writes, is never the buffer of a running transfer.
WireIsArmed == wire \in {NoBuffer, armed}

\* A frame handed to SPI changes only at a re-arm point, whatever is
\* published, and whichever identity is chosen, while the transfer runs.
ArmedFrameImmutable ==
  [][wire # NoBuffer /\ buf'[wire] # buf[wire] => tx_acquire]_vars

\* A snapshot that has been sent is not sent again after the input side has
\* been silent for more than STALE_MS: the base never holds a pressed button
\* on the strength of repetitions alone.  (Repeating a frame the rule has
\* already cleared changes no variable: that case is ClearedIsNeutral.)
StaleNotRepeated ==
  [][tx_acquire /\ ~fresh /\ silence > STALE_MS =>
       buf'[wire'].in = Neutral]_vars

\* The rule as rimlink_link.c:24 and the specification state it: after more
\* than STALE_MS without a snapshot the next sealed frame carries no momentary
\* input.  rimlink_tx_acquire tests freshness first and does not do this for a
\* snapshot that grew old while it waited to be sent.
StaleCleared ==
  [][tx_acquire /\ silence > STALE_MS => buf'[wire'].in = Neutral]_vars

-----------------------------------------------------------------------------
(* The register the adapter implements *)

Register == INSTANCE SnapshotRegister WITH
  latest <- buf[IF fresh THEN staging ELSE armed],
  unsent <- fresh,
  silent <- silence > STALE_MS,
  sent   <- IF wire = NoBuffer THEN NoFrame ELSE buf[wire]

\* Every acquire returns the newest published snapshot, or a neutral frame in
\* its place; an older snapshot never comes back after a newer one was sent.
LatestDelivered == Register!Spec
=============================================================================
