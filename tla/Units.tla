------------------------------- MODULE Units -------------------------------
(***************************************************************************)
(* The parts of the input side and the checksum, which share no state with *)
(* another component modelled here: the frame's checksum, the D-pad, a     *)
(* clutch channel, the dual clutch, the button word and the publishing of  *)
(* snapshots.  A property speaks of one component and no step of another   *)
(* can disturb it, so that every behaviour may as well exercise one of     *)
(* them while the others stay as they began.                               *)
(***************************************************************************)
EXTENDS Integers

CONSTANTS
  Bytes, Flips,
  DPAD_THRESHOLDS, RAW_MAX, Thresholds, Hysts, DPAD_DEFAULT_HYST,
  Raws, min, max, guard, deadzone, iir_shift, rate_limit, rail_lo, rail_hi,
  OUT_MAX, SETTLE,
  Values, THR, CHORD, Bites,
  INPUT_NUM_BUTTONS, Samples, MapBits, ManualBits,
  Buttons, Axes, Encs, AllOnes, AxisSig, HOLD, LATE, Idents, STALE_MS,
  CounterMod, NoFrame

VARIABLES
  unit,         \* the component that runs
  crc, received, hit,
  thr, hyst, cur, dpad_raw, moved, sampled, dpad_shell, dpad_thr, dpad_hyst,
  med, med_i, iir, out, diag, base, same, since,
  st_mode, st_bite, dual_mode, dual_bite, launch, master, combined,
  chord_prev, c, menu, shell, set_mode, set_bite, torn,
  btn_db, funky, dpad_prev_pos, button_map, manual_bits, buttons, before,
  last_sample,
  buf, armed, fresh, stale_cleared, silence, stale_clear, current_id, wire,
  ticking, tick_sem, late, prev_buttons, prev_axis_sig, hold, snapshot, lag

Crc == INSTANCE Crc8 WITH seen <- received
Ladder == INSTANCE Dpad WITH shell <- dpad_shell, raw <- dpad_raw
Channel == INSTANCE ClutchChannel
Dual == INSTANCE Clutch
Word == INSTANCE Buttons WITH last <- last_sample
Pub == INSTANCE InputPublish WITH sampled <- snapshot

ASSUME Crc8Assumption == Crc!Assumptions
ASSUME DpadAssumption == Ladder!Assumptions
ASSUME ClutchChannelAssumption == Channel!Assumptions
ASSUME ClutchAssumption == Dual!Assumptions
ASSUME ButtonsAssumption == Word!Assumptions
ASSUME InputPublishAssumption == Pub!Assumptions

crc_vars == <<crc, received, hit>>
dpad_vars == <<thr, hyst, cur, dpad_raw, moved, sampled, dpad_shell,
               dpad_thr, dpad_hyst>>
channel_vars == <<med, med_i, iir, out, diag, base, same, since>>
clutch_vars == <<st_mode, st_bite, dual_mode, dual_bite, launch, master,
                 combined, chord_prev, c, menu, shell, set_mode, set_bite,
                 torn>>
button_vars == <<btn_db, funky, dpad_prev_pos, button_map, manual_bits,
                 buttons, before, last_sample>>
publish_vars == <<buf, armed, fresh, stale_cleared, silence, stale_clear,
                  current_id, wire, ticking, tick_sem, late, prev_buttons,
                  prev_axis_sig, hold, snapshot, lag>>
vars == <<unit, crc_vars, dpad_vars, channel_vars, clutch_vars, button_vars,
          publish_vars>>

Init ==
  /\ unit \in {"crc", "dpad", "channel", "clutch", "button", "publish"}
  /\ Crc!Init
  /\ Ladder!Init
  /\ Channel!Init
  /\ Dual!Init
  /\ Word!Init
  /\ Pub!Init
  \* A component that does not run has one initial state.
  /\ unit # "dpad" =>
       /\ dpad_thr = CHOOSE t \in Thresholds : Ladder!Descending(t)
       /\ dpad_hyst = CHOOSE h \in Hysts : TRUE
  /\ unit # "clutch" => st_mode = 0 /\ st_bite = CHOOSE b \in Bites : TRUE
  /\ unit # "button" =>
       button_map = CHOOSE m \in [Word!Btns -> MapBits] :
                      \A i, j \in Word!Btns : m[i] = m[j] => i = j

crc_step ==
  /\ unit = "crc"
  /\ Crc!Next
  /\ UNCHANGED <<unit, dpad_vars, channel_vars, clutch_vars, button_vars,
                 publish_vars>>

dpad_step ==
  /\ unit = "dpad"
  /\ Ladder!Next
  /\ UNCHANGED <<unit, crc_vars, channel_vars, clutch_vars, button_vars,
                 publish_vars>>

channel_step ==
  /\ unit = "channel"
  /\ Channel!Next
  /\ UNCHANGED <<unit, crc_vars, dpad_vars, clutch_vars, button_vars,
                 publish_vars>>

clutch_step ==
  /\ unit = "clutch"
  /\ Dual!Next
  /\ UNCHANGED <<unit, crc_vars, dpad_vars, channel_vars, button_vars,
                 publish_vars>>

button_step ==
  /\ unit = "button"
  /\ Word!Next
  /\ UNCHANGED <<unit, crc_vars, dpad_vars, channel_vars, clutch_vars,
                 publish_vars>>

publish_step ==
  /\ unit = "publish"
  /\ Pub!Next
  /\ UNCHANGED <<unit, crc_vars, dpad_vars, channel_vars, clutch_vars,
                 button_vars>>

Next ==
  \/ crc_step \/ dpad_step \/ channel_step \/ clutch_step
  \/ button_step \/ publish_step

Spec == Init /\ [][Next]_vars

-----------------------------------------------------------------------------
(* The properties, each stated and explained in the module of its component *)

\* Sound frames are accepted, frames altered in one byte rejected (Crc8).
AcceptsExactly == Crc!AcceptsExactly

\* A sample clear of every band is decoded at once (Dpad).
ClearIsDecoded == Ladder!ClearIsDecoded

\* Noise within the band changes no position (Dpad).
NoChatter == Ladder!NoChatter

\* A paddle at its end arrives at the end of the range (ClutchChannel).
EndsReached == Channel!EndsReached

\* Lone spikes do not reach the output (ClutchChannel).
SpikesIgnored == Channel!SpikesIgnored

\* The settings and the state machine agree on mode and bite point (Clutch).
ModeAgrees == Dual!ModeAgrees

\* What is held over two scans is in the button word (Buttons).
HeldIsReported == Word!HeldIsReported

\* Every bit of the button word has an input behind it (Buttons).
NoPhantom == Word!NoPhantom

\* A live input thread keeps clear of the stale rule (InputPublish).
NeverStale == Pub!NeverStale

\* The adapter has the buttons of the last tick, and its axes soon after
\* (InputPublish).
AdapterFollows == Pub!AdapterFollows
-----------------------------------------------------------------------------
(* What documents say or a reader may expect and the code does not do, each *)
(* explained in the module of its component: TLC finds these violated when  *)
(* one replaces the properties of MCUnits.cfg.                             *)

\* A decoded position keeps its band (Dpad).
BandKeepsPosition == Ladder!BandKeepsPosition

\* The settings and the state machine always agree (Clutch).
ModeAlwaysAgrees == Dual!ModeAlwaysAgrees

\* The bite point is held until the second paddle releases (Clutch).
BitePointHeld == Dual!BitePointHeld

\* A bit that two inputs share is reported for either (Buttons).
SharedBitReported == Word!SharedBitReported

\* A released direction is silent at once (Buttons).
ReleasedIsSilent == Word!ReleasedIsSilent

\* The adapter has the axes of the last tick (InputPublish).
AxesChangeDriven == Pub!AxesChangeDriven
=============================================================================
