----------------------------- MODULE MCServices -----------------------------
(***************************************************************************)
(* The services behind the link that share no state with another component *)
(* modelled here, on small constants for TLC: the capture ring, the        *)
(* settings, the health counters, the start-up, the display and its text,  *)
(* the latency statistics.  As in MCUnits, a property speaks of one        *)
(* component, so that every behaviour may exercise one of them while the   *)
(* others stay as they began.                                              *)
(***************************************************************************)
EXTENDS Integers

CONSTANTS
  DEPTH, WrMod, MaxRecords,
  Subtrees, Chord, Values, Default, Absent,
  Mod, StatsReset, MaxEvents, MaxBoots,
  WDT_MS, InitTime, CommitTime,
  DIGITS, Texts, Banner, Fastboot,
  Segments, Typed,
  LAT_RING, IdxMod, PCT, Latencies

VARIABLES
  unit,         \* the component that runs
  ring, cap_armed, frozen, freeze_on_anomaly, wr, dump_idx, dump_out, total,
  since_start, cause, dump_total,
  rs, locked, flash, flash_lock, job, next_key, save_failed, freeze, unread,
  meant, acked_keys,
  stats, last, hc, saved, commit, shell, now, sum, seen, at_boot, boots,
  overlapped, adrift,
  option, main_pc, link, service, ready, failed, queue, running, spent,
  tick_sem, unfed, early, damaged, slow,
  boot, boot_call, work_call, wired, clk, dio, message, command, bits,
  ptr, digits, on, on_wires, disturbed, dark,
  mosi_disp, prev_disp, text, text_ready, text_early,
  lat_ring, lat_idx, lat_max, copy, n, sorted, p99, max, get, steady

\* Two subtrees of two keys; the chord changes one of the mode's.
MCSubtrees == [cal  |-> <<"dpad_thr", "dpad_hyst">>,
               mode |-> <<"clutch_mode", "bite_point">>]

\* Two digits; texts that differ in each.
MCBanner == <<80, 119>>
MCTexts == {MCBanner, <<119, 6>>}

Ring == INSTANCE CaptureRing
Store == INSTANCE Settings WITH next <- next_key, failed <- save_failed, frozen <- freeze,
                              acked <- acked_keys
Counts == INSTANCE Health
Start == INSTANCE Boot
Wires == INSTANCE Tm1637 WITH text <- on_wires
Text == INSTANCE DispText WITH ready <- text_ready, early <- text_early
Lat == INSTANCE Latency

ASSUME CaptureRingAssumption == Ring!Assumptions
ASSUME SettingsAssumption == Store!Assumptions
ASSUME HealthAssumption == Counts!Assumptions
ASSUME BootAssumption == Start!Assumptions
ASSUME Tm1637Assumption == Wires!Assumptions
ASSUME DispTextAssumption == Text!Assumptions
ASSUME LatencyAssumption == Lat!Assumptions

capture_vars == <<ring, cap_armed, frozen, freeze_on_anomaly, wr, dump_idx,
                  dump_out, total, since_start, cause, dump_total>>
settings_vars == <<rs, locked, flash, flash_lock, job, next_key,
                   save_failed, freeze, unread, meant, acked_keys>>
health_vars == <<stats, last, hc, saved, commit, shell, now, sum, seen,
                 at_boot, boots, overlapped, adrift>>
boot_vars == <<option, main_pc, link, service, ready, failed, queue,
               running, spent, tick_sem, unfed, early, damaged, slow>>
display_vars == <<boot, boot_call, work_call, wired, clk, dio, message,
                  command, bits, ptr, digits, on, on_wires, disturbed,
                  dark>>
text_vars == <<mosi_disp, prev_disp, text, text_ready, text_early>>
latency_vars == <<lat_ring, lat_idx, lat_max, copy, n, sorted, p99,
                  max, get, steady>>
vars == <<unit, capture_vars, settings_vars, health_vars, boot_vars,
          display_vars, text_vars, latency_vars>>

Init ==
  /\ unit \in {"capture", "settings", "health", "boot", "display", "text",
               "latency"}
  /\ Ring!Init
  /\ Store!Init
  /\ Counts!Init
  /\ Start!Init
  /\ Wires!Init
  /\ Text!Init
  /\ Lat!Init
  \* A component that does not run has one initial state.
  /\ unit # "boot" => option.fastboot /\ option.watchdog

capture_step ==
  /\ unit = "capture"
  /\ Ring!Next
  /\ UNCHANGED <<unit, settings_vars, health_vars, boot_vars, display_vars,
                 text_vars, latency_vars>>

settings_step ==
  /\ unit = "settings"
  /\ Store!Next
  /\ UNCHANGED <<unit, capture_vars, health_vars, boot_vars, display_vars,
                 text_vars, latency_vars>>

health_step ==
  /\ unit = "health"
  /\ Counts!Next
  /\ UNCHANGED <<unit, capture_vars, settings_vars, boot_vars, display_vars,
                 text_vars, latency_vars>>

boot_step ==
  /\ unit = "boot"
  /\ Start!Next
  /\ UNCHANGED <<unit, capture_vars, settings_vars, health_vars,
                 display_vars, text_vars, latency_vars>>

display_step ==
  /\ unit = "display"
  /\ Wires!Next
  /\ UNCHANGED <<unit, capture_vars, settings_vars, health_vars, boot_vars,
                 text_vars, latency_vars>>

text_step ==
  /\ unit = "text"
  /\ Text!Next
  /\ UNCHANGED <<unit, capture_vars, settings_vars, health_vars, boot_vars,
                 display_vars, latency_vars>>

latency_step ==
  /\ unit = "latency"
  /\ Lat!Next
  /\ UNCHANGED <<unit, capture_vars, settings_vars, health_vars, boot_vars,
                 display_vars, text_vars>>

Next ==
  \/ capture_step \/ settings_step \/ health_step \/ boot_step
  \/ display_step \/ text_step \/ latency_step

Spec == Init /\ [][Next]_vars

-----------------------------------------------------------------------------
(* The properties, each stated and explained in the module of its component *)

\* A dump prints the newest entries in order (CaptureRing).
DumpIsTail == Ring!DumpIsTail

\* The frame that froze the ring is in it (CaptureRing).
PostMortem == Ring!PostMortem

\* What a save has reported stays in flash (Settings).
AckedIsDurable == Store!AckedIsDurable

\* A reported lock that the boot could read keeps what is stored (Settings).
LockFreezes == Store!LockFreezes

\* Totals and outstanding differences add up to what was counted (Health).
ExactTotals == Counts!ExactTotals

\* The totals in flash of a boot that could load them only grow (Health).
CommittedSurvives == Counts!CommittedSurvives

\* Frames behind the deferred initialisation are safe (Boot).
DeferredIsSafe == Start!DeferredIsSafe

\* The watchdog resets for a dead input path or one slow work (Boot).
ResetIsDeserved == Start!ResetIsDeserved

\* An undisturbed call shows its text, digit by digit (Tm1637).
Shows == Wires!Shows

\* The text tells the display field from every other one (DispText).
TextTells == Text!TextTells

\* The percentile is a latency that was noted (Latency).
PercentileIsReal == Lat!PercentileIsReal
-----------------------------------------------------------------------------
(* What documents say or a reader may expect and the code does not do, each *)
(* explained in the module of its component: TLC finds these violated when  *)
(* one replaces the properties of MCServices.cfg.                           *)

\* What status calls recorded since start is so (CaptureRing).
RecordedSinceStart == Ring!RecordedSinceStart

\* A reported lock keeps what is stored, also after a boot that could not read
\* it (Settings).
LockAlwaysFreezes == Store!LockAlwaysFreezes

\* The totals in flash only grow, also after a load that failed (Health).
CommittedNeverLost == Counts!CommittedNeverLost

\* Overlapping folds count nothing twice (Health).
NothingTwice == Counts!NothingTwice

\* Every power cycle is counted (Health).
PowerCyclesCounted == Counts!PowerCyclesCounted

\* No frame reaches a service before it is initialised (Boot).
InitBeforeUse == Start!InitBeforeUse

\* The watchdog resets for a dead input path only (Boot).
ResetIsDeadInput == Start!ResetIsDeadInput

\* The start-up lights the display (Tm1637).
LitAfterBoot == Wires!LitAfterBoot

\* The text is current although a frame came early (DispText).
TextIsCurrent == Text!TextIsCurrent
=============================================================================
