---------------------------- MODULE InputPublish ----------------------------
(***************************************************************************)
(* The publishing side of the input service (input_thread of               *)
(* app/src/input_svc.c) over the TX double buffer: once per tick of a 1 ms *)
(* timer it composes a snapshot and publishes it when it looks changed, or *)
(* as a keep-alive when HOLD ticks passed without a change.                *)
(*                                                                         *)
(* input_thread is cooperative: a tick is one step against every thread    *)
(* but link_thread, which can only run inside it where the code sleeps (in *)
(* adc_read) and shares nothing with it but the adapter.  How the sampled  *)
(* values come about is the subject of other modules; here a tick samples  *)
(* anything.  The threads of equal or higher priority and a slow ADC delay *)
(* a tick: the semaphore keeps one tick, the others merge into it.         *)
(***************************************************************************)
EXTENDS Integers

CONSTANTS
  Buttons,      \* values of the button word
  Axes,         \* values of an axis byte
  Encs,         \* values of the encoder byte
  AllOnes,      \* UINT32_MAX, no value of the 24-bit button word
  AxisSig,      \* the one-byte signature of axis_x, axis_y and encoder
  HOLD,         \* ticks between keep-alives
  LATE,         \* most ms a tick waits for the input thread
  Idents, STALE_MS, CounterMod, NoFrame

Zero == [buttons |-> 0, x |-> 0, y |-> 0, enc |-> 0]
Snapshots == [buttons : Buttons, x : Axes, y : Axes, enc : Encs]
sig(in) == AxisSig[<<in.x, in.y, in.enc>>]

\* What is assumed of the constants; the last line keeps a live input thread
\* clear of the stale rule.
Assumptions ==
  /\ Zero \in Snapshots
  /\ AllOnes \notin Buttons
  /\ {HOLD, CounterMod} \subseteq Nat \ {0}
  /\ {LATE, STALE_MS} \subseteq Nat
  /\ HOLD * (1 + LATE) <= STALE_MS

VARIABLES
  buf, armed, fresh, stale_cleared, silence, stale_clear, current_id, wire,
  ticking,        \* input_svc_init has started tick_timer
  tick_sem,       \* the semaphore of the tick, 0 or 1
  late,           \* ms since tick_sem was given
  prev_buttons,   \* of the last snapshot published as changed
  prev_axis_sig,
  hold,           \* ticks without a change since the last keep-alive
  \* History
  sampled,        \* what the last tick sampled
  lag             \* ticks since the adapter held the axes just sampled

Tx == INSTANCE TxBuffer WITH Inputs <- Snapshots, Neutral <- Zero

tx_vars == <<buf, armed, fresh, stale_cleared, silence, stale_clear,
             current_id, wire>>
thread_vars == <<prev_buttons, prev_axis_sig, hold>>
tick_vars == <<ticking, tick_sem, late>>
history == <<sampled, lag>>
vars == <<tx_vars, thread_vars, tick_vars, history>>

TypeOK ==
  /\ Tx!TypeOK
  /\ ticking \in BOOLEAN
  /\ tick_sem \in 0..1
  /\ late \in 0..LATE
  /\ prev_buttons \in Buttons \cup {AllOnes}
  /\ prev_axis_sig \in {sig(in) : in \in Snapshots} \cup {0}
  /\ hold \in 0..(HOLD - 1)
  /\ sampled \in Snapshots
  /\ lag \in 0..HOLD

Init ==
  /\ Tx!Init
  /\ ticking = FALSE
  /\ tick_sem = 0
  /\ late = 0
  /\ prev_buttons = AllOnes
  /\ prev_axis_sig = 0
  /\ hold = 0
  /\ sampled = Zero
  /\ lag = 0

\* The newest snapshot the adapter holds: the one the base gets next.
latest == buf[IF fresh THEN Tx!staging ELSE armed].in

-----------------------------------------------------------------------------
(* input_thread *)

\* Mutant: only the signature of the axes and the encoder decides.
changed_ignores_buttons(in) == sig(in) # prev_axis_sig \/ in.enc # 0

changed(in) ==
  \/ in.buttons # prev_buttons
  \/ sig(in) # prev_axis_sig
  \/ in.enc # 0

publish_changed(in) ==
  /\ changed(in)
  /\ Tx!snapshot_publish(in)
  /\ prev_buttons' = in.buttons
  /\ prev_axis_sig' = sig(in)
  /\ UNCHANGED hold

\* Mutant: the keep-alive comes one tick late.
keep_alive_late(in) ==
  /\ ~changed(in)
  /\ IF hold >= HOLD
       THEN Tx!snapshot_publish(in) /\ hold' = 0
       ELSE UNCHANGED tx_vars /\ hold' = hold + 1
  /\ UNCHANGED <<prev_buttons, prev_axis_sig>>

keep_alive(in) ==
  /\ ~changed(in)
  /\ IF hold + 1 >= HOLD
       THEN Tx!snapshot_publish(in) /\ hold' = 0
       ELSE UNCHANGED tx_vars /\ hold' = hold + 1
  /\ UNCHANGED <<prev_buttons, prev_axis_sig>>

\* One pass of the loop, with the snapshot it composes.
tick(in) ==
  /\ tick_sem = 1
  /\ tick_sem' = 0
  /\ late' = 0
  /\ publish_changed(in) \/ keep_alive(in)
  /\ sampled' = in
  /\ lag' = IF <<latest'.x, latest'.y>> = <<in.x, in.y>> THEN 0 ELSE lag + 1
  /\ UNCHANGED ticking

-----------------------------------------------------------------------------
(* The rest of the system *)

input_svc_init ==
  /\ ~ticking
  /\ ticking' = TRUE
  /\ UNCHANGED <<tx_vars, thread_vars, tick_sem, late, history>>

\* One millisecond: the timer gives the semaphore; a tick that waits is
\* served before it is LATE ms old.
elapse ==
  /\ tick_sem = 1 => late < LATE
  /\ Tx!elapse
  /\ tick_sem' = IF ticking THEN 1 ELSE 0
  /\ late' = IF tick_sem = 1 THEN late + 1 ELSE 0
  /\ UNCHANGED <<ticking, thread_vars, history>>

\* The link thread re-arms.
acquire ==
  /\ Tx!tx_acquire
  /\ UNCHANGED <<thread_vars, tick_vars, history>>

Next ==
  \/ input_svc_init
  \/ \E in \in Snapshots : tick(in)
  \/ elapse
  \/ acquire

Spec == Init /\ [][Next]_vars

-----------------------------------------------------------------------------
(* Properties *)

\* The first tick of the thread has published.
Published == prev_buttons # AllOnes

\* A live input thread never runs into the stale rule: from its first tick on
\* the adapter is never without a snapshot for more than STALE_MS, although
\* the code counts served ticks and not time, and merges the ticks it misses.
NeverStale == Published => silence <= STALE_MS

\* After every tick the newest snapshot the adapter holds has the buttons
\* that tick sampled: no press or release waits for the keep-alive, and none
\* is undone by the stale rule behind the back of prev_buttons.  Axes whose
\* change the signature hides (input_svc.c:419) follow within HOLD ticks.
AdapterFollows ==
  /\ Published => latest.buttons = sampled.buttons
  /\ lag < HOLD

\* The publish is "change-driven with a 20 ms keep-alive republish"
\* (steering_wheel_sw_spec.md:104): after every tick the newest snapshot has
\* the axes that tick sampled.
AxesChangeDriven ==
  Published => <<latest.x, latest.y>> = <<sampled.x, sampled.y>>
=============================================================================
