------------------------------ MODULE Outputs ------------------------------
(***************************************************************************)
(* What the rim shows of the base's frames (app/src/output_svc.c,          *)
(* led_svc.c, power_mgr.c): the RX callback, the LED renderer with its     *)
(* rate limit, the quiet timer, the output rail and the TM1637 display.    *)
(*                                                                         *)
(* Everything runs on the system workqueue.  A delayable work item is a    *)
(* timer that puts the item into the queue when it expires; rescheduling   *)
(* an item restarts its timer and does not take it out of the queue.       *)
(* Handlers take no time here, except that other items (a settings commit, *)
(* the bit-banged display) may occupy the workqueue for up to STALL ms.    *)
(***************************************************************************)
EXTENDS Integers, Sequences, SequencesExt

CONSTANTS
  Leds,                   \* values of the leds field, 0 all dark
  Disps,                  \* values of the disp field, 0 all blank
  PWR_STALE_MS, LED_QUIET_MS, LED_MIN_PERIOD_MS, OUTPUT_MIN_REFRESH_MS,
  STALL,                  \* longest time other items occupy the workqueue
  RXQ                     \* bound on frames waiting for the workqueue

ASSUME DarkAssumption == 0 \in Leds /\ Leds \subseteq Nat
ASSUME BlankAssumption == 0 \in Disps /\ Disps \subseteq Nat
ASSUME TimesAssumption ==
  /\ {PWR_STALE_MS, LED_QUIET_MS, LED_MIN_PERIOD_MS, OUTPUT_MIN_REFRESH_MS}
       \subseteq Nat \ {0}
  /\ LED_MIN_PERIOD_MS < LED_QUIET_MS
  /\ STALL \in Nat

Items == {"rx", "render", "quiet", "stale"}
Off == -1               \* a timer that is not running
Banner == -1            \* the boot text, no value of disp

VARIABLES
  rxq,          \* frames in rimlink_rx_msgq
  workq,        \* items in the system workqueue, first to run first
  busy,         \* ms another item still occupies it
  timer,        \* ms until a delayed item is queued
  prev_disp,    \* osvc.prev_disp
  refresh_age,  \* uptime - osvc.last_refresh, saturated
  segments,     \* what the TM1637 shows
  leds, disp,   \* lsvc: what was submitted last
  dirty,        \* lsvc.dirty
  quiet,        \* lsvc.stats.quiet
  push_age,     \* uptime - lsvc.last_push_ms, saturated
  strip,        \* what the LED strip shows
  rail_on,      \* pm.stats.rail_on
  \* History
  age,          \* ms since the last frame was processed, saturated
  gap,          \* ms since the last frame arrived, saturated
  render_age,   \* ms since the last rendering, saturated
  healthy       \* no two frames were far apart since the rail came on

queue_vars == <<rxq, workq, busy>>
display_vars == <<prev_disp, refresh_age, segments>>
led_vars == <<leds, disp, dirty, quiet, push_age, strip>>
frame_history == <<age, gap, healthy>>
history == <<frame_history, render_age>>
vars == <<queue_vars, timer, display_vars, led_vars, rail_on, history>>

Frame == [leds : Leds, disp : Disps]
AgeMax == PWR_STALE_MS + LED_QUIET_MS + STALL + 1

TypeOK ==
  /\ rxq \in Seq(Frame) /\ Len(rxq) <= RXQ
  /\ workq \in Seq(Items) /\ Len(workq) <= 4
  /\ busy \in 0..STALL
  /\ timer.render \in 0..LED_MIN_PERIOD_MS \cup {Off}
  /\ timer.quiet \in 0..LED_QUIET_MS \cup {Off}
  /\ timer.stale \in 0..PWR_STALE_MS \cup {Off}
  /\ prev_disp \in Disps
  /\ refresh_age \in 0..OUTPUT_MIN_REFRESH_MS
  /\ segments \in Disps \cup {Banner}
  /\ leds \in Leds
  /\ disp \in Disps
  /\ {dirty, quiet, rail_on, healthy} \subseteq BOOLEAN
  /\ push_age \in 0..LED_MIN_PERIOD_MS
  /\ strip \in Leds
  /\ age \in 0..AgeMax
  /\ gap \in 0..PWR_STALE_MS
  /\ render_age \in 0..LED_MIN_PERIOD_MS

\* The services are initialised; the uptime is beyond the short periods.
Init ==
  /\ rxq = <<>>
  /\ workq = <<>>
  /\ busy = 0
  /\ timer = [render |-> Off, quiet |-> Off, stale |-> Off]
  /\ prev_disp = 0
  /\ refresh_age = OUTPUT_MIN_REFRESH_MS
  /\ segments = Banner
  /\ leds = 0
  /\ disp = 0
  /\ dirty = FALSE
  /\ quiet = FALSE
  /\ push_age = LED_MIN_PERIOD_MS
  /\ strip = 0
  /\ rail_on = FALSE
  /\ age = AgeMax
  /\ gap = PWR_STALE_MS
  /\ render_age = LED_MIN_PERIOD_MS
  /\ healthy = TRUE

\* k_work_submit: an item is in the queue at most once.
queued(q, item) == IF Contains(q, item) THEN q ELSE Append(q, item)

\* The next item to run is the given one.
Runs(item) == busy = 0 /\ workq # <<>> /\ Head(workq) = item

-----------------------------------------------------------------------------
(* output_svc_rx and what it calls, for the first frame waiting *)

\* The TM1637 mirrors a changed display, but not twice in a short time.
display(f) ==
  /\ prev_disp' = f.disp
  /\ IF f.disp # prev_disp /\ refresh_age >= OUTPUT_MIN_REFRESH_MS
       THEN segments' = f.disp /\ refresh_age' = 0
       ELSE UNCHANGED <<segments, refresh_age>>

\* power_mgr_note_valid_rx: the rail is on.  A healthy stretch begins when it
\* comes on with no expiry of an earlier outage left in the workqueue.
note_valid_rx ==
  /\ rail_on' = TRUE
  /\ healthy' = IF rail_on THEN healthy ELSE ~Contains(workq, "stale")

changed(f) == f.leds # leds \/ f.disp # disp \/ quiet

\* When led_svc_submit next renders: at once (0), later, or as it was.
next_render(f) ==
  IF ~changed(f) THEN timer.render ELSE LED_MIN_PERIOD_MS - push_age

\* led_svc_submit's own state.
submit(f) ==
  /\ leds' = f.leds
  /\ disp' = f.disp
  /\ dirty' = (dirty \/ changed(f))
  /\ UNCHANGED <<quiet, push_age, strip>>

\* Mutant: only a frame that changes something re-arms the timers.
rearmed_if_changed(f) ==
  IF changed(f) THEN [render |-> next_render(f), quiet |-> LED_QUIET_MS,
                      stale |-> PWR_STALE_MS]
                ELSE timer

\* The timers after a frame: every valid frame re-arms quiet and stale.
rearmed(f) == [render |-> next_render(f), quiet |-> LED_QUIET_MS,
               stale |-> PWR_STALE_MS]

\* A frame is taken from the queue and handed to output_svc_rx; the work
\* item ends when the queue is empty.
output_svc_rx ==
  /\ Runs("rx")
  /\ LET f     == Head(rxq)
         now   == rearmed(f).render = 0
         rest  == IF Len(rxq) = 1 THEN Tail(workq) ELSE workq
     IN  /\ display(f)
         /\ note_valid_rx
         /\ submit(f)
         /\ timer' = IF now THEN [rearmed(f) EXCEPT !.render = Off] ELSE rearmed(f)
         /\ workq' = IF now THEN queued(rest, "render") ELSE rest
  /\ rxq' = Tail(rxq)
  /\ age' = 0
  /\ UNCHANGED <<busy, gap, render_age>>

-----------------------------------------------------------------------------
(* The other work items *)

\* Mutant: the time of the push is not kept.
render_handler_no_time ==
  /\ Runs("render")
  /\ workq' = Tail(workq)
  /\ render_age' = IF dirty THEN 0 ELSE render_age
  /\ IF dirty
       THEN dirty' = FALSE /\ quiet' = FALSE /\ strip' = leds
       ELSE UNCHANGED <<dirty, quiet, strip>>
  /\ UNCHANGED <<rxq, busy, timer, display_vars, leds, disp, push_age, rail_on,
                 frame_history>>

\* Mutant: the flag is cleared and nothing is rendered.
render_handler_no_leds ==
  /\ Runs("render")
  /\ workq' = Tail(workq)
  /\ render_age' = IF dirty THEN 0 ELSE render_age
  /\ IF dirty
       THEN dirty' = FALSE /\ quiet' = FALSE /\ push_age' = 0 /\ UNCHANGED strip
       ELSE UNCHANGED <<dirty, quiet, strip, push_age>>
  /\ UNCHANGED <<rxq, busy, timer, display_vars, leds, disp, rail_on, frame_history>>

render_handler ==
  /\ Runs("render")
  /\ workq' = Tail(workq)
  /\ render_age' = IF dirty THEN 0 ELSE render_age
  /\ IF dirty
       THEN dirty' = FALSE /\ quiet' = FALSE /\ strip' = leds /\ push_age' = 0
       ELSE UNCHANGED <<dirty, quiet, strip, push_age>>
  /\ UNCHANGED <<rxq, busy, timer, display_vars, leds, disp, rail_on, frame_history>>

\* Mutant: the strip goes dark only if a rendering is outstanding.
quiet_handler_if_dirty ==
  /\ Runs("quiet")
  /\ workq' = Tail(workq)
  /\ strip' = IF dirty THEN 0 ELSE strip
  /\ quiet' = TRUE
  /\ UNCHANGED <<rxq, busy, timer, display_vars, leds, disp, dirty, push_age,
                 rail_on, history>>

quiet_handler ==
  /\ Runs("quiet")
  /\ workq' = Tail(workq)
  /\ strip' = 0
  /\ quiet' = TRUE
  /\ UNCHANGED <<rxq, busy, timer, display_vars, leds, disp, dirty, push_age,
                 rail_on, history>>

stale_handler ==
  /\ Runs("stale")
  /\ workq' = Tail(workq)
  /\ rail_on' = FALSE
  /\ UNCHANGED <<rxq, busy, timer, display_vars, led_vars, history>>

workqueue == output_svc_rx \/ render_handler \/ quiet_handler \/ stale_handler

-----------------------------------------------------------------------------
(* The link, the clock and the other users of the workqueue *)

frame_arrives(f) ==
  /\ Len(rxq) < RXQ
  /\ rxq' = Append(rxq, f)
  /\ workq' = queued(workq, "rx")
  /\ gap' = 0
  /\ UNCHANGED <<busy, timer, display_vars, led_vars, rail_on, age,
                 healthy, render_age>>

other_item ==
  /\ busy = 0
  /\ workq = <<>>
  /\ busy' \in 1..STALL
  /\ UNCHANGED <<rxq, workq, timer, display_vars, led_vars, rail_on, history>>

upto(n, bound) == IF n < bound THEN n + 1 ELSE bound

\* The orders in which up to three items can come.
orders(items) ==
  {s \in UNION {[1..n -> items] : n \in 0..3} :
     IsInjective(s) /\ \A item \in items : Contains(s, item)}

\* One millisecond: timers that expire queue their item, in any order.
elapse ==
  /\ busy > 0 \/ workq = <<>>
  /\ busy' = IF busy > 0 THEN busy - 1 ELSE 0
  /\ timer' = [t \in DOMAIN timer |->
                 IF timer[t] > 1 THEN timer[t] - 1 ELSE Off]
  /\ LET expired == {t \in DOMAIN timer : timer[t] = 1}
     IN  \E order \in orders({t \in expired : ~Contains(workq, t)}) :
            workq' = workq \o order
  /\ refresh_age' = upto(refresh_age, OUTPUT_MIN_REFRESH_MS)
  /\ push_age' = upto(push_age, LED_MIN_PERIOD_MS)
  /\ render_age' = upto(render_age, LED_MIN_PERIOD_MS)
  /\ age' = upto(age, AgeMax)
  /\ gap' = upto(gap, PWR_STALE_MS)
  /\ healthy' = (healthy /\ gap' < PWR_STALE_MS - STALL)
  /\ UNCHANGED <<rxq, prev_disp, segments, leds, disp, dirty, quiet, strip,
                 rail_on>>

Next ==
  \/ workqueue
  \/ \E f \in Frame : frame_arrives(f)
  \/ other_item
  \/ elapse

Spec == Init /\ [][Next]_vars

\* The clock runs, the workqueue runs, and the link is alive.
FairSpec ==
  /\ Spec
  /\ WF_vars(workqueue)
  /\ WF_vars(elapse)
  /\ SF_vars(\E f \in Frame : frame_arrives(f))

-----------------------------------------------------------------------------
(* Properties *)

\* The quiet state: an LED is lit, or the output rail on, only if a valid
\* frame was processed within the stale time, give or take a stall.
LitIsRecent ==
  /\ strip # 0 => age <= LED_QUIET_MS + STALL
  /\ rail_on => age <= PWR_STALE_MS + STALL

\* Two renderings are at least the minimum period apart, however often the
\* frames change and however late a work item runs.
RateLimited ==
  [][render_handler /\ dirty => render_age >= LED_MIN_PERIOD_MS]_vars

\* With nothing outstanding, the strip shows the last frame; and what is
\* outstanding has its rendering scheduled, by a timer or in the workqueue, so
\* that no change is lost to the rescheduling of an earlier one.
ShownIsLatest ==
  /\ ~dirty /\ ~quiet => strip = leds
  /\ dirty => timer.render # Off \/ Contains(workq, "render")

\* No output-rail event during a healthy link: while frames arrive more often
\* than the stale time less a stall, the rail does not go off.
RailSteady == [][rail_on /\ healthy => rail_on']_vars

\* "Every valid frame re-arms the timer" (steering_wheel_sw_spec.md:110): the
\* rail goes off only when no frame was processed for PWR_STALE_MS.
EveryFrameRearms == [][rail_on /\ ~rail_on' => age >= PWR_STALE_MS]_vars

\* phase1-software-spec.md:235: each valid frame whose disp differs from the
\* previous valid value is mapped to the TM1637, not more often than the
\* interval of its section 3.1: when no item waits and the interval has
\* passed, the display shows the last valid value.
DisplayMirrors ==
  segments # Banner /\ workq = <<>> /\ refresh_age >= OUTPUT_MIN_REFRESH_MS =>
    segments = prev_disp

\* output_svc.c:138: the boot banner is shown for one second, then cleared.
BannerCleared == <>(segments # Banner)
=============================================================================
