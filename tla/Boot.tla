-------------------------------- MODULE Boot --------------------------------
(***************************************************************************)
(* Start-up and watchdog (app/src/main.c, rim_wdt.c and the init functions *)
(* of the services).  main() brings the link up first and then initialises *)
(* the services: on the system workqueue with CONFIG_RIM_FASTBOOT, in the  *)
(* main thread without.  Base frames can arrive as soon as the link is up; *)
(* their handler runs on the workqueue and uses the services.  The         *)
(* watchdog is armed in the middle of the initialisation and fed by the    *)
(* ticks of the input thread, which start with the input service.          *)
(*                                                                         *)
(* The workqueue and the input thread are cooperative of equal priority,   *)
(* above the main thread: a work item runs to its end, and between two     *)
(* items the queue yields to the input thread.  Time passes in periods of  *)
(* the tick; handling a frame takes less than one.                         *)
(***************************************************************************)
EXTENDS Integers, Sequences

CONSTANTS
  WDT_MS,       \* timeout of the watchdog
  InitTime,     \* bound on the time the services' initialisation takes
  CommitTime    \* bound on the time a commit of the health counters takes

\* What is assumed of the constants.
Assumptions ==
  /\ {WDT_MS, InitTime, CommitTime} \subseteq Nat
  /\ WDT_MS > 1     \* a tick has more than its own period

\* services_init, in its order.
Services == <<"settings", "wdt", "led", "lra", "power", "output", "input",
              "health", "diag">>

\* The services whose initialisation can fail and leave something undone.
MayFail == {"wdt", "power", "output", "input", "diag"}

Works == {"init", "rx", "commit"}
NotArmed == -1

VARIABLES
  option,       \* the build: [fastboot, watchdog]
  main_pc,      \* "start", "linked", "services", "done"
  link,         \* the link thread is released
  service,      \* the next service to initialise
  ready, failed,
  queue,        \* items of the system workqueue, the running one included
  running,      \* the first of them runs
  spent,        \* time the initialisation or the commit has taken
  tick_sem,
  unfed,        \* time since the watchdog was fed, or NotArmed
  \* History
  early,        \* a frame arrived before the services were seen to
  damaged,      \* a delayable work was scheduled before its initialisation
  slow          \* since the watchdog was last fed, one work took its timeout

vars == <<option, main_pc, link, service, ready, failed, queue, running, spent,
          tick_sem, unfed, early, damaged, slow>>

Names == {Services[i] : i \in 1..Len(Services)}
InQueue(w) == \E i \in 1..Len(queue) : queue[i] = w
Running(w) == running /\ Head(queue) = w
CpuFree == queue = <<>> /\ ~tick_sem

TypeOK ==
  /\ option \in [fastboot : BOOLEAN, watchdog : BOOLEAN]
  /\ main_pc \in {"start", "linked", "services", "done"}
  /\ link \in BOOLEAN
  /\ service \in 1..(Len(Services) + 1)
  /\ ready \subseteq Names /\ failed \subseteq Names
  /\ queue \in Seq(Works)
  /\ running \in BOOLEAN /\ (running => queue # <<>>)
  /\ spent \in Nat
  /\ tick_sem \in BOOLEAN
  /\ unfed \in NotArmed..WDT_MS
  /\ early \in BOOLEAN
  /\ damaged \in BOOLEAN
  /\ slow \in BOOLEAN

Init ==
  /\ option \in [fastboot : BOOLEAN, watchdog : BOOLEAN]
  /\ main_pc = "start"
  /\ link = FALSE
  /\ service = 1
  /\ ready = {} /\ failed = {}
  /\ queue = <<>> /\ running = FALSE
  /\ spent = 0
  /\ tick_sem = FALSE
  /\ unfed = NotArmed
  /\ early = FALSE
  /\ damaged = FALSE
  /\ slow = FALSE

\* rimlink_init and link_spi_init, which may fail before it releases the
\* link thread.
link_first ==
  /\ main_pc = "start"
  /\ main_pc' = "linked"
  /\ link' \in BOOLEAN
  /\ UNCHANGED <<option, service, ready, failed, queue, running, spent,
                 tick_sem, unfed, early, damaged, slow>>

\* The rest of main(): the services are left to the workqueue, or next.
defer ==
  /\ main_pc = "linked"
  /\ CpuFree
  /\ IF option.fastboot
       THEN main_pc' = "done" /\ queue' = Append(queue, "init")
       ELSE main_pc' = "services" /\ UNCHANGED queue
  /\ UNCHANGED <<option, link, service, ready, failed, running, spent,
                 tick_sem, unfed, early, damaged, slow>>

Initialising ==
  IF option.fastboot THEN Running("init") ELSE main_pc = "services" /\ CpuFree

\* The next call of services_init: a failure is logged and nothing else.
init_service(ok) ==
  /\ Initialising
  /\ service <= Len(Services)
  /\ LET name == Services[service]
     IN  /\ ok \/ name \in MayFail
         /\ ready' = IF ok THEN ready \cup {name} ELSE ready
         /\ failed' = IF ok THEN failed ELSE failed \cup {name}
         /\ unfed' = IF ok /\ name = "wdt" /\ option.watchdog THEN 0 ELSE unfed
  /\ service' = service + 1
  /\ UNCHANGED <<option, main_pc, link, queue, running, spent, tick_sem, early,
                 damaged, slow>>

finish(item) == Running(item) /\ queue' = Tail(queue) /\ running' = FALSE

services_running ==
  /\ Initialising
  /\ service > Len(Services)
  /\ IF option.fastboot
       THEN finish("init") /\ UNCHANGED main_pc
       ELSE main_pc' = "done" /\ UNCHANGED <<queue, running>>
  /\ spent' = 0
  /\ UNCHANGED <<option, link, service, ready, failed, tick_sem, unfed, early,
                 damaged, slow>>

\* Mutant: received frames do not wait behind the initialisation.
submit_rx_first == queue' = IF queue = <<>> THEN <<"rx">> ELSE <<"rx">> \o queue

submit_rx == queue' = Append(queue, "rx")

\* A valid frame arrives and its work is submitted, unless it waits already.
frame ==
  /\ link
  /\ ~(\E i \in 1..Len(queue) : queue[i] = "rx" /\ (i = 1 => ~running))
  /\ submit_rx
  /\ early' = (early \/ main_pc # "done")
  /\ UNCHANGED <<option, main_pc, link, service, ready, failed, running, spent,
                 tick_sem, unfed, damaged, slow>>

\* The workqueue takes its next item; it has yielded to the input thread.
work_start ==
  /\ queue # <<>> /\ ~running /\ ~tick_sem
  /\ running' = TRUE
  /\ UNCHANGED <<option, main_pc, link, service, ready, failed, queue, spent,
                 tick_sem, unfed, early, damaged, slow>>

\* The frame's outputs: the rail's and the LEDs' delayable works are
\* rescheduled, initialised or not.
output_svc_rx ==
  /\ finish("rx")
  /\ damaged' = (damaged \/ ~({"power", "led"} \subseteq ready))
  /\ UNCHANGED <<option, main_pc, link, service, ready, failed, spent,
                 tick_sem, unfed, early, slow>>

\* The health counters are committed from the workqueue once a minute: by
\* then the input thread has been serving ticks, if it ever will.
commit_due ==
  /\ "health" \in ready /\ service > Len(Services)
  /\ unfed \in {NotArmed, 0} \/ tick_sem
  /\ ~InQueue("commit") /\ ~InQueue("init") /\ main_pc = "done"
  /\ queue' = Append(queue, "commit")
  /\ UNCHANGED <<option, main_pc, link, service, ready, failed, running, spent,
                 tick_sem, unfed, early, damaged, slow>>

commit_handler ==
  /\ finish("commit")
  /\ spent' = 0
  /\ UNCHANGED <<option, main_pc, link, service, ready, failed, tick_sem,
                 unfed, early, damaged, slow>>

\* Mutant: the watchdog is fed only in ticks that publish a snapshot.
rim_wdt_feed_on_publish == unfed' \in {unfed, IF unfed = NotArmed THEN NotArmed ELSE 0}

rim_wdt_feed == unfed' = IF unfed = NotArmed THEN NotArmed ELSE 0

\* The input thread serves a tick.
input_tick ==
  /\ tick_sem /\ ~running
  /\ tick_sem' = FALSE
  /\ rim_wdt_feed
  /\ slow' = FALSE
  /\ UNCHANGED <<option, main_pc, link, service, ready, failed, queue, running,
                 spent, early, damaged>>

\* A commit, or the initialisation while it keeps the ticks from being served,
\* takes as long as the watchdog's timeout; the first tick comes a period after
\* the initialisation.
TakesTooLong ==
  \/ Running("commit") /\ spent' >= WDT_MS
  \/ /\ Initialising
     /\ option.fastboot \/ "input" \notin ready
     /\ spent' >= WDT_MS - 1

\* Time passes while the processor works on something that takes long, or
\* has nothing to do.
elapse ==
  /\ unfed # WDT_MS
  /\ \/ running /\ Head(queue) = "init" /\ spent < InitTime /\ spent' = spent + 1
     \/ running /\ Head(queue) = "commit" /\ spent < CommitTime
          /\ spent' = spent + 1
     \/ main_pc = "services" /\ CpuFree /\ spent < InitTime /\ spent' = spent + 1
     \/ main_pc = "done" /\ CpuFree /\ UNCHANGED spent
  /\ tick_sem' = ("input" \in ready)
  /\ unfed' = IF unfed = NotArmed THEN unfed ELSE unfed + 1
  /\ slow' = (slow \/ TakesTooLong)
  /\ UNCHANGED <<option, main_pc, link, service, ready, failed, queue, running,
                 early, damaged>>

\* The watchdog resets the MCU.
wdt_reset ==
  /\ unfed = WDT_MS
  /\ main_pc' = "start" /\ link' = FALSE
  /\ service' = 1 /\ ready' = {} /\ failed' = {}
  /\ queue' = <<>> /\ running' = FALSE /\ spent' = 0
  /\ tick_sem' = FALSE /\ unfed' = NotArmed
  /\ early' = FALSE /\ damaged' = FALSE /\ slow' = FALSE
  /\ UNCHANGED option

Next ==
  \/ link_first
  \/ defer
  \/ \E ok \in BOOLEAN : init_service(ok)
  \/ services_running
  \/ frame
  \/ work_start
  \/ output_svc_rx
  \/ commit_due
  \/ commit_handler
  \/ input_tick
  \/ elapse
  \/ wdt_reset

Spec == Init /\ [][Next]_vars

-----------------------------------------------------------------------------
(* Properties *)

\* Behind the deferred initialisation frames are safe: a delayable work is
\* scheduled before it is initialised only when a frame came in before
\* main() had seen to the services, or the rail's initialisation failed
\* before it initialised its work.
DeferredIsSafe == damaged => early \/ "power" \in failed

\* The watchdog resets for a dead input path or for one work that took its
\* timeout: services whose initialisation keeps the ticks from being served
\* (rim_wdt.c arms it before them), or a commit to flash on the workqueue, which
\* the input thread does not preempt.  Delays of several works, each shorter,
\* never add up to one.
ResetIsDeserved ==
  [][main_pc # "start" /\ main_pc' = "start" => "input" \in failed \/ slow]_vars

\* Does not hold: it resets for a dead input path only.
ResetIsDeadInput ==
  [][main_pc # "start" /\ main_pc' = "start" => "input" \in failed]_vars

\* Does not hold: no delayable work is scheduled before its initialisation.
\* Every frame the base sends while the services initialise in the main
\* thread does so.
InitBeforeUse == ~damaged
=============================================================================
