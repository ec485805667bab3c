------------------------------- MODULE Health -------------------------------
(***************************************************************************)
(* The persisted health counters (app/src/health.c): the link's 32-bit     *)
(* statistics are folded into 64-bit totals, by a work item every minute,  *)
(* which then commits them to flash, and by the shell whenever it shows    *)
(* them.  The link thread counts all the while; power may fail, or the     *)
(* watchdog bite, at any step.                                             *)
(*                                                                         *)
(* The system workqueue is cooperative: its fold is one step against the   *)
(* shell, which it preempts anywhere, so the shell's fold is one step per  *)
(* access to shared memory.                                                *)
(***************************************************************************)
EXTENDS Integers

CONSTANTS
  Mod,            \* modulus of the statistics, 2^32 in the code
  StatsReset,     \* rim reset is used
  MaxEvents,      \* bound on what the link counts in one boot
  MaxBoots        \* bound on the number of boots

\* What is assumed of the constants.
Assumptions ==
  /\ Mod \in Nat \ {0, 1}
  /\ StatsReset \in BOOLEAN
  /\ {MaxEvents, MaxBoots} \subseteq Nat \ {0}

Stats == {"txn_count", "crc_err_rx", "short_frame", "overrun"}
NoStats == [s \in Stats |-> 0]

VARIABLES
  stats,        \* lnk.stats
  last,         \* the statistics at the last fold
  hc,           \* the counters in RAM
  saved,        \* rimh/counters in flash
  commit,       \* "idle", or "save": the work item is writing flash
  shell,        \* next step of the shell's health_get
  now,          \* the shell's copy of the statistics
  sum,          \* the total the shell has computed and not yet stored
  \* History
  seen,         \* what the link counted since boot
  at_boot,      \* the counters right after health_init
  boots,        \* number of boots
  overlapped,   \* a commit folded in the middle of a fold of the shell
  adrift        \* the counters in RAM do not go on from those in flash

work_vars == <<saved, commit>>
shell_vars == <<shell, now, sum>>
counted == <<seen, at_boot, boots>>
history == <<counted, overlapped, adrift>>
vars == <<stats, last, hc, work_vars, shell_vars, history>>

Counters == [power_cycles : Nat, wdt_resets : Nat, txn_total : Nat,
             err_total : Nat]

TypeOK ==
  /\ stats \in [Stats -> 0..(Mod - 1)]
  /\ last \in [Stats -> 0..(Mod - 1)]
  /\ hc \in Counters
  /\ saved \in Counters
  /\ commit \in {"idle", "save"}
  /\ shell \in {"idle", "load_txn", "store_txn", "load_err", "store_err",
                "set_last"}
  /\ now \in [Stats -> 0..(Mod - 1)]
  /\ sum \in Nat
  /\ seen \in [Stats -> 0..MaxEvents]
  /\ at_boot \in Counters
  /\ boots \in 1..MaxBoots
  /\ overlapped \in BOOLEAN
  /\ adrift \in BOOLEAN

\* The counters health_init leaves in RAM.
health_init(flash, wdt) ==
  [flash EXCEPT !.power_cycles = @ + 1,
                !.wdt_resets = IF wdt THEN @ + 1 ELSE @]

NoCounters == [power_cycles |-> 0, wdt_resets |-> 0, txn_total |-> 0,
               err_total |-> 0]

Init ==
  /\ stats = NoStats
  /\ last = NoStats
  /\ saved = NoCounters
  /\ hc = health_init(saved, FALSE)
  /\ commit = "idle"
  /\ shell = "idle"
  /\ now = NoStats
  /\ sum = 0
  /\ seen = NoStats
  /\ at_boot = hc
  /\ boots = 1
  /\ overlapped = FALSE
  /\ adrift = FALSE

-----------------------------------------------------------------------------
(* Folding *)

\* Mutant: a difference of counters is not reduced to their width.
difference_unwrapped(a, b, s) == a[s] - b[s]

\* Unsigned 32-bit subtraction.
difference(a, b, s) == (a[s] - b[s]) % Mod

txn_delta(a, b) == difference(a, b, "txn_count")
err_delta(a, b) ==
  (difference(a, b, "crc_err_rx") + difference(a, b, "short_frame")
   + difference(a, b, "overrun")) % Mod

\* All errors, not reduced to the width of a counter.
errors(s) == s["crc_err_rx"] + s["short_frame"] + s["overrun"]

\* fold_stats in one piece.
fold_stats ==
  /\ hc' = [hc EXCEPT !.txn_total = @ + txn_delta(stats, last),
                      !.err_total = @ + err_delta(stats, last)]
  /\ last' = stats

-----------------------------------------------------------------------------
(* The link thread *)

\* Less than a full turn of a counter, or of the three error counters together.
NoLap(since) ==
  txn_delta(stats, since) < Mod - 1 /\ err_delta(stats, since) < Mod - 1

\* The commit every minute comes before a counter has wrapped around all the
\* way, and the shell's fold takes less.
link_counts(s) ==
  /\ seen["txn_count"] + errors(seen) < MaxEvents
  /\ NoLap(last)
  /\ shell # "idle" => NoLap(now)
  /\ stats' = [stats EXCEPT ![s] = (@ + 1) % Mod]
  /\ seen' = [seen EXCEPT ![s] = @ + 1]
  /\ UNCHANGED <<last, hc, work_vars, shell_vars, at_boot, boots, overlapped,
                 adrift>>

-----------------------------------------------------------------------------
(* commit_handler, on the system workqueue *)

\* At most one commit of a boot meets the shell: a bound.
commit_fold ==
  /\ commit = "idle"
  /\ shell # "idle" => ~overlapped
  /\ fold_stats
  /\ commit' = "save"
  /\ overlapped' = (overlapped \/ shell # "idle")
  /\ UNCHANGED <<stats, saved, shell_vars, counted, adrift>>

\* The flash driver may sleep before it reads the record, and may fail: the
\* handler does not look at the result.
commit_save ==
  /\ commit = "save"
  /\ saved' = hc \/ UNCHANGED saved
  /\ commit' = "idle"
  /\ UNCHANGED <<stats, last, hc, shell_vars, history>>

-----------------------------------------------------------------------------
(* The shell: rim health and rim reset *)

stats_get ==
  /\ shell = "idle"
  /\ now' = stats
  /\ shell' = "load_txn"
  /\ UNCHANGED <<stats, last, hc, work_vars, sum, history>>

load_txn ==
  /\ shell = "load_txn"
  /\ sum' = hc.txn_total + txn_delta(now, last)
  /\ shell' = "store_txn"
  /\ UNCHANGED <<stats, last, hc, work_vars, now, history>>

store_txn ==
  /\ shell = "store_txn"
  /\ hc' = [hc EXCEPT !.txn_total = sum]
  /\ shell' = "load_err"
  /\ UNCHANGED <<stats, last, work_vars, now, sum, history>>

load_err ==
  /\ shell = "load_err"
  /\ sum' = hc.err_total + err_delta(now, last)
  /\ shell' = "store_err"
  /\ UNCHANGED <<stats, last, hc, work_vars, now, history>>

store_err ==
  /\ shell = "store_err"
  /\ hc' = [hc EXCEPT !.err_total = sum]
  /\ shell' = "set_last"
  /\ UNCHANGED <<stats, last, work_vars, now, sum, history>>

\* Mutant: what is noted as folded is read anew.
set_last_anew ==
  /\ shell = "set_last"
  /\ last' = stats
  /\ shell' = "idle"
  /\ now' = NoStats
  /\ sum' = 0
  /\ UNCHANGED <<stats, hc, work_vars, history>>

set_last ==
  /\ shell = "set_last"
  /\ last' = now
  /\ shell' = "idle"
  /\ now' = NoStats
  /\ sum' = 0
  /\ UNCHANGED <<stats, hc, work_vars, history>>

health_get == stats_get \/ load_txn \/ store_txn \/ load_err \/ store_err \/ set_last

stats_reset ==
  /\ StatsReset
  /\ shell = "idle"
  /\ stats' = NoStats
  /\ adrift' = (adrift \/ overlapped)
  /\ UNCHANGED <<last, hc, work_vars, shell_vars, counted, overlapped>>

-----------------------------------------------------------------------------
(* Power fails, or the watchdog bites; the firmware boots again *)

\* The load may fail: health_init counts on from zero, and main() does not
\* look at what it returns.
reboot(wdt, loaded) ==
  /\ boots < MaxBoots
  /\ boots' = boots + 1
  /\ hc' = health_init(IF loaded THEN saved ELSE NoCounters, wdt)
  /\ at_boot' = hc'
  /\ stats' = NoStats
  /\ last' = NoStats
  /\ commit' = "idle"
  /\ shell' = "idle"
  /\ now' = NoStats
  /\ sum' = 0
  /\ seen' = NoStats
  /\ overlapped' = FALSE
  /\ adrift' = ~loaded
  /\ UNCHANGED saved

Next ==
  \/ \E s \in Stats : link_counts(s)
  \/ commit_fold
  \/ commit_save
  \/ health_get
  \/ stats_reset
  \/ \E wdt, loaded \in BOOLEAN : reboot(wdt, loaded)

Spec == Init /\ [][Next]_vars

-----------------------------------------------------------------------------
(* Properties *)

\* Between two folds, a total and the difference that is still to be folded
\* add up to what health_init left in RAM (what was in flash, or zero if the
\* load failed) and everything counted since, also after a 32-bit counter has
\* wrapped.  A commit in the middle of the shell's fold (health.c:77) never
\* makes them lose anything, but what it counts too much can be a full turn of
\* the counter: a copy of the statistics older than the last fold makes the
\* unsigned difference jump by 2^32.
ExactTotals ==
  shell = "idle" =>
    LET txn  == hc.txn_total + txn_delta(stats, last)
        errs == hc.err_total + err_delta(stats, last)
        all  == [txn |-> at_boot.txn_total + seen["txn_count"],
                 errs |-> at_boot.err_total + errors(seen)]
    IN  IF overlapped
          THEN txn - all.txn \in 0..Mod /\ errs - all.errs \in 0..Mod
          ELSE txn = all.txn /\ errs = all.errs

Grows ==
  saved'.txn_total >= saved.txn_total /\ saved'.err_total >= saved.err_total

\* The totals in flash only ever grow, whatever commits fail, overlap the
\* shell or are cut off by a power failure: except in a boot that could not
\* load them, or in which a commit met the shell's fold and the statistics were
\* reset.
CommittedSurvives == [][~adrift => Grows]_vars

\* Does not hold: the same without the exceptions.  After a load that failed
\* the first commit overwrites the totals with those of one boot (health.c:65
\* and :90), and every later boot has lost the rest.
CommittedNeverLost == [][Grows]_vars

\* The totals count transactions and errors that happened (health.h:22 and
\* :23), never more.
TotalsAreReal ==
  ~overlapped =>
    /\ hc.txn_total <= at_boot.txn_total + seen["txn_count"]
    /\ hc.err_total <= at_boot.err_total + errors(seen)

\* The same with a commit in the middle of the shell's fold.
NothingTwice ==
  /\ hc.txn_total <= at_boot.txn_total + seen["txn_count"]
  /\ hc.err_total <= at_boot.err_total + errors(seen)

\* The persisted counters count the power cycles.
PowerCyclesCounted == hc.power_cycles = boots
=============================================================================
