-------------------------------- MODULE Bench --------------------------------
(***************************************************************************)
(* The bench: the base simulator (app/sim/src/main.c) clocks transactions, *)
(* sound or with an injected fault, into the rim's link thread (LinkSpi),  *)
(* and both sides keep statistics.  "Simulator and DUT statistics must     *)
(* reconcile to zero unexplained discrepancy" (main.c:11).                 *)
(*                                                                         *)
(* The simulator's thread and the rim run on two boards: their steps       *)
(* interleave freely.  The rim's other threads do not touch what is        *)
(* counted here and are left out; so are resets of the counters, with      *)
(* which a session begins.                                                 *)
(***************************************************************************)
EXTENDS LinkSpi

CONSTANTS
  FaultNs,      \* values of sim.fault_n
  MaxTxn,       \* bound on the transactions of a session
  MaxFailures   \* bound on the failures of the rim's driver

ASSUME SessionAssumption ==
  /\ FaultNs \subseteq Nat
  /\ {MaxTxn, MaxFailures, CounterMod} \subseteq Nat
  /\ CounterMod > 2 * MaxTxn

VARIABLES
  sim_pc,           \* "sleep", "select", "clock", "verify"
  fault, fault_n,   \* sim.fault, sim.fault_n
  flush,            \* sim.flush_bytes > 0
  len,              \* "short", "frame" or "more", of this transaction
  corrupt,          \* its checksum is corrupted
  received,         \* the rim's copy of the frame is, too
  sim_txn, miso_err, faults_injected,
  \* History
  ended,            \* transactions CS has framed
  cut, spoiled,     \* of these: truncated; with a corrupted checksum
  harmless,         \* injected faults that do not harm the frame
  all_served,       \* the rim was ready for every transaction, to its end
  failures          \* transfers that failed in the rim's driver

sim_vars == <<sim_pc, fault, fault_n, flush, len, corrupt>>
sim_stats == <<sim_txn, miso_err, faults_injected>>
bench_history == <<ended, cut, spoiled, harmless, all_served, failures>>
bench_vars == <<vars, sim_vars, received, sim_stats, bench_history>>

Faults == {"none", "crc", "trunc", "extra", "jitter"}

BenchTypeOK ==
  /\ TypeOK
  /\ sim_pc \in {"sleep", "select", "clock", "verify"}
  /\ fault \in Faults /\ fault_n \in FaultNs
  /\ len \in {"short", "frame", "more"}
  /\ {flush, corrupt, received, all_served} \subseteq BOOLEAN
  /\ {sim_txn, miso_err, faults_injected, ended, cut, spoiled, harmless, failures}
       \subseteq Nat

BenchInit ==
  /\ Init
  /\ sim_pc = "sleep"
  /\ fault = "none" /\ fault_n \in FaultNs
  /\ flush \in BOOLEAN
  /\ len = "frame"
  /\ corrupt = FALSE /\ received = FALSE
  /\ sim_txn = 0 /\ miso_err = 0 /\ faults_injected = 0
  /\ ended = 0 /\ cut = 0 /\ spoiled = 0 /\ harmless = 0
  /\ all_served = TRUE
  /\ failures = 0

-----------------------------------------------------------------------------
(* The simulator's thread *)

\* Every Nth transaction has the fault.
Injected == fault # "none" /\ fault_n # 0 /\ (sim_txn + 1) % fault_n = 0

Jittered == fault = "jitter" /\ fault_n # 0

add(count, condition) == IF condition THEN count + 1 ELSE count

\* run_transaction composes the frame and decides how many bytes to clock;
\* flush bytes follow a whole frame only.
run_transaction ==
  /\ sim_pc = "sleep"
  /\ ended < MaxTxn
  /\ faults_injected < 2 * MaxTxn
  /\ sim_pc' = "select"
  /\ corrupt' = (Injected /\ fault = "crc")
  /\ len' = IF Injected /\ fault = "trunc" THEN "short"
            ELSE IF flush \/ (Injected /\ fault = "extra") THEN "more"
            ELSE "frame"
  /\ faults_injected' = add(faults_injected, Injected)
  /\ harmless' = add(harmless, Injected /\ fault \in {"extra", "jitter"})
  /\ UNCHANGED <<vars, fault, fault_n, flush, received, sim_txn, miso_err, ended,
                 cut, spoiled, all_served, failures>>

\* spi_transceive selects the rim,
select ==
  /\ sim_pc = "select"
  /\ cs_fall
  /\ sim_pc' = "clock"
  /\ all_served' = (all_served /\ txn' = "served")
  /\ UNCHANGED <<fault, fault_n, flush, len, corrupt, received, sim_stats, ended,
                 cut, spoiled, harmless, failures>>

\* clocks the frame, or fewer bytes,
clock ==
  /\ sim_pc = "clock" /\ len # "short"
  /\ last_byte
  /\ UNCHANGED <<sim_vars, received, sim_stats, bench_history>>

\* and more bytes, which a transfer armed meanwhile receives,
clock_more ==
  /\ sim_pc = "clock" /\ len = "more"
  /\ clocked
  /\ xfer = "idle"
  /\ xfer' = "part"
  /\ UNCHANGED <<tx_vars, thread_vars, rx_stats, isr_vars, cs, clocked, base_in,
                 txn, sim_vars, received, sim_stats, bench_history>>

\* and deselects it.
deselect ==
  /\ sim_pc = "clock"
  /\ clocked \/ len = "short"
  /\ cs_rise
  /\ sim_pc' = "verify"
  /\ received' = IF xfer = "whole" THEN corrupt ELSE received
  /\ ended' = ended + 1
  /\ cut' = add(cut, len = "short")
  /\ spoiled' = add(spoiled, corrupt)
  /\ all_served' = (all_served /\ txn = "served")
  /\ UNCHANGED <<fault, fault_n, flush, len, corrupt, sim_stats, harmless, failures>>

\* sim_thread counts a jittered pause as an injected fault.
pause ==
  /\ sim_pc' = "sleep"
  /\ len' = "frame" /\ corrupt' = FALSE
  /\ faults_injected' = add(faults_injected, Jittered)

\* The transaction counts, and the rim's frame is verified unless this one was
\* cut.  What the base received of a rim that did not serve it is anything.
verify ==
  /\ sim_pc = "verify"
  /\ sim_txn' = sim_txn + 1
  /\ miso_err' \in IF len = "short" \/ txn = "served" THEN {miso_err}
                   ELSE {miso_err, miso_err + 1}
  /\ pause
  /\ harmless' = add(harmless, Jittered)
  /\ UNCHANGED <<vars, fault, fault_n, flush, received, ended, cut, spoiled,
                 all_served, failures>>

\* The simulator's own bus fails: nothing is clocked, nothing counts, and a
\* fault that was counted is not sent.
transceive_fails ==
  /\ sim_pc = "select"
  /\ pause
  /\ harmless' = add(add(harmless, corrupt \/ len = "short"), Jittered)
  /\ UNCHANGED <<vars, fault, fault_n, flush, received, sim_txn, miso_err, ended,
                 cut, spoiled, all_served, failures>>

\* sim fault <kind> <N>: the shell runs whenever the simulator's thread waits.
cmd_sim_fault(kind, n) ==
  /\ fault' = kind /\ fault_n' = n
  /\ UNCHANGED <<vars, sim_pc, flush, len, corrupt, received, sim_stats,
                 bench_history>>

simulator ==
  \/ run_transaction \/ select \/ clock \/ clock_more \/ deselect \/ verify
  \/ transceive_fails
  \/ \E kind \in Faults, n \in FaultNs : cmd_sim_fault(kind, n)

-----------------------------------------------------------------------------
(* The rim *)

\* The checksum of what was received decides.
rx_submit ==
  /\ submit
  /\ ret = "full" => crc_err_rx' = add(crc_err_rx, received)
  /\ received' = FALSE

rim ==
  /\ \/ rx_submit
     \/ /\ link_run \/ acquire \/ arm \/ start \/ disarm \/ wake_up
        /\ UNCHANGED received
  /\ UNCHANGED <<sim_vars, sim_stats, bench_history>>

rim_failure ==
  /\ failures < MaxFailures
  /\ transfer_error
  /\ failures' = failures + 1
  /\ UNCHANGED <<sim_vars, received, sim_stats, ended, cut, spoiled, harmless,
                 all_served>>

BenchNext == simulator \/ rim \/ rim_failure

BenchSpec == BenchInit /\ [][BenchNext]_bench_vars

-----------------------------------------------------------------------------
(* Properties *)

\* Both sides are between two transactions.
Rest == sim_pc = "sleep" /\ pc = "transfer" /\ xfer = "idle"

\* "Simulator and DUT statistics must reconcile to zero unexplained
\* discrepancy": when the rim was ready for every transaction and its driver
\* did not fail, the rim has counted every whole frame, every injected error
\* under its own counter, and nothing else, and the simulator found no error.
Reconciles ==
  Rest /\ all_served /\ failures = 0 =>
    /\ sim_txn = ended
    /\ txn_count = ended - cut
    /\ short_frame = cut
    /\ crc_err_rx = spoiled
    /\ rearm_miss = 0 /\ miso_err = 0
    /\ crc_err_rx + short_frame + harmless = faults_injected

\* However late the rim re-arms and whatever is clocked meanwhile, no
\* transaction counts twice, as a whole frame, a short one or a re-arm miss; a
\* failure of the driver counts one of its own.
CountedOnce == txn_count + short_frame + rearm_miss <= ended + failures
=============================================================================
