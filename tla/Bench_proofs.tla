---------------------------- MODULE Bench_proofs ----------------------------
(***************************************************************************)
(* Proofs about the link thread and the bench around it.                   *)
(*                                                                         *)
(* LinkSpi, for any snapshots, identities and limits, and for either       *)
(* moment at which the driver may complete: the buffer the driver owns is  *)
(* not written and not exchanged, and LINK_READY is honest.                *)
(*                                                                         *)
(* Bench, for sessions and faults of any length and period, where a        *)
(* transfer completes with the edge of chip select: nothing is counted     *)
(* twice, and the books of simulator and rim agree.  A transfer that       *)
(* completes with its last byte is counted before the transaction is over, *)
(* and its edge is a miss (LinkSpiLastByte.cfg): the books then differ.    *)
(***************************************************************************)
EXTENDS Bench, TLAPS

(* The link thread *)

\* Once a buffer has been acquired the wire is the armed one, which a publish
\* spares; LINK_READY is up between the arming and the disarming only.
Owned ==
  /\ armed \in 0..1
  /\ pc \notin {"boot", "acquire"} => wire = armed
  /\ spi_armed => pc \in {"start", "transfer", "disarm"}

\* What the driver reads stays what it is.
Kept == DriverOwnsBuffer => wire' = wire /\ buf'[wire] = buf[wire]

-----------------------------------------------------------------------------
\* The link thread exchanges the buffer between two transfers only.
LEMMA OwnedThread ==
  ASSUME Owned, link_run \/ link_thread \/ transfer_error
  PROVE  Owned' /\ Kept
<1> USE DEF Owned, Kept, DriverOwnsBuffer, tx_vars
<1>1. CASE link_run
  BY <1>1 DEF link_run
<1>2. CASE acquire
  <2>1. armed' \in 0..1
    BY <1>2 DEF acquire, Tx!tx_acquire, Tx!swap_staging, Tx!clear_stale,
                Tx!repeat_frame, Tx!staging
  <2>2. wire' = armed' /\ pc = "acquire" /\ pc' = "arm" /\ spi_armed' = spi_armed
    BY <1>2 DEF acquire, Tx!tx_acquire
  <2> QED
    BY <2>1, <2>2
<1>3. CASE arm
  BY <1>3 DEF arm
<1>4. CASE start
  BY <1>4 DEF start
<1>5. CASE disarm
  BY <1>5 DEF disarm
<1>6. CASE submit
  BY <1>6 DEF submit
<1>7. CASE wake_up
  BY <1>7 DEF wake_up
<1>8. CASE transfer_error
  BY <1>8 DEF transfer_error
<1> QED
  BY <1>1, <1>2, <1>3, <1>4, <1>5, <1>6, <1>7, <1>8 DEF link_thread

\* The edges of the base, and the interrupt at one of them, leave the buffers
\* alone; they end a transfer that has begun and nothing else.
LEMMA OwnedEdge ==
  ASSUME Owned, cs_fall \/ last_byte \/ cs_rise,
         xfer # "none" => pc = "transfer"
  PROVE  Owned' /\ Kept
<1> USE DEF Owned, Kept, DriverOwnsBuffer, tx_vars
<1>1. CASE cs_fall
  BY <1>1 DEF cs_fall, thread_vars
<1>2. CASE last_byte
  BY <1>2 DEF last_byte, complete
<1>3. CASE cs_rise
  BY <1>3 DEF cs_rise, cs_sense_isr, complete
<1> QED
  BY <1>1, <1>2, <1>3

\* The other threads publish into the buffer that is not on the wire.
LEMMA OwnedOther ==
  ASSUME Owned, other_threads \/ elapse
  PROVE  Owned' /\ Kept
<1> USE DEF Owned, Kept, DriverOwnsBuffer, thread_vars
<1>1. ASSUME NEW in \in Inputs, other_threads, Tx!snapshot_publish(in)
      PROVE  Owned' /\ Kept
  <2>1. armed' = armed /\ wire' = wire /\ pc' = pc /\ spi_armed' = spi_armed
    BY <1>1 DEF other_threads, Tx!snapshot_publish
  <2>2. Tx!staging # armed
    BY DEF Tx!staging
  <2>3. buf'[armed] = buf[armed]
    BY <1>1, <2>2 DEF Tx!snapshot_publish
  <2> QED
    BY <2>1, <2>3
<1>2. ASSUME NEW id \in Idents, other_threads, Tx!identity_set(id)
      PROVE  Owned' /\ Kept
  BY <1>2 DEF other_threads, Tx!identity_set
<1>3. ASSUME other_threads, Tx!stats_reset
      PROVE  Owned' /\ Kept
  BY <1>3 DEF other_threads, Tx!stats_reset
<1>4. CASE elapse
  BY <1>4 DEF elapse, Tx!elapse
<1> QED
  BY <1>1, <1>2, <1>3, <1>4 DEF other_threads

\* A transfer of the driver exists only while the thread waits for it.
TransferWaits == xfer # "none" => pc = "transfer"

\* Every step keeps it: only the thread's own arming begins a transfer, and the
\* thread leaves the wait together with the transfer.
LEMMA WaitsStep == ASSUME TransferWaits, [Next]_vars PROVE TransferWaits'
<1> USE DEF TransferWaits
<1>1. CASE link_run \/ link_thread \/ transfer_error
  BY <1>1 DEF link_run, link_thread, acquire, arm, start, disarm, submit,
              wake_up, transfer_error, base_vars
<1>2. CASE cs_fall
  BY <1>2 DEF cs_fall, thread_vars
<1>3. CASE last_byte
  BY <1>3 DEF last_byte, complete
<1>4. CASE cs_rise
  BY <1>4 DEF cs_rise, complete
<1>5. CASE other_threads \/ elapse \/ UNCHANGED vars
  BY <1>5 DEF other_threads, elapse, vars, thread_vars, base_vars
<1> QED
  BY <1>1, <1>2, <1>3, <1>4, <1>5 DEF Next

\* Every step keeps the invariant and the frame the driver reads.
LEMMA OwnedStep ==
  ASSUME Owned, TransferWaits, [Next]_vars
  PROVE  Owned' /\ (Kept \/ UNCHANGED vars)
<1>1. CASE UNCHANGED vars
  BY <1>1 DEF vars, tx_vars, thread_vars, Owned
<1> QED
  BY <1>1, OwnedThread, OwnedEdge, OwnedOther DEF Next, TransferWaits

-----------------------------------------------------------------------------
\* What the driver reads does not change, from arming to return.
THEOREM DriverBufferIsImmutable == Spec => TransferImmutable
<1>1. Init => Owned /\ TransferWaits
  BY DEF Init, Tx!Init, Owned, TransferWaits
<1>2. Owned /\ TransferWaits /\ [Next]_vars => Owned' /\ TransferWaits'
  BY OwnedStep, WaitsStep
<1>3. Owned /\ TransferWaits /\ [Next]_vars
        => [DriverOwnsBuffer => wire' = wire /\ buf'[wire] = buf[wire]]_vars
  BY OwnedStep DEF Kept
<1> QED
  BY <1>1, <1>2, <1>3, PTL DEF Spec, TransferImmutable

\* LINK_READY announces a transfer with a sealed, armed frame.
THEOREM ReadyIsHonest == Spec => []ReadyMeansArmed
<1>1. Init => Owned /\ TransferWaits
  BY DEF Init, Tx!Init, Owned, TransferWaits
<1>2. Owned /\ TransferWaits /\ [Next]_vars => Owned' /\ TransferWaits'
  BY OwnedStep, WaitsStep
<1>3. Owned => ReadyMeansArmed
  BY DEF Owned, ReadyMeansArmed
<1> QED
  BY <1>1, <1>2, <1>3, PTL DEF Spec

-----------------------------------------------------------------------------
(* The bench *)

One(condition) == IF condition THEN 1 ELSE 0

\* The thread has a result that it has not counted yet.
Owing == pc \in {"disarm", "submit"}

\* What is counted and what decides about it; the buffers are not looked at.
BenchTypes ==
  /\ pc \in {"boot", "acquire", "arm", "start", "transfer", "disarm", "submit",
             "backoff"}
  /\ ret \in {"full", "short", "error"}
  /\ {txn_count, crc_err_rx, short_frame, rearm_miss} \subseteq Nat
  /\ cs \in {"high", "low"}
  /\ xfer \in {"none", "idle", "whole", "part"}
  /\ txn \in {"served", "failed", "unserved"}
  /\ sim_pc \in {"sleep", "select", "clock", "verify"}
  /\ len \in {"short", "frame", "more"}
  /\ {clocked, corrupt, received, all_served} \subseteq BOOLEAN
  /\ {sim_txn, miso_err, faults_injected, ended, cut, spoiled, harmless, failures}
       \subseteq Nat

\* The driver has a transfer while the thread waits for it, the flag is up
\* around the transfer only, and chip select is the simulator's.
Coupled ==
  /\ xfer # "none" => pc = "transfer"
  /\ spi_armed <=> pc \in {"start", "transfer", "disarm"}
  /\ cs = "low" <=> sim_pc = "clock"

\* What is counted, with what the thread owes, has a transaction or a failure
\* of the driver to be counted for.
NotTwice ==
  txn_count + short_frame + rearm_miss + One(Owing) <= ended + failures

\* A counter that wraps never shows more than was counted.
LEMMA Modulus == ASSUME NEW c \in Nat PROVE Bump(c) \in Nat /\ Bump(c) <= c + 1
  <1>1. CounterMod \in Nat /\ CounterMod > 0
  BY SessionAssumption
<1> QED
  BY <1>1 DEF Bump

-----------------------------------------------------------------------------
\* Every step keeps the types.
LEMMA TypeStep ==
  ASSUME BenchTypes, [BenchNext]_bench_vars
  PROVE  BenchTypes'
<1> USE DEF BenchTypes, vars, tx_vars, thread_vars, rx_stats, isr_vars, base_vars,
        sim_vars, sim_stats, bench_history
<1>1. CASE run_transaction
  <2>1. len' \in {"short", "frame", "more"}
    BY <1>1 DEF run_transaction
  <2>2. corrupt' \in BOOLEAN
    BY <1>1 DEF run_transaction
  <2>3. {faults_injected', harmless'} \subseteq Nat
    BY <1>1 DEF run_transaction, add
  <2> QED
    BY <1>1, <2>1, <2>2, <2>3 DEF run_transaction
<1>2. CASE select
  BY <1>2 DEF select, cs_fall
<1>3. CASE clock
  BY <1>3 DEF clock, last_byte, complete
<1>4. CASE clock_more
  BY <1>4 DEF clock_more
<1>5. CASE deselect
  <2>1. {rearm_miss', ended', cut', spoiled'} \subseteq Nat
    BY <1>5, Modulus DEF deselect, cs_rise, cs_sense_isr, add
  <2>2. pc' \in {pc, "disarm"} /\ ret' \in {ret, "full", "short"} /\ xfer' \in {xfer, "none"}
    BY <1>5 DEF deselect, cs_rise, complete
  <2>3. {clocked', corrupt', received', all_served'} \subseteq BOOLEAN
    BY <1>5 DEF deselect, cs_rise
  <2> QED
    BY <1>5, <2>1, <2>2, <2>3 DEF deselect, cs_rise
<1>6. CASE verify
  <2>1. miso_err' \in {miso_err, miso_err + 1}
    BY <1>6 DEF verify
  <2>2. {faults_injected', harmless'} \subseteq Nat
    BY <1>6 DEF verify, pause, add
  <2>3. {clocked', corrupt', received', all_served'} \subseteq BOOLEAN
    BY <1>6 DEF verify, pause
  <2>4. {sim_txn', miso_err', faults_injected', ended', cut', spoiled', harmless',
         failures'} \subseteq Nat
    BY <1>6, <2>1, <2>2 DEF verify
  <2> QED
    BY <1>6, <2>3, <2>4 DEF verify, pause
<1>7. CASE transceive_fails
  <2>1. {faults_injected', harmless'} \subseteq Nat
    BY <1>7 DEF transceive_fails, pause, add
  <2> QED
    BY <1>7, <2>1 DEF transceive_fails, pause
<1>8. CASE \E kind \in Faults, n \in FaultNs : cmd_sim_fault(kind, n)
  BY <1>8 DEF cmd_sim_fault
<1>9. CASE rim
  <2>1. CASE rx_submit
    <3>1. {txn_count', crc_err_rx', short_frame', rearm_miss'} \subseteq Nat
      BY <2>1, Modulus DEF rx_submit, submit
    <3> QED
      BY <1>9, <2>1, <3>1 DEF rim, rx_submit, submit
  <2>2. CASE link_run \/ acquire \/ arm \/ start \/ disarm \/ wake_up
    BY <1>9, <2>2 DEF rim, rx_submit, submit, link_run, acquire, arm, start, disarm, wake_up
  <2> QED
    BY <1>9, <2>1, <2>2 DEF rim
<1>10. CASE rim_failure
  BY <1>10 DEF rim_failure, transfer_error
<1>11. CASE UNCHANGED bench_vars
  BY <1>11 DEF bench_vars
<1> QED
  BY <1>1, <1>2, <1>3, <1>4, <1>5, <1>6, <1>7, <1>8, <1>9, <1>10, <1>11
     DEF BenchNext, simulator

\* Every step keeps thread, driver and simulator in step.
LEMMA CoupledStep ==
  ASSUME BenchTypes, Coupled, [BenchNext]_bench_vars
  PROVE  Coupled'
<1> USE DEF Coupled, BenchTypes, vars, tx_vars, thread_vars, rx_stats, isr_vars,
        base_vars, sim_vars, sim_stats, bench_history
<1>1. CASE run_transaction
  BY <1>1 DEF run_transaction
<1>2. CASE select
  BY <1>2 DEF select, cs_fall
<1>3. CASE clock
  BY <1>3 DEF clock, last_byte, complete
<1>4. CASE clock_more
  BY <1>4 DEF clock_more
<1>5. CASE deselect
  BY <1>5 DEF deselect, cs_rise, complete
<1>6. CASE verify
  BY <1>6 DEF verify, pause
<1>7. CASE transceive_fails
  BY <1>7 DEF transceive_fails, pause
<1>8. CASE \E kind \in Faults, n \in FaultNs : cmd_sim_fault(kind, n)
  BY <1>8 DEF cmd_sim_fault
<1>9. CASE rim
  BY <1>9 DEF rim, rx_submit, submit, link_run, acquire, arm, start, disarm, wake_up
<1>10. CASE rim_failure
  BY <1>10 DEF rim_failure, transfer_error
<1>11. CASE UNCHANGED bench_vars
  BY <1>11 DEF bench_vars
<1> QED
  BY <1>1, <1>2, <1>3, <1>4, <1>5, <1>6, <1>7, <1>8, <1>9, <1>10, <1>11
     DEF BenchNext, simulator

\* The edge that ends a transaction pays for the one thing it causes: a miss
\* if no transfer is armed, else at most one result.
LEMMA NotTwiceStep ==
  ASSUME BenchTypes, Coupled, NotTwice, [BenchNext]_bench_vars, ~AtLastByte
  PROVE  NotTwice'
<1> USE DEF NotTwice, Owing, One, Coupled, BenchTypes, vars, tx_vars, thread_vars,
        rx_stats, isr_vars, base_vars, sim_vars, sim_stats, bench_history
<1>1. CASE run_transaction
  BY <1>1 DEF run_transaction
<1>2. CASE select
  BY <1>2 DEF select, cs_fall
<1>3. CASE clock
  BY <1>3 DEF clock, last_byte, complete
<1>4. CASE clock_more
  BY <1>4 DEF clock_more
<1>5. CASE deselect
  BY <1>5, Modulus DEF deselect, cs_rise, cs_sense_isr, complete
<1>6. CASE verify
  BY <1>6 DEF verify
<1>7. CASE transceive_fails
  BY <1>7 DEF transceive_fails
<1>8. CASE \E kind \in Faults, n \in FaultNs : cmd_sim_fault(kind, n)
  BY <1>8 DEF cmd_sim_fault
<1>9. CASE rim
  BY <1>9, Modulus DEF rim, rx_submit, submit, link_run, acquire, arm, start, disarm, wake_up
<1>10. CASE rim_failure
  BY <1>10 DEF rim_failure, transfer_error
<1>11. CASE UNCHANGED bench_vars
  BY <1>11 DEF bench_vars
<1> QED
  BY <1>1, <1>2, <1>3, <1>4, <1>5, <1>6, <1>7, <1>8, <1>9, <1>10, <1>11
     DEF BenchNext, simulator
\* A transaction has been composed and is not over.
Selected == sim_pc \in {"select", "clock"}

\* The simulator's own books: every fault counted is one of a kind, on its way,
\* cut, spoiled or harmless.
Session ==
  /\ sim_txn + One(sim_pc = "verify") = ended
  /\ ended + One(Selected) <= MaxTxn
  /\ corrupt => len # "short"
  /\ sim_pc = "clock" /\ len = "short" => ~clocked
  /\ cut + spoiled + harmless + One(Selected /\ (corrupt \/ len = "short"))
       = faults_injected

\* The rim's books as long as nothing was missed and no transfer failed, with
\* what the thread has still to count.
Agreed ==
  all_served /\ failures = 0 =>
    /\ sim_pc \in {"clock", "verify"} => txn = "served"
    /\ cs = "low" => xfer = "whole"
    /\ rearm_miss = 0 /\ miso_err = 0
    /\ txn_count + One(Owing /\ ret = "full") = ended - cut
    /\ short_frame + One(Owing /\ ret # "full") = cut
    /\ crc_err_rx + One(Owing /\ ret = "full" /\ received) = spoiled

-----------------------------------------------------------------------------
\* Every step keeps the simulator's books, whatever the rim does.
LEMMA SessionStep ==
  ASSUME BenchTypes, Coupled, Session, fault \in Faults, [BenchNext]_bench_vars
  PROVE  Session'
<1> USE DEF Session, Selected, One, Coupled, BenchTypes, vars, tx_vars, thread_vars,
        rx_stats, isr_vars, base_vars, sim_vars, sim_stats, bench_history
<1>m. MaxTxn \in Nat
  BY SessionAssumption
<1>1. CASE run_transaction
  <2>1. Injected => fault \in {"crc", "trunc", "extra", "jitter"}
    BY DEF Injected, Faults
  <2>2. len' = "short" <=> Injected /\ fault = "trunc"
    BY <1>1 DEF run_transaction
  <2>3. corrupt' <=> Injected /\ fault = "crc"
    BY <1>1 DEF run_transaction
  <2> QED
    BY <1>1, <1>m, <2>1, <2>2, <2>3 DEF run_transaction, add
<1>2. CASE select
  BY <1>2 DEF select, cs_fall
<1>3. CASE clock
  BY <1>3 DEF clock, last_byte, complete
<1>4. CASE clock_more
  BY <1>4 DEF clock_more
<1>5. CASE deselect
  BY <1>5, <1>m DEF deselect, cs_rise, add
<1>6. CASE verify
  BY <1>6 DEF verify, pause, add
<1>7. CASE transceive_fails
  <2>1. harmless' - faults_injected'
          = harmless - faults_injected + One(corrupt \/ len = "short")
    BY <1>7 DEF transceive_fails, pause, add
  <2>2. {harmless', faults_injected'} \subseteq Nat
    BY <1>7 DEF transceive_fails, pause, add
  <2>3. cut' + spoiled' + harmless' = faults_injected'
    <3>1. cut + spoiled + harmless + One(corrupt \/ len = "short") = faults_injected
      BY <1>7 DEF transceive_fails
    <3>2. cut' = cut /\ spoiled' = spoiled
      BY <1>7 DEF transceive_fails
    <3>3. {cut, spoiled, harmless, faults_injected, One(corrupt \/ len = "short")} \subseteq Nat
      OBVIOUS
    <3> HIDE DEF One, BenchTypes, Session
    <3> QED
      BY <2>1, <2>2, <3>1, <3>2, <3>3
  <2>4. sim_pc' = "sleep" /\ len' = "frame" /\ corrupt' = FALSE
    BY <1>7 DEF transceive_fails, pause
  <2>5. sim_txn' = ended' /\ ended' <= MaxTxn /\ {ended', cut', spoiled'} \subseteq Nat
    BY <1>7, <1>m DEF transceive_fails
  <2> QED
    BY <2>2, <2>3, <2>4, <2>5
<1>8. CASE \E kind \in Faults, n \in FaultNs : cmd_sim_fault(kind, n)
  BY <1>8 DEF cmd_sim_fault
<1>9. CASE rim
  BY <1>9 DEF rim, rx_submit, submit, link_run, acquire, arm, start, disarm, wake_up
<1>10. CASE rim_failure
  BY <1>10 DEF rim_failure, transfer_error
<1>11. CASE UNCHANGED bench_vars
  BY <1>11 DEF bench_vars
<1> QED
  BY <1>1, <1>2, <1>3, <1>4, <1>5, <1>6, <1>7, <1>8, <1>9, <1>10, <1>11
     DEF BenchNext, simulator

\* Every step keeps the books in agreement.
LEMMA AgreedStep ==
  ASSUME BenchTypes, Coupled, Session, Agreed, [BenchNext]_bench_vars, ~AtLastByte
  PROVE  Agreed'
<1> USE DEF Agreed, Owing, One, Coupled, BenchTypes, vars, tx_vars, thread_vars,
        rx_stats, isr_vars, base_vars, sim_vars, sim_stats, bench_history
<1>m. MaxTxn \in Nat /\ CounterMod \in Nat /\ CounterMod > 2 * MaxTxn
  BY SessionAssumption
<1>1. CASE run_transaction
  BY <1>1 DEF run_transaction
<1>2. CASE select
  BY <1>2 DEF select, cs_fall
<1>3. CASE clock
  BY <1>3 DEF clock, last_byte, complete
<1>4. CASE clock_more
  BY <1>4 DEF clock_more
<1>5. CASE deselect
  BY <1>5, <1>m DEF deselect, cs_rise, cs_sense_isr, complete, add, Session
<1>6. CASE verify
  BY <1>6 DEF verify, pause, add
<1>7. CASE transceive_fails
  BY <1>7 DEF transceive_fails, pause, add
<1>8. CASE \E kind \in Faults, n \in FaultNs : cmd_sim_fault(kind, n)
  BY <1>8 DEF cmd_sim_fault
<1>9. CASE rim
  <2>1. CASE rx_submit
    BY <1>9, <2>1, <1>m, Modulus DEF rim, rx_submit, submit, Bump, add, Session
  <2>2. CASE link_run \/ acquire \/ arm \/ start \/ disarm \/ wake_up
    BY <1>9, <2>2 DEF rim, rx_submit, submit, link_run, acquire, arm, start, disarm, wake_up
  <2> QED
    BY <1>9, <2>1, <2>2 DEF rim
<1>10. CASE rim_failure
  BY <1>10 DEF rim_failure, transfer_error
<1>11. CASE UNCHANGED bench_vars
  BY <1>11 DEF bench_vars
<1> QED
  BY <1>1, <1>2, <1>3, <1>4, <1>5, <1>6, <1>7, <1>8, <1>9, <1>10, <1>11
     DEF BenchNext, simulator

-----------------------------------------------------------------------------
BenchInv == BenchTypes /\ Coupled /\ NotTwice /\ Session /\ Agreed /\ fault \in Faults

\* The invariant holds in the first state and is kept by every step.
LEMMA Initially == BenchInit => BenchInv
<1> SUFFICES ASSUME BenchInit PROVE BenchInv
  OBVIOUS
<1> USE DEF BenchInit, Init, Tx!Init
<1>1. MaxTxn \in Nat
  BY SessionAssumption
<1>2. BenchTypes
  <2>1. {clocked, corrupt, received, all_served} \subseteq BOOLEAN
    OBVIOUS
  <2> QED
    BY <2>1 DEF BenchTypes
<1>3. Coupled /\ NotTwice /\ fault \in Faults
  BY DEF Coupled, NotTwice, Owing, One, Faults
<1>4. Session /\ Agreed
  BY <1>1 DEF Session, Selected, Agreed, Owing, One
<1> QED
  BY <1>2, <1>3, <1>4 DEF BenchInv

\* BenchInv is inductive: the simulator, the clock and the rim each keep the
\* bookkeeping of the transaction that is under way.
LEMMA Inductive ==
  ASSUME BenchInv, [BenchNext]_bench_vars, ~AtLastByte
  PROVE  BenchInv'
<1>1. fault' \in Faults
  BY DEF BenchInv, BenchNext, simulator, run_transaction, select, clock, clock_more,
         deselect, verify, transceive_fails, cmd_sim_fault, rim, rim_failure,
         bench_vars, sim_vars
<1> QED
  BY <1>1, TypeStep, CoupledStep, NotTwiceStep, SessionStep, AgreedStep DEF BenchInv

\* Between two transactions, with none missed and no transfer failed, the
\* thread owes nothing and every fault is accounted for.
LEMMA AtRest == ASSUME BenchInv PROVE Reconciles
<1> SUFFICES ASSUME Rest, all_served, failures = 0
             PROVE  /\ sim_txn = ended
                    /\ txn_count = ended - cut
                    /\ short_frame = cut
                    /\ crc_err_rx = spoiled
                    /\ rearm_miss = 0 /\ miso_err = 0
                    /\ crc_err_rx + short_frame + harmless = faults_injected
  BY DEF Reconciles
<1>1. ~Owing /\ ~Selected /\ sim_pc # "verify"
  BY DEF Rest, Owing, Selected
<1> QED
  BY <1>1 DEF BenchInv, BenchTypes, Session, Agreed, One

\* No transaction is counted twice, however late the rim re-arms.
THEOREM CountsOnce == ~AtLastByte /\ BenchSpec => []CountedOnce
<1> SUFFICES ASSUME ~AtLastByte PROVE BenchSpec => []CountedOnce
  OBVIOUS
<1>1. BenchInv => CountedOnce
  BY DEF BenchInv, BenchTypes, NotTwice, One, CountedOnce
<1>2. BenchInv /\ [BenchNext]_bench_vars => BenchInv'
  BY Inductive
<1> QED
  BY Initially, <1>1, <1>2, PTL DEF BenchSpec

\* Simulator and rim reconcile: as many transactions, as many of each fault.
THEOREM BooksReconcile == ~AtLastByte /\ BenchSpec => []Reconciles
<1> SUFFICES ASSUME ~AtLastByte PROVE BenchSpec => []Reconciles
  OBVIOUS
<1>1. BenchInv => Reconciles
  BY AtRest
<1>2. BenchInv /\ [BenchNext]_bench_vars => BenchInv'
  BY Inductive
<1> QED
  BY Initially, <1>1, <1>2, PTL DEF BenchSpec
=============================================================================
