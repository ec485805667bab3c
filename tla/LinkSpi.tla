------------------------------- MODULE LinkSpi -------------------------------
(***************************************************************************)
(* The SPI-slave link thread (app/src/link_spi.c) around the TX double     *)
(* buffer: acquire, arm, transceive, disarm, submit, again; the CS-sense   *)
(* interrupt; and the base that drives chip select and clocks the bytes.   *)
(*                                                                         *)
(* link_thread is the highest cooperative thread: between two blocking     *)
(* calls no other thread runs, only interrupts do.  Other threads act      *)
(* while it blocks (Blocked), or is ready behind another cooperative       *)
(* thread; the CS edges come at any step.  spi_transceive is the driver's: *)
(* a transfer armed before CS falls receives the transaction from its      *)
(* first byte; one armed later, or cut by CS, ends short.  Whether a full  *)
(* transfer completes with byte 33 or with the CS edge that follows it is  *)
(* AtLastByte.                                                             *)
(*                                                                         *)
(* The queue behind a valid frame is module RxQueue: it never blocks the   *)
(* link thread, and here a submit shows by its counters only.              *)
(***************************************************************************)
EXTENDS Integers

CONSTANTS Inputs, Neutral, Idents, STALE_MS, CounterMod, NoFrame,
  AtLastByte      \* a full transfer completes before CS rises

ASSUME AtLastByteAssumption == AtLastByte \in BOOLEAN

VARIABLES
  buf, armed, fresh, stale_cleared, silence, stale_clear, current_id, wire,
  pc,             \* what link_thread does next
  spi_armed,      \* the atomic `armed` of link_spi.c, and LINK_READY with it
  boot_ready,     \* boot_ready_cyc is set
  ret,            \* what spi_transceive returned
  txn_count,      \* lnk.stats, as TxBuffer's stale_clear
  crc_err_rx,
  short_frame,
  rearm_miss,
  err_led,        \* the latched error LED
  \* The base
  cs,             \* chip select
  clocked,        \* all 33 bytes of this transaction were clocked
  xfer,           \* what the driver's transfer has seen of the transaction
  base_in,        \* the inputs of the last intact frame the base received
  \* History
  txn             \* how the rim met the transaction that CS frames

Tx == INSTANCE TxBuffer

tx_vars == <<buf, armed, fresh, stale_cleared, silence, stale_clear,
             current_id, wire>>
thread_vars == <<pc, spi_armed, boot_ready, ret>>
rx_stats == <<txn_count, crc_err_rx, short_frame>>
isr_vars == <<rearm_miss, err_led>>
base_vars == <<cs, clocked, xfer, base_in, txn>>
vars == <<tx_vars, thread_vars, rx_stats, isr_vars, base_vars>>

Bump(c) == (c + 1) % CounterMod

TypeOK ==
  /\ Tx!TypeOK
  /\ pc \in {"boot", "acquire", "arm", "start", "transfer", "disarm", "submit",
             "backoff"}
  /\ spi_armed \in BOOLEAN
  /\ boot_ready \in BOOLEAN
  /\ ret \in {"full", "short", "error"}
  /\ {txn_count, crc_err_rx, short_frame, rearm_miss} \subseteq
       0..(CounterMod - 1)
  /\ err_led \in BOOLEAN
  /\ cs \in {"high", "low"}
  /\ clocked \in BOOLEAN
  /\ xfer \in {"none", "idle", "whole", "part"}
  /\ base_in \in Inputs
  /\ txn \in {"served", "failed", "unserved"}

Init ==
  /\ Tx!Init
  /\ pc = "boot"
  /\ spi_armed = FALSE
  /\ boot_ready = FALSE
  /\ ret = "short"
  /\ txn_count = 0
  /\ crc_err_rx = 0
  /\ short_frame = 0
  /\ rearm_miss = 0
  /\ err_led = FALSE
  /\ cs = "high"
  /\ clocked = FALSE
  /\ xfer = "none"
  /\ base_in = Neutral
  /\ txn = "unserved"

-----------------------------------------------------------------------------
(* link_thread *)

\* link_spi_init has wired the ISR and gives link_run.
link_run ==
  /\ pc = "boot"
  /\ pc' = "acquire"
  /\ UNCHANGED <<tx_vars, spi_armed, boot_ready, ret, rx_stats, isr_vars,
                 base_vars>>

acquire ==
  /\ pc = "acquire"
  /\ Tx!tx_acquire
  /\ pc' = "arm"
  /\ UNCHANGED <<spi_armed, boot_ready, ret, rx_stats, isr_vars, base_vars>>

arm ==
  /\ pc = "arm"
  /\ spi_armed' = TRUE
  /\ boot_ready' = TRUE
  /\ pc' = "start"
  /\ UNCHANGED <<tx_vars, ret, rx_stats, isr_vars, base_vars>>

\* The driver has the buffer; the thread blocks.
start ==
  /\ pc = "start"
  /\ pc' = "transfer"
  /\ xfer' = "idle"
  /\ UNCHANGED <<tx_vars, spi_armed, boot_ready, ret, rx_stats, isr_vars,
                 cs, clocked, base_in, txn>>

\* The driver fails the transfer.
transfer_error ==
  /\ pc = "transfer"
  /\ pc' = "disarm"
  /\ ret' = "error"
  /\ xfer' = "none"
  /\ txn' = IF xfer = "whole" THEN "failed" ELSE txn
  /\ UNCHANGED <<tx_vars, spi_armed, boot_ready, rx_stats, isr_vars,
                 cs, clocked, base_in>>

disarm ==
  /\ pc = "disarm"
  /\ spi_armed' = FALSE
  /\ pc' = "submit"
  /\ UNCHANGED <<tx_vars, boot_ready, ret, rx_stats, isr_vars, base_vars>>

\* Mutant: a transaction is counted before its length is looked at.
submit_counts_short ==
  /\ pc = "submit"
  /\ txn_count' = Bump(txn_count)
  /\ \/ /\ ret = "full"
        /\ crc_err_rx' \in {crc_err_rx, Bump(crc_err_rx)}
        /\ pc' = "acquire"
        /\ UNCHANGED short_frame
     \/ /\ ret # "full"
        /\ short_frame' = Bump(short_frame)
        /\ pc' = IF ret = "error" THEN "backoff" ELSE "acquire"
        /\ UNCHANGED crc_err_rx
  /\ UNCHANGED <<tx_vars, spi_armed, boot_ready, ret, isr_vars, base_vars>>

\* rimlink_rx_submit: a full transfer is a transaction, with a matching CRC or
\* not; anything less is a short frame, and an error also sleeps for 1 ms.
submit ==
  /\ pc = "submit"
  /\ \/ /\ ret = "full"
        /\ txn_count' = Bump(txn_count)
        /\ crc_err_rx' \in {crc_err_rx, Bump(crc_err_rx)}
        /\ pc' = "acquire"
        /\ UNCHANGED short_frame
     \/ /\ ret # "full"
        /\ short_frame' = Bump(short_frame)
        /\ pc' = IF ret = "error" THEN "backoff" ELSE "acquire"
        /\ UNCHANGED <<txn_count, crc_err_rx>>
  /\ UNCHANGED <<tx_vars, spi_armed, boot_ready, ret, isr_vars, base_vars>>

wake_up ==
  /\ pc = "backoff"
  /\ pc' = "acquire"
  /\ UNCHANGED <<tx_vars, spi_armed, boot_ready, ret, rx_stats, isr_vars,
                 base_vars>>

link_thread == acquire \/ arm \/ start \/ disarm \/ submit \/ wake_up

-----------------------------------------------------------------------------
(* The base, and what each edge does to a transfer in progress *)

\* The base starts a transaction, whether or not the rim is ready.
cs_fall ==
  /\ cs = "high"
  /\ cs' = "low"
  /\ clocked' = FALSE
  /\ IF xfer = "idle" THEN xfer' = "whole" /\ txn' = "served"
                      ELSE txn' = "unserved" /\ UNCHANGED xfer
  /\ UNCHANGED <<tx_vars, thread_vars, rx_stats, isr_vars, base_in>>

\* The transfer completes with the given result and wakes the thread.
complete(result) ==
  /\ pc' = "disarm"
  /\ ret' = result
  /\ xfer' = "none"

\* The base has clocked byte 33.  If the rim served the whole transaction
\* the base holds the frame on the wire.
last_byte ==
  /\ cs = "low"
  /\ ~clocked
  /\ clocked' = TRUE
  /\ base_in' = IF xfer = "whole" THEN buf[wire].in ELSE base_in
  /\ \/ xfer = "whole" /\ AtLastByte /\ complete("full")
     \/ xfer = "whole" /\ ~AtLastByte /\ UNCHANGED <<pc, ret, xfer>>
     \/ xfer = "idle" /\ xfer' = "part" /\ UNCHANGED <<pc, ret>>
     \/ xfer = "none" /\ UNCHANGED <<pc, ret, xfer>>
  /\ UNCHANGED <<tx_vars, spi_armed, boot_ready, rx_stats, isr_vars, cs, txn>>

\* Mutant: the interrupt re-arms the buffer itself while the transfer it
\* ends, or the next, still reads it.
cs_sense_isr_acquires ==
  /\ IF spi_armed THEN UNCHANGED isr_vars
                  ELSE rearm_miss' = Bump(rearm_miss) /\ err_led' = TRUE
  /\ Tx!tx_acquire

\* Mutant: the test of the flag is inverted.
cs_sense_isr_inverted ==
  /\ IF ~spi_armed THEN UNCHANGED isr_vars
                   ELSE rearm_miss' = Bump(rearm_miss) /\ err_led' = TRUE
  /\ UNCHANGED tx_vars

\* The interrupt at the rising edge: no transfer armed counts as a miss.
cs_sense_isr ==
  /\ IF spi_armed THEN UNCHANGED isr_vars
                  ELSE rearm_miss' = Bump(rearm_miss) /\ err_led' = TRUE
  /\ UNCHANGED tx_vars

\* CS rises, after 33 bytes or before.  A transfer that has seen bytes ends
\* here: full if it saw them all, else short.  The interrupt runs before the
\* thread the driver wakes.
cs_rise ==
  /\ cs = "low"
  /\ cs' = "high"
  /\ cs_sense_isr
  /\ \/ xfer = "whole" /\ complete(IF clocked THEN "full" ELSE "short")
     \/ xfer = "part" /\ complete("short")
     \/ xfer = "idle" /\ ~clocked /\ complete("short")
     \/ xfer \in {"none", "idle"} /\ UNCHANGED <<pc, ret, xfer>>
  /\ UNCHANGED <<spi_armed, boot_ready, rx_stats, clocked, base_in, txn>>

-----------------------------------------------------------------------------
(* The other threads *)

\* Other threads run while link_thread blocks, or has been woken and waits
\* for a cooperative thread to block.
Blocked == pc \in {"boot", "transfer", "disarm", "backoff"}

other_threads ==
  /\ Blocked
  /\ \/ (\E in \in Inputs : Tx!snapshot_publish(in)) /\ UNCHANGED <<rx_stats, rearm_miss>>
     \/ (\E id \in Idents : Tx!identity_set(id)) /\ UNCHANGED <<rx_stats, rearm_miss>>
     \/ /\ Tx!stats_reset
        /\ txn_count' = 0
        /\ crc_err_rx' = 0
        /\ short_frame' = 0
        /\ rearm_miss' = 0
  /\ UNCHANGED <<thread_vars, err_led, base_vars>>

elapse ==
  /\ Tx!elapse
  /\ UNCHANGED <<thread_vars, rx_stats, isr_vars, base_vars>>

Next ==
  \/ link_run
  \/ link_thread
  \/ transfer_error
  \/ cs_fall
  \/ last_byte
  \/ cs_rise
  \/ other_threads
  \/ elapse

Spec == Init /\ [][Next]_vars

\* link_spi_init gives link_run, and the link thread runs when it can: it has
\* the highest priority.
Fairness == WF_vars(link_run) /\ WF_vars(link_thread)

FairSpec == Spec /\ Fairness

-----------------------------------------------------------------------------
(* Properties *)

DriverOwnsBuffer == pc \in {"arm", "start", "transfer"}

\* While the driver owns the buffer (from the arming of the transfer until it
\* returns) not a byte of it changes and it is not exchanged.
TransferImmutable ==
  [][DriverOwnsBuffer => wire' = wire /\ buf'[wire] = buf[wire]]_vars

\* LINK_READY is up only around a transfer that has a sealed, armed frame.
ReadyMeansArmed ==
  spi_armed => wire = armed /\ pc \in {"start", "transfer", "disarm"}

\* A transaction the rim served is not counted as a re-arm miss, which
\* link_spi.c:117 explains as "the previous frame repeated".
MissIsReal == [][cs_rise /\ txn = "served" => rearm_miss' = rearm_miss]_vars

\* A transaction that began with no transfer ready is counted when it ends:
\* rimlink.h:204 has rearm_miss count "CS fell before re-arm completed".
MissIsCounted ==
  [][cs_rise /\ txn = "unserved" => rearm_miss' # rearm_miss]_vars

\* The base clocks whole frames out of an armed rim, again and again.
BasePolls == []<><<last_byte /\ xfer = "whole">>_vars

\* Fail quiet: if the input side falls silent for good, a base that polls ends
\* up with no input active and stays there, whatever was pressed, armed or
\* still unsent, whatever transfers fail or are cut short in between.
FailQuiet == BasePolls /\ <>[](silence > STALE_MS) => <>[](base_in = Neutral)
=============================================================================
