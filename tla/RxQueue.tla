------------------------------ MODULE RxQueue ------------------------------
(***************************************************************************)
(* The RX half of the rimlink adapter (lib/rimlink/rimlink_link.c): the    *)
(* link thread submits every received transfer, valid ones enter a bounded *)
(* queue that drops its oldest element when full, and a work item on the   *)
(* system workqueue passes them to the rx callback.                        *)
(*                                                                         *)
(* The link thread and the workqueue are cooperative threads, so a submit  *)
(* meets the handler only while the callback blocks on its peripherals:    *)
(* the handler is split there and nowhere else.  Valid frames are numbered *)
(* 1, 2, ... in the order they arrive.                                     *)
(***************************************************************************)
EXTENDS Integers, Sequences

CONSTANTS
  QDEPTH,         \* depth of rimlink_rx_msgq (4)
  MaxFrames       \* bound on valid frames, and on each error counter

ASSUME DepthAssumption == QDEPTH \in Nat \ {0}
ASSUME FramesAssumption == MaxFrames \in Nat

VARIABLES
  rx_msgq,        \* numbers of the queued frames, oldest first
  work_pending,   \* rimlink_rx_work is queued on the system workqueue
  in_callback,    \* rx_work_handler is inside lnk.cfg.rx_cb
  applied,        \* number of the last frame passed to rx_cb, 0 if none
  txn_count,      \* lnk.stats: complete transactions
  crc_err_rx,     \* lnk.stats: frames whose CRC did not match
  short_frame,    \* lnk.stats: transfers of fewer than 33 bytes
  overrun,        \* lnk.stats: frames dropped from the full queue
  \* History
  arrivals,       \* valid frames received
  delivered,      \* calls of rx_cb
  lost_at_reset   \* frames lost when the counters were last reset

queue_vars == <<rx_msgq, work_pending, in_callback, applied, delivered>>
stats == <<txn_count, crc_err_rx, short_frame, overrun>>
vars == <<queue_vars, stats, arrivals, lost_at_reset>>

TypeOK ==
  /\ rx_msgq \in Seq(Nat)
  /\ work_pending \in BOOLEAN
  /\ in_callback \in BOOLEAN
  /\ applied \in Nat
  /\ txn_count \in Nat
  /\ crc_err_rx \in Nat
  /\ short_frame \in Nat
  /\ overrun \in Nat
  /\ arrivals \in 0..MaxFrames
  /\ delivered \in Nat
  /\ lost_at_reset \in Nat

Init ==
  /\ rx_msgq = <<>>
  /\ work_pending = FALSE
  /\ in_callback = FALSE
  /\ applied = 0
  /\ txn_count = 0
  /\ crc_err_rx = 0
  /\ short_frame = 0
  /\ overrun = 0
  /\ arrivals = 0
  /\ delivered = 0
  /\ lost_at_reset = 0

-----------------------------------------------------------------------------
(* rimlink_rx_submit, one action per outcome *)

submit_short ==
  /\ short_frame < MaxFrames
  /\ short_frame' = short_frame + 1
  /\ UNCHANGED <<queue_vars, txn_count, crc_err_rx, overrun, arrivals, lost_at_reset>>

submit_crc_error ==
  /\ crc_err_rx < MaxFrames
  /\ txn_count' = txn_count + 1
  /\ crc_err_rx' = crc_err_rx + 1
  /\ UNCHANGED <<queue_vars, short_frame, overrun, arrivals, lost_at_reset>>

full == Len(rx_msgq) = QDEPTH

\* Mutant: a full queue refuses the newest frame instead of the oldest.
enqueue_drop_newest(n) == IF full THEN rx_msgq ELSE Append(rx_msgq, n)

\* Drop the oldest, keep the newest.
enqueue(n) == Append(IF full THEN Tail(rx_msgq) ELSE rx_msgq, n)

\* Mutant: the work item is submitted only when frames waited already.
submit_valid_no_wakeup ==
  /\ arrivals < MaxFrames
  /\ arrivals' = arrivals + 1
  /\ rx_msgq' = enqueue(arrivals + 1)
  /\ work_pending' = (work_pending \/ rx_msgq # <<>>)
  /\ txn_count' = txn_count + 1
  /\ overrun' = IF full THEN overrun + 1 ELSE overrun
  /\ UNCHANGED <<in_callback, applied, delivered, crc_err_rx, short_frame,
                 lost_at_reset>>

submit_valid ==
  /\ arrivals < MaxFrames
  /\ arrivals' = arrivals + 1
  /\ rx_msgq' = enqueue(arrivals + 1)
  /\ work_pending' = TRUE
  /\ txn_count' = txn_count + 1
  /\ overrun' = IF full THEN overrun + 1 ELSE overrun
  /\ UNCHANGED <<in_callback, applied, delivered, crc_err_rx, short_frame,
                 lost_at_reset>>

rx_submit == submit_short \/ submit_crc_error \/ submit_valid

-----------------------------------------------------------------------------
(* rx_work_handler on the system workqueue *)

\* Mutant: the frame is peeked at and stays in the queue.
take_next_peeks ==
  \/ /\ rx_msgq # <<>>
     /\ applied' = Head(rx_msgq)
     /\ delivered' = delivered + 1
     /\ in_callback' = TRUE
     /\ UNCHANGED rx_msgq
  \/ /\ rx_msgq = <<>>
     /\ in_callback' = FALSE
     /\ UNCHANGED <<applied, rx_msgq, delivered>>

\* One pass of the loop: take the oldest frame into the callback, or end.
take_next ==
  \/ /\ rx_msgq # <<>>
     /\ applied' = Head(rx_msgq)
     /\ rx_msgq' = Tail(rx_msgq)
     /\ delivered' = delivered + 1
     /\ in_callback' = TRUE
  \/ /\ rx_msgq = <<>>
     /\ in_callback' = FALSE
     /\ UNCHANGED <<applied, rx_msgq, delivered>>

work_start ==
  /\ work_pending
  /\ ~in_callback
  /\ work_pending' = FALSE
  /\ take_next
  /\ UNCHANGED <<stats, arrivals, lost_at_reset>>

\* Mutant: the handler takes one frame and leaves the rest queued.
callback_returns_no_loop ==
  /\ in_callback
  /\ in_callback' = FALSE
  /\ UNCHANGED <<rx_msgq, applied, delivered, work_pending, stats, arrivals,
                 lost_at_reset>>

callback_returns ==
  /\ in_callback
  /\ take_next
  /\ UNCHANGED <<work_pending, stats, arrivals, lost_at_reset>>

-----------------------------------------------------------------------------
(* rimlink_stats_reset, from the shell *)

stats_reset ==
  /\ txn_count' = 0
  /\ crc_err_rx' = 0
  /\ short_frame' = 0
  /\ overrun' = 0
  /\ lost_at_reset' = arrivals - delivered - Len(rx_msgq)
  /\ UNCHANGED <<queue_vars, arrivals>>

Next == rx_submit \/ work_start \/ callback_returns \/ stats_reset

workqueue == work_start \/ callback_returns

Spec == Init /\ [][Next]_vars

\* The system workqueue is scheduled whenever it has work, and callbacks end.
FairSpec == Spec /\ WF_vars(workqueue)

-----------------------------------------------------------------------------
(* Properties *)

Increasing(s) == \A i, j \in 1..Len(s) : i < j => s[i] < s[j]

\* Outputs are applied in the order the base sent them: whatever is dropped,
\* no queued frame is older than one already applied, and the queue is sorted.
InOrder ==
  /\ Increasing(rx_msgq)
  /\ \A i \in 1..Len(rx_msgq) : applied < rx_msgq[i]

\* The newest valid frame is never the one that is dropped: it is the last of
\* the queue or was applied.  Displays end on what the base sent last.
NewestKept ==
  IF rx_msgq = <<>> THEN applied = arrivals
                    ELSE rx_msgq[Len(rx_msgq)] = arrivals

\* The overrun counter is exactly the number of valid frames the callback
\* never saw nor will see since the counters were reset.
OverrunIsLoss ==
  arrivals = delivered + Len(rx_msgq) + lost_at_reset + overrun

\* No wake-up is lost: a queued frame always has a handler coming for it.
NoLostWakeup == rx_msgq # <<>> => work_pending \/ in_callback

\* Whatever arrives is applied, or something newer is.
EventuallyApplied ==
  \A n \in 1..MaxFrames : arrivals = n ~> applied >= n
=============================================================================
