--------------------------- MODULE RxQueue_proofs ---------------------------
(***************************************************************************)
(* Proofs about RxQueue, for every queue depth.  IInv is inductive: order  *)
(* (InOrder) needs the newest frame to be the last of the queue            *)
(* (NewestKept), so that the next frame goes behind larger numbers only;   *)
(* the loss carried over a reset needs the accounting of OverrunIsLoss to be  *)
(* a natural number.                                                       *)
(***************************************************************************)
EXTENDS RxQueue, TLAPS

Bounded == Len(rx_msgq) <= QDEPTH

IInv ==
  /\ TypeOK
  /\ Bounded
  /\ InOrder
  /\ NewestKept
  /\ OverrunIsLoss
  /\ NoLostWakeup

-----------------------------------------------------------------------------
(* Two facts about the queue operations, whatever the queue holds. *)

\* Dropping the head of a sorted queue leaves a sorted queue, all of it behind
\* the dropped element (k_msgq_get).
LEMMA TailSorted ==
  ASSUME NEW q \in Seq(Nat), q # <<>>, Increasing(q)
  PROVE  /\ Tail(q) \in Seq(Nat)
         /\ Len(Tail(q)) = Len(q) - 1
         /\ Increasing(Tail(q))
         /\ \A i \in 1..Len(Tail(q)) : Tail(q)[i] = q[i + 1] /\ Head(q) < Tail(q)[i]
<1>1. /\ Tail(q) \in Seq(Nat)
      /\ Len(Tail(q)) = Len(q) - 1
      /\ \A i \in 1..Len(Tail(q)) : Tail(q)[i] = q[i + 1]
      /\ Head(q) = q[1]
      /\ Len(q) \in Nat /\ Len(q) >= 1
  OBVIOUS
<1>2. \A i \in 1..Len(Tail(q)) : i + 1 \in 1..Len(q)
  BY <1>1
<1>3. Increasing(Tail(q))
  BY <1>1, <1>2 DEF Increasing
<1>4. \A i \in 1..Len(Tail(q)) : q[1] < q[i + 1]
  BY <1>1, <1>2 DEF Increasing
<1> QED
  BY <1>1, <1>3, <1>4

\* Appending a number larger than every element keeps a queue sorted
\* (k_msgq_put).
LEMMA AppendSorted ==
  ASSUME NEW q \in Seq(Nat), NEW n \in Nat, Increasing(q),
         \A i \in 1..Len(q) : q[i] < n
  PROVE  /\ Append(q, n) \in Seq(Nat)
         /\ Len(Append(q, n)) = Len(q) + 1
         /\ Append(q, n)[Len(q) + 1] = n
         /\ \A i \in 1..Len(q) : Append(q, n)[i] = q[i]
         /\ Increasing(Append(q, n))
<1>1. /\ Append(q, n) \in Seq(Nat)
      /\ Len(Append(q, n)) = Len(q) + 1
      /\ Append(q, n)[Len(q) + 1] = n
      /\ \A i \in 1..Len(q) : Append(q, n)[i] = q[i]
      /\ Len(q) \in Nat
  OBVIOUS
<1>2. ASSUME NEW i \in 1..(Len(q) + 1), NEW j \in 1..(Len(q) + 1), i < j
      PROVE  Append(q, n)[i] < Append(q, n)[j]
  <2>1. i \in 1..Len(q)
    BY <1>1, <1>2
  <2>2. CASE j \in 1..Len(q)
    BY <1>1, <1>2, <2>1, <2>2 DEF Increasing
  <2>3. CASE j = Len(q) + 1
    BY <1>1, <2>1, <2>3
  <2> QED
    BY <1>1, <2>2, <2>3
<1> QED
  BY <1>1, <1>2 DEF Increasing

-----------------------------------------------------------------------------
\* What the invariant says of the numbers in the queue.
LEMMA QueueNumbers ==
  ASSUME IInv
  PROVE  /\ rx_msgq \in Seq(Nat)
         /\ Increasing(rx_msgq)
         /\ \A i \in 1..Len(rx_msgq) : applied < rx_msgq[i] /\ rx_msgq[i] <= arrivals
         /\ applied <= arrivals
<1>1. rx_msgq \in Seq(Nat) /\ Len(rx_msgq) \in Nat /\ arrivals \in Nat
  BY DEF IInv, TypeOK
<1>2. /\ Increasing(rx_msgq)
      /\ \A i \in 1..Len(rx_msgq) : applied < rx_msgq[i]
      /\ applied \in Nat
  BY DEF IInv, InOrder, TypeOK
<1>3. ASSUME NEW i \in 1..Len(rx_msgq)
      PROVE  rx_msgq[i] <= arrivals
  <2>1. rx_msgq # <<>> /\ Len(rx_msgq) \in 1..Len(rx_msgq)
    BY <1>1, <1>3
  <2>2. rx_msgq[Len(rx_msgq)] = arrivals
    BY <2>1 DEF IInv, NewestKept
  <2>3. i < Len(rx_msgq) => rx_msgq[i] < rx_msgq[Len(rx_msgq)]
    BY <1>1, <1>2, <1>3, <2>1 DEF Increasing
  <2>4. i = Len(rx_msgq) \/ i < Len(rx_msgq)
    BY <1>1, <1>3
  <2> QED
    BY <1>1, <1>3, <2>2, <2>3, <2>4
<1>4. applied <= arrivals
  <2>1. CASE rx_msgq = <<>>
    BY <1>1, <1>2, <2>1 DEF IInv, NewestKept
  <2>2. CASE rx_msgq # <<>>
    BY <1>1, <1>2, <1>3, <2>2
  <2> QED
    BY <2>1, <2>2
<1> QED
  BY <1>1, <1>2, <1>3, <1>4

\* A valid frame enters a sorted queue at its end, full or not
\* (rimlink_rx_submit).
LEMMA SubmitValid ==
  ASSUME IInv, submit_valid
  PROVE  IInv'
<1> DEFINE room == IF full THEN Tail(rx_msgq) ELSE rx_msgq
           n == arrivals + 1
<1>1. /\ TypeOK /\ Bounded /\ OverrunIsLoss
      /\ Len(rx_msgq) \in Nat /\ arrivals \in Nat /\ n \in 0..MaxFrames
      /\ applied \in Nat
  BY FramesAssumption DEF IInv, TypeOK, submit_valid
<1>2. rx_msgq' = Append(room, n) /\ arrivals' = n
  BY DEF submit_valid, enqueue
<1>3. full => rx_msgq # <<>>
  BY DepthAssumption DEF full
<1>4. /\ room \in Seq(Nat)
      /\ Increasing(room)
      /\ \A i \in 1..Len(room) : applied < room[i] /\ room[i] < n
      /\ Len(room) = IF full THEN Len(rx_msgq) - 1 ELSE Len(rx_msgq)
  <2>1. CASE ~full
    BY <1>1, <2>1, QueueNumbers
  <2>2. CASE full
    <3>1. /\ room = Tail(rx_msgq)
          /\ Len(room) = Len(rx_msgq) - 1
          /\ room \in Seq(Nat) /\ Increasing(room)
          /\ \A i \in 1..Len(room) : room[i] = rx_msgq[i + 1]
      BY <1>3, <2>2, QueueNumbers, TailSorted
    <3>2. \A i \in 1..Len(room) : i + 1 \in 1..Len(rx_msgq)
      BY <1>1, <3>1
    <3>3. \A i \in 1..Len(room) : applied < room[i] /\ room[i] <= arrivals
      BY <3>1, <3>2, QueueNumbers
    <3> QED
      BY <1>1, <2>2, <3>1, <3>3
  <2> QED
    BY <2>1, <2>2
<1>5. /\ rx_msgq' \in Seq(Nat)
      /\ Len(rx_msgq') = Len(room) + 1
      /\ rx_msgq'[Len(room) + 1] = n
      /\ \A i \in 1..Len(room) : rx_msgq'[i] = room[i]
      /\ Increasing(rx_msgq')
  <2> HIDE DEF room, n
  <2>1. n \in Nat /\ \A i \in 1..Len(room) : room[i] < n
    BY <1>1, <1>4
  <2> QED
    BY <1>2, <1>4, <2>1, AppendSorted
<1> HIDE DEF room
<1>6. \A i \in 1..Len(rx_msgq') : applied < rx_msgq'[i]
  <2> SUFFICES ASSUME NEW i \in 1..Len(rx_msgq')
               PROVE  applied < rx_msgq'[i]
    OBVIOUS
  <2>1. Len(room) \in Nat
    BY <1>4
  <2>2. CASE i = Len(room) + 1
    BY <1>1, <1>5, <2>2, QueueNumbers
  <2>3. CASE i \in 1..Len(room)
    BY <1>4, <1>5, <2>3
  <2> QED
    BY <1>5, <2>1, <2>2, <2>3
<1>7. InOrder'
  BY <1>5, <1>6 DEF InOrder, submit_valid
<1>8. NewestKept'
  BY <1>2, <1>4, <1>5 DEF NewestKept
<1>9. Bounded'
  BY <1>1, <1>4, <1>5, DepthAssumption DEF Bounded, full
<1>10. overrun' = IF full THEN overrun + 1 ELSE overrun
  BY DEF submit_valid
<1>13. OverrunIsLoss'
  <2>1. UNCHANGED <<delivered, lost_at_reset>>
    BY DEF submit_valid
  <2>2. delivered \in Nat /\ lost_at_reset \in Nat /\ overrun \in Nat
    BY <1>1 DEF TypeOK
  <2>3. Len(rx_msgq') = IF full THEN Len(rx_msgq) ELSE Len(rx_msgq) + 1
    BY <1>1, <1>4, <1>5
  <2>4. arrivals = delivered + Len(rx_msgq) + lost_at_reset + overrun
    BY <1>1 DEF OverrunIsLoss
  <2>5. arrivals' = delivered + Len(rx_msgq') + lost_at_reset + overrun'
    <3>1. Len(rx_msgq) \in Nat /\ arrivals \in Nat /\ arrivals' = arrivals + 1
      BY <1>1, <1>2
    <3> QED
      BY <1>10, <2>2, <2>3, <2>4, <3>1
  <2> QED
    BY <2>1, <2>5 DEF OverrunIsLoss
<1>11. TypeOK'
  <2>1. txn_count' \in Nat /\ overrun' \in Nat
    BY <1>1, <1>10 DEF TypeOK, submit_valid
  <2> QED
    BY <1>1, <1>2, <1>5, <2>1 DEF TypeOK, submit_valid
<1>12. NoLostWakeup'
  BY DEF NoLostWakeup, submit_valid
<1> QED
  BY <1>7, <1>8, <1>9, <1>11, <1>12, <1>13 DEF IInv

\* One pass of the handler's loop takes the head of the queue, or finds it
\* empty (rx_work_handler).
LEMMA TakeNext ==
  ASSUME IInv, take_next, UNCHANGED <<stats, arrivals, lost_at_reset>>,
         work_pending' \in BOOLEAN
  PROVE  IInv'
<1>1. /\ TypeOK /\ Bounded /\ OverrunIsLoss
      /\ Len(rx_msgq) \in Nat /\ arrivals \in Nat /\ delivered \in Nat
  BY DEF IInv, TypeOK
<1>2. CASE rx_msgq # <<>>
  <2>1. /\ applied' = rx_msgq[1] /\ rx_msgq' = Tail(rx_msgq)
        /\ delivered' = delivered + 1 /\ in_callback' = TRUE
    BY <1>2 DEF take_next
  <2>2. /\ rx_msgq' \in Seq(Nat)
        /\ Len(rx_msgq') = Len(rx_msgq) - 1
        /\ Increasing(rx_msgq')
        /\ \A i \in 1..Len(rx_msgq') : /\ rx_msgq'[i] = rx_msgq[i + 1]
                                       /\ applied' < rx_msgq'[i]
    <3>1. Head(rx_msgq) = rx_msgq[1]
      BY <1>1 DEF TypeOK
    <3> QED
      BY <1>2, <2>1, <3>1, QueueNumbers, TailSorted
  <2>3. InOrder'
    BY <2>2 DEF InOrder
  <2>4. NewestKept'
    <3>1. rx_msgq[Len(rx_msgq)] = arrivals /\ Len(rx_msgq) >= 1
      BY <1>1, <1>2 DEF IInv, NewestKept, TypeOK
    <3>2. CASE Len(rx_msgq) = 1
      <4>1. rx_msgq' = <<>>
        BY <2>2, <3>2
      <4> QED
        BY <2>1, <3>1, <3>2, <4>1 DEF NewestKept
    <3>3. CASE Len(rx_msgq) > 1
      <4>1. Len(rx_msgq') \in 1..Len(rx_msgq') /\ rx_msgq' # <<>>
        BY <1>1, <2>2, <3>3
      <4>2. rx_msgq'[Len(rx_msgq')] = rx_msgq[Len(rx_msgq)]
        BY <1>1, <2>2, <4>1
      <4> QED
        BY <3>1, <4>1, <4>2 DEF NewestKept
    <3>4. Len(rx_msgq) = 1 \/ Len(rx_msgq) > 1
      BY <1>1, <3>1
    <3> QED
      BY <3>2, <3>3, <3>4
  <2>5. OverrunIsLoss'
    <3>1. arrivals = delivered + Len(rx_msgq) + lost_at_reset + overrun
      BY <1>1 DEF OverrunIsLoss
    <3>2. /\ delivered' = delivered + 1 /\ Len(rx_msgq') = Len(rx_msgq) - 1
          /\ UNCHANGED <<arrivals, lost_at_reset, overrun>>
      BY <2>1, <2>2 DEF stats
    <3>3. /\ delivered \in Nat /\ Len(rx_msgq) \in Nat
          /\ lost_at_reset \in Nat /\ overrun \in Nat
      BY <1>1 DEF TypeOK
    <3> QED
      BY <3>1, <3>2, <3>3 DEF OverrunIsLoss
  <2>6. TypeOK'
    <3>1. rx_msgq[1] \in Nat
      BY <1>1, <1>2 DEF TypeOK
    <3> QED
      BY <1>1, <2>1, <2>2, <3>1 DEF TypeOK, stats
  <2>7. Bounded' /\ NoLostWakeup'
    BY <1>1, <2>1, <2>2, DepthAssumption DEF Bounded, NoLostWakeup
  <2> QED
    BY <2>3, <2>4, <2>5, <2>6, <2>7 DEF IInv
<1>3. CASE rx_msgq = <<>>
  <2>1. in_callback' = FALSE /\ UNCHANGED <<applied, rx_msgq, delivered>>
    BY <1>3 DEF take_next
  <2> QED
    BY <1>1, <1>3, <2>1 DEF IInv, stats, TypeOK, Bounded, InOrder, NewestKept,
                            OverrunIsLoss, NoLostWakeup
<1> QED
  BY <1>2, <1>3

\* The counters may be reset at any time: the loss so far moves to the
\* baseline (rimlink_stats_reset).
LEMMA StatsReset ==
  ASSUME IInv, stats_reset
  PROVE  IInv'
<1>1. /\ TypeOK /\ OverrunIsLoss /\ Len(rx_msgq) \in Nat
      /\ arrivals \in Nat /\ delivered \in Nat
      /\ overrun \in Nat /\ lost_at_reset \in Nat
  BY DEF IInv, TypeOK
<1>2. txn_count' = 0 /\ crc_err_rx' = 0 /\ short_frame' = 0 /\ overrun' = 0
  BY DEF stats_reset
<1>3. lost_at_reset' = arrivals - delivered - Len(rx_msgq)
  BY DEF stats_reset
<1>4. lost_at_reset' \in Nat
  BY <1>1, <1>3 DEF OverrunIsLoss
<1>5. UNCHANGED <<queue_vars, arrivals>>
  BY DEF stats_reset
<1>6. TypeOK'
  BY <1>1, <1>2, <1>4, <1>5 DEF TypeOK, queue_vars
<1>7. OverrunIsLoss'
  BY <1>1, <1>2, <1>3, <1>5 DEF OverrunIsLoss, queue_vars
<1> QED
  BY <1>5, <1>6, <1>7 DEF IInv, queue_vars, Bounded, InOrder, NewestKept,
                          NoLostWakeup

-----------------------------------------------------------------------------
\* Outputs are applied in order, the newest is kept, the overrun counter is
\* the loss and no wake-up is lost, for every queue depth.
THEOREM QueueCorrect == Spec => []IInv
<1>1. Init => IInv
  <2> SUFFICES ASSUME Init
               PROVE  IInv
    OBVIOUS
  <2>1. rx_msgq = <<>> /\ Len(rx_msgq) = 0 /\ rx_msgq \in Seq(Nat)
    BY DEF Init
  <2>3. TypeOK
    <3>1. arrivals \in 0..MaxFrames
      BY FramesAssumption DEF Init
    <3> QED
      BY <2>1, <3>1 DEF Init, TypeOK
  <2>4. Bounded /\ InOrder
    BY <2>1, DepthAssumption DEF Bounded, InOrder, Increasing
  <2> QED
    BY <2>1, <2>3, <2>4 DEF Init, IInv, NewestKept, OverrunIsLoss, NoLostWakeup
<1>2. IInv /\ [Next]_vars => IInv'
  <2> SUFFICES ASSUME IInv, [Next]_vars
               PROVE  IInv'
    OBVIOUS
  <2>1. CASE submit_short \/ submit_crc_error
    <3>1. /\ txn_count' \in Nat /\ crc_err_rx' \in Nat
          /\ short_frame' \in Nat /\ overrun' = overrun
      BY <2>1 DEF submit_short, submit_crc_error, IInv, TypeOK
    <3>2. UNCHANGED <<queue_vars, arrivals, lost_at_reset>>
      BY <2>1 DEF submit_short, submit_crc_error
    <3>3. TypeOK'
      BY <3>1, <3>2 DEF IInv, TypeOK, queue_vars
    <3>4. OverrunIsLoss'
      BY <3>1, <3>2 DEF IInv, OverrunIsLoss, queue_vars
    <3> QED
      BY <3>2, <3>3, <3>4 DEF IInv, queue_vars, Bounded, InOrder, NewestKept,
                              NoLostWakeup
  <2>2. CASE submit_valid
    BY <2>2, SubmitValid
  <2>3. CASE work_start
    BY <2>3, TakeNext DEF work_start
  <2>4. CASE callback_returns
    <3>1. work_pending' \in BOOLEAN
      BY <2>4 DEF callback_returns, IInv, TypeOK
    <3> QED
      BY <2>4, <3>1, TakeNext DEF callback_returns
  <2>5. CASE stats_reset
    BY <2>5, StatsReset
  <2>6. CASE UNCHANGED vars
    BY <2>6 DEF vars, queue_vars, stats, IInv, TypeOK, Bounded, InOrder, NewestKept,
                OverrunIsLoss, NoLostWakeup
  <2> QED
    BY <2>1, <2>2, <2>3, <2>4, <2>5, <2>6 DEF Next, rx_submit
<1> QED
  BY <1>1, <1>2, PTL DEF Spec

\* Outputs reach the callback in the order the base sent them.
THEOREM OrderKept == Spec => []InOrder
BY QueueCorrect, PTL DEF IInv

\* The newest valid frame is never dropped.
THEOREM NewestIsKept == Spec => []NewestKept
BY QueueCorrect, PTL DEF IInv

\* A queued frame always has a handler coming for it: the work item is pending
\* or its handler still loops.
THEOREM WakeupNotLost == Spec => []NoLostWakeup
BY QueueCorrect, PTL DEF IInv

\* The overrun counter is exactly the number of valid frames lost in the
\* queue, over resets of the statistics.
THEOREM OverrunCountsLoss == Spec => []OverrunIsLoss
BY QueueCorrect, PTL DEF IInv
=============================================================================
