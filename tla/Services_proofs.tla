--------------------------- MODULE Services_proofs ---------------------------
(***************************************************************************)
(* Proofs about the services behind the link: the capture ring keeps the   *)
(* anomaly that froze it and dumps its tail; what a save has reported is   *)
(* durable and a reported lock keeps it; the start-up's deferred work is   *)
(* safe and the watchdog's resets are deserved; the health counters add up *)
(* and survive; the reported latency was measured; the display driver      *)
(* implements Display, and whatever does shows its texts in full; the text *)
(* of rim disp tells the display field.                                    *)
(***************************************************************************)
EXTENDS MCServices, SequenceTheorems, FiniteSetTheorems, NaturalsInduction, TLAPS

-----------------------------------------------------------------------------
(* The capture ring *)

\* What the prover knows of a remainder.
LEMMA Remainder ==
  ASSUME NEW d \in Nat \ {0}, NEW x \in Int
  PROVE  x % d = x - d * (x \div d) /\ x % d \in 0..(d - 1) /\ x \div d \in Int
OBVIOUS

\* It is the only one.
LEMMA OneRemainder ==
  ASSUME NEW d \in Nat \ {0}, NEW q \in Int, NEW p \in Int,
         NEW r \in 0..(d - 1), NEW s \in 0..(d - 1), d * q + r = d * p + s
  PROVE  r = s
<1>1. d * (q - p) = s - r
  OBVIOUS
<1>2. CASE q - p >= 1
  <2>1. d * (q - p) >= d
    BY <1>2
  <2> QED
    BY <1>1, <2>1
<1>3. CASE q - p <= -1
  <2>1. d * (q - p) <= -d
    BY <1>3
  <2> QED
    BY <1>1, <2>1
<1>4. CASE q - p = 0
  BY <1>1, <1>4
<1> QED
  BY <1>2, <1>3, <1>4

\* Full turns of the ring lead to the same slot.
LEMMA SameSlot ==
  ASSUME NEW d \in Nat \ {0}, NEW x \in Int, NEW m \in Int
  PROVE  (x + m * d) % d = x % d
<1>1. PICK y \in Int : y = x + m * d
  OBVIOUS
<1>2. PICK q \in Int : x % d = x - d * q
  BY Remainder
<1>3. PICK p \in Int : y % d = y - d * p
  BY Remainder
<1>4. x % d \in 0..(d - 1) /\ y % d \in 0..(d - 1)
  BY Remainder
<1>5. d * (q + m) = d * q + m * d
  OBVIOUS
<1>6. d * (q + m) + (x % d) = d * p + (y % d)
  <2>1. PICK a \in Int, b \in Int, c \in Int : a = d * q /\ b = m * d /\ c = d * p
    OBVIOUS
  <2>2. x % d = x - a /\ y % d = y - c /\ y = x + b /\ d * (q + m) = a + b
    BY <1>1, <1>2, <1>3, <1>5, <2>1, Zenon
  <2>3. PICK r \in Int, s \in Int : r = x % d /\ s = y % d
    BY <1>4
  <2>4. r = x - a /\ s = y - c /\ y = x + b
    BY <2>2, <2>3, Zenon
  <2>5. (a + b) + r = c + s
    BY <2>4
  <2> QED
    BY <2>1, <2>2, <2>3, <2>5, Zenon
<1>7. x % d = y % d
  <2>1. PICK r \in 0..(d - 1), t \in 0..(d - 1) : r = x % d /\ t = y % d
    BY <1>4
  <2>2. PICK k \in Int : k = q + m
    OBVIOUS
  <2>3. d * k + r = d * p + t
    BY <1>6, <2>1, <2>2, Zenon
  <2> QED
    BY <2>1, <2>3, OneRemainder, Zenon
<1> QED
  BY <1>1, <1>7

\* Entries less than a full turn apart have slots of their own.
LEMMA OtherSlot ==
  ASSUME NEW d \in Nat \ {0}, NEW i \in Int, NEW j \in Int, i < j, j < i + d
  PROVE  i % d # j % d
<1> SUFFICES ASSUME i % d = j % d PROVE FALSE
  OBVIOUS
<1>1. PICK q \in Int : i % d = i - d * q
  BY Remainder
<1>2. PICK p \in Int : j % d = j - d * p
  BY Remainder
<1>3. d * (p - q) = j - i
  BY <1>1, <1>2
<1>4. CASE p - q >= 1
  <2>1. d * (p - q) >= d
    BY <1>4
  <2> QED
    BY <1>3, <2>1
<1>5. CASE p - q <= 0
  <2>1. d * (p - q) <= 0
    BY <1>5
  <2> QED
    BY <1>3, <2>1
<1> QED
  BY <1>4, <1>5

RingTypes ==
  /\ ring \in [0..(DEPTH - 1) -> Ring!Entry]
  /\ cap_armed \in BOOLEAN /\ frozen \in BOOLEAN /\ freeze_on_anomaly \in BOOLEAN
  /\ wr \in 0..(WrMod - 1)
  /\ dump_idx \in Nat \cup {Ring!NoDump}
  /\ dump_out \in Seq(Ring!Entry)
  /\ total \in 0..MaxRecords
  /\ dump_total \in 0..MaxRecords \cup {Ring!NoDump}

\* The write index is the number of records but for full turns of the ring.
Turns ==
  /\ \E m \in Nat : total = wr + m * DEPTH
  /\ wr <= total
  /\ total < WrMod => wr = total

\* The ring holds the newest records, each in its slot.
Window ==
  \A j \in 0..(total - 1) : j >= total - DEPTH => ring[j % DEPTH].seq = j

\* The frame that froze the ring is the newest.
Caught ==
  frozen /\ cause = "crc" =>
    /\ total >= 1
    /\ ring[(total - 1) % DEPTH].dir = "RX" /\ ~ring[(total - 1) % DEPTH].crc_ok

\* The dump has printed the oldest entries so far, and all when it is over.
Printing ==
  dump_total # Ring!NoDump =>
    /\ dump_total = total
    /\ \A i \in 1..Len(dump_out) : dump_out[i].seq = total - Ring!avail + i - 1
    /\ dump_idx # Ring!NoDump => dump_idx = Len(dump_out) /\ dump_idx <= Ring!avail
    /\ dump_idx = Ring!NoDump => Len(dump_out) = Ring!avail

RingInv == RingTypes /\ Turns /\ Window /\ Caught /\ Printing

\* What the proofs use of the ring's constants: the counters wrap at a multiple of
\* the depth.
LEMMA RingConstants ==
  /\ DEPTH \in Nat \ {0} /\ MaxRecords \in Nat /\ WrMod \in Nat \ {0}
  /\ \E k \in Nat : WrMod = k * DEPTH
  /\ DEPTH <= WrMod
  /\ Ring!NoDump = -1
<1>1. DEPTH \in Nat \ {0} /\ MaxRecords \in Nat /\ Ring!NoDump = -1
  BY CaptureRingAssumption DEF Ring!Assumptions, Ring!NoDump
<1>2. PICK k \in 1..WrMod : WrMod = k * DEPTH
  BY CaptureRingAssumption DEF Ring!Assumptions
<1>3. WrMod \in Nat
  BY <1>1, <1>2
<1>4. k * DEPTH >= DEPTH /\ k \in Nat
  BY <1>1, <1>2
<1> QED
  BY <1>1, <1>2, <1>3, <1>4

\* The slot of an index that is full turns away from another.
LEMMA SlotOf ==
  ASSUME RingInv, NEW o \in Int
  PROVE  (wr + o) % DEPTH = (total + o) % DEPTH
<1>1. PICK m \in Nat : total = wr + m * DEPTH
  BY DEF RingInv, Turns
<1>2. wr \in Int /\ DEPTH \in Nat \ {0}
  BY RingConstants DEF RingInv, RingTypes
<1>3. PICK x \in Int : x = wr + o
  BY <1>2
<1>4. (x + m * DEPTH) % DEPTH = x % DEPTH
  <2>1. m \in Int
    BY <1>1
  <2> QED
    BY <1>2, <1>3, <2>1, SameSlot, Zenon
<1>5. x + m * DEPTH = total + o
  <2>1. PICK a \in Int : a = m * DEPTH
    BY <1>2
  <2>2. total = wr + a
    BY <1>1, <2>1, Zenon
  <2>3. x + a = total + o
    BY <1>2, <1>3, <2>2
  <2> QED
    BY <2>1, <2>3, Zenon
<1> QED
  BY <1>3, <1>4, <1>5, Zenon

\* A record.
LEMMA RecordStep ==
  ASSUME RingInv, total < MaxRecords, NEW dir \in {"TX", "RX"}, NEW ok \in BOOLEAN,
         Ring!record(dir, ok), UNCHANGED dump_out, UNCHANGED dump_idx,
         cap_armed' \in BOOLEAN, frozen' \in BOOLEAN, freeze_on_anomaly' \in BOOLEAN
  PROVE  /\ RingTypes' /\ Turns' /\ Window' /\ Printing'
         /\ IF Ring!recording
              THEN /\ total' >= 1
                   /\ ring'[(total' - 1) % DEPTH].dir = dir
                   /\ ring'[(total' - 1) % DEPTH].crc_ok = ok
              ELSE UNCHANGED <<ring, total>>
<1>0. DEPTH \in Nat \ {0} /\ WrMod \in Nat \ {0} /\ MaxRecords \in Nat
  BY RingConstants
<1>1. CASE ~Ring!recording
  <2>1. UNCHANGED <<ring, wr, total, dump_total>>
    BY <1>1 DEF Ring!record
  <2> QED
    BY <1>1, <2>1 DEF RingInv, RingTypes, Turns, Window, Printing, Ring!avail
<1>2. CASE Ring!recording
  <2>1. PICK entry \in Ring!Entry :
           entry = [dir |-> dir, crc_ok |-> ok, seq |-> total]
    <3>1. total \in (0..MaxRecords) \cup {-1}
      BY DEF RingInv, RingTypes
    <3> QED
      BY <3>1 DEF Ring!Entry
  <2>2. ring' = [ring EXCEPT ![wr % DEPTH] = entry]
    BY <1>2, <2>1, Zenon DEF Ring!record, Ring!slot
  <2>3. total' = total + 1 /\ wr' = (wr + 1) % WrMod /\ dump_total' = Ring!NoDump
    BY <1>2 DEF Ring!record
  <2>4. wr % DEPTH = total % DEPTH
    <3>1. (wr + 0) % DEPTH = (total + 0) % DEPTH
      BY SlotOf
    <3>2. wr + 0 = wr /\ total + 0 = total
      BY DEF RingInv, RingTypes
    <3> QED
      BY <3>1, <3>2, Zenon
  <2>5. total % DEPTH \in 0..(DEPTH - 1) /\ total \in Int /\ total >= 0
    BY <1>0, Remainder DEF RingInv, RingTypes
  <2>6. /\ ring' \in [0..(DEPTH - 1) -> Ring!Entry]
        /\ ring'[total % DEPTH] = entry
        /\ \A s \in 0..(DEPTH - 1) : s # total % DEPTH => ring'[s] = ring[s]
    BY <2>2, <2>4, <2>5 DEF RingInv, RingTypes
  <2>7. entry.dir = dir /\ entry.crc_ok = ok /\ entry.seq = total
    BY <2>1
  <2>8. Window'
    <3> SUFFICES ASSUME NEW j \in 0..(total' - 1), j >= total' - DEPTH
                 PROVE  ring'[j % DEPTH].seq = j
      BY DEF Window
    <3>1. CASE j = total
      BY <2>6, <2>7, <3>1
    <3>2. CASE j # total
      <4>1. j \in 0..(total - 1) /\ j >= total - DEPTH /\ j < total /\ total < j + DEPTH
            /\ j \in Int
        BY <1>0, <2>3, <2>5, <3>2
      <4>2. j % DEPTH # total % DEPTH /\ j % DEPTH \in 0..(DEPTH - 1)
        BY <1>0, <2>5, <4>1, OtherSlot, Remainder
      <4>3. ring[j % DEPTH].seq = j
        BY <4>1 DEF RingInv, Window
      <4> QED
        BY <2>6, <4>2, <4>3
    <3> QED
      BY <3>1, <3>2
  <2>9. wr' \in 0..(WrMod - 1) /\ Turns'
    <3>1. PICK m \in Nat : total = wr + m * DEPTH
      BY DEF RingInv, Turns
    <3>2. PICK k \in Nat : WrMod = k * DEPTH
      BY RingConstants
    <3>3. PICK a \in Nat, b \in Nat : a = m * DEPTH /\ b = k * DEPTH
      BY <1>0
    <3>4. total = wr + a /\ WrMod = b
      BY <3>1, <3>2, <3>3, Zenon
    <3>5. wr \in 0..(WrMod - 1)
      BY DEF RingInv, RingTypes
    <3>6. CASE wr + 1 < WrMod
      <4>1. wr' = wr + 1
        BY <1>0, <2>3, <3>5, <3>6
      <4>2. total' = wr' + a
        BY <2>3, <2>5, <3>4, <3>5, <4>1
      <4>3. total' = wr' + m * DEPTH
        BY <3>3, <4>2, Zenon
      <4>4. wr' \in 0..(WrMod - 1) /\ wr' <= total' /\ (total' < WrMod => wr' = total')
        BY <1>0, <2>3, <2>5, <3>4, <3>5, <3>6, <4>1 DEF RingInv, Turns
      <4> QED
        BY <4>3, <4>4 DEF Turns
    <3>7. CASE wr + 1 = WrMod
      <4>1. wr' = 0
        <5>1. WrMod % WrMod = 0
          BY <1>0
        <5> QED
          BY <2>3, <3>7, <5>1
      <4>2. total' = wr' + (a + b)
        BY <2>3, <2>5, <3>4, <3>5, <3>7, <4>1
      <4>3. a + b = (m + k) * DEPTH
        BY <1>0, <3>3
      <4>4. total' = wr' + (m + k) * DEPTH /\ m + k \in Nat
        <5>1. m + k \in Nat
          BY <3>1, <3>2
        <5> QED
          BY <4>2, <4>3, <5>1, Zenon
      <4>5. wr' \in 0..(WrMod - 1) /\ wr' <= total' /\ ~(total' < WrMod)
        BY <1>0, <2>3, <2>5, <3>4, <3>5, <3>7, <4>1
      <4> QED
        BY <4>4, <4>5 DEF Turns
    <3> QED
      BY <1>0, <3>5, <3>6, <3>7
  <2>10. RingTypes'
    <3>1. total' \in 0..MaxRecords
      BY <1>0, <2>3, <2>5
    <3> QED
      BY <2>3, <2>6, <2>9, <3>1 DEF RingInv, RingTypes
  <2>11. Printing'
    BY <2>3 DEF Printing
  <2>12. total' >= 1 /\ total' - 1 = total
    BY <2>3, <2>5
  <2> QED
    BY <1>2, <2>6, <2>7, <2>8, <2>9, <2>10, <2>11, <2>12
<1> QED
  BY <1>1, <1>2

\* RingInv is inductive: recording, freezing, rearming and each step of the dump.
LEMMA RingStep ==
  ASSUME RingInv, [Ring!Next]_(Ring!vars)
  PROVE  RingInv'
<1>0. DEPTH \in Nat \ {0} /\ WrMod \in Nat \ {0} /\ MaxRecords \in Nat
      /\ Ring!NoDump = -1
  BY RingConstants
<1>1. ASSUME total < MaxRecords, Ring!record("TX", TRUE) \/ Ring!record("RX", TRUE),
             UNCHANGED <<Ring!flags, cause, Ring!dump_vars>>
      PROVE  RingInv'
  <2>1. UNCHANGED <<cap_armed, frozen, freeze_on_anomaly, cause, dump_idx, dump_out>>
    BY <1>1 DEF Ring!flags, Ring!dump_vars
  <2>2. RingTypes' /\ Turns' /\ Window' /\ Printing'
        /\ (Ring!recording \/ UNCHANGED <<ring, total>>)
    BY <1>1, <2>1, RecordStep DEF RingInv, RingTypes
  <2>3. Caught'
    BY <2>1, <2>2 DEF RingInv, Caught, Ring!recording
  <2> QED
    BY <2>2, <2>3 DEF RingInv
<1>2. CASE Ring!tx_acquire
  BY <1>1, <1>2 DEF Ring!tx_acquire
<1>3. CASE Ring!rx_submit
  <2>1. CASE total < MaxRecords /\ Ring!record("RX", TRUE)
             /\ UNCHANGED <<Ring!flags, cause, Ring!dump_vars>>
    BY <1>1, <2>1
  <2>2. ASSUME total < MaxRecords, Ring!record("RX", FALSE), Ring!note_anomaly("crc"),
               UNCHANGED <<cap_armed, freeze_on_anomaly, Ring!dump_vars>>
        PROVE  RingInv'
    <3>1. UNCHANGED <<cap_armed, freeze_on_anomaly, dump_idx, dump_out>>
          /\ frozen' \in BOOLEAN /\ (frozen => frozen' /\ cause' = cause)
      BY <2>2 DEF Ring!dump_vars, Ring!note_anomaly, RingInv, RingTypes
    <3>2. RingTypes' /\ Turns' /\ Window' /\ Printing'
          /\ IF Ring!recording
               THEN /\ total' >= 1
                    /\ ring'[(total' - 1) % DEPTH].dir = "RX"
                    /\ ring'[(total' - 1) % DEPTH].crc_ok = FALSE
               ELSE UNCHANGED <<ring, total>>
      BY <2>2, <3>1, RecordStep DEF RingInv, RingTypes
    <3>3. ~Ring!recording => frozen' = frozen /\ cause' = cause
      BY <2>2 DEF Ring!recording, Ring!note_anomaly, RingInv, RingTypes
    <3>4. Caught'
      BY <3>2, <3>3 DEF RingInv, Caught
    <3> QED
      BY <3>2, <3>4 DEF RingInv
  <2>3. ASSUME Ring!note_anomaly("short"),
               UNCHANGED <<ring, wr, total, dump_total, cap_armed, freeze_on_anomaly,
                           Ring!dump_vars>>
        PROVE  RingInv'
    <3>1. UNCHANGED <<dump_idx, dump_out>> /\ frozen' \in BOOLEAN
          /\ (cause' = "crc" /\ frozen' => cause = "crc" /\ frozen)
      BY <2>3 DEF Ring!dump_vars, Ring!note_anomaly, RingInv, RingTypes
    <3> QED
      BY <2>3, <3>1 DEF RingInv, RingTypes, Turns, Window, Caught, Printing, Ring!avail
  <2> QED
    BY <1>3, <2>1, <2>2, <2>3 DEF Ring!rx_submit
<1>4. CASE Ring!cap_start \/ Ring!cap_stop \/ Ring!cap_freeze \/ Ring!cap_auto
  <2>1. UNCHANGED <<ring, wr, total, dump_total, dump_idx, dump_out>>
    BY <1>4 DEF Ring!cap_start, Ring!cap_stop, Ring!cap_freeze, Ring!cap_auto,
                Ring!dump_vars
  <2>2. cap_armed' \in BOOLEAN /\ frozen' \in BOOLEAN /\ freeze_on_anomaly' \in BOOLEAN
        /\ (cause' = "crc" /\ frozen' => cause = "crc" /\ frozen)
    <3>1. frozen \in BOOLEAN /\ cap_armed \in BOOLEAN /\ freeze_on_anomaly \in BOOLEAN
      BY DEF RingInv, RingTypes
    <3>2. CASE Ring!cap_start
      BY <3>1, <3>2 DEF Ring!cap_start
    <3>3. CASE Ring!cap_stop
      BY <3>1, <3>3 DEF Ring!cap_stop
    <3>4. CASE Ring!cap_freeze
      BY <3>1, <3>4 DEF Ring!cap_freeze
    <3>5. CASE Ring!cap_auto
      BY <3>1, <3>5 DEF Ring!cap_auto
    <3> QED
      BY <1>4, <3>2, <3>3, <3>4, <3>5
  <2> QED
    BY <2>1, <2>2 DEF RingInv, RingTypes, Turns, Window, Caught, Printing, Ring!avail
<1>5. CASE Ring!dump_begin
  <2>1. /\ UNCHANGED <<ring, cap_armed, frozen, freeze_on_anomaly, wr, total, cause>>
        /\ dump_idx' = 0 /\ dump_out' = <<>> /\ dump_total' = total
    BY <1>5 DEF Ring!dump_begin, Ring!flags
  <2>2. Len(dump_out') = 0 /\ dump_out' \in Seq(Ring!Entry)
    BY <2>1
  <2>3. Ring!avail' >= 0
    BY <1>0, <2>1 DEF Ring!avail, RingInv, RingTypes
  <2>4. Printing'
    BY <1>0, <2>1, <2>2, <2>3 DEF Printing
  <2> QED
    BY <2>1, <2>2, <2>4 DEF RingInv, RingTypes, Turns, Window, Caught
<1>6. CASE Ring!dump_next
  <2>1. /\ UNCHANGED <<ring, cap_armed, frozen, freeze_on_anomaly, wr, total, cause,
                       dump_total>>
        /\ dump_idx # Ring!NoDump /\ dump_idx \in Nat
    BY <1>6 DEF Ring!dump_next, Ring!flags, Ring!Idle, RingInv, RingTypes
  <2>2. /\ wr \in Nat /\ total \in Nat /\ wr <= total /\ Ring!avail \in Nat
        /\ Ring!avail <= wr /\ Ring!avail <= DEPTH /\ Ring!avail' = Ring!avail
    BY <1>0, <2>1 DEF Ring!avail, RingInv, RingTypes, Turns
  <2>3. CASE dump_idx >= Ring!avail
    <3>1. dump_idx' = Ring!NoDump /\ dump_out' = dump_out
      BY <1>6, <2>1, <2>2, <2>3 DEF Ring!dump_next
    <3>2. Printing'
      BY <1>0, <2>1, <2>2, <2>3, <3>1 DEF Printing, RingInv
    <3> QED
      BY <2>1, <3>1, <3>2 DEF RingInv, RingTypes, Turns, Window, Caught
  <2>4. CASE dump_idx < Ring!avail
    <3>1. PICK e : e = ring[(Ring!first + dump_idx) % DEPTH]
      OBVIOUS
    <3>2. dump_idx' = dump_idx + 1 /\ dump_out' = Append(dump_out, e)
      BY <1>6, <2>4, <3>1 DEF Ring!dump_next
    <3>3. PICK o \in Int : o = dump_idx - Ring!avail
      BY <2>1, <2>2
    <3>4. (Ring!first + dump_idx) % DEPTH = (total + o) % DEPTH
      <4>1. Ring!first + dump_idx = wr + o
        BY <2>1, <2>2, <3>3 DEF Ring!first
      <4>2. (wr + o) % DEPTH = (total + o) % DEPTH
        BY <3>3, SlotOf, Zenon
      <4> QED
        BY <4>1, <4>2, Zenon
    <3>5. total + o \in 0..(total - 1) /\ total + o >= total - DEPTH
      BY <1>0, <2>1, <2>2, <2>4, <3>3
    <3>6. e.seq = total + o
      BY <3>1, <3>4, <3>5 DEF RingInv, Window
    <3>7. e \in Ring!Entry
      <4>1. (total + o) % DEPTH \in 0..(DEPTH - 1)
        <5>1. total + o \in Int /\ DEPTH \in Nat \ {0}
          BY <1>0, <3>5
        <5> QED
          BY <5>1, Remainder, Zenon
      <4> QED
        BY <3>1, <3>4, <4>1 DEF RingInv, RingTypes
    <3>8. /\ dump_out' \in Seq(Ring!Entry)
          /\ Len(dump_out') = Len(dump_out) + 1 /\ Len(dump_out) \in Nat
          /\ \A i \in 1..Len(dump_out) : dump_out'[i] = dump_out[i]
          /\ dump_out'[Len(dump_out) + 1] = e
      BY <3>2, <3>7 DEF RingInv, RingTypes
    <3>9. dump_idx' \in Nat /\ dump_idx' # Ring!NoDump
      BY <1>0, <2>1, <3>2
    <3>10. Printing'
      <4> SUFFICES ASSUME dump_total' # Ring!NoDump PROVE
             /\ dump_total' = total'
             /\ \A i \in 1..Len(dump_out') :
                  dump_out'[i].seq = total' - Ring!avail' + i - 1
             /\ dump_idx' = Len(dump_out') /\ dump_idx' <= Ring!avail'
        BY <3>9 DEF Printing
      <4>1. /\ dump_total = total
            /\ \A i \in 1..Len(dump_out) : dump_out[i].seq = total - Ring!avail + i - 1
            /\ dump_idx = Len(dump_out) /\ dump_idx <= Ring!avail
        BY <2>1 DEF Printing, RingInv
      <4>2. ASSUME NEW i \in 1..Len(dump_out')
            PROVE  dump_out'[i].seq = total - Ring!avail + i - 1
        <5>1. CASE i \in 1..Len(dump_out)
          BY <3>8, <4>1, <5>1
        <5>2. CASE i = Len(dump_out) + 1
          BY <2>1, <2>2, <3>3, <3>6, <3>8, <4>1, <5>2
        <5> QED
          BY <3>8, <5>1, <5>2
      <4>3. dump_idx' = Len(dump_out') /\ dump_idx' <= Ring!avail
        BY <2>1, <2>2, <2>4, <3>2, <3>8, <4>1
      <4> QED
        BY <2>1, <2>2, <4>1, <4>2, <4>3
    <3> QED
      BY <2>1, <3>8, <3>9, <3>10 DEF RingInv, RingTypes, Turns, Window, Caught
  <2> QED
    BY <2>1, <2>2, <2>3, <2>4
<1>7. CASE UNCHANGED Ring!vars
  BY <1>7 DEF Ring!vars, Ring!flags, Ring!dump_vars, RingInv, RingTypes, Turns, Window,
              Caught, Printing, Ring!avail
<1> QED
  BY <1>2, <1>3, <1>4, <1>5, <1>6, <1>7 DEF Ring!Next

\* The empty, armed ring satisfies it.
LEMMA RingInit ==
  ASSUME Ring!Init
  PROVE  RingInv
<1>0. DEPTH \in Nat \ {0} /\ WrMod \in Nat \ {0} /\ MaxRecords \in Nat
      /\ Ring!NoDump = -1
  BY RingConstants
<1>1. Ring!Empty \in Ring!Entry
  BY DEF Ring!Empty, Ring!Entry
<1>2. ring \in [0..(DEPTH - 1) -> Ring!Entry]
  BY <1>1 DEF Ring!Init
<1>3. RingTypes
  BY <1>0, <1>2 DEF Ring!Init, RingTypes
<1>4. Turns
  <2>1. 0 = 0 + 0 * DEPTH
    BY <1>0
  <2> QED
    BY <1>0, <2>1 DEF Ring!Init, Turns
<1>5. Window
  BY DEF Ring!Init, Window
<1>6. Caught /\ Printing
  BY DEF Ring!Init, Caught, Printing
<1> QED
  BY <1>3, <1>4, <1>5, <1>6 DEF RingInv

\* A step of the services is one of the ring or leaves it alone.
LEMMA RingSteps ==
  ASSUME [Next]_vars
  PROVE  [Ring!Next]_(Ring!vars)
<1>1. CASE capture_step
  BY <1>1 DEF capture_step
<1>2. CASE UNCHANGED capture_vars
  BY <1>2 DEF capture_vars, Ring!vars, Ring!flags, Ring!dump_vars
<1> QED
  BY <1>1, <1>2
     DEF Next, vars, boot_step, settings_step, health_step, display_step,
         text_step, latency_step

\* The invariant of the capture ring holds throughout.
LEMMA RingAlways == Spec => []RingInv
<1>1. Init => RingInv
  BY RingInit DEF Init
<1>2. RingInv /\ [Next]_vars => RingInv'
  BY RingSteps, RingStep
<1> QED
  BY <1>1, <1>2, PTL DEF Spec

\* When a CRC mismatch froze the ring, the frame that caused it is the newest
\* entry and stays the newest, whatever the depth of the ring and however
\* often the write index has wrapped (rimlink_capture.c).
THEOREM AnomalyIsCaptured == Spec => []PostMortem
<1>1. RingInv => PostMortem
  <2> SUFFICES ASSUME RingInv, frozen, cause = "crc"
               PROVE  LET newest == ring[(wr + WrMod - 1) % DEPTH]
                      IN  newest.dir = "RX" /\ ~newest.crc_ok /\ newest.seq = total - 1
    BY DEF PostMortem, Ring!PostMortem
  <2>0. DEPTH \in Nat \ {0} /\ WrMod \in Nat \ {0} /\ wr \in Nat /\ total \in Nat
    BY RingConstants DEF RingInv, RingTypes
  <2>1. (wr + WrMod - 1) % DEPTH = (total - 1) % DEPTH
    <3>1. PICK k \in Nat : WrMod = k * DEPTH
      BY RingConstants
    <3>2. PICK o \in Int : o = WrMod - 1
      BY <2>0
    <3>3. (wr + o) % DEPTH = (total + o) % DEPTH
      BY SlotOf
    <3>4. PICK x \in Int : x = total - 1
      BY <2>0
    <3>5. (x + k * DEPTH) % DEPTH = x % DEPTH
      <4>1. k \in Int
        BY <3>1
      <4> QED
        BY <2>0, <3>4, <4>1, SameSlot, Zenon
    <3>6. x + WrMod = total + o /\ wr + WrMod - 1 = wr + o
      BY <2>0, <3>2, <3>4
    <3> QED
      BY <3>1, <3>3, <3>4, <3>5, <3>6, Zenon
  <2>2. /\ total >= 1
        /\ ring[(total - 1) % DEPTH].dir = "RX" /\ ~ring[(total - 1) % DEPTH].crc_ok
    BY DEF RingInv, Caught
  <2>3. ring[(total - 1) % DEPTH].seq = total - 1
    <3>1. total - 1 \in 0..(total - 1) /\ total - 1 >= total - DEPTH
      BY <2>0, <2>2
    <3> QED
      BY <3>1 DEF RingInv, Window
  <2> QED
    BY <2>1, <2>2, <2>3
<1> QED
  BY <1>1, RingAlways, PTL

\* A dump of a ring that does not record meanwhile prints the last entries
\* recorded in their order, none missing and none twice, whatever the depth
\* of the ring, and leaves out none until the write index has wrapped
\* (rimlink_capture.c).
THEOREM DumpPrintsTail == Spec => []DumpIsTail
<1>1. RingInv => DumpIsTail
  <2> SUFFICES ASSUME RingInv, dump_idx = Ring!NoDump, dump_total # Ring!NoDump
               PROVE  /\ \A i \in 1..Len(dump_out) :
                           dump_out[i].seq = dump_total - Len(dump_out) + i - 1
                      /\ dump_total < WrMod =>
                           Len(dump_out) = IF dump_total < DEPTH THEN dump_total ELSE DEPTH
    BY DEF DumpIsTail, Ring!DumpIsTail, Ring!Idle
  <2>1. /\ dump_total = total /\ Len(dump_out) = Ring!avail
        /\ \A i \in 1..Len(dump_out) : dump_out[i].seq = total - Ring!avail + i - 1
    BY DEF RingInv, Printing
  <2>2. total < WrMod => wr = total
    BY DEF RingInv, Turns
  <2> QED
    BY <2>1, <2>2 DEF Ring!avail
<1> QED
  BY <1>1, RingAlways, PTL

-----------------------------------------------------------------------------
(* The settings *)

\* What is proved of the settings alone.
Settings == INSTANCE Settings_proofs WITH
  next <- next_key, failed <- save_failed, frozen <- freeze, acked <- acked_keys

\* The store's constants are ones the proofs about Settings accept.
LEMMA SettingsConstants == Settings!Assumptions
BY SettingsAssumption
   DEF Store!Assumptions, Store!KeysOf, Settings!Assumptions, Settings!KeysOf

\* The store starts as Settings does.
LEMMA SettingsInit ==
  ASSUME Store!Init
  PROVE  Settings!Init
BY DEF Store!Init, Store!Keys, Store!KeysOf, Store!Nothing,
       Settings!Init, Settings!Keys, Settings!KeysOf, Settings!Nothing

\* A step of the services is one of the settings or leaves them alone.
LEMMA SettingsStep ==
  ASSUME [Next]_vars
  PROVE  [Settings!Next]_(Settings!vars)
<1>1. CASE settings_step
  <2>1. Store!Next
    BY <1>1 DEF settings_step
  <2> QED
    BY <2>1
       DEF Store!Next, Store!set, Store!save, Store!lock, Store!save_one,
           Store!save_lock, Store!save_schema, Store!reboot, Store!loaded, Store!Keys,
           Store!KeysOf, Store!permitted, Store!failed_so_far, Store!Nothing,
           Store!ram, Store!stored, Store!commit_vars, Store!history,
           Settings!Next, Settings!set, Settings!save, Settings!lock,
           Settings!save_one, Settings!save_lock, Settings!save_schema,
           Settings!reboot, Settings!loaded, Settings!Keys, Settings!KeysOf,
           Settings!permitted, Settings!failed_so_far, Settings!Nothing,
           Settings!ram, Settings!stored, Settings!commit_vars, Settings!history
<1>2. CASE UNCHANGED settings_vars
  BY <1>2 DEF settings_vars, Settings!vars, Settings!ram, Settings!stored,
              Settings!commit_vars, Settings!history
<1> QED
  BY <1>1, <1>2
     DEF Next, vars, capture_step, boot_step, health_step, display_step,
         text_step, latency_step

\* Beside the other services the settings behave as they do alone.
LEMMA SettingsAlone == Spec => Settings!Spec
<1>1. Init => Settings!Init
  BY SettingsInit DEF Init
<1>2. [Next]_vars => [Settings!Next]_(Settings!vars)
  BY SettingsStep
<1> QED
  BY <1>1, <1>2, PTL DEF Spec, Settings!Spec

\* What rim save has reported as saved stays in flash until the subtree is saved
\* again, whatever the subtrees and their keys (rim_settings.c).
THEOREM SavedStaysSaved == Spec => []AckedIsDurable
<1>1. Settings!Assumptions /\ Settings!Spec => []Settings!AckedIsDurable
  BY Settings!AckedStaysDurable
<1>2. Settings!AckedIsDurable => AckedIsDurable
  BY DEF AckedIsDurable, Store!AckedIsDurable, Store!Keys, Store!KeysOf,
         Settings!AckedIsDurable, Settings!Keys, Settings!KeysOf
<1> QED
  BY <1>1, <1>2, SettingsConstants, SettingsAlone, PTL

\* Under a lock that was reported, what is stored of the subtrees does not
\* change, unless a boot could not read the lock and rim lock was not given
\* since (rim_settings.c).
THEOREM LockIsKept == Spec => LockFreezes
<1>1. Settings!Assumptions /\ Settings!Spec => Settings!LockFreezes
  BY Settings!LockKeepsFlash
<1>2. Settings!LockFreezes => LockFreezes
  BY DEF LockFreezes, Store!LockFreezes, Settings!LockFreezes, Store!vars, Store!ram,
         Store!stored, Store!commit_vars, Store!history, Settings!vars, Settings!ram,
         Settings!stored, Settings!commit_vars, Settings!history,
         Store!Nothing, Settings!Nothing
<1> QED
  BY <1>1, <1>2, SettingsConstants, SettingsAlone, PTL

-----------------------------------------------------------------------------
(* The start-up *)

In(q, w) == \E i \in 1..Len(q) : q[i] = w

\* Nothing but the first item initialises the services.
Behind(q) == \A i \in 2..Len(q) : q[i] # "init"

\* An item joins the workqueue.
LEMMA ItemJoins ==
  ASSUME NEW q \in Seq(Start!Works), NEW w \in Start!Works
  PROVE  /\ Append(q, w) \in Seq(Start!Works) /\ Append(q, w) # <<>>
         /\ \A x \in Start!Works : In(Append(q, w), x) <=> In(q, x) \/ x = w
         /\ Head(Append(q, w)) = IF q = <<>> THEN w ELSE Head(q)
         /\ Behind(q) /\ (w # "init" \/ q = <<>>) => Behind(Append(q, w))
<1>1. /\ Append(q, w) \in Seq(Start!Works) /\ Append(q, w) # <<>>
      /\ Len(Append(q, w)) = Len(q) + 1 /\ Len(q) \in Nat
      /\ \A i \in 1..Len(q) : Append(q, w)[i] = q[i]
      /\ Append(q, w)[Len(q) + 1] = w
  OBVIOUS
<1>2. ASSUME NEW x \in Start!Works PROVE In(Append(q, w), x) <=> In(q, x) \/ x = w
  <2>1. ASSUME In(Append(q, w), x) PROVE In(q, x) \/ x = w
    <3>1. PICK i \in 1..(Len(q) + 1) : Append(q, w)[i] = x
      BY <1>1, <2>1 DEF In
    <3>2. i \in 1..Len(q) \/ i = Len(q) + 1
      BY <1>1
    <3> QED
      BY <1>1, <3>1, <3>2 DEF In
  <2>2. ASSUME In(q, x) PROVE In(Append(q, w), x)
    <3>1. PICK i \in 1..Len(q) : q[i] = x
      BY <2>2 DEF In
    <3>2. i \in 1..Len(Append(q, w)) /\ Append(q, w)[i] = x
      BY <1>1, <3>1
    <3> QED
      BY <3>2 DEF In
  <2>3. In(Append(q, w), w)
    BY <1>1 DEF In
  <2> QED
    BY <2>1, <2>2, <2>3
<1>3. Head(Append(q, w)) = IF q = <<>> THEN w ELSE Head(q)
  BY HeadTailAppend, Zenon
<1>4. ASSUME Behind(q), w # "init" \/ q = <<>>, NEW i \in 2..(Len(q) + 1)
      PROVE  Append(q, w)[i] # "init"
  <2>1. CASE i \in 2..Len(q)
    BY <1>1, <1>4, <2>1 DEF Behind
  <2>2. CASE i = Len(q) + 1 /\ w # "init"
    BY <1>1, <2>2
  <2>3. CASE q = <<>>
    BY <1>4, <2>3
  <2> QED
    BY <1>1, <1>4, <2>1, <2>2, <2>3
<1> QED
  BY <1>1, <1>2, <1>3, <1>4 DEF Behind

\* The first item leaves the workqueue.
LEMMA ItemLeaves ==
  ASSUME NEW q \in Seq(Start!Works), q # <<>>
  PROVE  /\ Tail(q) \in Seq(Start!Works)
         /\ Head(q) \in Start!Works /\ In(q, Head(q))
         /\ \A x \in Start!Works : In(Tail(q), x) => In(q, x)
         /\ Behind(q) =>
              /\ Behind(Tail(q)) /\ ~In(Tail(q), "init")
              /\ Tail(q) # <<>> => Head(Tail(q)) # "init"
<1>1. /\ Tail(q) \in Seq(Start!Works) /\ Len(Tail(q)) = Len(q) - 1
      /\ Len(q) \in Nat /\ Len(q) >= 1
      /\ \A i \in 1..Len(Tail(q)) : Tail(q)[i] = q[i + 1] /\ i + 1 \in 2..Len(q)
      /\ Head(q) = q[1] /\ q[1] \in Start!Works
  OBVIOUS
<1>2. In(q, Head(q))
  BY <1>1 DEF In
<1>3. ASSUME NEW x \in Start!Works, In(Tail(q), x) PROVE In(q, x)
  <2>1. PICK i \in 1..Len(Tail(q)) : Tail(q)[i] = x
    BY <1>3 DEF In
  <2>2. i + 1 \in 1..Len(q) /\ q[i + 1] = x
    BY <1>1, <2>1
  <2> QED
    BY <2>2 DEF In
<1>4. ASSUME Behind(q) PROVE \A i \in 1..Len(Tail(q)) : Tail(q)[i] # "init"
  BY <1>1, <1>4 DEF Behind
<1>5. ASSUME Tail(q) # <<>> PROVE Head(Tail(q)) = Tail(q)[1] /\ 1 \in 1..Len(Tail(q))
  BY <1>1, <1>5
<1>6. ASSUME Behind(q)
      PROVE  /\ Behind(Tail(q)) /\ ~In(Tail(q), "init")
             /\ Tail(q) # <<>> => Head(Tail(q)) # "init"
  <2>1. \A i \in 2..Len(Tail(q)) : i \in 1..Len(Tail(q))
    BY <1>1
  <2>2. Behind(Tail(q))
    BY <1>4, <1>6, <2>1 DEF Behind
  <2>3. ~In(Tail(q), "init")
    BY <1>4, <1>6 DEF In
  <2> QED
    BY <1>4, <1>5, <1>6, <2>2, <2>3
<1> QED
  BY <1>1, <1>2, <1>3, <1>6

\* The order of services_init.
LEMMA ServiceOrder ==
  /\ Len(Start!Services) = 9
  /\ Start!Services[2] = "wdt" /\ Start!Services[3] = "led"
  /\ Start!Services[5] = "power" /\ Start!Services[7] = "input"
  /\ \A i \in 1..9 : Start!Services[i] = "input" => i = 7
BY DEF Start!Services

BootTypes ==
  /\ option \in [fastboot : BOOLEAN, watchdog : BOOLEAN]
  /\ main_pc \in {"start", "linked", "services", "done"}
  /\ service \in 1..10
  /\ queue \in Seq(Start!Works)
  /\ running \in BOOLEAN
  /\ tick_sem \in BOOLEAN
  /\ early \in BOOLEAN
  /\ damaged \in BOOLEAN
  /\ slow \in BOOLEAN
  /\ spent \in Nat
  /\ unfed \in Start!NotArmed..WDT_MS

\* The services are being initialised, or will be before anything else.
Initialising == main_pc = "services" \/ (queue # <<>> /\ Head(queue) = "init")

\* The initialisation is the first work item of all; without a fast boot it
\* is over before main() is done.
Ordered ==
  /\ Behind(queue)
  /\ queue # <<>> /\ Head(queue) = "init" => main_pc = "done" /\ option.fastboot
  /\ main_pc = "done" /\ service <= 9 => Initialising
  /\ Initialising \/ main_pc # "done" => ~In(queue, "commit")
  /\ main_pc \in {"start", "linked"} => service = 1
  /\ main_pc = "services" => ~option.fastboot
  /\ running => queue # <<>>

\* The order of the boot is inductive: main() defers the initialisation to an
\* empty queue, and what comes later is put behind it.
LEMMA OrderedStep ==
  ASSUME BootTypes, Ordered, [Start!Next]_(Start!vars)
  PROVE  BootTypes' /\ Ordered'
<1> USE DEF BootTypes
<1>0. /\ WDT_MS \in Nat /\ {"init", "rx", "commit"} = Start!Works
  BY BootAssumption DEF Start!Assumptions, Start!Works
<1>1. CASE Start!link_first
  BY <1>1 DEF Start!link_first, Ordered, Initialising
<1>2. CASE Start!defer
  <2>1. CASE option.fastboot
    <3>1. main_pc = "linked" /\ main_pc' = "done"
          /\ queue' = Append(queue, "init") /\ queue = <<>>
          /\ UNCHANGED <<option, service, running, tick_sem, spent, unfed, early, damaged, slow>>
      BY <1>2, <2>1 DEF Start!defer, Start!CpuFree
    <3>2. ~In(queue, "commit") /\ Behind(queue)
      BY <3>1 DEF Ordered
    <3>3. /\ queue' \in Seq(Start!Works) /\ queue' # <<>> /\ Head(queue') = "init"
          /\ Behind(queue')
          /\ In(queue', "commit") <=> In(queue, "commit")
      BY <1>0, <3>1, <3>2, ItemJoins
    <3> QED
      BY <2>1, <3>1, <3>2, <3>3 DEF Ordered, Initialising
  <2>2. CASE ~option.fastboot
    BY <1>2, <2>2 DEF Start!defer, Start!CpuFree, Ordered, Initialising
  <2> QED
    BY <2>1, <2>2
<1>3. ASSUME NEW ok \in BOOLEAN, Start!init_service(ok) PROVE BootTypes' /\ Ordered'
  <2>1. Initialising /\ service <= 9 /\ service' = service + 1
    BY <1>3, ServiceOrder DEF Start!init_service, Start!Initialising, Start!Running,
                              Initialising, Ordered
  <2>2. unfed' \in {unfed, 0}
        /\ UNCHANGED <<option, main_pc, queue, running, spent, tick_sem, early, damaged, slow>>
    BY <1>3 DEF Start!init_service
  <2>3. main_pc \notin {"start", "linked"}
    BY <2>1 DEF Ordered, Initialising
  <2> QED
    BY <1>0, <2>1, <2>2, <2>3 DEF Ordered, Initialising, Start!NotArmed
<1>4. ASSUME queue # <<>>, queue' = Tail(queue), running' = FALSE,
             Head(queue) # "init" \/ service > 9,
             UNCHANGED <<option, main_pc, service>>
      PROVE  queue' \in Seq(Start!Works) /\ Ordered'
  <2>1. /\ queue' \in Seq(Start!Works) /\ Behind(queue')
        /\ queue' # <<>> => Head(queue') # "init"
        /\ In(queue', "commit") => In(queue, "commit")
    BY <1>0, <1>4, ItemLeaves DEF Ordered
  <2>2. Initialising' => main_pc = "services"
    BY <1>4, <2>1 DEF Initialising
  <2> QED
    BY <1>4, <2>1, <2>2 DEF Ordered, Initialising
<1>5. CASE Start!services_running
  <2>1. CASE option.fastboot
    <3>1. /\ queue # <<>> /\ queue' = Tail(queue) /\ running' = FALSE /\ service > 9
          /\ UNCHANGED <<option, main_pc, service>>
      BY <1>5, <2>1, ServiceOrder DEF Start!services_running, Start!finish, Start!Running,
                        Ordered
    <3>2. spent' = 0 /\ UNCHANGED <<tick_sem, unfed, early, damaged, slow>>
      BY <1>5 DEF Start!services_running
    <3> QED
      BY <1>4, <3>1, <3>2
  <2>2. CASE ~option.fastboot
    BY <1>5, <2>2, ServiceOrder DEF Start!services_running, Start!Initialising,
                      Start!CpuFree, Ordered, Initialising, In
  <2> QED
    BY <2>1, <2>2
<1>6. ASSUME NEW w \in {"rx", "commit"}, queue' = Append(queue, w),
             w = "commit" => main_pc = "done" /\ ~In(queue, "init"),
             UNCHANGED <<option, main_pc, service, running>>
      PROVE  queue' \in Seq(Start!Works) /\ Ordered'
  <2>1. /\ queue' \in Seq(Start!Works) /\ Behind(queue') /\ queue' # <<>>
        /\ Head(queue') = "init" => queue # <<>> /\ Head(queue) = "init"
        /\ queue # <<>> => Head(queue') = Head(queue)
        /\ In(queue', "commit") => In(queue, "commit") \/ w = "commit"
    BY <1>0, <1>6, ItemJoins DEF Ordered
  <2>2. Initialising' <=> Initialising
    BY <1>6, <2>1 DEF Initialising
  <2>3. w = "commit" => ~Initialising
    BY <1>6, ItemLeaves DEF Initialising
  <2> QED
    BY <1>6, <2>1, <2>2, <2>3 DEF Ordered
<1>7. CASE Start!frame
  BY <1>6, <1>7 DEF Start!frame, Start!submit_rx
<1>8. CASE Start!work_start
  BY <1>8 DEF Start!work_start, Ordered, Initialising
<1>9. CASE Start!output_svc_rx
  <2>1. /\ queue # <<>> /\ queue' = Tail(queue) /\ running' = FALSE
        /\ Head(queue) # "init" /\ UNCHANGED <<option, main_pc, service>>
    BY <1>9 DEF Start!output_svc_rx, Start!finish, Start!Running, Ordered
  <2>2. UNCHANGED <<spent, tick_sem, unfed, early, slow>> /\ damaged' \in BOOLEAN
    BY <1>9 DEF Start!output_svc_rx
  <2> QED
    BY <1>4, <2>1, <2>2
<1>10. CASE Start!commit_due
  BY <1>6, <1>10 DEF Start!commit_due, Start!InQueue, In
<1>11. CASE Start!commit_handler
  <2>1. /\ queue # <<>> /\ queue' = Tail(queue) /\ running' = FALSE
        /\ Head(queue) # "init" /\ UNCHANGED <<option, main_pc, service>>
    BY <1>11 DEF Start!commit_handler, Start!finish, Start!Running, Ordered
  <2>2. spent' = 0 /\ UNCHANGED <<tick_sem, unfed, early, damaged, slow>>
    BY <1>11 DEF Start!commit_handler
  <2> QED
    BY <1>4, <2>1, <2>2
<1>12. CASE Start!input_tick
  <2>1. UNCHANGED <<option, main_pc, service, queue, running, spent, early, damaged>>
        /\ tick_sem' = FALSE /\ slow' = FALSE
    BY <1>12 DEF Start!input_tick
  <2>2. unfed' \in Start!NotArmed..WDT_MS
    BY <1>0, <1>12 DEF Start!input_tick, Start!rim_wdt_feed, Start!NotArmed
  <2> QED
    BY <2>1, <2>2 DEF Ordered, Initialising
<1>13. CASE Start!elapse
  <2>1. UNCHANGED <<option, main_pc, service, queue, running, early, damaged>>
    BY <1>13 DEF Start!elapse
  <2>2. spent' \in Nat /\ tick_sem' \in BOOLEAN /\ slow' \in BOOLEAN
    BY <1>13 DEF Start!elapse
  <2>3. unfed' \in Start!NotArmed..WDT_MS
    BY <1>0, <1>13 DEF Start!elapse, Start!NotArmed
  <2> QED
    BY <2>1, <2>2, <2>3 DEF Ordered, Initialising
<1>14. CASE Start!wdt_reset
  <2>1. /\ main_pc' = "start" /\ service' = 1 /\ queue' = <<>> /\ running' = FALSE
        /\ spent' = 0 /\ tick_sem' = FALSE /\ unfed' = Start!NotArmed
        /\ early' = FALSE /\ damaged' = FALSE /\ slow' = FALSE /\ option' = option
    BY <1>14 DEF Start!wdt_reset
  <2>2. Behind(queue') /\ ~In(queue', "commit") /\ queue' \in Seq(Start!Works)
    BY <2>1 DEF Behind, In
  <2>3. unfed' \in Start!NotArmed..WDT_MS
    BY <1>0, <2>1 DEF Start!NotArmed
  <2>4. Ordered'
    BY <2>1, <2>2 DEF Ordered, Initialising
  <2>5. service' \in 1..10 /\ spent' \in Nat
    BY <2>1
  <2>6. /\ running' \in BOOLEAN /\ tick_sem' \in BOOLEAN
        /\ early' \in BOOLEAN /\ damaged' \in BOOLEAN /\ slow' \in BOOLEAN
    BY <2>1
  <2>7. option' \in [fastboot : BOOLEAN, watchdog : BOOLEAN]
    BY <2>1
  <2> QED
    BY <2>1, <2>2, <2>3, <2>4, <2>5, <2>6, <2>7
<1>15. CASE UNCHANGED Start!vars
  BY <1>15 DEF Start!vars, Ordered, Initialising
<1> QED
  BY <1>1, <1>2, <1>3, <1>5, <1>7, <1>8, <1>9, <1>10, <1>11, <1>12, <1>13, <1>14,
     <1>15 DEF Start!Next

\* Every service up to the next one is initialised or has failed, and only
\* those can fail that are allowed to.
Served ==
  /\ failed \subseteq Start!MayFail
  /\ \A i \in 1..9 : i < service => Start!Services[i] \in ready \cup failed
  /\ "input" \in ready => service > 7

\* Served is inductive: a service is passed over by initialising it only.
LEMMA ServedStep ==
  ASSUME BootTypes, Ordered, Served, [Start!Next]_(Start!vars)
  PROVE  Served'
<1>1. ASSUME UNCHANGED <<service, ready, failed>> PROVE Served'
  BY <1>1 DEF Served
<1>2. CASE Start!link_first \/ Start!defer \/ Start!services_running \/ Start!frame
             \/ Start!work_start \/ Start!output_svc_rx \/ Start!commit_due
             \/ Start!commit_handler \/ Start!input_tick \/ Start!elapse
             \/ UNCHANGED Start!vars
  BY <1>1, <1>2
     DEF Start!link_first, Start!defer, Start!services_running, Start!frame,
         Start!work_start, Start!output_svc_rx, Start!commit_due,
         Start!commit_handler, Start!input_tick, Start!elapse, Start!vars
<1>3. ASSUME NEW ok \in BOOLEAN, Start!init_service(ok) PROVE Served'
  <2>1. /\ service \in 1..9 /\ service' = service + 1
        /\ ok \/ Start!Services[service] \in Start!MayFail
        /\ ready' = IF ok THEN ready \cup {Start!Services[service]} ELSE ready
        /\ failed' = IF ok THEN failed ELSE failed \cup {Start!Services[service]}
    BY <1>3, ServiceOrder DEF Start!init_service, BootTypes
  <2>2. PICK name : name = Start!Services[service]
    OBVIOUS
  <2>3. /\ ready \subseteq ready' /\ failed \subseteq failed'
        /\ name \in ready' \cup failed' /\ failed' \subseteq Start!MayFail
        /\ "input" \in ready' => "input" \in ready \/ name = "input"
    BY <2>1, <2>2 DEF Served
  <2>4. ASSUME NEW i \in 1..9, i < service'
        PROVE  Start!Services[i] \in ready' \cup failed'
    <3>1. CASE i = service
      BY <2>2, <2>3, <3>1
    <3>2. CASE i < service
      BY <2>3, <3>2 DEF Served
    <3> QED
      BY <2>1, <2>4, <3>1, <3>2
  <2>5. "input" \in ready' => service' > 7
    <3>1. CASE name = "input"
      <4>1. service \in 1..9 /\ service' = service + 1
        BY <2>1
      <4>2. Start!Services[service] = "input"
        BY <2>2, <3>1
      <4>3. service = 7
        BY <4>1, <4>2, ServiceOrder
      <4> QED
        BY <4>1, <4>3
    <3>2. CASE "input" \in ready
      BY <2>1, <3>2 DEF Served
    <3> QED
      BY <2>3, <3>1, <3>2
  <2> QED
    BY <2>3, <2>4, <2>5 DEF Served
<1>4. CASE Start!wdt_reset
  BY <1>4 DEF Start!wdt_reset, Served
<1> QED
  BY <1>2, <1>3, <1>4 DEF Start!Next

\* A frame waits on the workqueue only behind the initialisation, or came
\* early.
Safe ==
  /\ In(queue, "rx") => early \/ main_pc = "done"
  /\ DeferredIsSafe

\* Safe is inductive: a frame waits behind the initialisation once that has been
\* deferred.
LEMMA SafeStep ==
  ASSUME BootTypes, Ordered, Served, Safe, [Start!Next]_(Start!vars)
  PROVE  Safe'
<1> USE DEF DeferredIsSafe, Start!DeferredIsSafe
<1>0. {"init", "rx", "commit"} = Start!Works
  BY DEF Start!Works
<1>1. ASSUME UNCHANGED <<queue, early, damaged>>, failed \subseteq failed',
             main_pc' = main_pc \/ main_pc' = "done" \/ queue = <<>>
                \/ main_pc = "start"
      PROVE  Safe'
  <2>1. queue = <<>> => ~In(queue, "rx")
    BY DEF In
  <2>2. main_pc = "start" => main_pc # "done"
    OBVIOUS
  <2> QED
    BY <1>1, <2>1, <2>2 DEF Safe
<1>2. CASE Start!link_first \/ Start!work_start \/ Start!input_tick \/ Start!elapse
             \/ UNCHANGED Start!vars
  BY <1>1, <1>2 DEF Start!link_first, Start!work_start, Start!input_tick,
                    Start!elapse, Start!vars
<1>3. CASE Start!defer
  <2>1. queue = <<>> /\ UNCHANGED <<early, damaged, failed>>
        /\ (queue' = queue \/ main_pc' = "done")
    BY <1>3 DEF Start!defer, Start!CpuFree
  <2>2. ~In(queue, "rx")
    BY <2>1 DEF In
  <2> QED
    BY <2>1, <2>2 DEF Safe
<1>4. ASSUME NEW ok \in BOOLEAN, Start!init_service(ok) PROVE Safe'
  <2>1. failed \subseteq failed' /\ UNCHANGED <<queue, early, damaged, main_pc>>
    BY <1>4 DEF Start!init_service
  <2> QED
    BY <1>1, <2>1
<1>5. CASE Start!services_running
  <2>1. /\ UNCHANGED <<early, damaged, failed>>
        /\ \/ queue # <<>> /\ queue' = Tail(queue) /\ main_pc' = main_pc
           \/ queue' = queue /\ main_pc' = "done"
    BY <1>5 DEF Start!services_running, Start!finish, Start!Running, BootTypes, Ordered
  <2>2. In(queue', "rx") => In(queue, "rx")
    BY <1>0, <2>1, ItemLeaves DEF BootTypes
  <2> QED
    BY <2>1, <2>2 DEF Safe
<1>6. CASE Start!frame
  <2>1. /\ early' = (early \/ main_pc # "done")
        /\ UNCHANGED <<main_pc, failed, damaged>>
    BY <1>6 DEF Start!frame
  <2> QED
    BY <2>1 DEF Safe
<1>7. CASE Start!output_svc_rx
  <2>1. /\ running /\ Head(queue) = "rx" /\ queue' = Tail(queue) /\ queue # <<>>
        /\ damaged' = (damaged \/ ~({"power", "led"} \subseteq ready))
        /\ UNCHANGED <<main_pc, failed, early>>
    BY <1>7 DEF Start!output_svc_rx, Start!finish, Start!Running, Ordered
  <2>2. In(queue, "rx") /\ (In(queue', "rx") => In(queue, "rx"))
    BY <1>0, <2>1, ItemLeaves DEF BootTypes
  <2>3. ASSUME main_pc = "done" PROVE {"power", "led"} \subseteq ready \cup failed
    <3>1. ~Initialising
      BY <2>1, <2>3 DEF Initialising
    <3>2. service > 9
      BY <2>3, <3>1 DEF Ordered, BootTypes
    <3>3. /\ Start!Services[3] \in ready \cup failed
          /\ Start!Services[5] \in ready \cup failed
      BY <3>2 DEF Served, BootTypes
    <3> QED
      BY <3>3, ServiceOrder
  <2>4. "led" \notin failed
    BY DEF Served, Start!MayFail
  <2>5. damaged' => early \/ "power" \in failed
    BY <2>1, <2>2, <2>3, <2>4 DEF Safe
  <2> QED
    BY <2>1, <2>2, <2>5 DEF Safe
<1>8. CASE Start!commit_due
  <2>1. queue' = Append(queue, "commit")
        /\ UNCHANGED <<main_pc, failed, early, damaged>>
    BY <1>8 DEF Start!commit_due
  <2>2. In(queue', "rx") => In(queue, "rx")
    BY <1>0, <2>1, ItemJoins DEF BootTypes
  <2> QED
    BY <2>1, <2>2 DEF Safe
<1>9. CASE Start!commit_handler
  <2>1. queue # <<>> /\ queue' = Tail(queue)
        /\ UNCHANGED <<main_pc, failed, early, damaged>>
    BY <1>9 DEF Start!commit_handler, Start!finish, Start!Running, Ordered
  <2>2. In(queue', "rx") => In(queue, "rx")
    BY <1>0, <2>1, ItemLeaves DEF BootTypes
  <2> QED
    BY <2>1, <2>2 DEF Safe
<1>10. CASE Start!wdt_reset
  <2>1. queue' = <<>> /\ damaged' = FALSE
    BY <1>10 DEF Start!wdt_reset
  <2>2. ~In(queue', "rx")
    BY <2>1 DEF In
  <2> QED
    BY <2>1, <2>2 DEF Safe
<1> QED
  BY <1>2, <1>3, <1>4, <1>5, <1>6, <1>7, <1>8, <1>9, <1>10 DEF Start!Next

\* The time without a feed, in the commit and in the initialisation: no longer
\* than the work itself, for a work begins right after a feed, or before the
\* first.
Commits == running /\ Head(queue) = "commit"

Committing == unfed <= spent /\ (unfed > 0 => tick_sem)

Timely ==
  /\ main_pc \in {"start", "linked"} =>
       unfed = Start!NotArmed /\ spent = 0 /\ ~tick_sem
  /\ "input" \notin ready => ~tick_sem
  /\ Initialising => unfed <= spent
  /\ main_pc = "done" /\ ~Initialising /\ Commits => Committing
  /\ main_pc = "done" /\ ~Initialising /\ ~Commits =>
       spent = 0 /\ (In(queue, "commit") /\ ~tick_sem => unfed <= 0)

\* Unless one work took too long, a tick is served before the timeout.
Prompt == unfed < WDT_MS /\ (~tick_sem => unfed < WDT_MS - 1)

\* The account of the time without a feed is inductive as long as the input
\* service is initialised: a reset begins it anew.
LEMMA TimelyStep ==
  ASSUME BootTypes, Ordered, Served, [Start!Next]_(Start!vars), Ordered',
         "input" \notin failed => Timely /\ (~slow => Prompt)
  PROVE  "input" \notin failed' => Timely' /\ (~slow' => Prompt')
<1>0. /\ InitTime \in Nat /\ CommitTime \in Nat /\ WDT_MS \in Nat /\ WDT_MS > 1
      /\ Start!NotArmed = -1 /\ {"init", "rx", "commit"} = Start!Works
      /\ unfed \in Int /\ spent \in Nat
  BY BootAssumption DEF Start!Assumptions, Start!Works, Start!NotArmed, BootTypes
<1>1. CASE Start!wdt_reset
  <2>1. /\ main_pc' = "start" /\ queue' = <<>> /\ spent' = 0
        /\ tick_sem' = FALSE /\ unfed' = Start!NotArmed
    BY <1>1 DEF Start!wdt_reset
  <2> QED
    BY <1>0, <2>1 DEF Timely, Initialising, Prompt
<1>2. SUFFICES ASSUME ~Start!wdt_reset, "input" \notin failed'
               PROVE  Timely' /\ (~slow' => Prompt')
  BY <1>1
<1>3. "input" \notin failed
  <2>1. ASSUME NEW ok \in BOOLEAN, Start!init_service(ok) PROVE failed \subseteq failed'
    BY <2>1 DEF Start!init_service
  <2>2. CASE UNCHANGED failed
    BY <1>2, <2>2
  <2> QED
    BY <1>2, <2>1, <2>2
       DEF Start!Next, Start!link_first, Start!defer, Start!services_running,
           Start!frame, Start!work_start, Start!output_svc_rx, Start!commit_due,
           Start!commit_handler, Start!input_tick, Start!elapse, Start!vars
<1>4. Timely /\ (~slow => Prompt)
  BY <1>3
<1>s. ASSUME UNCHANGED <<slow, unfed, tick_sem>> PROVE ~slow' => Prompt'
  BY <1>4, <1>s DEF Prompt
<1>5. ASSUME main_pc = "done", ~Initialising PROVE "input" \in ready
  <2>1. service > 9
    BY <1>5 DEF Ordered, BootTypes
  <2> QED
    BY <1>3, <2>1, ServiceOrder DEF Served, BootTypes
<1>6. running => queue # <<>>
  BY DEF Ordered
<1>7. CASE Start!link_first
  <2>1. UNCHANGED <<ready, queue, running, spent, tick_sem, unfed, slow>>
        /\ main_pc = "start" /\ main_pc' = "linked"
    BY <1>7 DEF Start!link_first
  <2> QED
    BY <1>4, <1>s, <2>1 DEF Timely, Initialising
<1>8. CASE Start!defer
  <2>1. UNCHANGED <<ready, running, spent, tick_sem, unfed, slow>>
        /\ main_pc = "linked" /\ queue = <<>>
        /\ main_pc' \in {"done", "services"}
    BY <1>8 DEF Start!defer, Start!CpuFree
  <2>2. Initialising'
    <3>1. Append(queue, "init") # <<>> /\ Head(Append(queue, "init")) = "init"
      BY <1>0, <2>1, ItemJoins DEF BootTypes
    <3> QED
      BY <1>8, <3>1 DEF Start!defer, Initialising
  <2>3. unfed' <= spent'
    BY <1>0, <1>4, <2>1 DEF Timely
  <2> QED
    BY <1>4, <1>s, <2>1, <2>2, <2>3 DEF Timely
<1>9. ASSUME NEW ok \in BOOLEAN, Start!init_service(ok)
      PROVE  Timely' /\ (~slow' => Prompt')
  <2>1. /\ UNCHANGED <<main_pc, queue, running, spent, tick_sem, slow>>
        /\ unfed' \in {unfed, 0} /\ ready \subseteq ready'
    BY <1>9 DEF Start!init_service
  <2>2. Initialising
    BY <1>9 DEF Start!init_service, Start!Initialising, Start!Running,
                Initialising, Ordered
  <2>3. main_pc \notin {"start", "linked"}
    BY <2>2 DEF Ordered, Initialising
  <2>4. Initialising'
    BY <2>1, <2>2 DEF Initialising
  <2>5. unfed' <= spent'
    BY <1>0, <1>4, <2>1, <2>2 DEF Timely
  <2>6. ~slow' => Prompt'
    BY <1>0, <1>4, <2>1 DEF Prompt
  <2> QED
    BY <1>4, <2>1, <2>3, <2>4, <2>5, <2>6 DEF Timely
<1>10. CASE Start!services_running
  <2>1. Initialising /\ UNCHANGED <<ready, tick_sem, unfed, slow>> /\ spent' = 0
        /\ main_pc' = "done"
    BY <1>10 DEF Start!services_running, Start!Initialising, Start!finish,
                 Start!Running, Initialising, Ordered
  <2>3. ~Initialising' /\ ~Commits' /\ ~In(queue', "commit")
    <3>1. CASE option.fastboot
      <4>1. queue # <<>> /\ queue' = Tail(queue) /\ running' = FALSE
        BY <1>10, <3>1 DEF Start!services_running, Start!finish, Start!Running,
                           Ordered
      <4>2. (queue' # <<>> => Head(queue') # "init") /\ ~In(queue', "commit")
        BY <1>0, <2>1, <4>1, ItemLeaves DEF BootTypes, Ordered
      <4> QED
        BY <2>1, <4>1, <4>2 DEF Initialising, Commits
    <3>2. CASE ~option.fastboot
      <4>1. queue = <<>> /\ queue' = <<>> /\ running' = running
        BY <1>10, <3>2 DEF Start!services_running, Start!Initialising, Start!CpuFree
      <4> QED
        BY <1>6, <2>1, <4>1 DEF Initialising, Commits, In
    <3> QED
      BY <3>1, <3>2
  <2> QED
    BY <1>4, <1>s, <2>1, <2>3 DEF Timely
<1>11. ASSUME NEW w \in {"rx", "commit"}, queue' = Append(queue, w),
              w = "commit" => (unfed \in {Start!NotArmed, 0} \/ tick_sem),
              UNCHANGED <<main_pc, ready, running, spent, tick_sem, unfed, slow>>
       PROVE  Timely' /\ (~slow' => Prompt')
  <2>1. /\ queue' # <<>> /\ queue # <<>> => Head(queue') = Head(queue)
        /\ queue = <<>> => Head(queue') # "init"
        /\ In(queue', "commit") => In(queue, "commit") \/ w = "commit"
    BY <1>0, <1>11, ItemJoins DEF BootTypes
  <2>2. (Initialising' <=> Initialising) /\ (Commits' <=> Commits)
    BY <1>6, <1>11, <2>1 DEF Initialising, Commits
  <2>3. Committing' <=> Committing
    BY <1>11 DEF Committing
  <2>4. w = "commit" /\ ~tick_sem => unfed <= 0
    BY <1>0, <1>11
  <2> QED
    BY <1>4, <1>s, <1>11, <2>1, <2>2, <2>3, <2>4 DEF Timely
<1>12. CASE Start!frame
  BY <1>11, <1>12 DEF Start!frame, Start!submit_rx
<1>13. CASE Start!work_start
  <2>1. queue # <<>> /\ ~running /\ ~tick_sem
        /\ UNCHANGED <<main_pc, ready, queue, spent, tick_sem, unfed, slow>>
    BY <1>13 DEF Start!work_start
  <2>2. (Initialising' <=> Initialising) /\ ~Commits
    BY <2>1 DEF Initialising, Commits
  <2>4. Commits' => In(queue, "commit")
    BY <1>0, <2>1, ItemLeaves DEF Commits, BootTypes
  <2>5. spent = 0 /\ unfed <= 0 => Committing'
    BY <1>0, <2>1 DEF Committing
  <2> QED
    BY <1>4, <1>s, <2>1, <2>2, <2>4, <2>5 DEF Timely
<1>14. ASSUME queue # <<>>, queue' = Tail(queue), running' = FALSE,
              Head(queue) # "init",
              UNCHANGED <<main_pc, ready, tick_sem, unfed, slow>>,
              main_pc = "done" =>
                spent' = 0 /\ (In(queue, "commit") /\ ~tick_sem => unfed <= 0),
              main_pc # "done" => spent' = spent
       PROVE  Timely' /\ (~slow' => Prompt')
  <2>1. /\ queue' # <<>> => Head(queue') # "init"
        /\ In(queue', "commit") => In(queue, "commit")
    BY <1>0, <1>14, ItemLeaves DEF BootTypes, Ordered
  <2>2. Initialising' => Initialising /\ main_pc # "done"
    BY <1>14, <2>1 DEF Initialising
  <2>4. ~Commits'
    BY <1>14 DEF Commits
  <2> QED
    BY <1>4, <1>s, <1>14, <2>1, <2>2, <2>4 DEF Timely
<1>15. CASE Start!output_svc_rx
  <2>1. /\ queue # <<>> /\ queue' = Tail(queue) /\ running' = FALSE
        /\ Head(queue) = "rx"
        /\ UNCHANGED <<main_pc, ready, tick_sem, unfed, spent, slow>>
    BY <1>15 DEF Start!output_svc_rx, Start!finish, Start!Running, Ordered
  <2>3. main_pc = "done" => ~Initialising /\ ~Commits
    BY <2>1 DEF Initialising, Commits
  <2>4. main_pc = "done" =>
          spent' = 0 /\ (In(queue, "commit") /\ ~tick_sem => unfed <= 0)
    BY <1>4, <2>1, <2>3 DEF Timely
  <2> QED
    BY <1>14, <2>1, <2>4
<1>16. CASE Start!commit_due
  BY <1>11, <1>16 DEF Start!commit_due
<1>17. CASE Start!commit_handler
  <2>1. /\ queue # <<>> /\ queue' = Tail(queue) /\ running' = FALSE
        /\ Head(queue) = "commit" /\ running
        /\ UNCHANGED <<main_pc, ready, tick_sem, unfed, slow>> /\ spent' = 0
    BY <1>17 DEF Start!commit_handler, Start!finish, Start!Running, Ordered
  <2>2. In(queue, "commit")
    BY <1>0, <2>1, ItemLeaves DEF BootTypes
  <2>3. main_pc = "done" /\ ~Initialising /\ Commits
    BY <2>1, <2>2 DEF Ordered, Commits
  <2>4. Committing
    BY <1>4, <2>3 DEF Timely
  <2>5. ~tick_sem => unfed <= 0
    BY <1>0, <2>4 DEF Committing
  <2> QED
    BY <1>14, <2>1, <2>3, <2>5
<1>18. CASE Start!input_tick
  <2>1. UNCHANGED <<main_pc, ready, queue, running, spent>>
        /\ tick_sem /\ ~running /\ tick_sem' = FALSE
        /\ unfed' = IF unfed = Start!NotArmed THEN Start!NotArmed ELSE 0
    BY <1>18 DEF Start!input_tick, Start!rim_wdt_feed
  <2>2. (Initialising' <=> Initialising) /\ ~Commits /\ ~Commits' /\ unfed' <= 0
    BY <1>0, <2>1 DEF Initialising, Commits
  <2>3. unfed' <= spent' /\ Prompt'
    BY <1>0, <2>1, <2>2 DEF Prompt
  <2> QED
    BY <1>4, <2>1, <2>2, <2>3 DEF Timely
<1>19. CASE Start!elapse
  <2>1. /\ UNCHANGED <<option, main_pc, ready, queue, running>>
        /\ tick_sem' = ("input" \in ready)
        /\ unfed' = IF unfed = Start!NotArmed THEN unfed ELSE unfed + 1
        /\ slow' = (slow \/ Start!TakesTooLong)
    BY <1>19 DEF Start!elapse
  <2>2. unfed' <= unfed + 1 /\ unfed' \in Int /\ (unfed < 0 => unfed' < 0)
    BY <1>0, <2>1 DEF BootTypes
  <2>3. (Initialising' <=> Initialising) /\ (Commits' <=> Commits)
    BY <2>1 DEF Initialising, Commits
  <2>i. ~slow' => ~slow /\ ~Start!TakesTooLong
    BY <2>1 DEF BootTypes
  <2>4. CASE Initialising
    <3>1. /\ spent' = spent + 1 /\ main_pc \notin {"start", "linked"}
          /\ option.fastboot => Start!Running("init")
          /\ ~option.fastboot => main_pc = "services" /\ Start!CpuFree
      <4>1. queue # <<>> => Head(queue) # "commit"
        BY <1>0, <2>4, ItemLeaves DEF Ordered, BootTypes
      <4> QED
        BY <1>6, <1>19, <2>4, <4>1 DEF Start!elapse, Start!CpuFree, Start!Running,
                                       Initialising, Ordered
    <3>2. unfed' <= spent'
      BY <1>0, <1>4, <2>2, <2>4, <3>1 DEF Timely
    <3>3. ~slow' => Prompt'
      <4>1. SUFFICES ASSUME ~slow' PROVE Prompt'
        OBVIOUS
      <4>2. CASE option.fastboot \/ "input" \notin ready
        <5>1. Start!Initialising
          <6>1. CASE option.fastboot
            BY <3>1, <6>1, Zenon DEF Start!Initialising
          <6>2. CASE ~option.fastboot
            BY <3>1, <6>2, Zenon DEF Start!Initialising
          <6> QED
            BY <6>1, <6>2
        <5>2. ~(spent' >= WDT_MS - 1)
          <6>1. ~Start!TakesTooLong
            BY <2>i, <4>1
          <6>2. spent' >= WDT_MS - 1 => Start!TakesTooLong
            BY <4>2, <5>1, Zenon DEF Start!TakesTooLong
          <6> QED
            BY <6>1, <6>2
        <5> QED
          BY <1>0, <2>2, <3>1, <3>2, <5>2 DEF Prompt
      <4>3. CASE ~option.fastboot /\ "input" \in ready
        <5>1. unfed < WDT_MS - 1
          BY <1>4, <2>i, <3>1, <4>1, <4>3 DEF Prompt, Start!CpuFree
        <5>2. tick_sem'
          BY <2>1, <4>3, Zenon
        <5>3. unfed' < WDT_MS
          BY <1>0, <2>2, <5>1
        <5> QED
          BY <5>2, <5>3 DEF Prompt
      <4> QED
        BY <4>2, <4>3
    <3> QED
      BY <1>4, <2>1, <2>3, <2>4, <3>1, <3>2, <3>3 DEF Timely
  <2>5. CASE main_pc = "done" /\ ~Initialising /\ Commits
    <3>1. spent' = spent + 1 /\ Start!Running("commit")
      BY <1>6, <1>19, <2>5 DEF Start!elapse, Start!CpuFree, Start!Running, Commits
    <3>2. tick_sem'
      BY <1>5, <2>1, <2>5
    <3>3. Committing'
      BY <1>0, <1>4, <2>2, <2>5, <3>1, <3>2 DEF Timely, Committing
    <3>4. ~slow' => Prompt'
      <4>1. ~slow' => ~(spent' >= WDT_MS)
        BY <2>i, <3>1 DEF Start!TakesTooLong
      <4> QED
        BY <1>0, <2>2, <3>1, <3>2, <3>3, <4>1 DEF Prompt, Committing
    <3> QED
      BY <1>5, <2>1, <2>3, <2>5, <3>3, <3>4 DEF Timely
  <2>6. CASE main_pc = "done" /\ ~Initialising /\ ~Commits
    <3>1. queue = <<>> /\ ~tick_sem /\ spent' = spent
      BY <1>6, <1>19, <2>6 DEF Start!elapse, Start!CpuFree, Commits, Initialising
    <3>2. tick_sem'
      BY <1>5, <2>1, <2>6
    <3>3. ~slow' => Prompt'
      BY <1>0, <1>4, <2>2, <2>i, <3>1, <3>2 DEF Prompt
    <3> QED
      BY <1>4, <1>5, <2>1, <2>3, <2>6, <3>1, <3>2, <3>3 DEF Timely
  <2>7. CASE main_pc \in {"start", "linked"}
    <3>1. \E i \in 1..1 : running /\ Head(queue) \in {"init", "commit"}
      BY <1>19, <2>7 DEF Start!elapse
    <3>2. In(queue, Head(queue)) /\ queue # <<>>
      BY <1>0, <1>6, <3>1, ItemLeaves DEF BootTypes
    <3> QED
      BY <2>7, <3>1, <3>2 DEF Ordered
  <2> QED
    BY <2>4, <2>5, <2>6, <2>7 DEF BootTypes, Initialising
<1>20. CASE UNCHANGED Start!vars
  BY <1>4, <1>20 DEF Start!vars, Timely, Initialising, Commits, Committing, Prompt
<1> QED
  BY <1>2, <1>7, <1>8, <1>9, <1>10, <1>12, <1>13, <1>15, <1>16, <1>17, <1>18,
     <1>19, <1>20 DEF Start!Next

\* The invariant of the start-up, and the one of its times.
BootInv == BootTypes /\ Ordered /\ Served /\ Safe

\* The reset state satisfies the invariants of the start-up.
LEMMA BootInit ==
  ASSUME Start!Init
  PROVE  BootInv /\ Timely /\ Prompt
<1>0. WDT_MS \in Nat /\ WDT_MS > 1
  BY BootAssumption DEF Start!Assumptions
<1>1. /\ main_pc = "start" /\ service = 1 /\ ready = {} /\ failed = {}
      /\ queue = <<>> /\ running = FALSE /\ spent = 0 /\ tick_sem = FALSE
      /\ unfed = Start!NotArmed /\ early = FALSE /\ damaged = FALSE /\ slow = FALSE
      /\ option \in [fastboot : BOOLEAN, watchdog : BOOLEAN]
  BY DEF Start!Init
<1>2. ~In(queue, "rx") /\ ~In(queue, "commit") /\ Behind(queue) /\ queue \in Seq(Start!Works)
  BY <1>1 DEF In, Behind
<1>3. BootTypes
  <2>1. unfed \in Start!NotArmed..WDT_MS
    BY <1>0, <1>1 DEF Start!NotArmed
  <2>2. service \in 1..10 /\ spent \in Nat
    BY <1>1
  <2> QED
    BY <1>1, <1>2, <2>1, <2>2 DEF BootTypes
<1>4. Ordered
  BY <1>1, <1>2 DEF Ordered, Initialising
<1>5. Served
  BY <1>1 DEF Served
<1>6. Safe
  BY <1>1, <1>2 DEF Safe, DeferredIsSafe, Start!DeferredIsSafe
<1>7. Timely
  BY <1>1, <1>2 DEF Timely, Initialising
<1>8. Prompt
  BY <1>0, <1>1 DEF Prompt, Start!NotArmed
<1> QED
  BY <1>3, <1>4, <1>5, <1>6, <1>7, <1>8 DEF BootInv

\* A step of the services is one of the start-up or leaves it alone.
LEMMA BootSteps ==
  ASSUME [Next]_vars
  PROVE  [Start!Next]_(Start!vars)
<1>1. CASE boot_step
  BY <1>1 DEF boot_step
<1>2. CASE UNCHANGED boot_vars
  BY <1>2 DEF boot_vars, Start!vars
<1> QED
  BY <1>1, <1>2
     DEF Next, vars, capture_step, settings_step, health_step, display_step,
         text_step, latency_step

\* Every step of the composition keeps the invariant of the start-up.
LEMMA BootStep ==
  ASSUME BootInv, [Next]_vars
  PROVE  BootInv'
BY BootSteps, OrderedStep, ServedStep, SafeStep DEF BootInv

\* Behind the deferred initialisation frames are safe: a frame's delayable
\* work is scheduled before its initialisation only when the frame arrived
\* before main() had seen to the services, or the rail's initialisation failed
\* (main.c, output_svc.c, power_mgr.c).
THEOREM FramesWaitTheirTurn == Spec => []DeferredIsSafe
<1>1. Init => BootInv
  BY BootInit DEF Init
<1>2. BootInv /\ [Next]_vars => BootInv'
  BY BootStep
<1>3. BootInv => DeferredIsSafe
  BY DEF BootInv, Safe
<1> QED
  BY <1>1, <1>2, <1>3, PTL DEF Spec

\* The watchdog resets for a dead input path, or for one commit or one
\* initialisation that took its timeout: shorter ones never add up, whatever the
\* timeout (main.c, rim_wdt.c, input_svc.c).
THEOREM ResetsAreDeserved == Spec => ResetIsDeserved
<1> DEFINE Inv == BootInv /\ ("input" \notin failed => Timely /\ (~slow => Prompt))
           Deserved == main_pc # "start" /\ main_pc' = "start" =>
                         "input" \in failed \/ slow
<1>1. Init => Inv
  BY BootInit DEF Init
<1>2. Inv /\ [Next]_vars => Inv'
  <2>1. ASSUME Inv, [Next]_vars PROVE Inv'
    BY <2>1, BootStep, BootSteps, TimelyStep DEF BootInv
  <2> QED
    BY <2>1
<1>3. Inv /\ [Next]_vars => [Deserved]_(Start!vars)
  <2>1. ASSUME Inv, [Start!Next]_(Start!vars), main_pc # "start", main_pc' = "start"
        PROVE  "input" \in failed \/ slow
    <3>1. Start!wdt_reset
      <4>1. \A ok \in BOOLEAN : Start!init_service(ok) => main_pc' = main_pc
        BY DEF Start!init_service
      <4> QED
        BY <2>1, <4>1
           DEF Start!Next, Start!link_first, Start!defer, Start!services_running,
               Start!frame, Start!work_start, Start!output_svc_rx, Start!commit_due,
               Start!commit_handler, Start!input_tick, Start!elapse, Start!vars
    <3>2. unfed = WDT_MS /\ WDT_MS \in Nat
      BY <3>1, BootAssumption DEF Start!wdt_reset, Start!Assumptions
    <3>3. ~Prompt
      BY <3>2 DEF Prompt
    <3> QED
      BY <2>1, <3>3
  <2> QED
    BY <2>1, BootSteps
<1>4. [][Deserved]_(Start!vars) => ResetIsDeserved
  BY DEF ResetIsDeserved, Start!ResetIsDeserved
<1> QED
  BY <1>1, <1>2, <1>3, <1>4, PTL DEF Spec

-----------------------------------------------------------------------------
(* The health counters *)

\* A number is its remainder and full turns.
LEMMA FullTurns ==
  ASSUME NEW d \in Nat \ {0}, NEW x \in Int
  PROVE  \E r \in 0..(d - 1), q \in Int : r = x % d /\ x = r + q * d
<1>1. PICK q \in Int : q = x \div d /\ x % d = x - d * q
  BY Remainder
<1>2. PICK r \in 0..(d - 1) : r = x % d
  BY Remainder
<1>3. PICK u \in Int : u = d * q /\ u = q * d
  OBVIOUS
<1>4. r = x - u
  BY <1>1, <1>2, <1>3, Zenon
<1>5. x = r + u
  BY <1>4
<1>6. x = r + q * d
  BY <1>3, <1>5, Zenon
<1> QED
  BY <1>2, <1>6, Zenon

\* The way around the counter from one value to another is no longer than the
\* way by a third, and that one is at most a full turn longer.
LEMMA NoShorterWay ==
  ASSUME NEW d \in Nat \ {0}, NEW x \in Int, NEW y \in Int, NEW z \in Int
  PROVE  /\ (x - z) % d <= ((x - y) % d) + ((y - z) % d)
         /\ ((x - y) % d) + ((y - z) % d) <= ((x - z) % d) + d
<1>0. x - y \in Int /\ y - z \in Int
  OBVIOUS
<1>1. PICK a \in 0..(d - 1), i \in Int : a = (x - y) % d /\ x - y = a + i * d
  BY <1>0, FullTurns, Zenon
<1>2. PICK b \in 0..(d - 1), j \in Int : b = (y - z) % d /\ y - z = b + j * d
  BY <1>0, FullTurns, Zenon
<1>9. PICK e \in Int : e = a + b /\ e >= 0
  OBVIOUS
<1>3. PICK c \in 0..(d - 1), k \in Int : c = e % d /\ e = c + k * d
  BY FullTurns, Zenon
<1>4. PICK u \in Int, v \in Int : u = i * d /\ v = j * d /\ (i + j) * d = u + v
  OBVIOUS
<1>5. x - z = e + (i + j) * d
  <2>1. PICK w \in Int : w = (i + j) * d /\ w = u + v
    BY <1>4
  <2>2. x - y = a + u /\ y - z = b + v
    BY <1>1, <1>2, <1>4, Zenon
  <2>3. x - z = e + w
    BY <1>9, <2>1, <2>2
  <2> QED
    BY <2>1, <2>3, Zenon
<1>6. (x - z) % d = c
  <2>1. i + j \in Int
    OBVIOUS
  <2>2. (e + (i + j) * d) % d = e % d
    BY <2>1, SameSlot, Zenon
  <2> QED
    BY <1>3, <1>5, <2>2, Zenon
<1>7. c <= e /\ e <= c + d
  <2>1. k >= 0
    <3>1. SUFFICES ASSUME k <= -1 PROVE FALSE
      OBVIOUS
    <3>2. PICK w \in Int : w = k * d /\ w <= -d
      BY <3>1
    <3>3. e = c + w
      BY <1>3, <3>2, Zenon
    <3> QED
      BY <1>9, <3>2, <3>3
  <2>2. PICK w \in Int : w = k * d /\ w >= 0
    BY <2>1
  <2>3. e = c + w
    BY <1>3, <2>2, Zenon
  <2>4. k <= 1
    <3>1. SUFFICES ASSUME k >= 2 PROVE FALSE
      OBVIOUS
    <3>2. PICK m \in Int : m = k * d /\ m >= d + d
      BY <3>1
    <3>3. e = c + m
      BY <1>3, <3>2, Zenon
    <3>4. e < d + d
      BY <1>9
    <3> QED
      BY <3>2, <3>3, <3>4
  <2>5. w <= d
    BY <2>1, <2>2, <2>4
  <2> QED
    BY <2>2, <2>3, <2>5
<1>8. c <= a + b /\ a + b <= c + d
  BY <1>9, <1>7
<1>10. (x - z) % d <= a + b /\ a + b <= ((x - z) % d) + d
  BY <1>6, <1>8, Zenon
<1>11. (x - y) % d = a /\ (y - z) % d = b
  BY <1>1, <1>2, Zenon
<1> QED
  BY <1>10, <1>11

\* A step of a counter, also the one that wraps it, is one step more from
\* where it was.
LEMMA OneStepFurther ==
  ASSUME NEW d \in Nat \ {0}, NEW x \in Int, NEW y \in Int, NEW z \in Int,
         z = x + 1 \/ z = x + 1 - d, (x - y) % d < d - 1
  PROVE  (z - y) % d = ((x - y) % d) + 1
<1>0. x - y \in Int
  OBVIOUS
<1>1. PICK r \in 0..(d - 1), q \in Int : r = (x - y) % d /\ x - y = r + q * d
  BY <1>0, FullTurns, Zenon
<1>2. r + 1 \in 0..(d - 1)
  <2>1. r < d - 1
    BY <1>1, Zenon
  <2> QED
    BY <2>1
<1>3. \E p \in Int : z - y = (r + 1) + p * d
  <2>1. CASE z = x + 1
    <3>1. PICK w \in Int : w = q * d
      OBVIOUS
    <3>2. z - y = (r + 1) + w
      BY <1>1, <2>1, <3>1
    <3> QED
      BY <3>1, <3>2, Zenon
  <2>2. CASE z = x + 1 - d
    <3>1. PICK w \in Int, p \in Int : w = q * d /\ p = q - 1 /\ p * d = w - d
      OBVIOUS
    <3>2. PICK v \in Int : v = p * d /\ v = w - d
      BY <3>1
    <3>3. z - y = (r + 1) + v
      BY <1>1, <2>2, <3>1, <3>2
    <3> QED
      BY <3>2, <3>3, Zenon
  <2> QED
    BY <2>1, <2>2
<1>4. (z - y) % d = (r + 1) % d
  <2>1. PICK p \in Int : z - y = (r + 1) + p * d
    BY <1>3
  <2>2. r + 1 \in Int
    OBVIOUS
  <2>3. ((r + 1) + p * d) % d = (r + 1) % d
    BY <2>2, SameSlot, Zenon
  <2> QED
    BY <2>1, <2>3, Zenon
<1>5. (r + 1) % d = r + 1
  BY <1>2
<1> QED
  BY <1>1, <1>4, <1>5, Zenon

\* The differences of the error counters, each reduced, add up to that of the
\* sum.
LEMMA SumOfDifferences ==
  ASSUME NEW d \in Nat \ {0}, NEW x \in Int, NEW y \in Int, NEW z \in Int
  PROVE  ((x % d) + (y % d) + (z % d)) % d = (x + y + z) % d
<1>1. PICK a \in 0..(d - 1), i \in Int : a = x % d /\ x = a + i * d
  BY FullTurns
<1>2. PICK b \in 0..(d - 1), j \in Int : b = y % d /\ y = b + j * d
  BY FullTurns
<1>3. PICK c \in 0..(d - 1), k \in Int : c = z % d /\ z = c + k * d
  BY FullTurns
<1>4. PICK m \in Int, w \in Int : m = i + j + k /\ w = m * d /\ w = i * d + j * d + k * d
  OBVIOUS
<1>5. PICK u \in Int, v \in Int, t \in Int : u = i * d /\ v = j * d /\ t = k * d
  OBVIOUS
<1>6. x + y + z = (a + b + c) + w
  BY <1>1, <1>2, <1>3, <1>4, <1>5
<1>7. ((a + b + c) + m * d) % d = (a + b + c) % d
  <2>1. a + b + c \in Int
    OBVIOUS
  <2> QED
    BY <2>1, SameSlot, Zenon
<1> QED
  BY <1>1, <1>2, <1>3, <1>4, <1>6, <1>7, Zenon

\* What the proofs use of the types.
HealthTypes ==
  /\ {stats, last, now} \subseteq [Counts!Stats -> 0..(Mod - 1)]
  /\ {hc, saved, at_boot} \subseteq Counts!Counters
  /\ adrift \in BOOLEAN
  /\ sum \in Nat
  /\ seen \in [Counts!Stats -> Nat]
  /\ overlapped \in BOOLEAN
  /\ shell \in {"idle", "load_txn", "store_txn", "load_err", "store_err", "set_last"}

\* The errors together may be taken for one counter.
LEMMA OneCounter ==
  ASSUME NEW a \in [Counts!Stats -> 0..(Mod - 1)], NEW b \in [Counts!Stats -> 0..(Mod - 1)]
  PROVE  /\ Counts!txn_delta(a, b) = (a["txn_count"] - b["txn_count"]) % Mod
         /\ Counts!err_delta(a, b) = (Counts!errors(a) - Counts!errors(b)) % Mod
         /\ Counts!txn_delta(a, b) \in 0..(Mod - 1)
         /\ Counts!err_delta(a, b) \in 0..(Mod - 1)
         /\ Counts!errors(a) \in Nat
<1>0. Mod \in Nat \ {0}
  BY HealthAssumption DEF Counts!Assumptions
<1>1. /\ {a["txn_count"], a["crc_err_rx"], a["short_frame"], a["overrun"]} \subseteq 0..(Mod - 1)
      /\ {b["txn_count"], b["crc_err_rx"], b["short_frame"], b["overrun"]} \subseteq 0..(Mod - 1)
  BY DEF Counts!Stats
<1>2. Counts!errors(a) \in Nat /\ Counts!errors(b) \in Nat
  BY <1>0, <1>1 DEF Counts!errors
<1>3. Counts!txn_delta(a, b) = (a["txn_count"] - b["txn_count"]) % Mod
  BY DEF Counts!txn_delta, Counts!difference
<1>4. Counts!err_delta(a, b) = (Counts!errors(a) - Counts!errors(b)) % Mod
  <2>1. PICK x \in Int, y \in Int, z \in Int :
          /\ x = a["crc_err_rx"] - b["crc_err_rx"]
          /\ y = a["short_frame"] - b["short_frame"]
          /\ z = a["overrun"] - b["overrun"]
    BY <1>0, <1>1
  <2>2. Counts!err_delta(a, b) = ((x % Mod) + (y % Mod) + (z % Mod)) % Mod
    BY <2>1, Zenon DEF Counts!err_delta, Counts!difference
  <2>3. x + y + z = Counts!errors(a) - Counts!errors(b)
    BY <1>0, <1>1, <2>1 DEF Counts!errors
  <2>4. ((x % Mod) + (y % Mod) + (z % Mod)) % Mod = (x + y + z) % Mod
    BY <1>0, SumOfDifferences, Zenon
  <2> QED
    BY <2>2, <2>3, <2>4, Zenon
<1>5. a["txn_count"] - b["txn_count"] \in Int /\ Counts!errors(a) - Counts!errors(b) \in Int
  BY <1>0, <1>1, <1>2
<1>6. /\ (a["txn_count"] - b["txn_count"]) % Mod \in 0..(Mod - 1)
      /\ (Counts!errors(a) - Counts!errors(b)) % Mod \in 0..(Mod - 1)
  BY <1>0, <1>5, Remainder, Zenon
<1> QED
  BY <1>2, <1>3, <1>4, <1>6, Zenon

\* Two folds, one after the other, fold no less than one over both, and at most
\* a full turn more.
LEMMA TwoFolds ==
  ASSUME NEW a \in [Counts!Stats -> 0..(Mod - 1)],
         NEW b \in [Counts!Stats -> 0..(Mod - 1)],
         NEW c \in [Counts!Stats -> 0..(Mod - 1)]
  PROVE  /\ Counts!txn_delta(a, c) <= Counts!txn_delta(a, b) + Counts!txn_delta(b, c)
         /\ Counts!err_delta(a, c) <= Counts!err_delta(a, b) + Counts!err_delta(b, c)
         /\ Counts!txn_delta(a, b) + Counts!txn_delta(b, c) <= Counts!txn_delta(a, c) + Mod
         /\ Counts!err_delta(a, b) + Counts!err_delta(b, c) <= Counts!err_delta(a, c) + Mod
<1>0. Mod \in Nat \ {0}
  BY HealthAssumption DEF Counts!Assumptions
<1>1. {a["txn_count"], b["txn_count"], c["txn_count"]} \subseteq Int
  BY <1>0 DEF Counts!Stats
<1>2. {Counts!errors(a), Counts!errors(b), Counts!errors(c)} \subseteq Int
  BY OneCounter
<1>3. PICK x \in Int, y \in Int, z \in Int :
        x = a["txn_count"] /\ y = b["txn_count"] /\ z = c["txn_count"]
  BY <1>1
<1>4. PICK u \in Int, v \in Int, w \in Int :
        u = Counts!errors(a) /\ v = Counts!errors(b) /\ w = Counts!errors(c)
  BY <1>2
<1>5. /\ (x - z) % Mod <= ((x - y) % Mod) + ((y - z) % Mod)
      /\ ((x - y) % Mod) + ((y - z) % Mod) <= ((x - z) % Mod) + Mod
  BY <1>0, NoShorterWay, Zenon
<1>6. /\ (u - w) % Mod <= ((u - v) % Mod) + ((v - w) % Mod)
      /\ ((u - v) % Mod) + ((v - w) % Mod) <= ((u - w) % Mod) + Mod
  BY <1>0, NoShorterWay, Zenon
<1>7. /\ Counts!txn_delta(a, c) = (x - z) % Mod /\ Counts!txn_delta(a, b) = (x - y) % Mod
      /\ Counts!txn_delta(b, c) = (y - z) % Mod
  BY <1>3, OneCounter, Zenon
<1>8. /\ Counts!err_delta(a, c) = (u - w) % Mod /\ Counts!err_delta(a, b) = (u - v) % Mod
      /\ Counts!err_delta(b, c) = (v - w) % Mod
  BY <1>4, OneCounter, Zenon
<1> QED
  BY <1>5, <1>6, <1>7, <1>8, Zenon

\* Nothing is to be folded right after a fold.
LEMMA NothingToFold ==
  ASSUME NEW a \in [Counts!Stats -> 0..(Mod - 1)]
  PROVE  Counts!txn_delta(a, a) = 0 /\ Counts!err_delta(a, a) = 0
<1>0. Mod \in Nat \ {0}
  BY HealthAssumption DEF Counts!Assumptions
<1>1. a["txn_count"] - a["txn_count"] = 0 /\ Counts!errors(a) - Counts!errors(a) = 0
  <2>1. a["txn_count"] \in Int
    BY <1>0 DEF Counts!Stats
  <2>2. Counts!errors(a) \in Int
    BY OneCounter
  <2> QED
    BY <2>1, <2>2
<1>2. 0 % Mod = 0
  BY <1>0
<1> QED
  BY <1>1, <1>2, OneCounter, Zenon

\* A count of the link is one more to fold, whichever fold it is counted from.
LEMMA OneMore ==
  ASSUME HealthTypes, NEW s \in Counts!Stats,
         stats' = [stats EXCEPT ![s] = (@ + 1) % Mod],
         NEW b \in [Counts!Stats -> 0..(Mod - 1)], Counts!NoLap(b)
  PROVE  /\ stats' \in [Counts!Stats -> 0..(Mod - 1)]
         /\ s = "txn_count" => /\ Counts!txn_delta(stats', b) = Counts!txn_delta(stats, b) + 1
                               /\ Counts!err_delta(stats', b) = Counts!err_delta(stats, b)
         /\ s # "txn_count" => /\ Counts!txn_delta(stats', b) = Counts!txn_delta(stats, b)
                               /\ Counts!err_delta(stats', b) = Counts!err_delta(stats, b) + 1
<1>0. Mod \in Nat \ {0}
  BY HealthAssumption DEF Counts!Assumptions
<1>1. stats \in [Counts!Stats -> 0..(Mod - 1)]
  BY DEF HealthTypes
<1>2. PICK x \in 0..(Mod - 1), y \in 0..(Mod - 1) : x = stats[s] /\ y = (x + 1) % Mod
  BY <1>0, <1>1
<1>3. y = x + 1 \/ y = x + 1 - Mod
  <2>1. CASE x + 1 < Mod
    BY <1>0, <1>2, <2>1
  <2>2. CASE x + 1 = Mod
    <3>1. Mod % Mod = 0
      BY <1>0
    <3>2. y = 0
      BY <1>2, <2>2, <3>1, Zenon
    <3> QED
      BY <1>0, <2>2, <3>2
  <2> QED
    BY <1>0, <2>1, <2>2
<1>4. stats' = [stats EXCEPT ![s] = y]
  BY <1>2
<1>5. stats' \in [Counts!Stats -> 0..(Mod - 1)]
  BY <1>1, <1>4
<1>6. Counts!txn_delta(stats, b) < Mod - 1 /\ Counts!err_delta(stats, b) < Mod - 1
  BY DEF Counts!NoLap
<1>7. b["txn_count"] \in Int /\ stats["txn_count"] \in Int /\ Counts!errors(stats) \in Int
      /\ Counts!errors(stats') \in Int /\ Counts!errors(b) \in Int
      /\ stats'["txn_count"] \in Int
  <2>1. b["txn_count"] \in Int /\ stats["txn_count"] \in Int /\ stats'["txn_count"] \in Int
    BY <1>0, <1>1, <1>5 DEF Counts!Stats
  <2>2. Counts!errors(stats) \in Nat /\ Counts!errors(b) \in Nat
    BY <1>1, OneCounter, Zenon
  <2>3. Counts!errors(stats') \in Nat
    BY <1>5, OneCounter, Zenon
  <2> QED
    BY <2>1, <2>2, <2>3
<1>d. /\ Counts!txn_delta(stats, b) = (stats["txn_count"] - b["txn_count"]) % Mod
      /\ Counts!err_delta(stats, b) = (Counts!errors(stats) - Counts!errors(b)) % Mod
  BY <1>1, OneCounter, Zenon
<1>e. /\ Counts!txn_delta(stats', b) = (stats'["txn_count"] - b["txn_count"]) % Mod
      /\ Counts!err_delta(stats', b) = (Counts!errors(stats') - Counts!errors(b)) % Mod
  BY <1>5, OneCounter, Zenon
<1>8. CASE s = "txn_count"
  <2>1. stats'["txn_count"] = y /\ stats["txn_count"] = x
        /\ Counts!errors(stats') = Counts!errors(stats)
    BY <1>1, <1>2, <1>4, <1>8 DEF Counts!errors, Counts!Stats
  <2>2. (stats["txn_count"] - b["txn_count"]) % Mod < Mod - 1
    BY <1>6, <1>d, Zenon
  <2>3. stats'["txn_count"] = stats["txn_count"] + 1
        \/ stats'["txn_count"] = stats["txn_count"] + 1 - Mod
    BY <1>3, <2>1, Zenon
  <2>4. (stats'["txn_count"] - b["txn_count"]) % Mod
          = ((stats["txn_count"] - b["txn_count"]) % Mod) + 1
    <3>1. PICK u \in Int, v \in Int, w \in Int :
            u = stats["txn_count"] /\ v = b["txn_count"] /\ w = stats'["txn_count"]
      BY <1>7
    <3>2. (w = u + 1 \/ w = u + 1 - Mod) /\ (u - v) % Mod < Mod - 1
      BY <2>2, <2>3, <3>1, Zenon
    <3>3. (w - v) % Mod = ((u - v) % Mod) + 1
      BY <1>0, <3>2, OneStepFurther
    <3> QED
      BY <3>1, <3>3, Zenon
  <2>5. Counts!txn_delta(stats', b) = Counts!txn_delta(stats, b) + 1
    BY <1>d, <1>e, <2>4, Zenon
  <2>6. Counts!err_delta(stats', b) = Counts!err_delta(stats, b)
    BY <1>d, <1>e, <2>1, Zenon
  <2> QED
    BY <1>5, <1>8, <2>5, <2>6
<1>9. CASE s # "txn_count"
  <2>1. stats'["txn_count"] = stats["txn_count"]
    BY <1>1, <1>4, <1>9 DEF Counts!Stats
  <2>2. Counts!errors(stats') = Counts!errors(stats) + 1
        \/ Counts!errors(stats') = Counts!errors(stats) + 1 - Mod
    BY <1>0, <1>1, <1>2, <1>3, <1>4, <1>9 DEF Counts!errors, Counts!Stats
  <2>3. (Counts!errors(stats) - Counts!errors(b)) % Mod < Mod - 1
    BY <1>6, <1>d, Zenon
  <2>4. (Counts!errors(stats') - Counts!errors(b)) % Mod
          = ((Counts!errors(stats) - Counts!errors(b)) % Mod) + 1
    <3>1. PICK u \in Int, v \in Int, w \in Int :
            /\ u = Counts!errors(stats) /\ v = Counts!errors(b)
            /\ w = Counts!errors(stats')
      BY <1>7
    <3>2. (w = u + 1 \/ w = u + 1 - Mod) /\ (u - v) % Mod < Mod - 1
      BY <2>2, <2>3, <3>1, Zenon
    <3>3. (w - v) % Mod = ((u - v) % Mod) + 1
      BY <1>0, <3>2, OneStepFurther
    <3> QED
      BY <3>1, <3>3, Zenon
  <2>5. Counts!err_delta(stats', b) = Counts!err_delta(stats, b) + 1
    BY <1>d, <1>e, <2>4, Zenon
  <2>6. Counts!txn_delta(stats', b) = Counts!txn_delta(stats, b)
    BY <1>d, <1>e, <2>1, Zenon
  <2> QED
    BY <1>5, <1>9, <2>5, <2>6
<1> QED
  BY <1>8, <1>9

\* What may be folded from one record of the statistics to another.
LEMMA Deltas ==
  ASSUME HealthTypes
  PROVE  /\ {Counts!txn_delta(stats, last), Counts!txn_delta(stats, now),
             Counts!txn_delta(now, last), Counts!err_delta(stats, last),
             Counts!err_delta(stats, now), Counts!err_delta(now, last)} \subseteq Nat
         /\ {hc.txn_total, hc.err_total, saved.txn_total, saved.err_total,
             at_boot.txn_total, at_boot.err_total} \subseteq Nat
         /\ {seen["txn_count"], Counts!errors(seen)} \subseteq Nat
<1>1. stats \in [Counts!Stats -> 0..(Mod - 1)] /\ last \in [Counts!Stats -> 0..(Mod - 1)]
      /\ now \in [Counts!Stats -> 0..(Mod - 1)]
  BY DEF HealthTypes
<1>2. {Counts!txn_delta(stats, last), Counts!txn_delta(stats, now),
       Counts!txn_delta(now, last), Counts!err_delta(stats, last),
       Counts!err_delta(stats, now), Counts!err_delta(now, last)} \subseteq 0..(Mod - 1)
  BY <1>1, OneCounter
<1>3. {hc.txn_total, hc.err_total, saved.txn_total, saved.err_total,
       at_boot.txn_total, at_boot.err_total} \subseteq Nat
  BY DEF HealthTypes, Counts!Counters
<1>4. {seen["txn_count"], Counts!errors(seen)} \subseteq Nat
  BY DEF HealthTypes, Counts!Stats, Counts!errors
<1> QED
  BY <1>2, <1>3, <1>4, HealthAssumption DEF Counts!Assumptions

\* The counters with other totals.
LEMMA OtherTotals ==
  ASSUME NEW h \in Counts!Counters, NEW x \in Nat, NEW y \in Nat
  PROVE  /\ [h EXCEPT !.txn_total = x] \in Counts!Counters
         /\ [h EXCEPT !.txn_total = x].txn_total = x
         /\ [h EXCEPT !.txn_total = x].err_total = h.err_total
         /\ [h EXCEPT !.err_total = y] \in Counts!Counters
         /\ [h EXCEPT !.err_total = y].txn_total = h.txn_total
         /\ [h EXCEPT !.err_total = y].err_total = y
         /\ [h EXCEPT !.txn_total = x, !.err_total = y] \in Counts!Counters
         /\ [h EXCEPT !.txn_total = x, !.err_total = y].txn_total = x
         /\ [h EXCEPT !.txn_total = x, !.err_total = y].err_total = y
BY DEF Counts!Counters

\* What it counts on from when the load fails.
LEMMA NoCountersYet ==
  /\ Counts!NoCounters \in Counts!Counters
  /\ Counts!NoCounters.txn_total = 0 /\ Counts!NoCounters.err_total = 0
<1>1. Counts!NoCounters \in Counts!Counters
  BY DEF Counts!NoCounters, Counts!Counters
<1>2. Counts!NoCounters.txn_total = 0 /\ Counts!NoCounters.err_total = 0
  BY DEF Counts!NoCounters
<1> QED
  BY <1>1, <1>2

\* What the counters are right after boot.
LEMMA AfterBoot ==
  ASSUME NEW h \in Counts!Counters, NEW wdt \in BOOLEAN
  PROVE  /\ Counts!health_init(h, wdt) \in Counts!Counters
         /\ Counts!health_init(h, wdt).txn_total = h.txn_total
         /\ Counts!health_init(h, wdt).err_total = h.err_total
<1>4. PICK x \in Nat, y \in Nat :
        x = h.power_cycles + 1 /\ y = IF wdt THEN h.wdt_resets + 1 ELSE h.wdt_resets
  BY DEF Counts!Counters
<1>5. Counts!health_init(h, wdt) = [h EXCEPT !.power_cycles = x, !.wdt_resets = y]
  BY <1>4 DEF Counts!health_init
<1>6. /\ Counts!health_init(h, wdt) \in Counts!Counters
      /\ Counts!health_init(h, wdt).txn_total = h.txn_total
      /\ Counts!health_init(h, wdt).err_total = h.err_total
  BY <1>5 DEF Counts!Counters
<1> QED
  BY <1>6

\* A fold in one piece.
LEMMA FoldDoes ==
  ASSUME HealthTypes, Counts!fold_stats
  PROVE  /\ hc' \in Counts!Counters /\ last' = stats
         /\ hc'.txn_total = hc.txn_total + Counts!txn_delta(stats, last)
         /\ hc'.err_total = hc.err_total + Counts!err_delta(stats, last)
<1>1. PICK x \in Nat, y \in Nat :
        /\ x = hc.txn_total + Counts!txn_delta(stats, last)
        /\ y = hc.err_total + Counts!err_delta(stats, last)
  BY Deltas
<1>2. hc' = [hc EXCEPT !.txn_total = x, !.err_total = y] /\ last' = stats
  BY <1>1 DEF Counts!fold_stats
<1>3. hc \in Counts!Counters
  BY DEF HealthTypes
<1>4. hc' \in Counts!Counters /\ hc'.txn_total = x /\ hc'.err_total = y
  BY <1>2, <1>3 DEF Counts!Counters
<1> QED
  BY <1>1, <1>2, <1>4

\* No statistics.
LEMMA NoStatsYet ==
  /\ Counts!NoStats \in [Counts!Stats -> 0..(Mod - 1)]
  /\ Counts!NoStats \in [Counts!Stats -> Nat]
  /\ Counts!NoStats["txn_count"] = 0 /\ Counts!errors(Counts!NoStats) = 0
BY HealthAssumption DEF Counts!Assumptions, Counts!NoStats, Counts!errors, Counts!Stats

\* The types are kept.
LEMMA HealthTypesStep ==
  ASSUME HealthTypes, [Counts!Next]_(Counts!vars)
  PROVE  HealthTypes'
<1> USE DEF Counts!work_vars, Counts!shell_vars, Counts!counted, Counts!history
<1>0. /\ hc \in Counts!Counters /\ saved \in Counts!Counters
      /\ stats \in [Counts!Stats -> 0..(Mod - 1)]
      /\ last \in [Counts!Stats -> 0..(Mod - 1)]
      /\ now \in [Counts!Stats -> 0..(Mod - 1)]
  BY DEF HealthTypes
<1>1. ASSUME NEW s \in Counts!Stats, Counts!link_counts(s) PROVE HealthTypes'
  <2>1. Counts!NoLap(last) /\ stats' = [stats EXCEPT ![s] = (@ + 1) % Mod]
    BY <1>1 DEF Counts!link_counts
  <2>2. stats' \in [Counts!Stats -> 0..(Mod - 1)]
    BY <1>0, <2>1, OneMore
  <2>3. seen' \in [Counts!Stats -> Nat]
    <3>1. seen \in [Counts!Stats -> Nat] /\ seen' = [seen EXCEPT ![s] = @ + 1]
      BY <1>1 DEF Counts!link_counts, HealthTypes
    <3> QED
      BY <3>1
  <2>4. UNCHANGED <<last, hc, saved, shell, now, sum, at_boot, overlapped, adrift>>
    BY <1>1 DEF Counts!link_counts
  <2> QED
    BY <2>2, <2>3, <2>4 DEF HealthTypes
<1>2. CASE Counts!commit_fold
  <2>1. hc' \in Counts!Counters /\ last' = stats
    BY <1>2, FoldDoes DEF Counts!commit_fold
  <2>3. overlapped' \in BOOLEAN
    BY <1>2 DEF Counts!commit_fold
  <2>4. UNCHANGED <<stats, saved, shell, now, sum, seen, at_boot, adrift>>
    BY <1>2 DEF Counts!commit_fold
  <2> QED
    BY <2>1, <2>3, <2>4 DEF HealthTypes
<1>3. CASE Counts!commit_save
  BY <1>3 DEF Counts!commit_save, HealthTypes
<1>4. CASE Counts!stats_get
  BY <1>4 DEF Counts!stats_get, HealthTypes
<1>5. CASE Counts!load_txn
  <2>1. hc.txn_total + Counts!txn_delta(now, last) \in Nat
    BY Deltas
  <2> QED
    BY <1>5, <2>1 DEF Counts!load_txn, HealthTypes
<1>6. CASE Counts!store_txn
  <2>1. hc' = [hc EXCEPT !.txn_total = sum] /\ sum \in Nat
    BY <1>6 DEF Counts!store_txn, HealthTypes
  <2>2. hc' \in Counts!Counters
    BY <1>0, <2>1, OtherTotals, Zenon
  <2> QED
    BY <1>6, <2>2 DEF Counts!store_txn, HealthTypes
<1>7. CASE Counts!load_err
  <2>1. hc.err_total + Counts!err_delta(now, last) \in Nat
    BY Deltas
  <2> QED
    BY <1>7, <2>1 DEF Counts!load_err, HealthTypes
<1>8. CASE Counts!store_err
  <2>1. hc' = [hc EXCEPT !.err_total = sum] /\ sum \in Nat
    BY <1>8 DEF Counts!store_err, HealthTypes
  <2>2. hc' \in Counts!Counters
    BY <1>0, <2>1, OtherTotals, Zenon
  <2> QED
    BY <1>8, <2>2 DEF Counts!store_err, HealthTypes
<1>9. CASE Counts!set_last
  BY <1>9, NoStatsYet DEF Counts!set_last, HealthTypes
<1>10. CASE Counts!stats_reset
  BY <1>10, NoStatsYet DEF Counts!stats_reset, HealthTypes
<1>11. ASSUME NEW wdt \in BOOLEAN, NEW loaded \in BOOLEAN, Counts!reboot(wdt, loaded)
       PROVE  HealthTypes'
  <2>1. PICK h : h = IF loaded THEN saved ELSE Counts!NoCounters
    OBVIOUS
  <2>2. h \in Counts!Counters
    BY <1>0, <2>1, NoCountersYet
  <2>3. hc' = Counts!health_init(h, wdt) /\ at_boot' = hc'
    BY <1>11, <2>1 DEF Counts!reboot
  <2>4. hc' \in Counts!Counters /\ at_boot' \in Counts!Counters
    BY <2>2, <2>3, AfterBoot, Zenon
  <2>5. adrift' \in BOOLEAN
    BY <1>11 DEF Counts!reboot
  <2>6. /\ stats' = Counts!NoStats /\ last' = Counts!NoStats /\ now' = Counts!NoStats
        /\ sum' = 0 /\ seen' = Counts!NoStats /\ overlapped' = FALSE
        /\ shell' = "idle" /\ saved' = saved
    BY <1>11 DEF Counts!reboot
  <2> QED
    BY <1>0, <2>4, <2>5, <2>6, NoStatsYet DEF HealthTypes
<1>12. CASE UNCHANGED Counts!vars
  BY <1>12 DEF Counts!vars, HealthTypes
<1> QED
  BY <1>1, <1>2, <1>3, <1>4, <1>5, <1>6, <1>7, <1>8, <1>9, <1>10, <1>11, <1>12
     DEF Counts!Next, Counts!health_get

\* What has been counted, and what the totals come to when the shell's fold is
\* over and the rest is folded.
Txn == at_boot.txn_total + seen["txn_count"]
Errs == at_boot.err_total + Counts!errors(seen)

TxnWorth ==
  IF shell \in {"idle", "load_txn"}
    THEN hc.txn_total + Counts!txn_delta(stats, last)
    ELSE (IF shell = "store_txn" THEN sum ELSE hc.txn_total)
         + Counts!txn_delta(stats, now)
ErrWorth ==
  IF shell \in {"idle", "load_txn", "store_txn", "load_err"}
    THEN hc.err_total + Counts!err_delta(stats, last)
    ELSE (IF shell = "store_err" THEN sum ELSE hc.err_total)
         + Counts!err_delta(stats, now)

\* They come to no less, and to no more unless a commit was in the shell's way:
\* then to at most a full turn of a counter more, and that as the shell loads a
\* total, or has stored it.  Until then what the shell folds and what is left
\* when it has are together what there is to fold.
TxnSplit ==
  Counts!txn_delta(stats, last)
    = Counts!txn_delta(now, last) + Counts!txn_delta(stats, now)
ErrSplit ==
  Counts!err_delta(stats, last)
    = Counts!err_delta(now, last) + Counts!err_delta(stats, now)

NothingLost == TxnWorth >= Txn /\ ErrWorth >= Errs
NoMore ==
  /\ TxnWorth <= Txn + Mod /\ ErrWorth <= Errs + Mod
  /\ ~overlapped => TxnWorth <= Txn /\ ErrWorth <= Errs
Loads ==
  /\ shell = "load_txn" => TxnSplit \/ TxnWorth <= Txn
  /\ shell \in {"load_txn", "store_txn", "load_err"} => ErrSplit \/ ErrWorth <= Errs
Split == ~overlapped /\ shell # "idle" => TxnSplit /\ ErrSplit

AddsUp == NothingLost /\ NoMore /\ Loads /\ Split

\* All of them are numbers.
LEMMA WorthNumbers ==
  ASSUME HealthTypes
  PROVE  TxnWorth \in Nat /\ ErrWorth \in Nat /\ Txn \in Nat /\ Errs \in Nat
BY Deltas DEF HealthTypes, TxnWorth, ErrWorth, Txn, Errs

\* What a count of the link changes.
LEMMA CountWorth ==
  ASSUME HealthTypes, NEW s \in Counts!Stats, Counts!link_counts(s)
  PROVE  /\ UNCHANGED <<last, hc, saved, commit, shell, now, sum, overlapped, adrift>>
         /\ \E i \in {0, 1}, j \in {0, 1} :
              /\ Counts!txn_delta(stats', last) = Counts!txn_delta(stats, last) + i
              /\ Counts!err_delta(stats', last) = Counts!err_delta(stats, last) + j
              /\ shell # "idle" =>
                   /\ Counts!txn_delta(stats', now) = Counts!txn_delta(stats, now) + i
                   /\ Counts!err_delta(stats', now) = Counts!err_delta(stats, now) + j
              /\ Txn' = Txn + i /\ Errs' = Errs + j
              /\ TxnWorth' = TxnWorth + i /\ ErrWorth' = ErrWorth + j
<1>1. /\ stats' = [stats EXCEPT ![s] = (@ + 1) % Mod]
      /\ Counts!NoLap(last) /\ (shell # "idle" => Counts!NoLap(now))
      /\ seen' = [seen EXCEPT ![s] = @ + 1]
      /\ last \in [Counts!Stats -> 0..(Mod - 1)] /\ now \in [Counts!Stats -> 0..(Mod - 1)]
      /\ UNCHANGED <<last, hc, saved, commit, shell, now, sum, at_boot, overlapped, adrift>>
  BY DEF Counts!link_counts, HealthTypes, Counts!shell_vars, Counts!work_vars
<1>2. PICK a \in Nat, c \in Nat, x \in Nat, z \in Nat :
        /\ a = Counts!txn_delta(stats, last) /\ x = Counts!err_delta(stats, last)
        /\ c = Counts!txn_delta(stats, now) /\ z = Counts!err_delta(stats, now)
  BY Deltas
<1>3. PICK i \in {0, 1}, j \in {0, 1} :
        /\ i = IF s = "txn_count" THEN 1 ELSE 0
        /\ j = 1 - i
  OBVIOUS
<1>4. Counts!txn_delta(stats', last) = a + i /\ Counts!err_delta(stats', last) = x + j
  <2>1. CASE s = "txn_count"
    <3>1. /\ Counts!txn_delta(stats', last) = Counts!txn_delta(stats, last) + 1
          /\ Counts!err_delta(stats', last) = Counts!err_delta(stats, last)
      BY <1>1, <2>1, OneMore, Zenon
    <3> QED
      BY <1>2, <1>3, <2>1, <3>1
  <2>2. CASE s # "txn_count"
    <3>1. /\ Counts!txn_delta(stats', last) = Counts!txn_delta(stats, last)
          /\ Counts!err_delta(stats', last) = Counts!err_delta(stats, last) + 1
      BY <1>1, <2>2, OneMore, Zenon
    <3> QED
      BY <1>2, <1>3, <2>2, <3>1
  <2> QED
    BY <2>1, <2>2
<1>5. shell # "idle" =>
        Counts!txn_delta(stats', now) = c + i /\ Counts!err_delta(stats', now) = z + j
  <2>0. SUFFICES ASSUME Counts!NoLap(now)
        PROVE  Counts!txn_delta(stats', now) = c + i /\ Counts!err_delta(stats', now) = z + j
    BY <1>1
  <2>1. CASE s = "txn_count"
    <3>1. /\ Counts!txn_delta(stats', now) = Counts!txn_delta(stats, now) + 1
          /\ Counts!err_delta(stats', now) = Counts!err_delta(stats, now)
      BY <1>1, <2>0, <2>1, OneMore, Zenon
    <3> QED
      BY <1>2, <1>3, <2>1, <3>1
  <2>2. CASE s # "txn_count"
    <3>1. /\ Counts!txn_delta(stats', now) = Counts!txn_delta(stats, now)
          /\ Counts!err_delta(stats', now) = Counts!err_delta(stats, now) + 1
      BY <1>1, <2>0, <2>2, OneMore, Zenon
    <3> QED
      BY <1>2, <1>3, <2>2, <3>1
  <2> QED
    BY <2>1, <2>2
<1>6. Txn' = Txn + i /\ Errs' = Errs + j
  <2>1. seen \in [Counts!Stats -> Nat] /\ at_boot.txn_total \in Nat /\ at_boot.err_total \in Nat
    BY Deltas DEF HealthTypes
  <2>2. seen'["txn_count"] = seen["txn_count"] + i
    BY <1>1, <1>3, <2>1 DEF Counts!Stats
  <2>3. Counts!errors(seen') = Counts!errors(seen) + j
    BY <1>1, <1>3, <2>1 DEF Counts!Stats, Counts!errors
  <2>4. seen["txn_count"] \in Nat /\ Counts!errors(seen) \in Nat
    BY Deltas
  <2> QED
    BY <1>1, <1>3, <2>1, <2>2, <2>3, <2>4 DEF Txn, Errs
<1>7. TxnWorth' = TxnWorth + i /\ ErrWorth' = ErrWorth + j
  <2>1. TxnWorth' = TxnWorth + i
    BY <1>1, <1>2, <1>3, <1>4, <1>5, Deltas DEF TxnWorth, HealthTypes
  <2>2. ErrWorth' = ErrWorth + j
    BY <1>1, <1>2, <1>3, <1>4, <1>5, Deltas DEF ErrWorth, HealthTypes
  <2> QED
    BY <2>1, <2>2
<1> QED
  BY <1>1, <1>2, <1>4, <1>5, <1>6, <1>7

\* The link counts.
LEMMA CountAddsUp ==
  ASSUME HealthTypes, AddsUp, NEW s \in Counts!Stats,
         Counts!link_counts(s)
  PROVE  AddsUp'
<1>1. PICK i \in {0, 1}, j \in {0, 1} :
        /\ Counts!txn_delta(stats', last) = Counts!txn_delta(stats, last) + i
        /\ Counts!err_delta(stats', last) = Counts!err_delta(stats, last) + j
        /\ shell # "idle" =>
             /\ Counts!txn_delta(stats', now) = Counts!txn_delta(stats, now) + i
             /\ Counts!err_delta(stats', now) = Counts!err_delta(stats, now) + j
        /\ Txn' = Txn + i /\ Errs' = Errs + j
        /\ TxnWorth' = TxnWorth + i /\ ErrWorth' = ErrWorth + j
  BY CountWorth, Zenon
<1>2. UNCHANGED <<last, now, shell, overlapped>>
  BY CountWorth, Zenon
<1>3. TxnWorth \in Nat /\ ErrWorth \in Nat /\ Txn \in Nat /\ Errs \in Nat /\ Mod \in Nat
  BY WorthNumbers, HealthAssumption DEF Counts!Assumptions
<1>4. shell # "idle" => (TxnSplit => TxnSplit') /\ (ErrSplit => ErrSplit')
  <2>1. PICK a \in Nat, b \in Nat, c \in Nat, x \in Nat, y \in Nat, z \in Nat :
          /\ a = Counts!txn_delta(stats, last) /\ x = Counts!err_delta(stats, last)
          /\ b = Counts!txn_delta(now, last) /\ y = Counts!err_delta(now, last)
          /\ c = Counts!txn_delta(stats, now) /\ z = Counts!err_delta(stats, now)
    BY Deltas
  <2>2. /\ a = b + c => a + i = b + (c + i)
        /\ x = y + z => x + j = y + (z + j)
    OBVIOUS
  <2> QED
    BY <1>1, <1>2, <2>1, <2>2 DEF TxnSplit, ErrSplit
<1>5. NothingLost' /\ NoMore'
  BY <1>1, <1>2, <1>3 DEF AddsUp, NothingLost, NoMore
<1>6. Loads'
  BY <1>1, <1>2, <1>3, <1>4 DEF AddsUp, Loads
<1>7. Split'
  BY <1>2, <1>4 DEF AddsUp, Split
<1> QED
  BY <1>5, <1>6, <1>7 DEF AddsUp

\* What the commit's fold, and each step of the shell's, adds to the worth: what
\* the shell has folded already, or what it folds beyond what there is.
LEMMA FoldWorth ==
  ASSUME HealthTypes, Counts!commit_fold \/ Counts!health_get
  PROVE  /\ Txn' = Txn /\ Errs' = Errs
         /\ \E i \in 0..Mod : /\ TxnWorth' = TxnWorth + i
                              /\ i > 0 => /\ shell # "idle"
                                          /\ \/ Counts!commit_fold /\ shell # "load_txn"
                                             \/ shell = "load_txn" /\ ~TxnSplit
         /\ \E j \in 0..Mod : /\ ErrWorth' = ErrWorth + j
                              /\ j > 0 =>
                                   \/ /\ Counts!commit_fold
                                      /\ shell \in {"store_err", "set_last"}
                                   \/ shell = "load_err" /\ ~ErrSplit
<1> USE DEF Counts!work_vars, Counts!shell_vars, Counts!counted, Counts!history
<1>0. /\ hc \in Counts!Counters /\ sum \in Nat
      /\ stats \in [Counts!Stats -> 0..(Mod - 1)]
      /\ last \in [Counts!Stats -> 0..(Mod - 1)]
      /\ now \in [Counts!Stats -> 0..(Mod - 1)]
      /\ Mod \in Nat \ {0}
  BY HealthAssumption DEF HealthTypes, Counts!Assumptions
<1>1. PICK a \in 0..Mod, b \in 0..Mod, c \in 0..Mod, x \in 0..Mod, y \in 0..Mod, z \in 0..Mod,
           h \in Nat, g \in Nat :
        /\ a = Counts!txn_delta(stats, last) /\ x = Counts!err_delta(stats, last)
        /\ b = Counts!txn_delta(now, last) /\ y = Counts!err_delta(now, last)
        /\ c = Counts!txn_delta(stats, now) /\ z = Counts!err_delta(stats, now)
        /\ h = hc.txn_total /\ g = hc.err_total
  <2>1. {Counts!txn_delta(stats, last), Counts!txn_delta(stats, now),
         Counts!txn_delta(now, last), Counts!err_delta(stats, last),
         Counts!err_delta(stats, now), Counts!err_delta(now, last)} \subseteq 0..(Mod - 1)
    BY <1>0, OneCounter
  <2>2. \A k \in 0..(Mod - 1) : k \in 0..Mod
    BY <1>0
  <2>3. hc.txn_total \in Nat /\ hc.err_total \in Nat
    BY Deltas
  <2> QED
    BY <2>1, <2>2, <2>3
<1>2. Counts!txn_delta(stats, stats) = 0 /\ Counts!err_delta(stats, stats) = 0
  BY <1>0, NothingToFold
<1>3. b + c - a \in 0..Mod /\ y + z - x \in 0..Mod
  <2>1. a <= c + b /\ x <= z + y /\ c + b <= a + Mod /\ z + y <= x + Mod
    BY <1>0, <1>1, TwoFolds, Zenon
  <2> QED
    BY <1>0, <2>1
<1>4. 0 \in 0..Mod
  BY <1>0
<1>5. CASE Counts!commit_fold
  <2>1. /\ hc'.txn_total = h + a /\ hc'.err_total = g + x /\ last' = stats
        /\ UNCHANGED <<stats, shell, now, sum, seen, at_boot>>
    BY <1>1, <1>5, FoldDoes DEF Counts!commit_fold
  <2>2. Txn' = Txn /\ Errs' = Errs
    BY <2>1 DEF Txn, Errs
  <2>4. \E i \in 0..Mod : TxnWorth' = TxnWorth + i
                          /\ (shell \in {"idle", "load_txn"} => i = 0)
    <3>1. CASE shell \in {"idle", "load_txn"}
      <4>1. TxnWorth = h + a
        BY <1>1, <3>1 DEF TxnWorth
      <4>2. TxnWorth' = (h + a) + 0
        BY <1>2, <2>1, <3>1 DEF TxnWorth
      <4> QED
        BY <1>4, <4>1, <4>2
    <3>2. CASE shell = "store_txn"
      <4>1. TxnWorth' = sum + c /\ TxnWorth = sum + c
        BY <1>1, <2>1, <3>2 DEF TxnWorth
      <4>2. TxnWorth' = TxnWorth + 0
        BY <1>0, <4>1
      <4> QED
        BY <1>4, <4>2
    <3>3. CASE shell \notin {"idle", "load_txn", "store_txn"}
      <4>1. TxnWorth' = (h + a) + c /\ TxnWorth = h + c
        BY <1>1, <2>1, <3>3 DEF TxnWorth
      <4>2. TxnWorth' = TxnWorth + a
        BY <4>1
      <4> QED
        BY <3>3, <4>2
    <3> QED
      BY <3>1, <3>2, <3>3
  <2>5. \E j \in 0..Mod :
          /\ ErrWorth' = ErrWorth + j
          /\ shell \in {"idle", "load_txn", "store_txn", "load_err"} => j = 0
    <3>1. CASE shell \in {"idle", "load_txn", "store_txn", "load_err"}
      <4>1. ErrWorth = g + x
        BY <1>1, <3>1 DEF ErrWorth
      <4>2. ErrWorth' = (g + x) + 0
        BY <1>2, <2>1, <3>1 DEF ErrWorth
      <4> QED
        BY <1>4, <4>1, <4>2
    <3>2. CASE shell = "store_err"
      <4>1. ErrWorth' = sum + z /\ ErrWorth = sum + z
        BY <1>1, <2>1, <3>2 DEF ErrWorth
      <4>2. ErrWorth' = ErrWorth + 0
        BY <1>0, <4>1
      <4> QED
        BY <1>4, <3>2, <4>2
    <3>3. CASE shell \notin {"idle", "load_txn", "store_txn", "load_err", "store_err"}
      <4>1. ErrWorth' = (g + x) + z /\ ErrWorth = g + z
        BY <1>1, <2>1, <3>3 DEF ErrWorth
      <4>2. ErrWorth' = ErrWorth + x
        BY <4>1
      <4> QED
        BY <3>3, <4>2
    <3> QED
      BY <3>1, <3>2, <3>3
  <2>6. PICK i \in 0..Mod : TxnWorth' = TxnWorth + i
                            /\ (shell \in {"idle", "load_txn"} => i = 0)
    BY <2>4
  <2>7. PICK j \in 0..Mod :
          /\ ErrWorth' = ErrWorth + j
          /\ shell \in {"idle", "load_txn", "store_txn", "load_err"} => j = 0
    BY <2>5
  <2>8. shell \in {"idle", "load_txn", "store_txn", "load_err", "store_err", "set_last"}
    BY DEF HealthTypes
  <2> QED
    BY <1>5, <2>2, <2>6, <2>7, <2>8
<1>6. CASE Counts!stats_get
  <2>1. /\ shell = "idle" /\ shell' = "load_txn" /\ now' = stats
        /\ UNCHANGED <<stats, last, hc, seen, at_boot, overlapped>>
    BY <1>6 DEF Counts!stats_get
  <2>2. /\ Txn' = Txn /\ Errs' = Errs /\ TxnWorth' = TxnWorth + 0
        /\ ErrWorth' = ErrWorth + 0
    BY <1>1, <2>1 DEF Txn, Errs, TxnWorth, ErrWorth
  <2> QED
    BY <1>4, <2>2
<1>7. CASE Counts!load_txn
  <2>1. /\ shell = "load_txn" /\ shell' = "store_txn" /\ sum' = h + b
        /\ UNCHANGED <<stats, last, hc, now, seen, at_boot, overlapped>>
    BY <1>1, <1>7 DEF Counts!load_txn
  <2>2. Txn' = Txn /\ Errs' = Errs /\ ErrWorth' = ErrWorth + 0
    BY <1>1, <2>1 DEF Txn, Errs, ErrWorth
  <2>3. TxnWorth = h + a /\ TxnWorth' = (h + b) + c
    BY <1>1, <2>1 DEF TxnWorth
  <2>4. TxnWorth' = TxnWorth + (b + c - a)
    BY <2>3
  <2>5. b + c - a > 0 => ~TxnSplit
    BY <1>1 DEF TxnSplit
  <2> QED
    BY <1>3, <1>4, <2>1, <2>2, <2>4, <2>5
<1>8. CASE Counts!store_txn
  <2>1. /\ shell = "store_txn" /\ shell' = "load_err"
        /\ hc' = [hc EXCEPT !.txn_total = sum]
        /\ UNCHANGED <<stats, last, now, seen, at_boot, overlapped>>
    BY <1>8 DEF Counts!store_txn
  <2>2. hc'.txn_total = sum /\ hc'.err_total = g
    BY <1>0, <1>1, <2>1 DEF Counts!Counters
  <2>3. /\ Txn' = Txn /\ Errs' = Errs /\ TxnWorth' = TxnWorth + 0
        /\ ErrWorth' = ErrWorth + 0
    BY <1>0, <1>1, <2>1, <2>2 DEF Txn, Errs, TxnWorth, ErrWorth
  <2> QED
    BY <1>4, <2>3
<1>9. CASE Counts!load_err
  <2>1. /\ shell = "load_err" /\ shell' = "store_err" /\ sum' = g + y
        /\ UNCHANGED <<stats, last, hc, now, seen, at_boot, overlapped>>
    BY <1>1, <1>9 DEF Counts!load_err
  <2>2. Txn' = Txn /\ Errs' = Errs /\ TxnWorth' = TxnWorth + 0
    BY <1>1, <2>1 DEF Txn, Errs, TxnWorth
  <2>3. ErrWorth = g + x /\ ErrWorth' = (g + y) + z
    BY <1>1, <2>1 DEF ErrWorth
  <2>4. ErrWorth' = ErrWorth + (y + z - x)
    BY <2>3
  <2>5. y + z - x > 0 => ~ErrSplit
    BY <1>1 DEF ErrSplit
  <2> QED
    BY <1>3, <1>4, <2>1, <2>2, <2>4, <2>5
<1>10. CASE Counts!store_err
  <2>1. /\ shell = "store_err" /\ shell' = "set_last"
        /\ hc' = [hc EXCEPT !.err_total = sum]
        /\ UNCHANGED <<stats, last, now, seen, at_boot, overlapped>>
    BY <1>10 DEF Counts!store_err
  <2>2. hc'.err_total = sum /\ hc'.txn_total = h
    BY <1>0, <1>1, <2>1 DEF Counts!Counters
  <2>3. /\ Txn' = Txn /\ Errs' = Errs /\ TxnWorth' = TxnWorth + 0
        /\ ErrWorth' = ErrWorth + 0
    BY <1>0, <1>1, <2>1, <2>2 DEF Txn, Errs, TxnWorth, ErrWorth
  <2> QED
    BY <1>4, <2>3
<1>11. CASE Counts!set_last
  <2>1. /\ shell = "set_last" /\ shell' = "idle" /\ last' = now
        /\ UNCHANGED <<stats, hc, seen, at_boot, overlapped>>
    BY <1>11 DEF Counts!set_last
  <2>2. /\ Txn' = Txn /\ Errs' = Errs /\ TxnWorth' = TxnWorth + 0
        /\ ErrWorth' = ErrWorth + 0
    BY <1>1, <2>1 DEF Txn, Errs, TxnWorth, ErrWorth
  <2> QED
    BY <1>4, <2>2
<1> QED
  BY <1>5, <1>6, <1>7, <1>8, <1>9, <1>10, <1>11 DEF Counts!health_get

\* The commit's fold, and each step of the shell's.
LEMMA FoldAddsUp ==
  ASSUME HealthTypes, AddsUp,
         Counts!commit_fold \/ Counts!health_get
  PROVE  AddsUp'
<1> USE DEF Counts!work_vars, Counts!shell_vars, Counts!counted, Counts!history
<1>1. PICK i \in 0..Mod : /\ TxnWorth' = TxnWorth + i
                          /\ i > 0 => /\ shell # "idle"
                                      /\ \/ Counts!commit_fold /\ shell # "load_txn"
                                         \/ shell = "load_txn" /\ ~TxnSplit
  BY FoldWorth, Zenon
<1>2. PICK j \in 0..Mod : /\ ErrWorth' = ErrWorth + j
                          /\ j > 0 => \/ /\ Counts!commit_fold
                                         /\ shell \in {"store_err", "set_last"}
                                      \/ shell = "load_err" /\ ~ErrSplit
  BY FoldWorth, Zenon
<1>3. Txn' = Txn /\ Errs' = Errs
  BY FoldWorth, Zenon
<1>4. TxnWorth \in Nat /\ ErrWorth \in Nat /\ Txn \in Nat /\ Errs \in Nat /\ Mod \in Nat
  BY WorthNumbers, HealthAssumption DEF Counts!Assumptions
<1>5. Counts!commit_fold => /\ shell # "idle" => ~overlapped /\ overlapped'
                            /\ shell = "idle" => overlapped' = overlapped
                            /\ UNCHANGED <<shell, stats, now>>
  BY DEF Counts!commit_fold, HealthTypes
<1>6. Counts!health_get => overlapped' = overlapped
  BY DEF Counts!health_get, Counts!stats_get, Counts!load_txn, Counts!store_txn,
         Counts!load_err, Counts!store_err, Counts!set_last
<1>7. /\ i > 0 => TxnWorth <= Txn
      /\ j > 0 => ErrWorth <= Errs
  BY <1>1, <1>2, <1>5 DEF AddsUp, NoMore, Loads
<1>8. ~overlapped' => ~overlapped /\ i = 0 /\ j = 0
  <2>1. CASE Counts!commit_fold
    BY <1>1, <1>2, <1>5, <2>1
  <2>2. CASE Counts!health_get /\ ~Counts!commit_fold
    BY <1>1, <1>2, <1>6, <2>2 DEF AddsUp, Split
  <2> QED
    BY <2>1, <2>2
<1>9. NothingLost' /\ NoMore'
  BY <1>1, <1>2, <1>3, <1>4, <1>7, <1>8 DEF AddsUp, NothingLost, NoMore
<1>10. Loads' /\ Split'
  <2>1. CASE Counts!commit_fold
    <3>1. shell = "load_txn" => TxnWorth' <= Txn
      <4>1. shell = "load_txn" /\ i > 0 => ~TxnSplit /\ ~overlapped
        BY <1>1, <1>5, <2>1
      <4>2. shell = "load_txn" => i = 0
        BY <1>1, <4>1 DEF AddsUp, Split
      <4> QED
        BY <1>1, <1>4, <1>5, <2>1, <4>2 DEF AddsUp, NoMore
    <3>2. shell \in {"load_txn", "store_txn", "load_err"} => ErrWorth' <= Errs
      <4>1. shell = "load_err" /\ j > 0 => ~ErrSplit /\ ~overlapped
        BY <1>2, <1>5, <2>1
      <4>2. shell \in {"load_txn", "store_txn", "load_err"} => j = 0
        BY <1>2, <4>1 DEF AddsUp, Split
      <4> QED
        BY <1>2, <1>4, <1>5, <2>1, <4>2 DEF AddsUp, NoMore
    <3>3. shell' = "idle" \/ overlapped'
      BY <1>5, <2>1
    <3> QED
      BY <1>3, <1>5, <2>1, <3>1, <3>2, <3>3 DEF Loads, Split
  <2>2. CASE Counts!stats_get
    <3>1. now' = stats /\ UNCHANGED <<stats, last>>
      BY <2>2 DEF Counts!stats_get
    <3>2. TxnSplit' /\ ErrSplit'
      <4>1. Counts!txn_delta(stats, stats) = 0 /\ Counts!err_delta(stats, stats) = 0
        BY NothingToFold DEF HealthTypes
      <4>2. Counts!txn_delta(stats, last) \in Nat /\ Counts!err_delta(stats, last) \in Nat
        BY Deltas
      <4> QED
        BY <3>1, <4>1, <4>2 DEF TxnSplit, ErrSplit
    <3> QED
      BY <3>2 DEF Loads, Split
  <2>3. CASE Counts!load_txn \/ Counts!store_txn \/ Counts!load_err \/ Counts!store_err
    <3>1. /\ UNCHANGED <<stats, last, now, overlapped>> /\ shell # "idle"
          /\ \/ shell = "load_txn" /\ shell' = "store_txn"
             \/ shell = "store_txn" /\ shell' = "load_err"
             \/ shell' \in {"store_err", "set_last"}
      BY <2>3 DEF Counts!load_txn, Counts!store_txn, Counts!load_err, Counts!store_err
    <3>2. (TxnSplit' <=> TxnSplit) /\ (ErrSplit' <=> ErrSplit)
      BY <3>1 DEF TxnSplit, ErrSplit
    <3>3. ~Counts!commit_fold \/ shell # "store_err"
      BY <3>1, <1>5
    <3>4. shell \in {"load_txn", "store_txn"} => j = 0
      BY <1>2
    <3>5. shell \in {"load_txn", "store_txn"} => ErrWorth' = ErrWorth
      BY <1>2, <1>4, <3>4
    <3> QED
      BY <1>3, <3>1, <3>2, <3>5 DEF AddsUp, Loads, Split
  <2>4. CASE Counts!set_last
    BY <2>4 DEF Counts!set_last, Loads, Split
  <2> QED
    BY <2>1, <2>2, <2>3, <2>4 DEF Counts!health_get
<1> QED
  BY <1>9, <1>10 DEF AddsUp

\* Every step adds up, as long as nobody resets the statistics.
LEMMA AddsUpStep ==
  ASSUME HealthTypes, AddsUp, ~StatsReset, [Counts!Next]_(Counts!vars)
  PROVE  AddsUp'
<1> USE DEF Counts!work_vars, Counts!shell_vars, Counts!counted, Counts!history
<1>0. Mod \in Nat
  BY HealthAssumption DEF Counts!Assumptions
<1>1. CASE Counts!commit_save \/ UNCHANGED Counts!vars
  <2>1. UNCHANGED <<stats, last, hc, shell, now, sum, seen, at_boot, overlapped>>
    BY <1>1 DEF Counts!commit_save, Counts!vars
  <2> QED
    BY <2>1 DEF AddsUp, NothingLost, NoMore, Loads, Split, TxnSplit, ErrSplit, TxnWorth,
               ErrWorth, Txn, Errs
<1>2. ASSUME NEW wdt \in BOOLEAN, NEW loaded \in BOOLEAN, Counts!reboot(wdt, loaded)
      PROVE  AddsUp'
  <2>1. /\ stats' = Counts!NoStats /\ last' = Counts!NoStats /\ seen' = Counts!NoStats
        /\ shell' = "idle" /\ at_boot' = hc'
    BY <1>2 DEF Counts!reboot
  <2>2. hc' \in Counts!Counters
    <3>1. PICK h : h = IF loaded THEN saved ELSE Counts!NoCounters
      OBVIOUS
    <3>2. h \in Counts!Counters
      BY <3>1, NoCountersYet DEF HealthTypes
    <3>3. hc' = Counts!health_init(h, wdt)
      BY <1>2, <3>1 DEF Counts!reboot
    <3> QED
      BY <3>2, <3>3, AfterBoot, Zenon
  <2>3. hc'.txn_total \in Nat /\ hc'.err_total \in Nat
    BY <2>2 DEF Counts!Counters
  <2>4. Counts!txn_delta(stats', last') = 0 /\ Counts!err_delta(stats', last') = 0
    BY <2>1, NoStatsYet, NothingToFold
  <2>5. /\ TxnWorth' = hc'.txn_total + 0 /\ Txn' = hc'.txn_total + 0
        /\ ErrWorth' = hc'.err_total + 0 /\ Errs' = hc'.err_total + 0
    BY <2>1, <2>4, NoStatsYet DEF TxnWorth, ErrWorth, Txn, Errs
  <2> QED
    BY <1>0, <2>1, <2>3, <2>5 DEF AddsUp, NothingLost, NoMore, Loads, Split
<1>3. ~Counts!stats_reset
  BY DEF Counts!stats_reset
<1> QED
  BY <1>1, <1>2, <1>3, CountAddsUp, FoldAddsUp DEF Counts!Next

\* What is in flash is in the worth of the totals, and in the totals themselves
\* while the commit is about to save them, or as long as no commit was in the
\* shell's way; and so it is in the total the shell is about to store.
TxnCovered ==
  /\ hc.txn_total <= TxnWorth
  /\ ~overlapped /\ shell = "store_txn" =>
       sum = hc.txn_total + Counts!txn_delta(now, last)
  /\ ~adrift =>
       /\ saved.txn_total <= TxnWorth
       /\ ~overlapped \/ commit = "save" =>
            /\ saved.txn_total <= hc.txn_total
            /\ shell = "store_txn" => saved.txn_total <= sum
ErrCovered ==
  /\ hc.err_total <= ErrWorth
  /\ ~overlapped /\ shell = "store_err" =>
       sum = hc.err_total + Counts!err_delta(now, last)
  /\ ~adrift =>
       /\ saved.err_total <= ErrWorth
       /\ ~overlapped \/ commit = "save" =>
            /\ saved.err_total <= hc.err_total
            /\ shell = "store_err" => saved.err_total <= sum
Covered == TxnCovered /\ ErrCovered

\* A step of the shell that leaves the totals in RAM alone covers what it
\* covered, if it loads no total that a commit has overtaken.
LEMMA ShellCovers ==
  ASSUME HealthTypes, Covered, Counts!stats_get \/ Counts!load_txn
                               \/ Counts!load_err \/ Counts!set_last
  PROVE  Covered'
<1> USE DEF Counts!work_vars, Counts!shell_vars, Counts!counted, Counts!history
<1>0. UNCHANGED <<hc, saved, commit, overlapped, adrift, stats>>
  BY DEF Counts!stats_get, Counts!load_txn, Counts!load_err, Counts!set_last
<1>1. /\ TxnWorth' >= TxnWorth /\ ErrWorth' >= ErrWorth
      /\ {TxnWorth, ErrWorth, TxnWorth', ErrWorth'} \subseteq Int
  <2>1. Counts!health_get
    BY DEF Counts!health_get
  <2>2. PICK i \in Nat : TxnWorth' = TxnWorth + i
    BY <2>1, FoldWorth
  <2>3. PICK j \in Nat : ErrWorth' = ErrWorth + j
    BY <2>1, FoldWorth
  <2> QED
    BY <2>2, <2>3, WorthNumbers
<1>2. {hc.txn_total, hc.err_total, saved.txn_total, saved.err_total} \subseteq Nat
      /\ Counts!txn_delta(now, last) \in Nat /\ Counts!err_delta(now, last) \in Nat
  BY Deltas
<1>3. shell' = "store_txn" =>
        UNCHANGED <<now, last>> /\ sum' = hc.txn_total + Counts!txn_delta(now, last)
  BY DEF Counts!stats_get, Counts!load_txn, Counts!load_err, Counts!set_last
<1>4. shell' = "store_err" =>
        UNCHANGED <<now, last>> /\ sum' = hc.err_total + Counts!err_delta(now, last)
  BY DEF Counts!stats_get, Counts!load_txn, Counts!load_err, Counts!set_last
<1>5. TxnCovered'
  BY <1>0, <1>1, <1>2, <1>3 DEF Covered, TxnCovered
<1>6. ErrCovered'
  BY <1>0, <1>1, <1>2, <1>4 DEF Covered, ErrCovered
<1> QED
  BY <1>5, <1>6 DEF Covered

\* A commit's fold takes all of the worth when the shell is at rest, and meets
\* no total that another commit has overtaken.
LEMMA CommitCovers ==
  ASSUME HealthTypes, Covered, Counts!commit_fold
  PROVE  Covered'
<1> USE DEF Counts!work_vars, Counts!shell_vars, Counts!counted, Counts!history
<1>1. PICK a \in Nat, b \in Nat, c \in Nat, x \in Nat, y \in Nat, z \in Nat,
           h \in Nat, g \in Nat :
        /\ a = Counts!txn_delta(stats, last) /\ x = Counts!err_delta(stats, last)
        /\ b = Counts!txn_delta(now, last) /\ y = Counts!err_delta(now, last)
        /\ c = Counts!txn_delta(stats, now) /\ z = Counts!err_delta(stats, now)
        /\ h = hc.txn_total /\ g = hc.err_total
  BY Deltas
<1>2. a <= c + b /\ x <= z + y
  BY <1>1, TwoFolds, Zenon DEF HealthTypes
<1>3. /\ hc'.txn_total = h + a /\ hc'.err_total = g + x /\ last' = stats
      /\ UNCHANGED <<stats, shell, now, sum, saved, adrift>>
      /\ shell # "idle" => ~overlapped /\ overlapped'
  BY <1>1, FoldDoes DEF Counts!commit_fold, HealthTypes
<1>4. saved.txn_total \in Nat /\ saved.err_total \in Nat /\ sum \in Nat
  BY Deltas DEF HealthTypes
<1>5. Counts!txn_delta(stats, stats) = 0 /\ Counts!err_delta(stats, stats) = 0
  BY NothingToFold DEF HealthTypes
<1>6. shell = "idle" => overlapped' = overlapped
  BY DEF Counts!commit_fold, HealthTypes
<1>7. TxnCovered'
  <2>1. CASE shell = "idle"
    <3>1. TxnWorth = h + a /\ TxnWorth' = (h + a) + 0
      BY <1>1, <1>3, <1>5, <2>1 DEF TxnWorth
    <3> QED
      BY <1>1, <1>3, <1>4, <2>1, <3>1 DEF Covered, TxnCovered
  <2>2. CASE shell # "idle"
    <3>1. /\ hc.txn_total = h
          /\ shell = "store_txn" => sum = h + b
          /\ ~adrift => saved.txn_total <= h
      BY <1>1, <1>3, <2>2 DEF Covered, TxnCovered
    <3>2. TxnWorth' = IF shell = "store_txn" THEN sum + c
                      ELSE IF shell = "load_txn" THEN (h + a) + 0 ELSE (h + a) + c
      BY <1>1, <1>3, <1>5, <2>2 DEF TxnWorth
    <3>3. h + a <= TxnWorth' /\ TxnWorth' \in Int
      BY <1>2, <1>4, <3>1, <3>2
    <3> QED
      BY <1>1, <1>3, <1>4, <2>2, <3>1, <3>3 DEF TxnCovered
  <2> QED
    BY <2>1, <2>2
<1>8. ErrCovered'
  <2>1. CASE shell = "idle"
    <3>1. ErrWorth = g + x /\ ErrWorth' = (g + x) + 0
      BY <1>1, <1>3, <1>5, <2>1 DEF ErrWorth
    <3> QED
      BY <1>1, <1>3, <1>4, <2>1, <3>1 DEF Covered, ErrCovered
  <2>2. CASE shell # "idle"
    <3>1. /\ hc.err_total = g
          /\ shell = "store_err" => sum = g + y
          /\ ~adrift => saved.err_total <= g
      BY <1>1, <1>3, <2>2 DEF Covered, ErrCovered
    <3>2. ErrWorth' = IF shell = "store_err" THEN sum + z
                      ELSE IF shell = "set_last" THEN (g + x) + z ELSE (g + x) + 0
      BY <1>1, <1>3, <1>5, <2>2 DEF ErrWorth, HealthTypes
    <3>3. g + x <= ErrWorth' /\ ErrWorth' \in Int
      BY <1>2, <1>4, <3>1, <3>2
    <3> QED
      BY <1>1, <1>3, <1>4, <2>2, <3>1, <3>3 DEF ErrCovered
  <2> QED
    BY <2>1, <2>2
<1> QED
  BY <1>7, <1>8 DEF Covered

\* No step takes it back: with the statistics reset, as long as no commit was in
\* the shell's way.
LEMMA CoveredStep ==
  ASSUME HealthTypes, Covered, [Counts!Next]_(Counts!vars)
  PROVE  Covered'
<1> USE DEF Counts!work_vars, Counts!shell_vars, Counts!counted, Counts!history
<1>0. /\ hc \in Counts!Counters /\ saved \in Counts!Counters /\ sum \in Nat
      /\ {hc.txn_total, hc.err_total, saved.txn_total, saved.err_total} \subseteq Nat
      /\ {TxnWorth, ErrWorth} \subseteq Nat
  BY Deltas, WorthNumbers DEF HealthTypes
<1>1. ASSUME NEW s \in Counts!Stats, Counts!link_counts(s) PROVE Covered'
  <2>1. UNCHANGED <<last, hc, saved, commit, shell, now, sum, overlapped, adrift>>
    BY <1>1, CountWorth, Zenon
  <2>2. PICK i \in {0, 1}, j \in {0, 1} : TxnWorth' = TxnWorth + i /\ ErrWorth' = ErrWorth + j
    BY <1>1, CountWorth
  <2>3. TxnCovered'
    BY <1>0, <2>1, <2>2 DEF Covered, TxnCovered
  <2>4. ErrCovered'
    BY <1>0, <2>1, <2>2 DEF Covered, ErrCovered
  <2> QED
    BY <2>3, <2>4 DEF Covered
<1>2. CASE Counts!commit_save
  <2>1. /\ UNCHANGED <<stats, last, hc, shell, now, sum, overlapped, adrift>>
        /\ saved' \in {hc, saved} /\ commit' = "idle"
    BY <1>2 DEF Counts!commit_save
  <2>2. TxnWorth' = TxnWorth /\ ErrWorth' = ErrWorth
    BY <2>1 DEF TxnWorth, ErrWorth
  <2>3. Counts!txn_delta(now, last) \in Nat /\ Counts!err_delta(now, last) \in Nat
    BY Deltas
  <2>4. TxnCovered'
    BY <1>0, <2>1, <2>2, <2>3 DEF Covered, TxnCovered
  <2>5. ErrCovered'
    BY <1>0, <2>1, <2>2, <2>3 DEF Covered, ErrCovered
  <2> QED
    BY <2>4, <2>5 DEF Covered
<1>3. CASE Counts!store_txn
  <2>1. /\ shell = "store_txn" /\ shell' = "load_err"
        /\ hc'.txn_total = sum /\ hc'.err_total = hc.err_total
        /\ UNCHANGED <<stats, last, now, saved, commit, overlapped, adrift>>
    BY <1>0, <1>3 DEF Counts!store_txn, Counts!Counters
  <2>2. Counts!txn_delta(stats, now) \in Nat
    BY Deltas
  <2>3. TxnWorth' = TxnWorth /\ ErrWorth' = ErrWorth /\ sum <= TxnWorth
    BY <1>0, <2>1, <2>2 DEF TxnWorth, ErrWorth
  <2> QED
    BY <1>0, <2>1, <2>3 DEF Covered, TxnCovered, ErrCovered
<1>4. CASE Counts!store_err
  <2>1. /\ shell = "store_err" /\ shell' = "set_last"
        /\ hc'.err_total = sum /\ hc'.txn_total = hc.txn_total
        /\ UNCHANGED <<stats, last, now, saved, commit, overlapped, adrift>>
    BY <1>0, <1>4 DEF Counts!store_err, Counts!Counters
  <2>2. Counts!err_delta(stats, now) \in Nat
    BY Deltas
  <2>3. TxnWorth' = TxnWorth /\ ErrWorth' = ErrWorth /\ sum <= ErrWorth
    BY <1>0, <2>1, <2>2 DEF TxnWorth, ErrWorth
  <2> QED
    BY <1>0, <2>1, <2>3 DEF Covered, TxnCovered, ErrCovered
<1>5. CASE Counts!stats_reset
  <2>1. /\ UNCHANGED <<last, hc, saved, commit, shell, overlapped>>
        /\ shell = "idle" /\ stats' = Counts!NoStats
        /\ ~adrift' => ~adrift /\ ~overlapped
    BY <1>5 DEF Counts!stats_reset, HealthTypes
  <2>2. Counts!txn_delta(stats', last) \in Nat /\ Counts!err_delta(stats', last) \in Nat
    <3>1. last \in [Counts!Stats -> 0..(Mod - 1)] /\ stats' \in [Counts!Stats -> 0..(Mod - 1)]
          /\ Mod \in Nat
      BY <2>1, NoStatsYet, HealthAssumption DEF HealthTypes, Counts!Assumptions
    <3>2. /\ Counts!txn_delta(stats', last) \in 0..(Mod - 1)
          /\ Counts!err_delta(stats', last) \in 0..(Mod - 1)
      BY <3>1, OneCounter, Zenon
    <3> QED
      BY <3>1, <3>2
  <2>3. /\ TxnWorth' = hc.txn_total + Counts!txn_delta(stats', last)
        /\ ErrWorth' = hc.err_total + Counts!err_delta(stats', last)
    BY <2>1 DEF TxnWorth, ErrWorth
  <2>4. hc.txn_total <= TxnWorth' /\ hc.err_total <= ErrWorth'
        /\ TxnWorth' \in Nat /\ ErrWorth' \in Nat
    BY <1>0, <2>2, <2>3
  <2> QED
    BY <1>0, <2>1, <2>4 DEF Covered, TxnCovered, ErrCovered
<1>6. ASSUME NEW wdt \in BOOLEAN, NEW loaded \in BOOLEAN, Counts!reboot(wdt, loaded)
      PROVE  Covered'
  <2>1. PICK h : h = IF loaded THEN saved ELSE Counts!NoCounters
    OBVIOUS
  <2>2. h \in Counts!Counters
    BY <1>0, <2>1, NoCountersYet
  <2>3. /\ hc' = Counts!health_init(h, wdt) /\ saved' = saved /\ shell' = "idle"
        /\ adrift' = ~loaded /\ stats' = Counts!NoStats /\ last' = Counts!NoStats
    BY <1>6, <2>1 DEF Counts!reboot
  <2>4. hc'.txn_total = h.txn_total /\ hc'.err_total = h.err_total
    BY <2>2, <2>3, AfterBoot, Zenon
  <2>5. Counts!txn_delta(stats', last') = 0 /\ Counts!err_delta(stats', last') = 0
    BY <2>3, NoStatsYet, NothingToFold
  <2>6. /\ TxnWorth' = hc'.txn_total + 0 /\ ErrWorth' = hc'.err_total + 0
        /\ h.txn_total \in Nat /\ h.err_total \in Nat
    BY <2>2, <2>3, <2>5 DEF TxnWorth, ErrWorth, Counts!Counters
  <2>7. ~adrift' => h = saved
    BY <2>1, <2>3
  <2> QED
    BY <2>3, <2>4, <2>6, <2>7 DEF Covered, TxnCovered, ErrCovered
<1>7. CASE UNCHANGED Counts!vars
  BY <1>7 DEF Counts!vars, Covered, TxnCovered, ErrCovered, TxnWorth, ErrWorth
<1> QED
  BY <1>1, <1>2, <1>3, <1>4, <1>5, <1>6, <1>7, ShellCovers, CommitCovers
     DEF Counts!Next, Counts!health_get

\* Only a commit writes the flash, and what it writes covers what was there.
LEMMA GrowsStep ==
  ASSUME HealthTypes, Covered, [Counts!Next]_(Counts!vars), ~adrift
  PROVE  Counts!Grows
<1> USE DEF Counts!work_vars, Counts!shell_vars, Counts!counted, Counts!history
<1>0. {hc.txn_total, hc.err_total, saved.txn_total, saved.err_total} \subseteq Nat
  BY Deltas
<1>1. CASE Counts!commit_save
  <2>1. commit = "save" /\ saved' \in {hc, saved}
    BY <1>1 DEF Counts!commit_save
  <2> QED
    BY <1>0, <2>1 DEF Counts!Grows, Covered, TxnCovered, ErrCovered
<1>2. CASE UNCHANGED saved
  BY <1>0, <1>2 DEF Counts!Grows
<1>3. Counts!commit_save \/ UNCHANGED saved
  <2>1. \A s \in Counts!Stats : Counts!link_counts(s) => UNCHANGED saved
    BY DEF Counts!link_counts
  <2>2. \A wdt, loaded \in BOOLEAN : Counts!reboot(wdt, loaded) => UNCHANGED saved
    BY DEF Counts!reboot
  <2> QED
    BY <2>1, <2>2
       DEF Counts!Next, Counts!commit_fold, Counts!stats_reset, Counts!health_get,
           Counts!stats_get, Counts!load_txn, Counts!store_txn, Counts!load_err,
           Counts!store_err, Counts!set_last, Counts!vars
<1> QED
  BY <1>1, <1>2, <1>3

\* A new device satisfies all of it.
LEMMA HealthInit ==
  ASSUME Counts!Init
  PROVE  HealthTypes /\ AddsUp /\ Covered
<1>1. /\ saved = Counts!NoCounters /\ hc = Counts!health_init(saved, FALSE)
      /\ at_boot = hc /\ stats = Counts!NoStats /\ last = Counts!NoStats
      /\ now = Counts!NoStats /\ seen = Counts!NoStats /\ shell = "idle" /\ sum = 0
      /\ overlapped = FALSE /\ adrift = FALSE /\ commit = "idle"
  BY DEF Counts!Init
<1>2. /\ saved \in Counts!Counters /\ hc \in Counts!Counters
      /\ hc.txn_total = 0 /\ hc.err_total = 0
      /\ saved.txn_total = 0 /\ saved.err_total = 0
  <2>1. saved \in Counts!Counters /\ saved.txn_total = 0 /\ saved.err_total = 0
    BY <1>1, NoCountersYet
  <2>2. FALSE \in BOOLEAN
    OBVIOUS
  <2>3. /\ hc \in Counts!Counters /\ hc.txn_total = saved.txn_total
        /\ hc.err_total = saved.err_total
    BY <1>1, <2>1, <2>2, AfterBoot, Zenon
  <2> QED
    BY <2>1, <2>3
<1>3. HealthTypes
  BY <1>1, <1>2, NoStatsYet DEF HealthTypes
<1>4. Counts!txn_delta(stats, last) = 0 /\ Counts!err_delta(stats, last) = 0
  BY <1>1, NoStatsYet, NothingToFold
<1>8. at_boot.txn_total = 0 /\ at_boot.err_total = 0
  BY <1>1, <1>2, Zenon
<1>9. seen["txn_count"] = 0 /\ Counts!errors(seen) = 0 /\ shell = "idle" /\ ~overlapped
  BY <1>1, NoStatsYet
<1>5. TxnWorth = 0 /\ Txn = 0 /\ ErrWorth = 0 /\ Errs = 0
  BY <1>2, <1>4, <1>8, <1>9 DEF TxnWorth, ErrWorth, Txn, Errs
<1>6. AddsUp
  <2>1. Mod \in Nat
    BY HealthAssumption DEF Counts!Assumptions
  <2> QED
    BY <1>5, <1>9, <2>1 DEF AddsUp, NothingLost, NoMore, Loads, Split
<1>7. Covered
  <2>1. /\ hc.txn_total = 0 /\ hc.err_total = 0
        /\ saved.txn_total = 0 /\ saved.err_total = 0
    BY <1>2
  <2> QED
    BY <1>5, <1>9, <2>1 DEF Covered, TxnCovered, ErrCovered
<1> QED
  BY <1>3, <1>6, <1>7

\* A step of the services is one of the health counters or leaves them alone.
LEMMA HealthSteps ==
  ASSUME [Next]_vars
  PROVE  [Counts!Next]_(Counts!vars)
<1>1. CASE health_step
  BY <1>1 DEF health_step
<1>2. CASE UNCHANGED health_vars
  BY <1>2 DEF health_vars, Counts!vars, Counts!work_vars, Counts!shell_vars,
              Counts!counted, Counts!history
<1> QED
  BY <1>1, <1>2
     DEF Next, vars, boot_step, settings_step, capture_step, display_step,
         text_step, latency_step

\* Whatever the width of the link's statistics and however often they have
\* wrapped: as long as rim reset is not used, the totals of the health
\* counters and what is left to fold are together what health_init left in RAM
\* and what has been counted since; a commit in the middle of the shell's fold
\* loses nothing and adds at most a full turn of a counter (health.c).
THEOREM TotalsAddUp == ~StatsReset => (Spec => []ExactTotals)
<1> SUFFICES ASSUME ~StatsReset PROVE Spec => []ExactTotals
  OBVIOUS
<1>1. Init => HealthTypes /\ AddsUp
  BY HealthInit DEF Init
<1>2. HealthTypes /\ AddsUp /\ [Next]_vars => (HealthTypes /\ AddsUp)'
  BY HealthSteps, HealthTypesStep, AddsUpStep
<1>3. HealthTypes /\ AddsUp => ExactTotals
  <2> SUFFICES ASSUME HealthTypes, AddsUp, shell = "idle" PROVE ExactTotals
    BY DEF ExactTotals, Counts!ExactTotals
  <2>1. TxnWorth \in Nat /\ ErrWorth \in Nat /\ Txn \in Nat /\ Errs \in Nat /\ Mod \in Nat
    BY WorthNumbers, HealthAssumption DEF Counts!Assumptions
  <2>2. /\ TxnWorth - Txn \in 0..Mod /\ ErrWorth - Errs \in 0..Mod
        /\ ~overlapped => TxnWorth = Txn /\ ErrWorth = Errs
    BY <2>1 DEF AddsUp, NothingLost, NoMore
  <2> QED
    BY <2>2 DEF TxnWorth, ErrWorth, Txn, Errs, ExactTotals, Counts!ExactTotals
<1> QED
  BY <1>1, <1>2, <1>3, PTL DEF Spec

\* The totals in flash only ever grow, whatever fails, overlaps, is reset or
\* loses its power in between: except in a boot that could not load them, and
\* once a commit has met the shell's fold and the statistics were reset
\* (health.c).
THEOREM CommitsSurvive == Spec => CommittedSurvives
<1> DEFINE Kept == ~adrift => Counts!Grows
<1>1. Init => HealthTypes /\ Covered
  BY HealthInit DEF Init
<1>2. HealthTypes /\ Covered /\ [Next]_vars => (HealthTypes /\ Covered)'
  BY HealthSteps, HealthTypesStep, CoveredStep
<1>3. HealthTypes /\ Covered /\ [Next]_vars => [Kept]_(Counts!vars)
  BY HealthSteps, GrowsStep
<1>4. [][Kept]_(Counts!vars) => CommittedSurvives
  BY DEF CommittedSurvives, Counts!CommittedSurvives
<1> QED
  BY <1>1, <1>2, <1>3, <1>4, PTL DEF Spec

-----------------------------------------------------------------------------
(* The latency statistics *)

\* The least number of a set: what stands here for induction.
LEMMA LeastNumber ==
  ASSUME NEW T \in SUBSET Nat, T # {}
  PROVE  \E x \in T : \A y \in T : x <= y
<1> DEFINE R == OpToRel(<, Nat)
<1>1. IsWellFoundedOn(R, Nat)
  BY NatLessThanWellFounded
<1>2. \A x, y \in Nat : <<x, y>> \in R <=> x < y
  BY DEF OpToRel
<1> HIDE DEF R
<1>3. PICK x \in T : \A y \in T : ~ (<<y, x>> \in R)
  BY <1>1, WFMin, Zenon
<1>4. ASSUME NEW y \in T PROVE x <= y
  <2>1. x \in Nat /\ y \in Nat /\ ~ (y < x)
    BY <1>2, <1>3
  <2> QED
    BY <2>1
<1> QED
  BY <1>4

\* What the prover uses of the constants.
LEMMA LatConstants ==
  /\ LAT_RING \in Nat \ {0} /\ IdxMod \in Nat \ {0} /\ PCT \in 0..99
  /\ Latencies \subseteq Nat \ {0}
<1>1. PICK k \in 1..IdxMod : IdxMod = k * LAT_RING
  BY LatencyAssumption DEF Lat!Assumptions
<1>2. LAT_RING \in Nat \ {0} /\ PCT \in 0..99 /\ Latencies \subseteq Nat \ {0}
  BY LatencyAssumption DEF Lat!Assumptions
<1>3. k * LAT_RING \in Nat \ {0}
  <2>1. k \in Nat \ {0}
    BY <1>1
  <2> QED
    BY <2>1, <1>2
<1> QED
  BY <1>1, <1>2, <1>3

Slot == 0..(LAT_RING - 1)
Entries == Latencies \cup {0}

LatTypes ==
  /\ lat_ring \in [Slot -> Entries]
  /\ lat_idx \in 0..(IdxMod - 1)
  /\ lat_max \in Nat
  /\ copy \in Seq(Entries) /\ Len(copy) <= LAT_RING
  /\ n \in 0..LAT_RING
  /\ sorted \in Nat
  /\ p99 \in Nat /\ max \in Nat
  /\ get \in {"idle", "copy"}

\* The entries below the index have been noted, and none is above the maximum.
Noted ==
  /\ \A e \in Slot : e < lat_idx => lat_ring[e] \in Latencies
  /\ \A e \in Slot : lat_ring[e] <= lat_max

\* What a get is to sort has been noted, whatever came after it began.
Copied ==
  get = "copy" =>
    /\ \A e \in Slot : e < n => lat_ring[e] \in Latencies
    /\ \A k \in 1..Len(copy) : copy[k] <= lat_max /\ (k <= n => copy[k] \in Latencies)

\* What it has sorted ascends.
Ascends ==
  get = "copy" =>
    /\ sorted \in 1..LAT_RING /\ (sorted <= n \/ sorted = 1)
    /\ Len(copy) < LAT_RING => sorted = 1
    /\ \A j, k \in 1..sorted : j < k => copy[j] <= copy[k]

\* Until a tick comes, they are the entries of the ring, each once.
Rearranges(f) ==
  /\ f \in [1..n -> 0..(n - 1)]
  /\ \A j, k \in 1..n : f[j] = f[k] => j = k
  /\ \A k \in 1..n : copy[k] = lat_ring[f[k]]

Rearranged ==
  get = "copy" /\ steady =>
    /\ sorted = 1 => \A k \in 1..Len(copy) : copy[k] = lat_ring[k - 1]
    /\ Len(copy) = LAT_RING => \E f : Rearranges(f)

LatInv == LatTypes /\ Noted /\ Copied /\ Ascends /\ Rearranged /\ PercentileIsReal

\* All of them are numbers.
LEMMA EntriesAreNumbers ==
  ASSUME LatTypes
  PROVE  /\ \A k \in 1..Len(copy) : copy[k] \in Nat
         /\ \A e \in Slot : lat_ring[e] \in Nat
<1>1. \A x \in Entries : x \in Nat
  BY LatConstants DEF Entries
<1>2. \A k \in 1..Len(copy) : copy[k] \in Entries
  BY DEF LatTypes
<1>3. \A e \in Slot : lat_ring[e] \in Entries
  BY DEF LatTypes
<1> QED
  BY <1>1, <1>2, <1>3, Zenon

\* A note puts a latency into one slot and leaves the others.
LEMMA NoteDoes ==
  ASSUME LatTypes, NEW cyc \in Latencies, Lat!latency_note(cyc)
  PROVE  /\ lat_idx % LAT_RING \in Slot
         /\ lat_idx < LAT_RING => lat_idx % LAT_RING = lat_idx
         /\ lat_ring' \in [Slot -> Entries]
         /\ \A e \in Slot : lat_ring'[e] = IF e = lat_idx % LAT_RING THEN cyc ELSE lat_ring[e]
         /\ lat_idx' \in 0..(IdxMod - 1) /\ lat_idx' <= lat_idx + 1
         /\ lat_max' \in Nat /\ lat_max' >= lat_max /\ lat_max' >= cyc
<1>1. PICK s \in Slot : s = lat_idx % LAT_RING
  <2>1. lat_idx \in Int /\ LAT_RING \in Nat \ {0}
    BY LatConstants DEF LatTypes
  <2>2. lat_idx % LAT_RING \in 0..(LAT_RING - 1)
    BY <2>1, Remainder, Zenon
  <2> QED
    BY <2>2 DEF Slot
<1>2. lat_idx < LAT_RING => s = lat_idx
  BY <1>1, LatConstants DEF LatTypes
<1>3. lat_ring' = [lat_ring EXCEPT ![s] = cyc]
  BY <1>1 DEF Lat!latency_note
<1>4. lat_ring' \in [Slot -> Entries]
  BY <1>3 DEF LatTypes, Entries
<1>5. \A e \in Slot : lat_ring'[e] = IF e = s THEN cyc ELSE lat_ring[e]
  BY <1>3 DEF LatTypes
<1>6. (lat_idx + 1) % IdxMod \in 0..(IdxMod - 1) /\ (lat_idx + 1) % IdxMod <= lat_idx + 1
  BY LatConstants DEF LatTypes
<1>7. lat_idx' \in 0..(IdxMod - 1) /\ lat_idx' <= lat_idx + 1
  BY <1>6 DEF Lat!latency_note
<1>8. lat_max' \in Nat /\ lat_max' >= lat_max /\ lat_max' >= cyc
  BY LatConstants DEF Lat!latency_note, LatTypes
<1> QED
  BY <1>1, <1>2, <1>4, <1>5, <1>7, <1>8

\* Where the next entry goes.
LEMMA PlaceFound ==
  ASSUME LatTypes, sorted <= Len(copy), NEW v \in Nat
  PROVE  /\ Lat!Place(v) \in 0..sorted
         /\ Lat!Place(v) = 0 \/ copy[Lat!Place(v)] <= v
         /\ \A k \in (Lat!Place(v) + 1)..sorted : copy[k] > v
<1> DEFINE T == {j \in 0..sorted : \A k \in (j + 1)..sorted : copy[k] > v}
<1>1. sorted \in Nat /\ \A k \in 1..sorted : copy[k] \in Nat
  <2>1. sorted \in Nat
    BY DEF LatTypes
  <2>2. \A k \in 1..Len(copy) : copy[k] \in Nat
    BY EntriesAreNumbers
  <2>3. \A k \in 1..sorted : k \in 1..Len(copy)
    BY <2>1 DEF LatTypes
  <2> QED
    BY <2>1, <2>2, <2>3
<1>2. sorted \in T
  BY <1>1
<1>3. T \subseteq Nat
  BY <1>1
<1>4. PICK j \in T : \A i \in T : j <= i
  <2> HIDE DEF T
  <2> QED
    BY <1>2, <1>3, LeastNumber
<1>5. j \in 0..sorted /\ \A k \in (j + 1)..sorted : copy[k] > v
  BY <1>4
<1>6. j = 0 \/ copy[j] <= v
  <2> SUFFICES ASSUME j # 0, ~ (copy[j] <= v) PROVE FALSE
    OBVIOUS
  <2>1. j \in 1..sorted /\ j - 1 \in 0..sorted /\ copy[j] > v
    BY <1>1, <1>5
  <2>2. \A k \in ((j - 1) + 1)..sorted : copy[k] > v
    BY <1>1, <1>5, <2>1
  <2>3. j - 1 \in T
    BY <2>1, <2>2
  <2> QED
    BY <1>4, <1>5, <2>3
<1>7. \E i \in 0..sorted : (i = 0 \/ copy[i] <= v) /\ \A k \in (i + 1)..sorted : copy[k] > v
  BY <1>5, <1>6
<1> QED
  BY <1>7 DEF Lat!Place

\* An insertion rotates the entries from the place of the one it inserts: which
\* of the old ones is at k.
Came(j, k) ==
  IF k = j + 1 THEN sorted + 1 ELSE IF k \in (j + 2)..(sorted + 1) THEN k - 1 ELSE k

\* What an insertion does to the copy.
LEMMA InsertDoes ==
  ASSUME LatTypes, Lat!insert, sorted \in 1..LAT_RING, n <= LAT_RING
  PROVE  \E j \in 0..sorted :
           /\ copy' \in Seq(Entries) /\ Len(copy') = LAT_RING
           /\ \A k \in 1..LAT_RING : copy'[k] = copy[Came(j, k)]
           /\ j = 0 \/ copy[j] <= copy[sorted + 1]
           /\ \A k \in (j + 1)..sorted : copy[k] > copy[sorted + 1]
<1>1. sorted < n /\ Len(copy) = LAT_RING /\ sorted + 1 \in 1..LAT_RING
  BY LatConstants DEF Lat!insert, LatTypes
<1>2. \A k \in 1..LAT_RING : copy[k] \in Entries
  BY <1>1, LatConstants DEF LatTypes
<1>3. PICK v \in Nat : v = copy[sorted + 1]
  BY <1>1, <1>2, LatConstants DEF Entries
<1>4. PICK j \in 0..sorted : /\ j = Lat!Place(v)
                             /\ j = 0 \/ copy[j] <= v
                             /\ \A k \in (j + 1)..sorted : copy[k] > v
  <2>1. sorted <= Len(copy)
    BY <1>1 DEF LatTypes
  <2> QED
    BY <2>1, PlaceFound
<1>5. copy' = [k \in 1..LAT_RING |->
                 IF k = j + 1 THEN v
                 ELSE IF k \in (j + 2)..(sorted + 1) THEN copy[k - 1] ELSE copy[k]]
  BY <1>3, <1>4, Zenon DEF Lat!insert
<1>6. \A k \in 1..LAT_RING : Came(j, k) \in 1..LAT_RING
  BY <1>1, LatConstants DEF LatTypes, Came
<1>7. \A k \in 1..LAT_RING : copy'[k] = copy[Came(j, k)]
  BY <1>3, <1>5 DEF Came
<1>8. copy' \in [1..LAT_RING -> Entries]
  <2>1. DOMAIN copy' = 1..LAT_RING /\ copy' = [k \in DOMAIN copy' |-> copy'[k]]
    BY <1>5
  <2>2. \A k \in 1..LAT_RING : copy'[k] \in Entries
    BY <1>2, <1>6, <1>7
  <2> QED
    BY <2>1, <2>2
<1>9. copy' \in Seq(Entries) /\ Len(copy') = LAT_RING
  BY <1>8, LatConstants
<1> QED
  BY <1>3, <1>4, <1>7, <1>9

\* The rank is inside what is sorted, and no more than PCT in a hundred are
\* below it.
LEMMA RankInside ==
  ASSUME LatTypes, n > 0
  PROVE  Lat!Rank(n) + 1 \in 1..n /\ 100 * (Lat!Rank(n) + 1) > n * PCT /\ n * PCT \in Nat
<1>1. n \in Nat /\ PCT \in 0..99
  BY LatConstants DEF LatTypes
<1>2. n * PCT \in Nat /\ n * PCT <= n * 99
  BY <1>1
<1>3. PICK x \in Nat : x = n * PCT
  BY <1>2
<1>4. x \div 100 \in Nat /\ 100 * (x \div 100) <= x /\ 100 * ((x \div 100) + 1) > x
  OBVIOUS
<1>5. PICK r \in Nat : r = x \div 100
  BY <1>4
<1>6. 100 * r <= x /\ 100 * (r + 1) > x /\ x <= n * 99
  BY <1>2, <1>3, <1>4, <1>5, Zenon
<1>7. r + 1 \in 1..n
  BY <1>1, <1>6
<1>8. Lat!Rank(n) = r
  BY <1>3, <1>5, Zenon DEF Lat!Rank
<1> QED
  BY <1>2, <1>3, <1>6, <1>7, <1>8, Zenon

\* Which actions there are.
LEMMA LatActions ==
  ASSUME [Lat!Next]_(Lat!vars)
  PROVE  \/ \E cyc \in Latencies : Lat!latency_note(cyc)
         \/ Lat!latency_get
         \/ Lat!copy_entry
         \/ Lat!insert
         \/ Lat!report
         \/ UNCHANGED <<lat_ring, lat_idx, lat_max, copy, n, sorted, p99, max, get, steady>>
BY DEF Lat!Next, Lat!vars, Lat!ring_vars

\* Every step keeps the types.
LEMMA LatTypesStep ==
  ASSUME LatTypes, Ascends, [Lat!Next]_(Lat!vars)
  PROVE  LatTypes'
<1>1. ASSUME NEW cyc \in Latencies, Lat!latency_note(cyc)
      PROVE  LatTypes'
  <2>1. UNCHANGED <<copy, n, sorted, p99, max, get>>
    BY <1>1 DEF Lat!latency_note
  <2> QED
    BY <1>1, <2>1, NoteDoes DEF LatTypes
<1>2. CASE Lat!latency_get
  BY <1>2, LatConstants DEF LatTypes, Lat!latency_get, Lat!ring_vars
<1>3. CASE Lat!copy_entry
  <2>1. Len(copy) \in Slot
    BY <1>3, LatConstants DEF LatTypes, Lat!copy_entry, Slot
  <2>2. lat_ring[Len(copy)] \in Entries
    BY <2>1 DEF LatTypes
  <2>3. copy' \in Seq(Entries) /\ Len(copy') = Len(copy) + 1
    BY <1>3, <2>2 DEF LatTypes, Lat!copy_entry
  <2> QED
    BY <1>3, <2>1, <2>3, LatConstants
       DEF LatTypes, Lat!copy_entry, Lat!ring_vars, Slot
<1>4. CASE Lat!insert
  <2>1. sorted \in 1..LAT_RING /\ n <= LAT_RING
    BY <1>4, LatConstants DEF Ascends, Lat!insert, LatTypes
  <2>2. copy' \in Seq(Entries) /\ Len(copy') = LAT_RING
    BY <1>4, <2>1, InsertDoes
  <2>3. sorted' \in Nat /\ UNCHANGED <<lat_ring, lat_idx, lat_max, n, p99, max, get>>
    BY <1>4 DEF LatTypes, Lat!insert, Lat!ring_vars
  <2> QED
    BY <2>2, <2>3, LatConstants DEF LatTypes
<1>5. CASE Lat!report
  <2>1. p99' \in Nat
    <3>1. CASE n > 0
      <4>1. Lat!Rank(n) + 1 \in 1..n
        BY <3>1, RankInside
      <4>2. Lat!Rank(n) + 1 \in 1..Len(copy)
        BY <1>5, <4>1, LatConstants DEF LatTypes, Lat!report
      <4>3. copy[Lat!Rank(n) + 1] \in Nat
        BY <4>2, EntriesAreNumbers
      <4> QED
        BY <1>5, <3>1, <4>3 DEF Lat!report
    <3>2. CASE ~(n > 0)
      BY <1>5, <3>2 DEF Lat!report
    <3> QED
      BY <3>1, <3>2
  <2> QED
    BY <1>5, <2>1 DEF LatTypes, Lat!report, Lat!ring_vars
<1>6. CASE UNCHANGED <<lat_ring, lat_idx, lat_max, copy, n, sorted, p99, max, get, steady>>
  BY <1>6 DEF LatTypes
<1> QED
  BY <1>1, <1>2, <1>3, <1>4, <1>5, <1>6, LatActions

\* And what has been noted.
LEMMA NotedStep ==
  ASSUME LatTypes, Noted, [Lat!Next]_(Lat!vars)
  PROVE  Noted'
<1>1. ASSUME NEW cyc \in Latencies, Lat!latency_note(cyc)
      PROVE  Noted'
  <2>1. ASSUME NEW e \in Slot PROVE (e < lat_idx' => lat_ring'[e] \in Latencies) /\ lat_ring'[e] <= lat_max'
    <3>1. CASE e = lat_idx % LAT_RING
      <4>1. lat_ring'[e] = cyc
        BY <1>1, <3>1, NoteDoes
      <4> QED
        BY <1>1, <4>1, NoteDoes, LatConstants
    <3>2. CASE e # lat_idx % LAT_RING
      <4>1. lat_ring'[e] = lat_ring[e] /\ lat_max' >= lat_max
        BY <1>1, <3>2, NoteDoes
      <4>2. e < lat_idx' => e < lat_idx
        <5>1. lat_idx' <= lat_idx + 1 /\ (lat_idx < LAT_RING => e # lat_idx)
          BY <1>1, <3>2, NoteDoes
        <5>2. e \in Nat /\ lat_idx \in Nat /\ e < LAT_RING /\ LAT_RING \in Nat /\ lat_idx' \in Nat
          BY <1>1, NoteDoes, LatConstants DEF LatTypes, Slot
        <5> QED
          BY <5>1, <5>2
      <4>3. lat_ring[e] \in Nat /\ lat_max \in Nat /\ lat_max' \in Nat
        BY <1>1, NoteDoes, EntriesAreNumbers DEF LatTypes
      <4> QED
        BY <4>1, <4>2, <4>3 DEF Noted
    <3> QED
      BY <3>1, <3>2
  <2> QED
    BY <2>1 DEF Noted
<1>2. CASE UNCHANGED <<lat_ring, lat_idx, lat_max>>
  BY <1>2 DEF Noted
<1> QED
  BY <1>1, <1>2, LatActions
     DEF Lat!latency_get, Lat!copy_entry, Lat!insert, Lat!report, Lat!ring_vars

\* And what has been copied.
LEMMA CopiedStep ==
  ASSUME LatTypes, Noted, Copied, Ascends, [Lat!Next]_(Lat!vars)
  PROVE  Copied'
<1>0. /\ LAT_RING \in Nat \ {0} /\ Latencies \subseteq Nat /\ n \in 0..LAT_RING
      /\ Len(copy) \in 0..LAT_RING /\ lat_max \in Nat
      /\ \A k \in 1..Len(copy) : copy[k] \in Nat
      /\ \A e \in Slot : lat_ring[e] \in Nat
  BY LatConstants, EntriesAreNumbers DEF LatTypes
<1>1. ASSUME NEW cyc \in Latencies, Lat!latency_note(cyc), get' = "copy"
      PROVE  Copied'
  <2>1. UNCHANGED <<copy, n, get>>
    BY <1>1 DEF Lat!latency_note
  <2>2. \A e \in Slot : e < n => lat_ring'[e] \in Latencies
    BY <1>1, <2>1, NoteDoes DEF Copied
  <2>3. lat_max' \in Nat /\ lat_max' >= lat_max
    BY <1>1, NoteDoes
  <2> QED
    BY <1>0, <1>1, <2>1, <2>2, <2>3 DEF Copied
<1>2. CASE Lat!latency_get
  <2>1. n' <= lat_idx /\ copy' = <<>> /\ lat_ring' = lat_ring /\ n' \in Nat
    BY <1>0, <1>2 DEF Lat!latency_get, Lat!ring_vars, LatTypes
  <2>2. lat_idx \in Nat
    BY DEF LatTypes
  <2> QED
    BY <2>1, <2>2 DEF Copied, Noted, Slot
<1>3. CASE Lat!copy_entry
  <2>1. Len(copy) \in Slot /\ get = "copy"
    BY <1>0, <1>3 DEF Lat!copy_entry, Slot
  <2>2. /\ Len(copy') = Len(copy) + 1
        /\ \A k \in 1..Len(copy) : copy'[k] = copy[k]
        /\ copy'[Len(copy) + 1] = lat_ring[Len(copy)]
        /\ UNCHANGED <<lat_ring, lat_max, n, get>>
    BY <1>3 DEF LatTypes, Lat!copy_entry, Lat!ring_vars
  <2>3. ASSUME NEW k \in 1..Len(copy')
        PROVE  copy'[k] <= lat_max /\ (k <= n => copy'[k] \in Latencies)
    <3>1. CASE k \in 1..Len(copy)
      BY <2>1, <2>2, <3>1 DEF Copied
    <3>2. CASE k = Len(copy) + 1
      <4>1. k <= n => Len(copy) < n
        BY <1>0, <3>2
      <4> QED
        BY <2>1, <2>2, <3>2, <4>1 DEF Copied, Noted
    <3> QED
      BY <1>0, <2>2, <3>1, <3>2
  <2> QED
    BY <2>1, <2>2, <2>3 DEF Copied
<1>4. CASE Lat!insert
  <2>1. /\ sorted \in 1..LAT_RING /\ n <= LAT_RING /\ sorted < n /\ Len(copy) = LAT_RING
        /\ get = "copy" /\ UNCHANGED <<lat_ring, lat_max, n, get>>
    BY <1>0, <1>4 DEF Ascends, Lat!insert, Lat!ring_vars
  <2>2. PICK j \in 0..sorted : /\ Len(copy') = LAT_RING
                              /\ \A k \in 1..LAT_RING : copy'[k] = copy[Came(j, k)]
    BY <1>4, <2>1, InsertDoes
  <2>3. \A k \in 1..LAT_RING : Came(j, k) \in 1..LAT_RING /\ (k <= n => Came(j, k) <= n)
    BY <1>0, <2>1 DEF Came
  <2> QED
    BY <2>1, <2>2, <2>3 DEF Copied
<1>5. CASE Lat!report
  BY <1>5 DEF Lat!report, Copied
<1>6. CASE UNCHANGED <<lat_ring, lat_idx, lat_max, copy, n, sorted, p99, max, get, steady>>
  BY <1>6 DEF Copied
<1> QED
  BY <1>1, <1>2, <1>3, <1>4, <1>5, <1>6, LatActions DEF Copied

\* The insertion keeps what is sorted in order.
LEMMA AscendsStep ==
  ASSUME LatTypes, Ascends, [Lat!Next]_(Lat!vars)
  PROVE  Ascends'
<1>0. LAT_RING \in Nat \ {0} /\ n \in 0..LAT_RING /\ Len(copy) \in 0..LAT_RING
  BY LatConstants DEF LatTypes
<1>1. CASE Lat!latency_get
  BY <1>0, <1>1 DEF Lat!latency_get, Ascends
<1>2. CASE Lat!copy_entry
  <2>1. sorted = 1 /\ sorted' = 1 /\ get = "copy" /\ n' = n
    BY <1>2 DEF Lat!copy_entry, Ascends
  <2> QED
    BY <1>0, <2>1 DEF Ascends
<1>3. CASE Lat!insert
  <2>1. /\ sorted \in 1..LAT_RING /\ sorted < n /\ n <= LAT_RING /\ Len(copy) = LAT_RING
        /\ get = "copy" /\ n' = n /\ sorted' = sorted + 1
        /\ \A a, b \in 1..sorted : a < b => copy[a] <= copy[b]
    BY <1>0, <1>3 DEF Ascends, Lat!insert
  <2>2. PICK p \in 0..sorted :
           /\ Len(copy') = LAT_RING
           /\ \A k \in 1..LAT_RING : copy'[k] = copy[Came(p, k)]
           /\ p = 0 \/ copy[p] <= copy[sorted + 1]
           /\ \A k \in (p + 1)..sorted : copy[k] > copy[sorted + 1]
    BY <1>3, <2>1, InsertDoes
  <2>3. \A k \in 1..LAT_RING : copy[k] \in Nat
    BY <2>1, EntriesAreNumbers
  <2>4. ASSUME NEW a \in 1..(sorted + 1), NEW b \in 1..(sorted + 1), a < b
        PROVE  copy'[a] <= copy'[b]
    <3>1. PICK x \in 1..LAT_RING, y \in 1..LAT_RING : x = Came(p, a) /\ y = Came(p, b)
      <4>1. Came(p, a) \in 1..LAT_RING /\ Came(p, b) \in 1..LAT_RING
        BY <1>0, <2>1 DEF Came
      <4> QED
        BY <4>1
    <3>2. copy'[a] = copy[x] /\ copy'[b] = copy[y]
      <4>1. a \in 1..LAT_RING /\ b \in 1..LAT_RING
        BY <1>0, <2>1
      <4> QED
        BY <2>2, <3>1, <4>1
    <3>3. CASE a = p + 1
      <4>1. x = sorted + 1 /\ y \in (p + 1)..sorted
        BY <2>1, <2>4, <3>1, <3>3 DEF Came
      <4> QED
        BY <2>1, <2>2, <2>3, <3>2, <4>1
    <3>4. CASE b = p + 1
      <4>1. y = sorted + 1 /\ x = a /\ x \in 1..p
        BY <2>1, <2>4, <3>1, <3>4 DEF Came
      <4>2. copy[x] <= copy[p]
        BY <2>1, <2>3, <4>1
      <4>3. copy[p] <= copy[sorted + 1] /\ p \in 1..LAT_RING /\ sorted + 1 \in 1..LAT_RING
        BY <2>1, <2>2, <4>1
      <4> QED
        BY <2>3, <3>2, <4>1, <4>2, <4>3
    <3>5. CASE a # p + 1 /\ b # p + 1
      <4>1. x \in 1..sorted /\ y \in 1..sorted /\ x < y
        BY <2>1, <2>4, <3>1, <3>5 DEF Came
      <4> QED
        BY <2>1, <3>2, <4>1
    <3> QED
      BY <3>3, <3>4, <3>5
  <2>5. sorted + 1 \in 1..LAT_RING /\ sorted + 1 <= n
    BY <1>0, <2>1
  <2> QED
    BY <2>1, <2>2, <2>4, <2>5 DEF Ascends
<1>4. CASE UNCHANGED <<copy, n, sorted, get>>
  BY <1>4 DEF Ascends
<1>5. CASE Lat!report
  BY <1>5 DEF Lat!report, Ascends
<1> QED
  BY <1>1, <1>2, <1>3, <1>4, <1>5, LatActions DEF Lat!latency_note

\* No entry comes twice in a rotation, and none of the first n leaves them.
LEMMA CameOnce ==
  ASSUME NEW j \in 0..sorted, sorted \in Nat, n \in Nat, sorted < n
  PROVE  /\ \A k \in 1..n : Came(j, k) \in 1..n
         /\ \A k, m \in 1..n : Came(j, k) = Came(j, m) => k = m
BY DEF Came

\* What is copied and sorted stays what is in the ring.
LEMMA RearrangedStep ==
  ASSUME LatTypes, Ascends, Rearranged, [Lat!Next]_(Lat!vars)
  PROVE  Rearranged'
<1>0. LAT_RING \in Nat \ {0} /\ n \in 0..LAT_RING /\ Len(copy) \in 0..LAT_RING
  BY LatConstants DEF LatTypes
<1>1. CASE Lat!latency_get
  <2>1. copy' = <<>> /\ Len(copy') = 0
    BY <1>1 DEF Lat!latency_get
  <2> QED
    BY <1>0, <2>1 DEF Rearranged
<1>2. CASE Lat!copy_entry /\ steady'
  <2>1. /\ sorted = 1 /\ Len(copy) < LAT_RING /\ get = "copy" /\ steady
        /\ UNCHANGED <<lat_ring, n, sorted, get>>
        /\ \A k \in 1..Len(copy) : copy[k] = lat_ring[k - 1]
    BY <1>2 DEF Lat!copy_entry, Ascends, Rearranged, Lat!ring_vars
  <2>2. /\ Len(copy') = Len(copy) + 1
        /\ \A k \in 1..Len(copy) : copy'[k] = copy[k]
        /\ copy'[Len(copy) + 1] = lat_ring[Len(copy)]
    BY <1>2 DEF LatTypes, Lat!copy_entry
  <2>3. \A k \in 1..Len(copy') : copy'[k] = lat_ring[k - 1]
    BY <1>0, <2>1, <2>2
  <2>4. ASSUME Len(copy') = LAT_RING
        PROVE  \E f : Rearranges(f)'
    <3> DEFINE f == [k \in 1..n |-> k - 1]
    <3>1. f \in [1..n -> 0..(n - 1)] /\ \A j, k \in 1..n : f[j] = f[k] => j = k
      BY <1>0
    <3>2. \A k \in 1..n : copy'[k] = lat_ring[f[k]]
      BY <1>0, <2>3, <2>4
    <3>3. Rearranges(f)'
      BY <2>1, <3>1, <3>2 DEF Rearranges
    <3> QED
      BY <3>3
  <2> QED
    BY <2>1, <2>3, <2>4 DEF Rearranged
<1>3. CASE Lat!insert /\ steady'
  <2>1. /\ sorted \in 1..LAT_RING /\ sorted < n /\ n <= LAT_RING /\ Len(copy) = LAT_RING
        /\ get = "copy" /\ steady /\ sorted' = sorted + 1
        /\ UNCHANGED <<lat_ring, n, get>>
    BY <1>0, <1>3 DEF Ascends, Lat!insert, Lat!ring_vars
  <2>2. PICK f : Rearranges(f)
    BY <2>1 DEF Rearranged
  <2>3. PICK p \in 0..sorted :
           /\ Len(copy') = LAT_RING
           /\ \A k \in 1..LAT_RING : copy'[k] = copy[Came(p, k)]
    BY <1>3, <2>1, InsertDoes
  <2>4. /\ f \in [1..n -> 0..(n - 1)]
        /\ \A a, b \in 1..n : f[a] = f[b] => a = b
        /\ \A k \in 1..n : copy[k] = lat_ring[f[k]]
    BY <2>2 DEF Rearranges
  <2>5. /\ \A k \in 1..n : Came(p, k) \in 1..n
        /\ \A k, m \in 1..n : Came(p, k) = Came(p, m) => k = m
    BY <1>0, <2>1, CameOnce
  <2>6. PICK g : g = [k \in 1..n |-> f[Came(p, k)]]
    OBVIOUS
  <2>7. g \in [1..n -> 0..(n - 1)] /\ \A a, b \in 1..n : g[a] = g[b] => a = b
    BY <2>4, <2>5, <2>6
  <2>8. \A k \in 1..n : copy'[k] = lat_ring[g[k]]
    <3>1. \A k \in 1..n : k \in 1..LAT_RING
      BY <1>0, <2>1
    <3> QED
      BY <2>3, <2>4, <2>5, <2>6, <3>1
  <2>9. Rearranges(g)'
    BY <2>1, <2>7, <2>8 DEF Rearranges
  <2> QED
    BY <2>1, <2>9 DEF Rearranged
<1>4. CASE ~(get' = "copy" /\ steady')
  BY <1>4 DEF Rearranged
<1>5. CASE UNCHANGED <<lat_ring, lat_idx, lat_max, copy, n, sorted, p99, max, get, steady>>
  BY <1>5 DEF Rearranged, Rearranges
<1> QED
  BY <1>1, <1>2, <1>3, <1>4, <1>5, LatActions DEF Lat!latency_note, Lat!report

\* The cardinality Latency takes from FiniteSets is this one.
LEMMA SameCardinality ==
  ASSUME NEW S
  PROVE  Lat!Cardinality(S) = Cardinality(S)
BY DEF Lat!Cardinality, Cardinality, Lat!IsFiniteSet, IsFiniteSet

\* The sorted entries up to the rank are not above the percentile.
LEMMA FewAbove ==
  ASSUME LatTypes, Ascends, Rearranged, get = "copy", steady, Len(copy) = LAT_RING,
         sorted >= n, n > 0, NEW p \in Nat, p = copy[Lat!Rank(n) + 1]
  PROVE  LET high == {e \in 0..(n - 1) : lat_ring[e] > p}
         IN  100 * Cardinality(high) <= (100 - PCT) * n
<1> DEFINE high == {e \in 0..(n - 1) : lat_ring[e] > p}
           low == (0..(n - 1)) \ high
<1>0. LAT_RING \in Nat \ {0} /\ n \in 1..LAT_RING /\ PCT \in 0..99
  BY LatConstants DEF LatTypes
<1>1. PICK r \in 1..n : r = Lat!Rank(n) + 1
  BY RankInside
<1>2. 100 * r > n * PCT /\ n * PCT \in Nat
  BY <1>1, RankInside
<1>3. sorted = n /\ \A j, k \in 1..n : j < k => copy[j] <= copy[k]
  BY <1>0 DEF Ascends
<1>4. PICK f : Rearranges(f)
  BY DEF Rearranged
<1>5. /\ f \in [1..n -> 0..(n - 1)]
      /\ \A a, b \in 1..n : f[a] = f[b] => a = b
      /\ \A k \in 1..n : copy[k] = lat_ring[f[k]]
  BY <1>4 DEF Rearranges
<1>6. \A k \in 1..n : copy[k] \in Nat
  BY <1>0, EntriesAreNumbers
<1>7. \A k \in 1..r : k \in 1..n /\ copy[k] <= p
  <2>1. copy[r] = p
    BY <1>1, Zenon
  <2>2. n \in Nat /\ r \in 1..n /\ copy[r] \in Nat
    BY <1>0, <1>6
  <2> QED
    BY <1>3, <2>1, <2>2
<1>8. \A k \in 1..r : f[k] \in low
  BY <1>5, <1>6, <1>7
<1>9. [k \in 1..r |-> f[k]] \in Injection(1..r, low)
  <2> HIDE DEF low
  <2>1. [k \in 1..r |-> f[k]] \in [1..r -> low]
    BY <1>8
  <2>2. \A a, b \in 1..r : f[a] = f[b] => a = b
    BY <1>5, <1>7
  <2> QED
    BY <2>1, <2>2 DEF Injection, IsInjective
<1>10. IsFiniteSet(0..(n - 1)) /\ Cardinality(0..(n - 1)) = n
  <2>1. 0 \in Int /\ n - 1 \in Int /\ ~(0 > n - 1) /\ (n - 1) - 0 + 1 = n
    BY <1>0
  <2> QED
    BY <2>1, FS_Interval
<1>11. IsFiniteSet(1..r) /\ Cardinality(1..r) = r
  BY <1>0, <1>1, FS_Interval
<1>12. IsFiniteSet(high) /\ IsFiniteSet(low) /\ Cardinality(high) \in Nat
  <2>1. high \in SUBSET (0..(n - 1)) /\ low \in SUBSET (0..(n - 1))
    OBVIOUS
  <2> HIDE DEF high, low
  <2> QED
    BY <1>10, <2>1, FS_Subset, FS_CardinalityType
<1>13. Cardinality(low) = n - Cardinality(high)
  <2>1. (0..(n - 1)) \cap high = high
    OBVIOUS
  <2>2. Cardinality(low) = Cardinality(0..(n - 1)) - Cardinality((0..(n - 1)) \cap high)
    <3> HIDE DEF high
    <3> QED
      BY <1>10, FS_Difference
  <2> HIDE DEF high, low
  <2> QED
    BY <1>10, <2>1, <2>2
<1>14. r <= Cardinality(low)
  <2> HIDE DEF low
  <2> QED
    BY <1>9, <1>11, <1>12, FS_Injection
<1>15. PICK x \in Nat, c \in Nat : x = n * PCT /\ c = Cardinality(high)
  BY <1>2, <1>12
<1>16. (100 - PCT) * n = 100 * n - x
  BY <1>0, <1>15
<1>17. 100 * r > x /\ r <= n - c
  BY <1>2, <1>13, <1>14, <1>15, Zenon
<1>18. 100 * c <= 100 * n - x
  BY <1>0, <1>1, <1>15, <1>17
<1> QED
  BY <1>15, <1>16, <1>18, Zenon

\* The report.
LEMMA ReportStep ==
  ASSUME LatTypes, Noted, Copied, Ascends, Rearranged, PercentileIsReal,
         [Lat!Next]_(Lat!vars)
  PROVE  PercentileIsReal'
<1>1. CASE Lat!report /\ n > 0
  <2>1. /\ get = "copy" /\ Len(copy) = LAT_RING /\ sorted >= n
        /\ p99' = copy[Lat!Rank(n) + 1] /\ max' = lat_max
        /\ UNCHANGED <<lat_ring, n, steady>>
    BY <1>1 DEF Lat!report, Lat!ring_vars
  <2>2. Lat!Rank(n) + 1 \in 1..Len(copy) /\ Lat!Rank(n) + 1 \in 1..n
    BY <1>1, <2>1, RankInside, LatConstants DEF LatTypes
  <2>3. p99' <= max' /\ p99' \in Latencies /\ p99' \in Nat
    BY <2>1, <2>2, EntriesAreNumbers DEF Copied
  <2>4. steady => 100 * Lat!Cardinality(Lat!Above') <= (100 - PCT) * n
    <3>1. Lat!Above' = {e \in 0..(n - 1) : lat_ring[e] > p99'}
      BY <2>1 DEF Lat!Above
    <3>2. PICK p : p = p99'
      OBVIOUS
    <3>3. p \in Nat /\ p = copy[Lat!Rank(n) + 1] /\ Lat!Above' = {e \in 0..(n - 1) : lat_ring[e] > p}
      BY <2>1, <2>3, <3>1, <3>2, Zenon
    <3> QED
      BY <1>1, <2>1, <3>3, FewAbove, SameCardinality, Zenon
  <2>5. n' > 0 /\ steady' => 100 * Lat!Cardinality(Lat!Above') <= (100 - PCT) * n'
    BY <2>1, <2>4, Zenon
  <2> QED
    BY <2>3, <2>5 DEF PercentileIsReal, Lat!PercentileIsReal
<1>2. CASE Lat!report /\ ~(n > 0)
  <2>1. p99' = 0 /\ max' = lat_max /\ lat_max \in Nat /\ n' = n
    BY <1>2 DEF Lat!report, LatTypes
  <2> QED
    BY <1>2, <2>1 DEF PercentileIsReal, Lat!PercentileIsReal
<1>3. ASSUME NEW cyc \in Latencies, Lat!latency_note(cyc)
      PROVE  PercentileIsReal'
  BY <1>3 DEF Lat!latency_note, PercentileIsReal, Lat!PercentileIsReal
<1>4. CASE get' # "idle"
  BY <1>4 DEF PercentileIsReal, Lat!PercentileIsReal
<1>5. CASE UNCHANGED <<lat_ring, lat_idx, lat_max, copy, n, sorted, p99, max, get, steady>>
  BY <1>5 DEF PercentileIsReal, Lat!PercentileIsReal, Lat!Above
<1> QED
  BY <1>1, <1>2, <1>3, <1>4, <1>5, LatActions
     DEF Lat!latency_get, Lat!copy_entry, Lat!insert

\* At first nothing has been noted.
LEMMA LatInit ==
  ASSUME Lat!Init
  PROVE  LatInv
<1>1. /\ lat_ring = [e \in Slot |-> 0] /\ lat_idx = 0 /\ lat_max = 0 /\ copy = <<>> /\ n = 0
      /\ sorted = 0 /\ p99 = 0 /\ max = 0 /\ get = "idle" /\ steady = FALSE
  BY DEF Lat!Init, Lat!Slots, Slot
<1>2. LatTypes
  BY <1>1, LatConstants DEF LatTypes, Entries
<1>3. Noted /\ Copied /\ Ascends /\ Rearranged
  BY <1>1 DEF Noted, Copied, Ascends, Rearranged, Slot
<1>4. PercentileIsReal
  BY <1>1 DEF PercentileIsReal, Lat!PercentileIsReal
<1> QED
  BY <1>2, <1>3, <1>4 DEF LatInv

\* Every step is one of the component, or leaves it as it is.
LEMMA LatSteps ==
  ASSUME [Next]_vars
  PROVE  [Lat!Next]_(Lat!vars)
BY DEF Next, vars, capture_step, settings_step, health_step, boot_step, display_step,
       text_step, latency_step, latency_vars, Lat!vars, Lat!ring_vars

\* The percentile of rim stats is a latency that was noted and not above the
\* maximum, whatever ticks come while it is copied and sorted; if none came,
\* no more of the ring than it says is above it (input_svc_latency_get).
THEOREM PercentileHolds == Spec => []PercentileIsReal
<1>1. Init => LatInv
  BY LatInit DEF Init
<1>2. LatInv /\ [Next]_vars => LatInv'
  <2> SUFFICES ASSUME LatInv, [Next]_vars PROVE LatInv'
    OBVIOUS
  <2>1. LatTypes' /\ Noted'
    BY LatSteps, LatTypesStep, NotedStep DEF LatInv
  <2>2. Copied' /\ Ascends'
    BY LatSteps, CopiedStep, AscendsStep DEF LatInv
  <2>3. Rearranged' /\ PercentileIsReal'
    BY LatSteps, RearrangedStep, ReportStep DEF LatInv
  <2> QED
    BY <2>1, <2>2, <2>3 DEF LatInv
<1>3. LatInv => PercentileIsReal
  BY DEF LatInv
<1> QED
  BY <1>1, <1>2, <1>3, PTL DEF Spec

-----------------------------------------------------------------------------
(* The display driver *)

\* The bytes, which the provers need not expand where they only pass one on.
Byte == 0..255

\* What the proofs use of the constants.
LEMMA DisplayConstants ==
  /\ DIGITS \in 0..16
  /\ \A t \in Texts : t \in [1..DIGITS -> Byte]
  /\ Banner \in Texts
BY Tm1637Assumption DEF Wires!Assumptions, Byte

\* The wires, and what the chip has taken from them.
WireTypes ==
  /\ clk \in {0, 1} /\ dio \in {0, 1}
  /\ message \in BOOLEAN
  /\ command \in -1..255
  /\ bits \in Seq({0, 1}) /\ Len(bits) <= 8
  /\ ptr \in 0..15
  /\ digits \in [1..DIGITS -> Byte]
  /\ on \in BOOLEAN

\* A bit of a byte, and the byte of its bits.
LEMMA Bits ==
  ASSUME NEW b \in Byte
  PROVE  /\ \A i \in 0..7 : Wires!bit(b, i) \in {0, 1}
         /\ b = Wires!bit(b, 0) + 2 * Wires!bit(b, 1) + 4 * Wires!bit(b, 2)
                + 8 * Wires!bit(b, 3) + 16 * Wires!bit(b, 4) + 32 * Wires!bit(b, 5)
                + 64 * Wires!bit(b, 6) + 128 * Wires!bit(b, 7)
<1> DEFINE w(i) == Wires!Weights[i + 1]
<1>1. /\ w(0) = 1 /\ w(1) = 2 /\ w(2) = 4 /\ w(3) = 8
      /\ w(4) = 16 /\ w(5) = 32 /\ w(6) = 64 /\ w(7) = 128
  BY DEF Wires!Weights
<1>2. \A i \in 0..7 : Wires!bit(b, i) = (b \div w(i)) % 2
  BY DEF Wires!bit
<1> HIDE DEF w
<1>3. /\ Wires!bit(b, 0) = (b \div 1) % 2 /\ Wires!bit(b, 1) = (b \div 2) % 2
      /\ Wires!bit(b, 2) = (b \div 4) % 2 /\ Wires!bit(b, 3) = (b \div 8) % 2
      /\ Wires!bit(b, 4) = (b \div 16) % 2 /\ Wires!bit(b, 5) = (b \div 32) % 2
      /\ Wires!bit(b, 6) = (b \div 64) % 2 /\ Wires!bit(b, 7) = (b \div 128) % 2
  BY <1>1, <1>2
<1>4. /\ (b \div 1) % 2 = b - 2 * (b \div 2)
      /\ (b \div 2) % 2 = (b \div 2) - 2 * (b \div 4)
      /\ (b \div 4) % 2 = (b \div 4) - 2 * (b \div 8)
      /\ (b \div 8) % 2 = (b \div 8) - 2 * (b \div 16)
  BY DEF Byte
<1>5. /\ (b \div 16) % 2 = (b \div 16) - 2 * (b \div 32)
      /\ (b \div 32) % 2 = (b \div 32) - 2 * (b \div 64)
      /\ (b \div 64) % 2 = (b \div 64) - 2 * (b \div 128)
      /\ (b \div 128) % 2 = b \div 128
  BY DEF Byte
<1>6. \A i \in 0..7 : Wires!bit(b, i) \in {0, 1}
  <2>1. ASSUME NEW x \in Int PROVE x % 2 \in {0, 1}
    OBVIOUS
  <2>2. /\ b \div 1 \in Int /\ b \div 2 \in Int /\ b \div 4 \in Int /\ b \div 8 \in Int
        /\ b \div 16 \in Int /\ b \div 32 \in Int /\ b \div 64 \in Int /\ b \div 128 \in Int
    BY DEF Byte
  <2>3. /\ Wires!bit(b, 0) \in {0, 1} /\ Wires!bit(b, 1) \in {0, 1}
        /\ Wires!bit(b, 2) \in {0, 1} /\ Wires!bit(b, 3) \in {0, 1}
        /\ Wires!bit(b, 4) \in {0, 1} /\ Wires!bit(b, 5) \in {0, 1}
        /\ Wires!bit(b, 6) \in {0, 1} /\ Wires!bit(b, 7) \in {0, 1}
    BY <1>3, <2>1, <2>2
  <2>4. \A i \in 0..7 : i = 0 \/ i = 1 \/ i = 2 \/ i = 3 \/ i = 4 \/ i = 5 \/ i = 6 \/ i = 7
    OBVIOUS
  <2> QED
    BY <2>3, <2>4, Zenon
<1>7. PICK b1 \in Int, b2 \in Int, b3 \in Int, b4 \in Int, b5 \in Int, b6 \in Int, b7 \in Int :
        /\ b1 = b \div 2 /\ b2 = b \div 4 /\ b3 = b \div 8 /\ b4 = b \div 16
        /\ b5 = b \div 32 /\ b6 = b \div 64 /\ b7 = b \div 128
  BY DEF Byte
<1>8. /\ Wires!bit(b, 0) = b - 2 * b1 /\ Wires!bit(b, 1) = b1 - 2 * b2
      /\ Wires!bit(b, 2) = b2 - 2 * b3 /\ Wires!bit(b, 3) = b3 - 2 * b4
      /\ Wires!bit(b, 4) = b4 - 2 * b5 /\ Wires!bit(b, 5) = b5 - 2 * b6
      /\ Wires!bit(b, 6) = b6 - 2 * b7 /\ Wires!bit(b, 7) = b7
  BY <1>3, <1>4, <1>5, <1>7, Zenon
<1>9. b = (b - 2 * b1) + 2 * (b1 - 2 * b2) + 4 * (b2 - 2 * b3) + 8 * (b3 - 2 * b4)
          + 16 * (b4 - 2 * b5) + 32 * (b5 - 2 * b6) + 64 * (b6 - 2 * b7) + 128 * b7
  BY DEF Byte
<1> QED
  BY <1>6, <1>8, <1>9, Zenon

\* The value of eight bits is a byte.
LEMMA ValueIsByte ==
  ASSUME NEW s \in Seq({0, 1}), Len(s) = 8
  PROVE  Wires!value(s) \in Byte
<1>1. \A i \in 1..8 : s[i] \in 0..1
  <2>1. \A i \in 1..Len(s) : s[i] \in {0, 1}
    BY ElementOfSeq, Zenon
  <2>2. \A x \in {0, 1} : x \in 0..1
    OBVIOUS
  <2> QED
    BY <2>1, <2>2, Zenon
<1>2. /\ s[1] \in 0..1 /\ s[2] \in 0..1 /\ s[3] \in 0..1 /\ s[4] \in 0..1
      /\ s[5] \in 0..1 /\ s[6] \in 0..1 /\ s[7] \in 0..1 /\ s[8] \in 0..1
  BY <1>1
<1>3. PICK a1 \in 0..1, a2 \in 0..1, a3 \in 0..1, a4 \in 0..1, a5 \in 0..1, a6 \in 0..1,
           a7 \in 0..1, a8 \in 0..1 :
        /\ a1 = s[1] /\ a2 = s[2] /\ a3 = s[3] /\ a4 = s[4]
        /\ a5 = s[5] /\ a6 = s[6] /\ a7 = s[7] /\ a8 = s[8]
  BY <1>2, Zenon
<1>4. Wires!value(s)
        = a1 + 2 * a2 + 4 * a3 + 8 * a4 + 16 * a5 + 32 * a6 + 64 * a7 + 128 * a8
  BY <1>3, Zenon DEF Wires!value
<1>5. a1 + 2 * a2 + 4 * a3 + 8 * a4 + 16 * a5 + 32 * a6 + 64 * a7 + 128 * a8 \in Byte
  BY DEF Byte
<1> QED
  BY <1>4, <1>5, Zenon

\* A byte that is taken leaves the types.
LEMMA TakeTypes ==
  ASSUME WireTypes, NEW b \in Byte, Wires!take(b)
  PROVE  /\ command' \in -1..255 /\ ptr' \in 0..15
         /\ digits' \in [1..DIGITS -> Byte] /\ on' \in BOOLEAN
<1>1. command' \in -1..255
  BY DEF WireTypes, Wires!take, Byte
<1>2. ptr' \in 0..15
  <2>1. b % 16 \in 0..15 /\ (ptr + 1) % 16 \in 0..15
    BY DEF WireTypes, Byte
  <2> QED
    BY <2>1 DEF WireTypes, Wires!take
<1>3. digits' \in [1..DIGITS -> Byte]
  BY DEF WireTypes, Wires!take
<1>4. on' \in BOOLEAN
  <2>1. CASE command = Wires!None /\ b \div 64 = 2
    <3>1. on' = (Wires!bit(b, 3) = 1)
      BY <2>1 DEF Wires!take
    <3> QED
      BY <3>1
  <2>2. CASE ~(command = Wires!None /\ b \div 64 = 2)
    BY <2>2 DEF Wires!take, WireTypes
  <2> QED
    BY <2>1, <2>2
<1> QED
  BY <1>1, <1>2, <1>3, <1>4

\* The chip does not change.
Untouched == UNCHANGED <<message, command, bits, ptr, digits, on>>

\* The types are then left.
LEMMA UntouchedTypes ==
  ASSUME WireTypes, Untouched, clk' \in {0, 1}, dio' \in {0, 1}
  PROVE  WireTypes'
BY DEF WireTypes, Untouched

\* The clock falls: the chip does not look.
LEMMA ClockLow ==
  ASSUME WireTypes, Wires!set(Wires!C(0))
  PROVE  clk' = 0 /\ dio' = dio /\ Untouched
BY DEF WireTypes, Wires!set, Wires!C, Untouched, Wires!chip_vars

\* The clock rises: within a message, the chip takes the data line as a bit.
LEMMA ClockHigh ==
  ASSUME WireTypes, Wires!set(Wires!C(1))
  PROVE  /\ clk' = 1 /\ dio' = dio
         /\ clk = 1 \/ ~message => Untouched
         /\ clk = 0 /\ message =>
              /\ message' = message
              /\ bits' = IF Len(bits) = 8 THEN <<>> ELSE Append(bits, dio)
              /\ IF Len(bits) = 7 THEN Wires!take(Wires!value(Append(bits, dio)))
                                  ELSE UNCHANGED <<command, ptr, digits, on>>
<1>1. clk' = 1 /\ dio' = dio
  BY DEF WireTypes, Wires!set, Wires!C
<1>2. CASE clk = 1 \/ ~message
  BY <1>1, <1>2 DEF WireTypes, Wires!set, Wires!chip_vars, Untouched
<1>3. CASE clk = 0 /\ message
  <2>1. clk' > clk /\ message /\ ~(dio' # dio /\ clk = 1)
    BY <1>1, <1>3
  <2>2. /\ bits' = IF Len(bits) = 8 THEN <<>> ELSE Append(bits, dio)
        /\ IF Len(bits) = 7 THEN Wires!take(Wires!value(Append(bits, dio)))
                            ELSE UNCHANGED <<command, ptr, digits, on>>
        /\ UNCHANGED message
    BY <2>1 DEF Wires!set
  <2> QED
    BY <1>1, <1>3, <2>2
<1> QED
  BY <1>1, <1>2, <1>3 DEF WireTypes

\* The data line under a low clock is not looked at; a change under a high one
\* starts or ends a message.
LEMMA DataLevel ==
  ASSUME WireTypes, NEW x \in {0, 1}, Wires!set(Wires!D(x))
  PROVE  /\ clk' = clk /\ dio' = x
         /\ clk = 0 \/ dio = x => Untouched
         /\ clk = 1 /\ dio # x =>
              /\ message' = (x = 0)
              /\ command' = Wires!None /\ bits' = <<>>
              /\ UNCHANGED <<ptr, digits, on>>
<1>1. clk' = clk /\ dio' = x
  BY DEF WireTypes, Wires!set, Wires!D
<1>2. CASE clk = 0 \/ dio = x
  BY <1>1, <1>2 DEF WireTypes, Wires!set, Wires!chip_vars, Untouched
<1>3. CASE clk = 1 /\ dio # x
  <2>1. dio' # dio /\ clk = 1 /\ ~(clk' > clk)
    BY <1>1, <1>3
  <2>2. message' = (dio' = 0) /\ command' = Wires!None /\ bits' = <<>>
        /\ UNCHANGED <<ptr, digits, on>>
    BY <2>1, Zenon DEF Wires!set
  <2> QED
    BY <1>1, <1>3, <2>2
<1> QED
  BY <1>1, <1>2, <1>3 DEF WireTypes

\* A message starts.
LEMMA DataFalls ==
  ASSUME WireTypes, clk = 1, dio = 1, Wires!set(Wires!D(0))
  PROVE  /\ clk' = 1 /\ dio' = 0 /\ message' /\ command' = Wires!None /\ bits' = <<>>
         /\ UNCHANGED <<ptr, digits, on>>
<1>1. 0 \in {0, 1} /\ clk = 1 /\ dio # 0
  OBVIOUS
<1>2. message' = (0 = 0)
  BY <1>1, DataLevel, Zenon
<1> QED
  BY <1>1, <1>2, DataLevel, Zenon

\* A message ends.
LEMMA DataRises ==
  ASSUME WireTypes, clk = 1, dio = 0, Wires!set(Wires!D(1))
  PROVE  /\ clk' = 1 /\ dio' = 1 /\ ~message'
         /\ UNCHANGED <<ptr, digits, on>>
<1>1. 1 \in {0, 1} /\ clk = 1 /\ dio # 1 /\ 1 # 0
  OBVIOUS
<1>2. message' = (1 = 0)
  BY <1>1, DataLevel, Zenon
<1> QED
  BY <1>1, <1>2, DataLevel, Zenon

\* All levels are such.
Levels == {Wires!C(0), Wires!C(1), Wires!D(0), Wires!D(1)}

\* Any level leaves the types.
LEMMA LevelTypes ==
  ASSUME WireTypes, NEW op \in Levels, Wires!set(op)
  PROVE  WireTypes'
<1>1. CASE op = Wires!C(0)
  <2>1. clk' = 0 /\ dio' = dio /\ Untouched
    BY <1>1, ClockLow
  <2>2. clk' \in {0, 1} /\ dio' \in {0, 1}
    BY <2>1 DEF WireTypes
  <2> QED
    BY <2>1, <2>2, UntouchedTypes, Zenon
<1>2. CASE op = Wires!C(1)
  <2>1. Append(bits, dio) \in Seq({0, 1}) /\ Len(Append(bits, dio)) = Len(bits) + 1
    BY DEF WireTypes
  <2>2. CASE clk = 1 \/ ~message
    <3>1. clk' = 1 /\ dio' = dio /\ Untouched
      BY <1>2, <2>2, ClockHigh
    <3>2. clk' \in {0, 1} /\ dio' \in {0, 1}
      BY <3>1 DEF WireTypes
    <3> QED
      BY <3>1, <3>2, UntouchedTypes, Zenon
  <2>3. CASE clk = 0 /\ message
    <3>1. clk' = 1 /\ dio' = dio /\ message' = message
      BY <1>2, <2>3, ClockHigh
    <3>2. bits' = IF Len(bits) = 8 THEN <<>> ELSE Append(bits, dio)
      BY <1>2, <2>3, ClockHigh
    <3>3. bits' \in Seq({0, 1}) /\ Len(bits') <= 8
      <4>1. CASE Len(bits) = 8
        BY <3>2, <4>1
      <4>2. CASE Len(bits) # 8
        <5>1. Len(bits) \in Nat /\ Len(bits) <= 8 /\ bits' = Append(bits, dio)
          BY <3>2, <4>2 DEF WireTypes
        <5>2. bits' \in Seq({0, 1}) /\ Len(bits') = Len(bits) + 1
          BY <2>1, <5>1, Zenon
        <5>3. PICK k \in Nat : k = Len(bits)
          BY <5>1
        <5>4. k <= 8 /\ k # 8 /\ Len(bits') = k + 1
          BY <4>2, <5>1, <5>2, <5>3, Zenon
        <5>5. k + 1 <= 8
          BY <5>4
        <5> QED
          BY <5>2, <5>4, <5>5, Zenon
      <4> QED
        BY <4>1, <4>2
    <3>4. /\ command' \in -1..255 /\ ptr' \in 0..15
          /\ digits' \in [1..DIGITS -> Byte] /\ on' \in BOOLEAN
      <4>1. CASE Len(bits) = 7
        <5>1. Wires!take(Wires!value(Append(bits, dio)))
          BY <1>2, <2>3, <4>1, ClockHigh
        <5>2. Wires!value(Append(bits, dio)) \in Byte
          <6>1. PICK s : s = Append(bits, dio)
            OBVIOUS
          <6>2. s \in Seq({0, 1}) /\ Len(s) = 8
            BY <2>1, <4>1, <6>1
          <6>3. Wires!value(s) \in Byte
            BY <6>2, ValueIsByte, Zenon
          <6> QED
            BY <6>1, <6>3, Zenon
        <5> QED
          BY <5>1, <5>2, TakeTypes
      <4>2. CASE Len(bits) # 7
        <5>1. UNCHANGED <<command, ptr, digits, on>>
          BY <1>2, <2>3, <4>2, ClockHigh
        <5> QED
          BY <5>1 DEF WireTypes
      <4> QED
        BY <4>1, <4>2, Zenon
    <3> QED
      BY <3>1, <3>3, <3>4 DEF WireTypes
  <2> QED
    BY <2>2, <2>3 DEF WireTypes
<1>3. ASSUME NEW x \in {0, 1}, op = Wires!D(x)
      PROVE  WireTypes'
  <2>1. CASE clk = 0 \/ dio = x
    <3>1. clk' = clk /\ dio' = x /\ UNCHANGED <<message, command, bits, ptr, digits, on>>
      BY <1>3, <2>1, DataLevel DEF Untouched
    <3> QED
      BY <3>1 DEF WireTypes
  <2>2. CASE clk = 1 /\ dio # x
    <3>1. message' \in BOOLEAN /\ command' = -1 /\ bits' = <<>> /\ UNCHANGED <<ptr, digits, on>>
      BY <1>3, <2>2, DataLevel DEF Wires!None
    <3>2. clk' \in {0, 1} /\ dio' \in {0, 1}
      BY <1>3, DataLevel DEF WireTypes
    <3> QED
      BY <3>1, <3>2 DEF WireTypes
  <2> QED
    BY <2>1, <2>2 DEF WireTypes
<1> QED
  BY <1>1, <1>2, <1>3 DEF Levels

\* Wires at rest; and wires and chip before each level of a start, a stop and a
\* byte that nothing disturbs.
AtRest == clk = 1 /\ dio = 1 /\ ~message

InStart(l) ==
  IF l < 4 THEN AtRest
  ELSE clk = 1 /\ dio = 0 /\ message /\ command = Wires!None /\ bits = <<>>

InStop(l) ==
  /\ l < 3 => clk = 0
  /\ l < 4 => bits = <<>>
  /\ l = 3 => clk = 0
  /\ l = 4 => clk = 1
  /\ l > 2 => dio = 0

\* Before level l the chip has the bits of the clocks so far; the one of the
\* acknowledge empties it.
InByte(b, l) ==
  /\ message
  /\ clk = IF l # 1 /\ l % 3 = 1 THEN 1 ELSE 0
  /\ l % 3 = 0 /\ l < 27 => dio = Wires!bit(b, (l - 1) \div 3)
  /\ IF l = 28 THEN bits = <<>>
     ELSE /\ Len(bits) = (l - 1) \div 3
          /\ \A j \in 1..Len(bits) : bits[j] = Wires!bit(b, j - 1)

\* The chip is ready for a byte.
LEMMA ByteBegins ==
  ASSUME message', clk' = 0, bits' = <<>>, NEW b
  PROVE  InByte(b, 1)'
BY DEF InByte

\* A start leads to a message without a byte.
LEMMA StartStep ==
  ASSUME WireTypes, NEW l \in 1..4, InStart(l), Wires!set(Wires!tm_start[l])
  PROVE  /\ l < 4 => InStart(l + 1)'
         /\ l = 4 => message' /\ clk' = 0 /\ bits' = <<>> /\ command' = Wires!None
         /\ UNCHANGED <<ptr, digits, on>>
<1>1. CASE l = 1
  <2>1. Wires!set(Wires!D(1)) /\ dio = 1 /\ clk = 1 /\ ~message
    BY <1>1 DEF Wires!tm_start, InStart, AtRest
  <2>2. clk' = clk /\ dio' = 1 /\ Untouched
    BY <2>1, DataLevel
  <2> QED
    BY <1>1, <2>1, <2>2 DEF InStart, AtRest, Untouched
<1>2. CASE l = 2
  <2>1. Wires!set(Wires!C(1)) /\ dio = 1 /\ clk = 1 /\ ~message
    BY <1>2 DEF Wires!tm_start, InStart, AtRest
  <2>2. clk' = clk /\ dio' = dio /\ Untouched
    BY <2>1, ClockHigh
  <2> QED
    BY <1>2, <2>1, <2>2 DEF InStart, AtRest, Untouched
<1>3. CASE l = 3
  <2>1. Wires!set(Wires!D(0)) /\ dio = 1 /\ clk = 1
    BY <1>3 DEF Wires!tm_start, InStart, AtRest
  <2>2. clk' = clk /\ dio' = 0 /\ message' /\ command' = Wires!None /\ bits' = <<>>
        /\ UNCHANGED <<ptr, digits, on>>
    BY <2>1, DataFalls
  <2> QED
    BY <1>3, <2>1, <2>2 DEF InStart
<1>4. CASE l = 4
  <2>1. Wires!set(Wires!C(0)) /\ message /\ command = Wires!None /\ bits = <<>>
    BY <1>4 DEF Wires!tm_start, InStart
  <2>2. clk' = 0 /\ Untouched
    BY <2>1, ClockLow
  <2> QED
    BY <1>4, <2>1, <2>2 DEF Untouched
<1> QED
  BY <1>1, <1>2, <1>3, <1>4

\* A stop leads to rest.
LEMMA StopStep ==
  ASSUME WireTypes, NEW l \in 1..4, InStop(l), Wires!set(Wires!tm_stop[l])
  PROVE  /\ l < 4 => InStop(l + 1)'
         /\ l = 4 => AtRest'
         /\ UNCHANGED <<ptr, digits, on>>
<1>1. CASE l = 1
  <2>1. Wires!set(Wires!C(0)) /\ bits = <<>>
    BY <1>1 DEF Wires!tm_stop, InStop
  <2>2. clk' = 0 /\ Untouched
    BY <2>1, ClockLow
  <2> QED
    BY <1>1, <2>1, <2>2 DEF InStop, Untouched
<1>2. CASE l = 2
  <2>1. Wires!set(Wires!D(0)) /\ bits = <<>> /\ clk = 0
    BY <1>2 DEF Wires!tm_stop, InStop
  <2>2. clk' = 0 /\ dio' = 0 /\ Untouched
    BY <2>1, DataLevel
  <2> QED
    BY <1>2, <2>1, <2>2 DEF InStop, Untouched
<1>3. CASE l = 3
  <2>1. Wires!set(Wires!C(1)) /\ bits = <<>> /\ clk = 0 /\ dio = 0 /\ Len(bits) = 0
    BY <1>3 DEF Wires!tm_stop, InStop
  <2>2. clk' = 1 /\ dio' = 0 /\ UNCHANGED <<ptr, digits, on>>
    BY <2>1, ClockHigh DEF Untouched, WireTypes
  <2> QED
    BY <1>3, <2>1, <2>2 DEF InStop
<1>4. CASE l = 4
  <2>1. Wires!set(Wires!D(1)) /\ clk = 1 /\ dio = 0
    BY <1>4 DEF Wires!tm_stop, InStop
  <2>2. clk' = 1 /\ dio' = 1 /\ ~message' /\ UNCHANGED <<ptr, digits, on>>
    BY <2>1, DataRises
  <2> QED
    BY <1>4, <2>2 DEF AtRest
<1> QED
  BY <1>1, <1>2, <1>3, <1>4

\* A byte is with the chip at the clock of its last bit, and not before.
LEMMA ByteStep ==
  ASSUME WireTypes, NEW b \in Byte, NEW l \in 1..28, InByte(b, l),
         Wires!set(Wires!bit_level(b, l))
  PROVE  /\ l < 28 => InByte(b, l + 1)'
         /\ l = 28 => message' /\ clk' = 0 /\ bits' = <<>>
         /\ l # 24 => UNCHANGED <<command, ptr, digits, on>>
         /\ l = 24 => Wires!take(b)
<1>1. CASE l % 3 = 1
  <2>1. clk' = 0 /\ Untouched
    BY <1>1, ClockLow DEF Wires!bit_level
  <2>2. l # 24 /\ (l < 28 => (l + 1) % 3 = 2 /\ l + 1 # 28 /\ ((l + 1) - 1) \div 3 = (l - 1) \div 3)
    BY <1>1
  <2>3. l < 28 => InByte(b, l + 1)'
    BY <2>1, <2>2 DEF InByte, Untouched
  <2>4. l = 28 => message' /\ clk' = 0 /\ bits' = <<>>
    BY <2>1 DEF InByte, Untouched
  <2> QED
    BY <2>1, <2>2, <2>3, <2>4 DEF Untouched
<1>2. CASE l % 3 = 2
  <2>1. l # 24 /\ l < 27 /\ (l + 1) % 3 = 0 /\ ((l + 1) - 1) \div 3 = (l - 1) \div 3 /\ l \div 3 = (l - 1) \div 3
        /\ (l < 25 => l \div 3 \in 0..7) /\ l + 1 # 28 /\ ~(l = 28) /\ (l + 1 < 27 => l < 25)
    BY <1>2
  <2>2. PICK x \in {0, 1} : x = IF l < 25 THEN Wires!bit(b, l \div 3) ELSE 1
    BY <2>1, Bits
  <2>3. Wires!set(Wires!D(x))
    BY <1>2, <2>2 DEF Wires!bit_level
  <2>4. clk' = 0 /\ dio' = x /\ Untouched
    BY <1>2, <2>3, DataLevel DEF InByte
  <2>5. InByte(b, l + 1)'
    BY <2>1, <2>2, <2>4 DEF InByte, Untouched
  <2> QED
    BY <2>1, <2>4, <2>5 DEF Untouched
<1>3. CASE l % 3 = 0
  <2>1. /\ l # 28 /\ l # 1 /\ l < 28 /\ (l + 1) % 3 = 1 /\ ((l + 1) - 1) \div 3 = ((l - 1) \div 3) + 1
        /\ (l = 24 <=> (l - 1) \div 3 = 7) /\ (l = 27 <=> (l - 1) \div 3 = 8)
        /\ (l - 1) \div 3 \in 0..8
    BY <1>3
  <2>2. Wires!set(Wires!C(1)) /\ clk = 0 /\ message /\ Len(bits) = (l - 1) \div 3
    BY <1>3, <2>1 DEF Wires!bit_level, InByte
  <2>3. PICK k \in 0..8 : k = (l - 1) \div 3
    BY <2>1
  <2>4. /\ clk' = 1 /\ message'
        /\ bits' = IF k = 8 THEN <<>> ELSE Append(bits, dio)
        /\ k = 7 => Wires!take(Wires!value(Append(bits, dio)))
        /\ k # 7 => UNCHANGED <<command, ptr, digits, on>>
    BY <2>2, <2>3, ClockHigh
  <2>5. /\ l # 27 => dio = Wires!bit(b, k)
        /\ Len(bits) = k
        /\ \A j \in 1..k : bits[j] = Wires!bit(b, j - 1)
    BY <1>3, <2>1, <2>2, <2>3 DEF InByte
  <2>6. CASE l = 27
    <3>1. k = 8 /\ bits' = <<>> /\ UNCHANGED <<command, ptr, digits, on>>
      BY <2>1, <2>3, <2>4, <2>6
    <3>2. InByte(b, l + 1)'
      BY <2>1, <2>4, <2>6, <3>1 DEF InByte
    <3> QED
      BY <2>6, <3>1, <3>2
  <2>7. CASE l # 27
    <3>1. k # 8 /\ dio = Wires!bit(b, k) /\ bits' = Append(bits, dio)
      BY <2>1, <2>3, <2>4, <2>5, <2>7
    <3>2. /\ Append(bits, dio) \in Seq({0, 1}) /\ Len(Append(bits, dio)) = k + 1
          /\ \A j \in 1..k : Append(bits, dio)[j] = bits[j]
          /\ Append(bits, dio)[k + 1] = dio
      BY <2>5 DEF WireTypes
    <3>3. \A j \in 1..(k + 1) : Append(bits, dio)[j] = Wires!bit(b, j - 1)
      <4>1. \A j \in 1..(k + 1) : j \in 1..k \/ (j = k + 1 /\ j - 1 = k)
        OBVIOUS
      <4> QED
        BY <2>5, <3>1, <3>2, <4>1, Zenon
    <3>4. InByte(b, l + 1)'
      BY <2>1, <2>3, <2>4, <2>7, <3>1, <3>2, <3>3 DEF InByte
    <3>5. ASSUME l = 24 PROVE Wires!take(b)
      <4>1. k = 7
        BY <2>1, <2>3, <3>5
      <4>2. PICK s : s = Append(bits, dio)
        OBVIOUS
      <4>3. Wires!take(Wires!value(s))
        BY <2>4, <4>1, <4>2, Zenon
      <4>4. \A j \in 1..8 : s[j] = Wires!bit(b, j - 1)
        <5>1. k + 1 = 8
          BY <4>1
        <5> QED
          BY <3>3, <4>2, <5>1, Zenon
      <4>5. /\ s[1] = Wires!bit(b, 0) /\ s[2] = Wires!bit(b, 1) /\ s[3] = Wires!bit(b, 2)
            /\ s[4] = Wires!bit(b, 3) /\ s[5] = Wires!bit(b, 4) /\ s[6] = Wires!bit(b, 5)
            /\ s[7] = Wires!bit(b, 6) /\ s[8] = Wires!bit(b, 7)
        BY <4>4
      <4>6. Wires!value(s) = b
        <5>1. PICK x0, x1, x2, x3, x4, x5, x6, x7 :
                /\ x0 = Wires!bit(b, 0) /\ x1 = Wires!bit(b, 1) /\ x2 = Wires!bit(b, 2)
                /\ x3 = Wires!bit(b, 3) /\ x4 = Wires!bit(b, 4) /\ x5 = Wires!bit(b, 5)
                /\ x6 = Wires!bit(b, 6) /\ x7 = Wires!bit(b, 7)
          BY Zenon
        <5>2. /\ s[1] = x0 /\ s[2] = x1 /\ s[3] = x2 /\ s[4] = x3
              /\ s[5] = x4 /\ s[6] = x5 /\ s[7] = x6 /\ s[8] = x7
          BY <4>5, <5>1, Zenon
        <5>3. Wires!value(s)
                = x0 + 2 * x1 + 4 * x2 + 8 * x3 + 16 * x4 + 32 * x5 + 64 * x6 + 128 * x7
          BY <5>2, Zenon DEF Wires!value
        <5>4. b = x0 + 2 * x1 + 4 * x2 + 8 * x3 + 16 * x4 + 32 * x5 + 64 * x6 + 128 * x7
          BY <5>1, Bits, Zenon
        <5> QED
          BY <5>3, <5>4, Zenon
      <4> QED
        BY <4>3, <4>6, Zenon
    <3>6. l # 24 => UNCHANGED <<command, ptr, digits, on>>
      BY <2>1, <2>3, <2>4
    <3> QED
      BY <2>1, <3>4, <3>5, <3>6
  <2> QED
    BY <2>6, <2>7
<1> QED
  BY <1>1, <1>2, <1>3

-----------------------------------------------------------------------------
\* The parts of a call.
Parts == {Wires!tm_start, Wires!tm_stop} \cup {Wires!tm_write_byte(b) : b \in Byte}

\* How many levels they have, and that each is one.
LEMMA PartLevels ==
  /\ Len(Wires!tm_start) = 4 /\ Len(Wires!tm_stop) = 4
  /\ \A b \in Byte : Len(Wires!tm_write_byte(b)) = 28
  /\ \A p \in Parts : Len(p) \in 1..28 /\ \A l \in 1..Len(p) : p[l] \in Levels
<1>1. Len(Wires!tm_start) = 4 /\ \A l \in 1..4 : Wires!tm_start[l] \in Levels
  BY DEF Wires!tm_start, Levels
<1>2. Len(Wires!tm_stop) = 4 /\ \A l \in 1..4 : Wires!tm_stop[l] \in Levels
  BY DEF Wires!tm_stop, Levels
<1>3. ASSUME NEW b \in Byte
      PROVE  /\ Len(Wires!tm_write_byte(b)) = 28
             /\ \A l \in 1..28 : Wires!tm_write_byte(b)[l] \in Levels
  <2>1. ASSUME NEW l \in 1..28 PROVE Wires!bit_level(b, l) \in Levels
    <3>1. CASE l % 3 = 1
      BY <3>1 DEF Wires!bit_level, Levels
    <3>2. CASE l % 3 = 2
      <4>1. l < 25 => l \div 3 \in 0..7
        BY <3>2
      <4>2. PICK x \in {0, 1} : x = IF l < 25 THEN Wires!bit(b, l \div 3) ELSE 1
        BY <4>1, Bits
      <4>3. Wires!bit_level(b, l) = Wires!D(x)
        BY <3>2, <4>2 DEF Wires!bit_level
      <4>4. Wires!D(x) = Wires!D(0) \/ Wires!D(x) = Wires!D(1)
        BY <4>2
      <4> QED
        BY <4>3, <4>4 DEF Levels
    <3>3. CASE l % 3 = 0
      BY <3>3 DEF Wires!bit_level, Levels
    <3> QED
      BY <3>1, <3>2, <3>3
  <2>2. Wires!tm_write_byte(b) = [l \in 1..28 |-> Wires!bit_level(b, l)]
    BY DEF Wires!tm_write_byte
  <2>3. Wires!tm_write_byte(b) \in [1..28 -> Levels]
    BY <2>1, <2>2
  <2> QED
    BY <2>3
<1>4. \A p \in Parts : Len(p) \in 1..28 /\ \A l \in 1..Len(p) : p[l] \in Levels
  <2> SUFFICES ASSUME NEW p \in Parts
               PROVE  Len(p) \in 1..28 /\ \A l \in 1..Len(p) : p[l] \in Levels
    OBVIOUS
  <2>0. 4 \in 1..28 /\ 28 \in 1..28
    OBVIOUS
  <2>1. CASE p = Wires!tm_start
    BY <1>1, <2>0, <2>1, Zenon
  <2>2. CASE p = Wires!tm_stop
    BY <1>2, <2>0, <2>2, Zenon
  <2>3. ASSUME NEW b \in Byte, p = Wires!tm_write_byte(b)
        PROVE  Len(p) \in 1..28 /\ \A l \in 1..Len(p) : p[l] \in Levels
    BY <1>3, <2>0, <2>3, Zenon
  <2> QED
    BY <2>1, <2>2, <2>3 DEF Parts
<1> QED
  BY <1>1, <1>2, <1>3, <1>4

\* Two sequences, one after the other.
Joins(S, r, p, q) ==
  /\ r \in Seq(S)
  /\ Len(r) = Len(p) + Len(q)
  /\ \A i \in 1..Len(p) : r[i] = p[i]
  /\ \A i \in 1..Len(q) : r[i + Len(p)] = q[i]

\* Concatenation is that.
LEMMA Joined == \A S : \A p, q \in Seq(S) : Joins(S, p \o q, p, q)
BY DEF Joins

\* A message: a start, its bytes, a stop.
LEMMA SendParts ==
  ASSUME NEW bytes \in Seq(Byte)
  PROVE  /\ Wires!send(bytes) \in Seq(Parts)
         /\ Len(Wires!send(bytes)) = Len(bytes) + 2
         /\ Wires!send(bytes)[1] = Wires!tm_start
         /\ \A i \in 1..Len(bytes) : Wires!send(bytes)[i + 1] = Wires!tm_write_byte(bytes[i])
         /\ Wires!send(bytes)[Len(bytes) + 2] = Wires!tm_stop
<1>1. PICK k \in Nat : k = Len(bytes)
  OBVIOUS
<1>2. \A i \in 1..k : bytes[i] \in Byte
  BY <1>1, ElementOfSeq, Zenon
<1>3. PICK s : s = [i \in 1..k |-> Wires!tm_write_byte(bytes[i])]
  OBVIOUS
<1>4. s \in [1..k -> Parts] /\ \A i \in 1..k : s[i] = Wires!tm_write_byte(bytes[i])
  BY <1>2, <1>3 DEF Parts
<1>5. s \in Seq(Parts) /\ Len(s) = k
  BY <1>4
<1>6. PICK a : a = <<Wires!tm_start>>
  OBVIOUS
<1>7. a \in Seq(Parts) /\ Len(a) = 1 /\ a[1] = Wires!tm_start
  BY <1>6 DEF Parts
<1>8. PICK z : z = <<Wires!tm_stop>>
  OBVIOUS
<1>9. z \in Seq(Parts) /\ Len(z) = 1 /\ z[1] = Wires!tm_stop
  BY <1>8 DEF Parts
<1>10. PICK r : r = a \o s \o z
  OBVIOUS
<1>11. Wires!send(bytes) = r
  BY <1>1, <1>3, <1>6, <1>8, <1>10, Zenon DEF Wires!send
<1>12. PICK h : h = a \o s
  OBVIOUS
<1>13. /\ h \in Seq(Parts) /\ Len(h) = k + 1 /\ h[1] = Wires!tm_start
       /\ \A i \in 1..k : h[i + 1] = s[i]
  <2>0. Joins(Parts, h, a, s)
    BY <1>5, <1>7, <1>12, Joined, Zenon
  <2>1. /\ h \in Seq(Parts) /\ Len(h) = Len(a) + Len(s)
        /\ \A i \in 1..Len(a) : h[i] = a[i]
        /\ \A i \in 1..Len(s) : h[i + Len(a)] = s[i]
    BY <2>0, Zenon DEF Joins
  <2>2. 1 \in 1..1 /\ 1 + k = k + 1
    OBVIOUS
  <2> QED
    BY <1>5, <1>7, <2>1, <2>2, Zenon
<1>14. r = h \o z
  BY <1>10, <1>12, Zenon
<1>15. /\ r \in Seq(Parts) /\ Len(r) = k + 2 /\ r[1] = Wires!tm_start
       /\ \A i \in 1..k : r[i + 1] = s[i]
       /\ r[k + 2] = Wires!tm_stop
  <2>0. Joins(Parts, r, h, z)
    BY <1>9, <1>13, <1>14, Joined, Zenon
  <2>1. /\ r \in Seq(Parts) /\ Len(r) = Len(h) + Len(z)
        /\ \A i \in 1..Len(h) : r[i] = h[i]
        /\ \A i \in 1..Len(z) : r[i + Len(h)] = z[i]
    BY <2>0, Zenon DEF Joins
  <2>2. /\ 1 \in 1..1 /\ 1 \in 1..(k + 1) /\ (k + 1) + 1 = k + 2 /\ 1 + (k + 1) = k + 2
        /\ \A i \in 1..k : i + 1 \in 1..(k + 1)
    OBVIOUS
  <2> QED
    BY <1>9, <1>13, <2>1, <2>2, Zenon
<1> QED
  BY <1>1, <1>4, <1>11, <1>15, Zenon

\* The commands of the driver: data follow, their first address, and the light.
DataCommand == 64
AddressCommand == 192
LightCommand == 141

\* They are bytes.
LEMMA CommandBytes ==
  DataCommand \in Byte /\ AddressCommand \in Byte /\ LightCommand \in Byte
BY DEF Byte, DataCommand, AddressCommand, LightCommand

\* A call with a text: a message with a command, and one with the address and
\* the digits.
LEMMA TextParts ==
  ASSUME NEW t \in [1..DIGITS -> Byte]
  PROVE  LET s == Wires!tm1637_set_segments(t)
         IN  /\ s \in Seq(Parts) /\ Len(s) = DIGITS + 6
             /\ s[1] = Wires!tm_start /\ s[2] = Wires!tm_write_byte(DataCommand)
             /\ s[3] = Wires!tm_stop
             /\ s[4] = Wires!tm_start /\ s[5] = Wires!tm_write_byte(AddressCommand)
             /\ \A i \in 1..DIGITS : s[i + 5] = Wires!tm_write_byte(t[i])
             /\ s[DIGITS + 6] = Wires!tm_stop
<1>0. DIGITS \in Nat
  BY DisplayConstants
<1>1. PICK u : u = <<DataCommand>>
  OBVIOUS
<1>2. u \in Seq(Byte) /\ Len(u) = 1 /\ u[1] = DataCommand
  BY <1>1, CommandBytes
<1>3. PICK v : v = <<AddressCommand>> \o t
  OBVIOUS
<1>4. /\ v \in Seq(Byte) /\ Len(v) = DIGITS + 1 /\ v[1] = AddressCommand
      /\ \A i \in 1..DIGITS : v[i + 1] = t[i]
  <2>1. t \in Seq(Byte) /\ Len(t) = DIGITS
    BY <1>0
  <2>2. <<AddressCommand>> \in Seq(Byte) /\ Len(<<AddressCommand>>) = 1 /\ <<AddressCommand>>[1] = AddressCommand
    BY CommandBytes
  <2>3. PICK x : x = <<AddressCommand>>
    OBVIOUS
  <2>4. v = x \o t /\ x \in Seq(Byte)
    BY <1>3, <2>2, <2>3
  <2>5. Joins(Byte, v, x, t)
    BY <2>1, <2>4, Joined
  <2>6. /\ v \in Seq(Byte) /\ Len(v) = Len(x) + Len(t)
        /\ \A i \in 1..Len(x) : v[i] = x[i]
        /\ \A i \in 1..Len(t) : v[i + Len(x)] = t[i]
    BY <2>5, Zenon DEF Joins
  <2>7. 1 \in 1..1 /\ 1 + DIGITS = DIGITS + 1
    BY <1>0
  <2> QED
    BY <2>1, <2>2, <2>3, <2>6, <2>7
<1>5. PICK a, b : a = Wires!send(u) /\ b = Wires!send(v)
  OBVIOUS
<1>6. /\ a \in Seq(Parts) /\ Len(a) = 3
      /\ a[1] = Wires!tm_start /\ a[2] = Wires!tm_write_byte(DataCommand) /\ a[3] = Wires!tm_stop
  <2>1. /\ a \in Seq(Parts) /\ Len(a) = Len(u) + 2
        /\ a[1] = Wires!tm_start
        /\ \A i \in 1..Len(u) : a[i + 1] = Wires!tm_write_byte(u[i])
        /\ a[Len(u) + 2] = Wires!tm_stop
    BY <1>2, <1>5, SendParts, Zenon
  <2> QED
    BY <1>2, <2>1
<1>7. /\ b \in Seq(Parts) /\ Len(b) = DIGITS + 3
      /\ b[1] = Wires!tm_start /\ b[2] = Wires!tm_write_byte(AddressCommand)
      /\ \A i \in 1..DIGITS : b[i + 2] = Wires!tm_write_byte(t[i])
      /\ b[DIGITS + 3] = Wires!tm_stop
  <2>1. /\ b \in Seq(Parts) /\ Len(b) = Len(v) + 2
        /\ b[1] = Wires!tm_start
        /\ \A i \in 1..Len(v) : b[i + 1] = Wires!tm_write_byte(v[i])
        /\ b[Len(v) + 2] = Wires!tm_stop
    BY <1>4, <1>5, SendParts
  <2>2. 1 \in 1..Len(v) /\ \A i \in 1..DIGITS : i + 1 \in 1..Len(v) /\ (i + 1) + 1 = i + 2
    BY <1>0, <1>4
  <2>3. b[2] = Wires!tm_write_byte(AddressCommand)
    BY <1>4, <2>1, <2>2
  <2>4. \A i \in 1..DIGITS : b[i + 2] = Wires!tm_write_byte(t[i])
    BY <1>4, <2>1, <2>2
  <2> QED
    BY <1>0, <1>4, <2>1, <2>3, <2>4
<1>8. PICK s : s = a \o b
  OBVIOUS
<1>9. Wires!tm1637_set_segments(t) = s
  BY <1>1, <1>3, <1>5, <1>8, Zenon DEF Wires!tm1637_set_segments, DataCommand, AddressCommand
<1>10. /\ s \in Seq(Parts) /\ Len(s) = DIGITS + 6
       /\ s[1] = a[1] /\ s[2] = a[2] /\ s[3] = a[3]
       /\ \A i \in 1..(DIGITS + 3) : s[i + 3] = b[i]
  <2>0. Joins(Parts, s, a, b)
    BY <1>6, <1>7, <1>8, Joined, Zenon
  <2>1. /\ s \in Seq(Parts) /\ Len(s) = Len(a) + Len(b)
        /\ \A i \in 1..Len(a) : s[i] = a[i]
        /\ \A i \in 1..Len(b) : s[i + Len(a)] = b[i]
    BY <2>0, Zenon DEF Joins
  <2>2. 1 \in 1..3 /\ 2 \in 1..3 /\ 3 \in 1..3 /\ 3 + (DIGITS + 3) = DIGITS + 6
    BY <1>0
  <2> QED
    BY <1>6, <1>7, <2>1, <2>2
<1>11. /\ s[4] = b[1] /\ s[5] = b[2] /\ s[DIGITS + 6] = b[DIGITS + 3]
       /\ \A i \in 1..DIGITS : s[i + 5] = b[i + 2]
  <2>1. /\ 1 \in 1..(DIGITS + 3) /\ 2 \in 1..(DIGITS + 3) /\ DIGITS + 3 \in 1..(DIGITS + 3)
        /\ 1 + 3 = 4 /\ 2 + 3 = 5 /\ (DIGITS + 3) + 3 = DIGITS + 6
        /\ \A i \in 1..DIGITS : i + 2 \in 1..(DIGITS + 3) /\ (i + 2) + 3 = i + 5
    BY <1>0
  <2> QED
    BY <1>10, <2>1
<1> QED
  BY <1>6, <1>7, <1>9, <1>10, <1>11, Zenon

\* The call that lights the display: one message.
LEMMA LightParts ==
  LET s == Wires!tm1637_brightness
  IN  /\ s \in Seq(Parts) /\ Len(s) = 3
      /\ s[1] = Wires!tm_start /\ s[2] = Wires!tm_write_byte(LightCommand) /\ s[3] = Wires!tm_stop
<1>1. PICK u : u = <<LightCommand>>
  OBVIOUS
<1>2. u \in Seq(Byte) /\ Len(u) = 1 /\ u[1] = LightCommand
  BY <1>1, CommandBytes
<1>3. PICK a : a = Wires!send(u)
  OBVIOUS
<1>4. /\ a \in Seq(Parts) /\ Len(a) = Len(u) + 2
      /\ a[1] = Wires!tm_start
      /\ \A i \in 1..Len(u) : a[i + 1] = Wires!tm_write_byte(u[i])
      /\ a[Len(u) + 2] = Wires!tm_stop
  BY <1>2, <1>3, SendParts, Zenon
<1>5. /\ a \in Seq(Parts) /\ Len(a) = 3
      /\ a[1] = Wires!tm_start /\ a[2] = Wires!tm_write_byte(LightCommand) /\ a[3] = Wires!tm_stop
  BY <1>2, <1>4
<1>6. Wires!tm1637_brightness = a
  BY <1>1, <1>3, Zenon DEF Wires!tm1637_brightness, LightCommand
<1> QED
  BY <1>5, <1>6, Zenon

\* A call at level l of part p of its parts q.
Goes(q, p, l) == [parts |-> q, part |-> p, level |-> l]

At(call, q) ==
  \E p \in 1..Len(q) : \E l \in 1..Len(q[p]) : call = Goes(q, p, l)

\* Wires and chip before level l of part p of a call with text t that nothing
\* disturbs.
TextAt(t, p, l) ==
  /\ p \in {1, 4} => InStart(l)
  /\ p = 2 => InByte(DataCommand, l) /\ command = IF l <= 24 THEN Wires!None ELSE DataCommand
  /\ p \in {3, DIGITS + 6} => InStop(l)
  /\ p = 5 => /\ InByte(AddressCommand, l)
              /\ command = IF l <= 24 THEN Wires!None ELSE AddressCommand
              /\ l > 24 => ptr = 0
  /\ p \in 6..(DIGITS + 5) =>
       /\ InByte(t[p - 5], l)
       /\ command = AddressCommand
       /\ ptr = IF l <= 24 THEN p - 6 ELSE (p - 5) % 16

\* The same of the call that lights the display.
LightAt(p, l) ==
  /\ p = 1 => InStart(l)
  /\ p = 2 => /\ InByte(LightCommand, l)
              /\ command = IF l <= 24 THEN Wires!None ELSE LightCommand
              /\ l > 24 => on
  /\ p = 3 => InStop(l) /\ on

TextGoes(call) ==
  \E t \in Texts, p \in 1..(DIGITS + 6) :
    \E l \in 1..Len(Wires!tm1637_set_segments(t)[p]) :
      /\ on_wires = t
      /\ call = Goes(Wires!tm1637_set_segments(t), p, l)
      /\ TextAt(t, p, l)

LightGoes(call) ==
  \E p \in 1..3 : \E l \in 1..Len(Wires!tm1637_brightness[p]) :
    /\ call = Goes(Wires!tm1637_brightness, p, l)
    /\ LightAt(p, l)

\* A stop leaves the wires at rest, wherever they were before.
EndsIdle(call) ==
  call.part = Len(call.parts) =>
    /\ call.level = 2 => clk = 0 \/ AtRest
    /\ call.level = 3 => dio = 0 \/ AtRest
    /\ call.level = 4 => (clk = 1 /\ dio = 0) \/ AtRest

CallTypes ==
  /\ boot \in 0..3
  /\ wired \in BOOLEAN /\ (wired <=> boot # 0)
  /\ \/ work_call = Wires!NoCall
     \/ \E t \in Texts : At(work_call, Wires!tm1637_set_segments(t))
  /\ \/ boot_call = Wires!NoCall
     \/ boot = 1 /\ At(boot_call, Wires!tm1637_brightness)
     \/ boot = 2 /\ At(boot_call, Wires!tm1637_set_segments(Banner))
  /\ on_wires \in [1..DIGITS -> Byte]
  /\ disturbed \in BOOLEAN /\ dark \in BOOLEAN

Rests ==
  /\ ~wired => AtRest
  /\ work_call = Wires!NoCall /\ ~Wires!Amid => AtRest
  /\ work_call = Wires!NoCall /\ Wires!Amid => EndsIdle(boot_call)
  /\ work_call # Wires!NoCall => EndsIdle(work_call)

Alone ==
  /\ work_call # Wires!NoCall /\ ~disturbed =>
       wired /\ ~Wires!Amid /\ TextGoes(work_call)
  /\ boot = 2 /\ Wires!Amid /\ work_call = Wires!NoCall /\ ~disturbed => TextGoes(boot_call)

Lit ==
  /\ ~dark => wired
  /\ boot = 1 /\ Wires!Amid /\ ~dark => work_call = Wires!NoCall /\ LightGoes(boot_call)
  /\ ~dark /\ ~(boot = 1 /\ Wires!Amid) => on
  /\ boot = 1 /\ Wires!Amid /\ ~disturbed => ~dark
  /\ work_call # Wires!NoCall /\ ~dark => ~disturbed
  /\ boot = 2 /\ Wires!Amid /\ ~dark => ~disturbed

DriverInv == WireTypes /\ CallTypes /\ Rests /\ Alone /\ Lit

\* Where a call is next.
LEMMA Advance ==
  ASSUME NEW q \in Seq(Parts), NEW p \in 1..Len(q), NEW l \in 1..Len(q[p])
  PROVE  /\ Wires!next_level(Goes(q, p, l)) = q[p][l] /\ q[p][l] \in Levels
         /\ Len(q[p]) \in 1..28 /\ Len(q) \in Nat /\ q[p] \in Parts
         /\ Goes(q, p, l) # Wires!NoCall
         /\ l < Len(q[p]) => Wires!advanced(Goes(q, p, l)) = Goes(q, p, l + 1)
         /\ l = Len(q[p]) /\ p < Len(q) =>
              Wires!advanced(Goes(q, p, l)) = Goes(q, p + 1, 1)
         /\ l = Len(q[p]) /\ p = Len(q) => Wires!advanced(Goes(q, p, l)) = Wires!NoCall
<1>1. q[p] \in Parts /\ Len(q) \in Nat
  <2>1. q[p] \in Parts
    BY ElementOfSeq, Zenon
  <2> QED
    BY <2>1
<1>2. Len(q[p]) \in 1..28 /\ q[p][l] \in Levels
  BY <1>1, PartLevels, Zenon
<1>3. PICK g : g = Goes(q, p, l)
  OBVIOUS
<1>4. g.parts = q /\ g.part = p /\ g.level = l
  BY <1>3 DEF Goes
<1>5. Wires!next_level(g) = q[p][l]
  BY <1>4, Zenon DEF Wires!next_level
<1>6. g # Wires!NoCall
  <2>1. Wires!NoCall.parts = <<>>
    BY DEF Wires!NoCall, Wires!begun
  <2>2. q # <<>>
    OBVIOUS
  <2> QED
    BY <1>4, <2>1, <2>2, Zenon
<1>7. ASSUME l < Len(q[p]) PROVE Wires!advanced(g) = Goes(q, p, l + 1)
  <2>0. l # Len(q[p])
    BY <1>2, <1>7
  <2>1. Wires!advanced(g) = [g EXCEPT !.level = @ + 1]
    BY <1>4, <1>7, <2>0, Zenon DEF Wires!advanced
  <2> QED
    BY <1>3, <2>1 DEF Goes
<1>8. PICK m \in Nat, k \in Nat : m = Len(q[p]) /\ k = Len(q)
  BY <1>1, <1>2
<1>9. ASSUME l = m, p < k PROVE Wires!advanced(g) = Goes(q, p + 1, 1)
  <2>0. ~(l < m)
    BY <1>9
  <2>1. Wires!advanced(g) = [g EXCEPT !.part = @ + 1, !.level = 1]
    BY <1>4, <1>8, <1>9, <2>0, Zenon DEF Wires!advanced
  <2> QED
    BY <1>3, <2>1 DEF Goes
<1>10. ASSUME l = m, p = k PROVE Wires!advanced(g) = Wires!NoCall
  <2>0. ~(l < m) /\ ~(p < k)
    BY <1>10
  <2> QED
    BY <1>4, <1>8, <1>10, <2>0, Zenon DEF Wires!advanced
<1> QED
  BY <1>1, <1>2, <1>3, <1>5, <1>6, <1>7, <1>8, <1>9, <1>10, Zenon

\* The same in one word.
Advances(q, p, l) ==
  /\ Wires!next_level(Goes(q, p, l)) = q[p][l] /\ q[p][l] \in Levels
  /\ Len(q[p]) \in 1..28 /\ Len(q) \in Nat
  /\ l < Len(q[p]) => Wires!advanced(Goes(q, p, l)) = Goes(q, p, l + 1)
  /\ l = Len(q[p]) /\ p < Len(q) => Wires!advanced(Goes(q, p, l)) = Goes(q, p + 1, 1)
  /\ l = Len(q[p]) /\ p = Len(q) => Wires!advanced(Goes(q, p, l)) = Wires!NoCall

\* Any level is followed so.
LEMMA Advancing ==
  ASSUME NEW q \in Seq(Parts), NEW p \in 1..Len(q), NEW l \in 1..Len(q[p])
  PROVE  Advances(q, p, l)
BY Advance, Zenon DEF Advances

\* A call that goes on is not the one that rests.
LEMMA GoesIsCall ==
  ASSUME NEW q, q # <<>>, NEW p, NEW l
  PROVE  Goes(q, p, l) # Wires!NoCall
<1>1. Goes(q, p, l).parts = q /\ Wires!NoCall.parts = <<>>
  BY DEF Goes, Wires!NoCall, Wires!begun
<1> QED
  BY <1>1, Zenon

\* A call begins at its first level.
LEMMA Begins ==
  ASSUME NEW q \in Seq(Parts), Len(q) > 0
  PROVE  /\ Wires!begun(q) = Goes(q, 1, 1) /\ At(Wires!begun(q), q)
         /\ 1 \in 1..Len(q) /\ 1 \in 1..Len(q[1])
<1>1. Wires!begun(q) = Goes(q, 1, 1)
  BY DEF Wires!begun, Goes
<1>2. 1 \in 1..Len(q)
  OBVIOUS
<1>3. q[1] \in Parts
  BY <1>2, ElementOfSeq, Zenon
<1>4. Len(q[1]) \in 1..28
  BY <1>3, PartLevels, Zenon
<1>5. 1 \in 1..Len(q[1])
  <2>1. \A m \in 1..28 : 1 \in 1..m
    OBVIOUS
  <2> QED
    BY <1>4, <2>1, Zenon
<1> QED
  BY <1>1, <1>2, <1>5, Zenon DEF At

\* It goes on to its end.
LEMMA GoesOn ==
  ASSUME NEW q \in Seq(Parts), NEW call, At(call, q)
  PROVE  /\ call # Wires!NoCall /\ Wires!next_level(call) \in Levels
         /\ Wires!advanced(call) = Wires!NoCall \/ At(Wires!advanced(call), q)
<1>1. PICK p \in 1..Len(q) : \E l \in 1..Len(q[p]) : call = Goes(q, p, l)
  BY DEF At
<1>2. PICK l \in 1..Len(q[p]) : call = Goes(q, p, l)
  BY <1>1
<1>3. /\ call # Wires!NoCall /\ Wires!next_level(call) \in Levels
      /\ Len(q[p]) \in 1..28 /\ Len(q) \in Nat
  BY <1>2, Advance
<1>4. CASE l < Len(q[p])
  <2>1. Wires!advanced(call) = Goes(q, p, l + 1)
    BY <1>2, <1>4, Advance, Zenon
  <2>2. l + 1 \in 1..Len(q[p])
    BY <1>3, <1>4
  <2> QED
    BY <1>3, <2>1, <2>2, Zenon DEF At
<1>5. CASE l = Len(q[p]) /\ p < Len(q)
  <2>1. Wires!advanced(call) = Goes(q, p + 1, 1)
    BY <1>2, <1>5, Advance, Zenon
  <2>2. p + 1 \in 1..Len(q)
    BY <1>3, <1>5
  <2>3. q[p + 1] \in Parts
    BY <2>2, ElementOfSeq, Zenon
  <2>4. Len(q[p + 1]) \in 1..28
    BY <2>3, PartLevels, Zenon
  <2>5. 1 \in 1..Len(q[p + 1])
    <3>1. \A m \in 1..28 : 1 \in 1..m
      OBVIOUS
    <3> QED
      BY <2>4, <3>1, Zenon
  <2> QED
    BY <1>3, <2>1, <2>2, <2>5, Zenon DEF At
<1>6. CASE l = Len(q[p]) /\ p = Len(q)
  BY <1>2, <1>3, <1>6, Advance, Zenon
<1>7. (l < Len(q[p]) \/ l = Len(q[p])) /\ (p < Len(q) \/ p = Len(q))
  BY <1>3
<1> QED
  BY <1>4, <1>5, <1>6, <1>7, Zenon

\* The digit a call writes next is one of the display, or the one after.
LEMMA DigitRange ==
  ASSUME NEW q \in Seq(Parts), NEW call, At(call, q)
  PROVE  Wires!Digit(call) \in 1..(DIGITS + 1)
<1>0. DIGITS \in Nat
  BY DisplayConstants
<1>1. PICK p \in 1..Len(q) : \E l \in 1..Len(q[p]) : call = Goes(q, p, l)
  BY DEF At
<1>2. PICK l \in 1..Len(q[p]) : call = Goes(q, p, l)
  BY <1>1
<1>3. call.part = p /\ call.level = l
  BY <1>2 DEF Goes
<1>4. p \in Int /\ l \in Int
  BY Advance
<1> QED
  BY <1>0, <1>3, <1>4 DEF Wires!Digit

\* The end of any call leaves the wires at rest.
LEMMA EndsIdleStep ==
  ASSUME WireTypes, NEW q \in Seq(Parts), q[Len(q)] = Wires!tm_stop,
         NEW p \in 1..Len(q), NEW l \in 1..Len(q[p]),
         EndsIdle(Goes(q, p, l)), Wires!set(q[p][l])
  PROVE  /\ l < Len(q[p]) => EndsIdle(Goes(q, p, l + 1))'
         /\ l = Len(q[p]) /\ p < Len(q) => EndsIdle(Goes(q, p + 1, 1))'
         /\ l = Len(q[p]) /\ p = Len(q) => AtRest'
<1>0. Len(q[p]) \in 1..28 /\ Len(q) \in Nat
  BY Advance
<1>1. CASE p # Len(q)
  <2>1. EndsIdle(Goes(q, p, l + 1))'
    BY <1>1 DEF EndsIdle, Goes
  <2>2. EndsIdle(Goes(q, p + 1, 1))'
    BY DEF EndsIdle, Goes
  <2> QED
    BY <1>1, <2>1, <2>2
<1>2. CASE p = Len(q)
  <2>1. Len(q[p]) = 4 /\ q[p] = Wires!tm_stop /\ l \in 1..4
    BY <1>0, <1>2, PartLevels
  <2>2. /\ l = 2 => clk = 0 \/ AtRest
        /\ l = 3 => dio = 0 \/ AtRest
        /\ l = 4 => (clk = 1 /\ dio = 0) \/ AtRest
    BY <1>2 DEF EndsIdle, Goes
  <2>3. /\ l = 1 => clk' = 0
        /\ l = 2 => dio' = 0
        /\ l = 3 => (clk' = 1 /\ dio' = 0) \/ AtRest'
        /\ l = 4 => AtRest'
    <3>1. CASE l = 1
      <4>1. Wires!set(Wires!C(0))
        BY <2>1, <3>1 DEF Wires!tm_stop
      <4> QED
        BY <3>1, <4>1, ClockLow
    <3>2. CASE l = 2
      <4>1. Wires!set(Wires!D(0))
        BY <2>1, <3>2 DEF Wires!tm_stop
      <4> QED
        BY <3>2, <4>1, DataLevel
    <3>3. CASE l = 3
      <4>1. Wires!set(Wires!C(1))
        BY <2>1, <3>3 DEF Wires!tm_stop
      <4>2. clk' = 1 /\ dio' = dio /\ (clk = 1 \/ ~message => Untouched)
        BY <4>1, ClockHigh
      <4> QED
        BY <2>2, <3>3, <4>2 DEF AtRest, Untouched
    <3>4. CASE l = 4
      <4>1. Wires!set(Wires!D(1))
        BY <2>1, <3>4 DEF Wires!tm_stop
      <4>2. CASE clk = 1 /\ dio = 0
        BY <3>4, <4>1, <4>2, DataRises DEF AtRest
      <4>3. CASE AtRest
        <5>1. clk' = clk /\ dio' = 1 /\ Untouched
          BY <4>1, <4>3, DataLevel DEF AtRest
        <5> QED
          BY <3>4, <4>3, <5>1 DEF AtRest, Untouched
      <4> QED
        BY <2>2, <3>4, <4>2, <4>3
    <3> QED
      BY <2>1, <3>1, <3>2, <3>3, <3>4
  <2>4. l < 4 => EndsIdle(Goes(q, p, l + 1))'
    <3>1. ASSUME l = 1 PROVE EndsIdle(Goes(q, p, l + 1))'
      BY <2>3, <3>1 DEF EndsIdle, Goes
    <3>2. ASSUME l = 2 PROVE EndsIdle(Goes(q, p, l + 1))'
      BY <2>3, <3>2 DEF EndsIdle, Goes
    <3>3. ASSUME l = 3 PROVE EndsIdle(Goes(q, p, l + 1))'
      BY <2>3, <3>3 DEF EndsIdle, Goes
    <3> QED
      BY <2>1, <3>1, <3>2, <3>3
  <2>5. ~(p < Len(q))
    BY <1>2
  <2>6. l = 4 => AtRest'
    BY <2>3, Zenon
  <2> QED
    BY <2>1, <2>4, <2>5, <2>6, Zenon
<1> QED
  BY <1>1, <1>2

\* The data command of a text changes no digit.
LEMMA TakeText ==
  ASSUME WireTypes, command = Wires!None, Wires!take(DataCommand)
  PROVE  command' = DataCommand /\ UNCHANGED <<digits, on>>
<1>1. DataCommand \div 64 = 1
  BY DEF DataCommand
<1>2. command' = DataCommand /\ on' = on
  BY <1>1 DEF Wires!take
<1>3. digits' = [i \in 1..DIGITS |-> digits[i]]
  BY DEF Wires!take, Wires!None
<1> QED
  BY <1>2, <1>3 DEF WireTypes

\* The address command of a text points at the first digit.
LEMMA TakeAddress ==
  ASSUME WireTypes, command = Wires!None, Wires!take(AddressCommand)
  PROVE  command' = AddressCommand /\ ptr' = 0 /\ UNCHANGED <<digits, on>>
<1>1. AddressCommand \div 64 = 3 /\ AddressCommand % 16 = 0
  BY DEF AddressCommand
<1>2. command' = AddressCommand /\ on' = on /\ ptr' = 0
  BY <1>1 DEF Wires!take, Wires!None, AddressCommand
<1>3. digits' = [i \in 1..DIGITS |-> digits[i]]
  BY DEF Wires!take, Wires!None
<1> QED
  BY <1>2, <1>3 DEF WireTypes

\* The brightness command lights the display.
LEMMA TakeLight ==
  ASSUME WireTypes, command = Wires!None, Wires!take(LightCommand)
  PROVE  command' = LightCommand /\ on' = TRUE /\ digits' = digits
<1>1. LightCommand \div 64 = 2
  BY DEF LightCommand
<1>2. Wires!bit(LightCommand, 3) = 1
  <2>1. LightCommand \div 8 = 17 /\ 17 % 2 = 1
    BY DEF LightCommand
  <2>2. Wires!bit(LightCommand, 3) = (LightCommand \div 8) % 2
    BY DEF Wires!bit, Wires!Weights
  <2> QED
    BY <2>1, <2>2
<1>3. command' = LightCommand
  BY DEF Wires!take
<1>4. on' = (Wires!bit(LightCommand, 3) = 1)
  BY <1>1, Zenon DEF Wires!take
<1>5. digits' = [i \in 1..DIGITS |-> digits[i]]
  BY DEF Wires!take, Wires!None
<1> QED
  BY <1>2, <1>3, <1>4, <1>5 DEF WireTypes

\* A byte after the address command goes to its digit, and only there.
LEMMA TakeDigit ==
  ASSUME WireTypes, command = AddressCommand, NEW b \in Byte, NEW i \in 1..DIGITS, ptr = i - 1,
         Wires!take(b)
  PROVE  /\ command' = AddressCommand /\ ptr' = i % 16 /\ on' = on
         /\ digits' = [digits EXCEPT ![i] = b]
<1>0. DIGITS \in 0..16
  BY DisplayConstants
<1>1. command' = AddressCommand /\ on' = on
  BY DEF Wires!take, Wires!None, AddressCommand
<1>2. ptr' = (ptr + 1) % 16 /\ ptr + 1 = i
  BY <1>0 DEF Wires!take, Wires!None, AddressCommand
<1>3. digits' = [j \in 1..DIGITS |-> IF j = i THEN b ELSE digits[j]]
  <2>1. \A j \in 1..DIGITS : (command >= 192 /\ ptr = j - 1) <=> j = i
    BY <1>0 DEF AddressCommand
  <2>2. digits' = [j \in 1..DIGITS |-> IF command >= 192 /\ ptr = j - 1 THEN b ELSE digits[j]]
    BY DEF Wires!take
  <2> QED
    BY <2>1, <2>2
<1>4. digits' = [digits EXCEPT ![i] = b]
  BY <1>3 DEF WireTypes
<1> QED
  BY <1>1, <1>2, <1>4, Zenon

\* A byte as a part of a call.
LEMMA ByteLevels ==
  ASSUME NEW b \in Byte
  PROVE  /\ Len(Wires!tm_write_byte(b)) = 28
         /\ \A l \in 1..28 : Wires!tm_write_byte(b)[l] = Wires!bit_level(b, l)
<1>1. \A l \in 1..28 : Wires!tm_write_byte(b)[l] = Wires!bit_level(b, l)
  BY DEF Wires!tm_write_byte
<1> QED
  BY <1>1, PartLevels, Zenon

\* The chip has a byte with its level 24.
LEMMA LevelOrder ==
  \A l \in 1..28 : /\ l + 1 <= 24 => l <= 24 /\ l # 24
                   /\ l + 1 > 24 <=> ~(l + 1 <= 24)
                   /\ ~(l + 1 <= 24) /\ l # 24 => ~(l <= 24) /\ l > 24
                   /\ l = 24 => ~(l + 1 <= 24) /\ l <= 24
OBVIOUS

\* The messages with a text have no part in common.
LEMMA PartOrder ==
  \A p \in 1..(DIGITS + 6) :
    /\ p = 2 => /\ p \notin {1, 4} /\ p \notin {3, DIGITS + 6} /\ p # 5
               /\ p \notin 6..(DIGITS + 5)
    /\ p = 5 => /\ p \notin {1, 4} /\ p \notin {3, DIGITS + 6} /\ p # 2
               /\ p \notin 6..(DIGITS + 5)
    /\ p \in 6..(DIGITS + 5) => p # DIGITS + 6
BY DisplayConstants

\* What the level l of part p of its parts q does.
TextDone(t, q, p, l) ==
  /\ l < Len(q[p]) => TextAt(t, p, l + 1)'
  /\ l = Len(q[p]) /\ p < DIGITS + 6 => TextAt(t, p + 1, 1)'
  /\ l = Len(q[p]) /\ p = DIGITS + 6 => AtRest'
  /\ on' = on
  /\ p \in 6..(DIGITS + 5) /\ l = 24 => digits' = [digits EXCEPT ![p - 5] = t[p - 5]]
  /\ ~(p \in 6..(DIGITS + 5) /\ l = 24) => digits' = digits

\* A call with a text that nothing disturbs writes its digits, and each with the
\* clock of its last bit.
LEMMA TextStep ==
  ASSUME WireTypes, NEW t \in [1..DIGITS -> Byte],
         NEW q, q = Wires!tm1637_set_segments(t),
         NEW p \in 1..(DIGITS + 6), NEW l \in 1..Len(q[p]),
         TextAt(t, p, l), Wires!set(q[p][l])
  PROVE  TextDone(t, q, p, l)
<1> SUFFICES /\ l < Len(q[p]) => TextAt(t, p, l + 1)'
             /\ l = Len(q[p]) /\ p < DIGITS + 6 => TextAt(t, p + 1, 1)'
             /\ l = Len(q[p]) /\ p = DIGITS + 6 => AtRest'
             /\ on' = on
             /\ p \in 6..(DIGITS + 5) /\ l = 24 => digits' = [digits EXCEPT ![p - 5] = t[p - 5]]
             /\ ~(p \in 6..(DIGITS + 5) /\ l = 24) => digits' = digits
  BY DEF TextDone
<1>0. DIGITS \in 0..16
  BY DisplayConstants
<1>q. /\ q[1] = Wires!tm_start /\ q[2] = Wires!tm_write_byte(DataCommand) /\ q[3] = Wires!tm_stop
      /\ q[4] = Wires!tm_start /\ q[5] = Wires!tm_write_byte(AddressCommand)
      /\ \A i \in 1..DIGITS : q[i + 5] = Wires!tm_write_byte(t[i])
      /\ q[DIGITS + 6] = Wires!tm_stop
  BY TextParts, Zenon
<1>1. CASE p \in {1, 4}
  <2>1. q[p] = Wires!tm_start /\ InStart(l)
    BY <1>q, <1>1 DEF TextAt
  <2>2. Len(q[p]) = 4 /\ l \in 1..4
    BY <2>1, PartLevels
  <2>3. Wires!set(Wires!tm_start[l])
    BY <2>1
  <2>4. /\ l < 4 => InStart(l + 1)'
        /\ l = 4 => message' /\ clk' = 0 /\ bits' = <<>> /\ command' = Wires!None
        /\ UNCHANGED <<ptr, digits, on>>
    BY <2>1, <2>2, <2>3, StartStep
  <2>5. l < 4 => TextAt(t, p, l + 1)'
    BY <1>0, <1>1, <2>4 DEF TextAt
  <2>6. ASSUME l = 4 PROVE TextAt(t, p + 1, 1)'
    <3>1. InByte(DataCommand, 1)' /\ InByte(AddressCommand, 1)'
      BY <2>4, <2>6, ByteBegins
    <3> QED
      BY <1>0, <1>1, <2>4, <2>6, <3>1 DEF TextAt
  <2> QED
    BY <1>0, <1>1, <2>2, <2>4, <2>5, <2>6
<1>2. CASE p \in {3, DIGITS + 6}
  <2>1. q[p] = Wires!tm_stop /\ InStop(l)
    BY <1>q, <1>2 DEF TextAt
  <2>2. Len(q[p]) = 4 /\ l \in 1..4
    BY <2>1, PartLevels
  <2>3. Wires!set(Wires!tm_stop[l])
    BY <2>1
  <2>4. /\ l < 4 => InStop(l + 1)'
        /\ l = 4 => AtRest'
        /\ UNCHANGED <<ptr, digits, on>>
    BY <2>1, <2>2, <2>3, StopStep
  <2>5. l < 4 => TextAt(t, p, l + 1)'
    BY <1>0, <1>2, <2>4 DEF TextAt
  <2>6. ASSUME l = 4, p = 3 PROVE TextAt(t, p + 1, 1)'
    <3>1. InStart(1)'
      BY <2>4, <2>6 DEF InStart
    <3> QED
      BY <1>0, <2>6, <3>1 DEF TextAt
  <2> QED
    BY <1>0, <1>2, <2>2, <2>4, <2>5, <2>6
<1>3. CASE p = 2
  <2>0. PICK b \in Byte : b = DataCommand
    BY CommandBytes, Zenon
  <2>1. /\ q[p] = Wires!tm_write_byte(b) /\ InByte(b, l)
        /\ command = IF l <= 24 THEN Wires!None ELSE b
    BY <1>q, <1>3, <2>0 DEF TextAt
  <2>2. Len(q[p]) = 28 /\ l \in 1..28
    BY <2>1, ByteLevels, Zenon
  <2>3. Wires!set(Wires!bit_level(b, l))
    BY <2>1, <2>2, ByteLevels, Zenon
  <2>4. /\ l < 28 => InByte(b, l + 1)'
        /\ l = 28 => message' /\ clk' = 0 /\ bits' = <<>>
        /\ l # 24 => UNCHANGED <<command, ptr, digits, on>>
        /\ l = 24 => Wires!take(b)
    BY <2>1, <2>2, <2>3, ByteStep, Zenon
  <2>5. /\ l = 24 => command' = b
        /\ digits' = digits /\ on' = on
    BY <2>0, <2>1, <2>4, TakeText
  <2>6. l < 28 => TextAt(t, p, l + 1)'
    <3>1. l + 1 <= 24 => command' = Wires!None
      BY <2>1, <2>2, <2>4, LevelOrder, Zenon
    <3>2. ASSUME ~(l + 1 <= 24), l < 28 PROVE command' = b
      <4>1. CASE l = 24
        BY <2>5, <4>1, Zenon
      <4>2. CASE l # 24
        BY <2>1, <2>2, <2>4, <3>2, <4>2, LevelOrder, Zenon
      <4> QED
        BY <4>1, <4>2
    <3>3. p \notin {1, 4} /\ p \notin {3, DIGITS + 6} /\ p # 5 /\ p \notin 6..(DIGITS + 5)
      BY <1>3, PartOrder, Zenon
    <3> QED
      BY <2>0, <2>4, <3>1, <3>2, <3>3, Zenon DEF TextAt
  <2>7. l = 28 => TextAt(t, p + 1, 1)'
    <3>1. l = 28 => InStop(1)'
      BY <2>4 DEF InStop
    <3> QED
      BY <1>0, <1>3, <3>1 DEF TextAt
  <2> QED
    BY <1>0, <1>3, <2>2, <2>5, <2>6, <2>7
<1>4. CASE p = 5
  <2>0. PICK b \in Byte : b = AddressCommand
    BY CommandBytes, Zenon
  <2>1. /\ q[p] = Wires!tm_write_byte(b) /\ InByte(b, l)
        /\ command = IF l <= 24 THEN Wires!None ELSE b
        /\ l > 24 => ptr = 0
    BY <1>q, <1>4, <2>0 DEF TextAt
  <2>2. Len(q[p]) = 28 /\ l \in 1..28
    BY <2>1, ByteLevels, Zenon
  <2>3. Wires!set(Wires!bit_level(b, l))
    BY <2>1, <2>2, ByteLevels, Zenon
  <2>4. /\ l < 28 => InByte(b, l + 1)'
        /\ l = 28 => message' /\ clk' = 0 /\ bits' = <<>>
        /\ l # 24 => UNCHANGED <<command, ptr, digits, on>>
        /\ l = 24 => Wires!take(b)
    BY <2>1, <2>2, <2>3, ByteStep, Zenon
  <2>5. /\ l = 24 => command' = b /\ ptr' = 0
        /\ digits' = digits /\ on' = on
    BY <2>0, <2>1, <2>4, TakeAddress
  <2>6. l < 28 => TextAt(t, p, l + 1)'
    <3>1. l + 1 <= 24 => command' = Wires!None
      BY <2>1, <2>2, <2>4, LevelOrder, Zenon
    <3>2. ASSUME l + 1 > 24, l < 28 PROVE command' = b /\ ptr' = 0
      <4>1. CASE l = 24
        BY <2>5, <4>1, Zenon
      <4>2. CASE l # 24
        BY <2>1, <2>2, <2>4, <3>2, <4>2, LevelOrder, Zenon
      <4> QED
        BY <4>1, <4>2
    <3>3. p \notin {1, 4} /\ p \notin {3, DIGITS + 6} /\ p # 2 /\ p \notin 6..(DIGITS + 5)
      BY <1>4, PartOrder, Zenon
    <3>4. l + 1 > 24 <=> ~(l + 1 <= 24)
      BY <2>2, LevelOrder, Zenon
    <3> QED
      BY <2>0, <2>4, <3>1, <3>2, <3>3, <3>4, Zenon DEF TextAt
  <2>7. ASSUME l = 28 PROVE TextAt(t, p + 1, 1)'
    <3>1. command' = AddressCommand /\ ptr' = 0
      BY <2>0, <2>1, <2>4, <2>7
    <3>2. InStop(1)'
      BY <2>4, <2>7 DEF InStop
    <3>3. InByte(t[1], 1)'
      BY <2>4, <2>7, ByteBegins
    <3> QED
      BY <1>0, <1>4, <3>1, <3>2, <3>3 DEF TextAt
  <2> QED
    BY <1>0, <1>4, <2>2, <2>5, <2>6, <2>7
<1>5. CASE p \in 6..(DIGITS + 5)
  <2>0. PICK i \in 1..DIGITS : i = p - 5 /\ p = i + 5
    BY <1>0, <1>5
  <2>1. PICK b \in Byte : b = t[i]
    OBVIOUS
  <2>2. /\ q[p] = Wires!tm_write_byte(b) /\ InByte(b, l)
        /\ command = AddressCommand /\ ptr = IF l <= 24 THEN i - 1 ELSE i % 16
    <3>1. p - 6 = i - 1
      BY <1>0, <2>0
    <3>2. InByte(t[p - 5], l) /\ command = AddressCommand /\ ptr = IF l <= 24 THEN p - 6 ELSE (p - 5) % 16
      BY <1>5, Zenon DEF TextAt
    <3>3. q[i + 5] = Wires!tm_write_byte(t[i])
      BY <1>q, Zenon
    <3> QED
      BY <2>0, <2>1, <3>1, <3>2, <3>3, Zenon
  <2>3. Len(q[p]) = 28 /\ l \in 1..28
    BY <2>2, ByteLevels, Zenon
  <2>4. Wires!set(Wires!bit_level(b, l))
    BY <2>2, <2>3, ByteLevels, Zenon
  <2>5. /\ l < 28 => InByte(b, l + 1)'
        /\ l = 28 => message' /\ clk' = 0 /\ bits' = <<>>
        /\ l # 24 => UNCHANGED <<command, ptr, digits, on>>
        /\ l = 24 => Wires!take(b)
    BY <2>2, <2>3, <2>4, ByteStep, Zenon
  <2>6. /\ l = 24 => command' = AddressCommand /\ ptr' = i % 16 /\ on' = on
        /\ l = 24 => digits' = [digits EXCEPT ![i] = b]
    <3>1. l = 24 => ptr = i - 1
      BY <2>2
    <3> QED
      BY <2>2, <2>5, <3>1, TakeDigit
  <2>7. command' = AddressCommand /\ on' = on
    BY <2>2, <2>5, <2>6
  <2>8. ptr' = IF l + 1 <= 24 THEN i - 1 ELSE i % 16
    <3>1. CASE l = 24
      BY <2>3, <2>6, <3>1, LevelOrder, Zenon
    <3>2. CASE l # 24
      <4>1. l <= 24 <=> l + 1 <= 24
        BY <2>3, <3>2, LevelOrder, Zenon
      <4>2. ptr' = ptr
        BY <2>5, <3>2
      <4> QED
        BY <2>2, <4>1, <4>2, Zenon
    <3> QED
      BY <3>1, <3>2
  <2>9. ASSUME l < 28 PROVE TextAt(t, p, l + 1)'
    <3>1. p - 5 = i /\ p - 6 = i - 1 /\ ~(p \in {1, 4}) /\ p # 2 /\ ~(p \in {3, DIGITS + 6}) /\ p # 5
      BY <1>0, <1>5, <2>0
    <3> QED
      BY <2>1, <2>5, <2>7, <2>8, <2>9, <3>1 DEF TextAt
  <2>10. ASSUME l = 28 PROVE TextAt(t, p + 1, 1)'
    <3>1. CASE i = DIGITS
      <4>1. InStop(1)'
        BY <2>5, <2>10 DEF InStop
      <4> QED
        BY <1>0, <2>0, <3>1, <4>1 DEF TextAt
    <3>2. CASE i < DIGITS
      <4>1. message' /\ clk' = 0 /\ bits' = <<>>
        BY <2>5, <2>10
      <4>5. PICK c : c = t[i + 1]
        OBVIOUS
      <4>6. InByte(c, 1)'
        BY <4>1, ByteBegins, Zenon
      <4>2. i % 16 = i
        <5>1. i \in 0..15
          BY <1>0, <3>2
        <5> QED
          BY <5>1
      <4>3. ptr' = i
        BY <2>8, <2>10, <4>2
      <4>4. /\ p + 1 \in 6..(DIGITS + 5) /\ (p + 1) - 5 = i + 1 /\ (p + 1) - 6 = i
            /\ ~(p + 1 \in {1, 4}) /\ p + 1 # 2 /\ ~(p + 1 \in {3, DIGITS + 6}) /\ p + 1 # 5
        BY <1>0, <2>0, <3>2
      <4> QED
        BY <2>7, <4>3, <4>4, <4>5, <4>6 DEF TextAt
    <3> QED
      BY <1>0, <3>1, <3>2
  <2>11. l # 24 => digits' = digits
    BY <2>5
  <2>12. p # DIGITS + 6 /\ p \in 6..(DIGITS + 5) /\ p - 5 = i
    <3>1. p # DIGITS + 6
      BY <1>5, PartOrder, Zenon
    <3> QED
      BY <1>5, <2>0, <3>1
  <2> QED
    BY <2>1, <2>3, <2>6, <2>7, <2>9, <2>10, <2>11, <2>12, Zenon
<1>6. p \in {1, 4} \/ p \in {3, DIGITS + 6} \/ p = 2 \/ p = 5 \/ p \in 6..(DIGITS + 5)
  BY <1>0
<1> QED
  BY <1>1, <1>2, <1>3, <1>4, <1>5, <1>6, Zenon

\* What the level l of part p of the call that lights the display does.
LightDone(q, p, l) ==
  /\ l < Len(q[p]) => LightAt(p, l + 1)'
  /\ l = Len(q[p]) /\ p < 3 => LightAt(p + 1, 1)'
  /\ l = Len(q[p]) /\ p = 3 => AtRest' /\ on'
  /\ on' = on \/ on' = TRUE
  /\ digits' = digits

\* The call that lights the display does so, and leaves the digits alone.
LEMMA LightStep ==
  ASSUME WireTypes, NEW q, q = Wires!tm1637_brightness,
         NEW p \in 1..3, NEW l \in 1..Len(q[p]),
         LightAt(p, l), Wires!set(q[p][l])
  PROVE  LightDone(q, p, l)
<1> SUFFICES /\ l < Len(q[p]) => LightAt(p, l + 1)'
             /\ l = Len(q[p]) /\ p < 3 => LightAt(p + 1, 1)'
             /\ l = Len(q[p]) /\ p = 3 => AtRest' /\ on'
             /\ on' = on \/ on' = TRUE
             /\ digits' = digits
  BY DEF LightDone
<1>q. q[1] = Wires!tm_start /\ q[2] = Wires!tm_write_byte(LightCommand) /\ q[3] = Wires!tm_stop
  BY LightParts, Zenon
<1>1. CASE p = 1
  <2>1. q[p] = Wires!tm_start /\ InStart(l)
    BY <1>q, <1>1 DEF LightAt
  <2>2. Len(q[p]) = 4 /\ l \in 1..4
    BY <2>1, PartLevels
  <2>3. Wires!set(Wires!tm_start[l])
    BY <2>1
  <2>4. /\ l < 4 => InStart(l + 1)'
        /\ l = 4 => message' /\ clk' = 0 /\ bits' = <<>> /\ command' = Wires!None
        /\ UNCHANGED <<ptr, digits, on>>
    BY <2>1, <2>2, <2>3, StartStep
  <2>5. l < 4 => LightAt(p, l + 1)'
    BY <1>1, <2>4 DEF LightAt
  <2>6. ASSUME l = 4 PROVE LightAt(p + 1, 1)'
    <3>1. InByte(LightCommand, 1)'
      BY <2>4, <2>6, ByteBegins
    <3> QED
      BY <1>1, <2>4, <2>6, <3>1 DEF LightAt
  <2> QED
    BY <1>1, <2>2, <2>4, <2>5, <2>6
<1>2. CASE p = 3
  <2>1. q[p] = Wires!tm_stop /\ InStop(l) /\ on
    BY <1>q, <1>2 DEF LightAt
  <2>2. Len(q[p]) = 4 /\ l \in 1..4
    BY <2>1, PartLevels
  <2>3. Wires!set(Wires!tm_stop[l])
    BY <2>1
  <2>4. /\ l < 4 => InStop(l + 1)'
        /\ l = 4 => AtRest'
        /\ UNCHANGED <<ptr, digits, on>>
    BY <2>1, <2>2, <2>3, StopStep
  <2>5. l < 4 => LightAt(p, l + 1)'
    BY <1>2, <2>1, <2>4 DEF LightAt
  <2> QED
    BY <1>2, <2>1, <2>2, <2>4, <2>5
<1>3. CASE p = 2
  <2>0. PICK b \in Byte : b = LightCommand
    BY CommandBytes, Zenon
  <2>1. /\ q[p] = Wires!tm_write_byte(b) /\ InByte(b, l)
        /\ command = IF l <= 24 THEN Wires!None ELSE b
        /\ l > 24 => on
    BY <1>q, <1>3, <2>0 DEF LightAt
  <2>2. Len(q[p]) = 28 /\ l \in 1..28
    BY <2>1, ByteLevels, Zenon
  <2>3. Wires!set(Wires!bit_level(b, l))
    BY <2>1, <2>2, ByteLevels, Zenon
  <2>4. /\ l < 28 => InByte(b, l + 1)'
        /\ l = 28 => message' /\ clk' = 0 /\ bits' = <<>>
        /\ l # 24 => UNCHANGED <<command, ptr, digits, on>>
        /\ l = 24 => Wires!take(b)
    BY <2>1, <2>2, <2>3, ByteStep, Zenon
  <2>5. /\ l = 24 => command' = b /\ on' = TRUE
        /\ digits' = digits
    <3>1. l = 24 => command = Wires!None
      BY <2>1
    <3>2. l = 24 => command' = b /\ on' = TRUE /\ digits' = digits
      BY <2>0, <2>4, <3>1, TakeLight, Zenon
    <3> QED
      BY <2>4, <3>2, Zenon
  <2>6. l < 28 => LightAt(p, l + 1)'
    <3>1. l + 1 <= 24 => command' = Wires!None
      BY <2>1, <2>2, <2>4, LevelOrder, Zenon
    <3>2. ASSUME l + 1 > 24, l < 28 PROVE command' = b /\ on'
      <4>1. CASE l = 24
        BY <2>5, <4>1, Zenon
      <4>2. CASE l # 24
        <5>1. ~(l <= 24) /\ l > 24
          BY <2>2, <3>2, <4>2, LevelOrder, Zenon
        <5>2. command' = command /\ on' = on
          BY <2>4, <4>2, Zenon
        <5> QED
          BY <2>1, <5>1, <5>2
      <4> QED
        BY <4>1, <4>2
    <3>3. l + 1 > 24 <=> ~(l + 1 <= 24)
      BY <2>2, LevelOrder, Zenon
    <3>4. p # 1 /\ p # 3
      BY <1>3
    <3> QED
      BY <2>0, <2>4, <3>1, <3>2, <3>3, <3>4, Zenon DEF LightAt
  <2>7. ASSUME l = 28 PROVE LightAt(p + 1, 1)'
    <3>1. InStop(1)' /\ on'
      BY <2>1, <2>4, <2>7 DEF InStop
    <3> QED
      BY <1>3, <3>1 DEF LightAt
  <2>8. on' = on \/ on' = TRUE
    BY <2>4, <2>5
  <2> QED
    BY <1>3, <2>2, <2>5, <2>6, <2>7, <2>8
<1>4. p = 1 \/ p = 2 \/ p = 3
  OBVIOUS
<1> QED
  BY <1>1, <1>2, <1>3, <1>4, Zenon

\* Which digit a call writes next.
LEMMA DigitAt ==
  ASSUME NEW q, NEW p \in 1..(DIGITS + 6), NEW l \in Nat
  PROVE  /\ p < 6 => Wires!Digit(Goes(q, p, l)) = 1
         /\ p \in 6..(DIGITS + 5) /\ l <= 24 => Wires!Digit(Goes(q, p, l)) = p - 5
         /\ p \in 6..(DIGITS + 5) /\ l > 24 => Wires!Digit(Goes(q, p, l)) = p - 4
         /\ p = DIGITS + 6 => Wires!Digit(Goes(q, p, l)) = DIGITS + 1
<1>0. DIGITS \in 0..16
  BY DisplayConstants
<1>1. PICK g : g = Goes(q, p, l)
  OBVIOUS
<1>2. g.part = p /\ g.level = l
  BY <1>1 DEF Goes
<1>3. PICK i \in Int : i = p - 5
  BY <1>0
<1>4. Wires!Digit(g) = CASE i < 1 -> 1
                         [] i \in 1..DIGITS /\ l <= 24 -> i
                         [] i \in 1..DIGITS /\ l > 24 -> i + 1
                         [] OTHER -> DIGITS + 1
  BY <1>2, <1>3, Zenon DEF Wires!Digit
<1>5. /\ i < 1 => Wires!Digit(g) = 1
      /\ i \in 1..DIGITS /\ l <= 24 => Wires!Digit(g) = i
      /\ i \in 1..DIGITS /\ l > 24 => Wires!Digit(g) = i + 1
      /\ i > DIGITS => Wires!Digit(g) = DIGITS + 1
  BY <1>0, <1>4
<1>6. /\ p < 6 => i < 1
      /\ p \in 6..(DIGITS + 5) => i \in 1..DIGITS /\ i = p - 5 /\ i + 1 = p - 4
      /\ p = DIGITS + 6 => i > DIGITS
  BY <1>0, <1>3
<1> QED
  BY <1>1, <1>5, <1>6, Zenon

\* The digit that is next after the level a call is at.
After(call) ==
  IF Wires!advanced(call) = Wires!NoCall THEN DIGITS + 1
  ELSE Wires!Digit(Wires!advanced(call))

\* A level of a call that nothing disturbs.
LEMMA TextCallStep ==
  ASSUME WireTypes, NEW call, TextGoes(call), Wires!set(Wires!next_level(call)),
         on_wires' = on_wires
  PROVE  /\ Wires!advanced(call) # Wires!NoCall => TextGoes(Wires!advanced(call))'
         /\ Wires!advanced(call) = Wires!NoCall => AtRest'
         /\ on' = on
         /\ \/ digits' = digits /\ After(call) = Wires!Digit(call)
            \/ /\ Wires!Digit(call) \in 1..DIGITS
               /\ digits' = [digits EXCEPT ![Wires!Digit(call)] = on_wires[Wires!Digit(call)]]
               /\ After(call) = Wires!Digit(call) + 1
<1>0. DIGITS \in 0..16 /\ DIGITS + 6 \in Nat
  BY DisplayConstants
<1>1. PICK t \in Texts, p \in 1..(DIGITS + 6) :
        \E l \in 1..Len(Wires!tm1637_set_segments(t)[p]) :
          /\ on_wires = t
          /\ call = Goes(Wires!tm1637_set_segments(t), p, l)
          /\ TextAt(t, p, l)
  BY DEF TextGoes
<1>2. PICK q : q = Wires!tm1637_set_segments(t)
  OBVIOUS
<1>3. PICK l \in 1..Len(q[p]) : on_wires = t /\ call = Goes(q, p, l) /\ TextAt(t, p, l)
  BY <1>1, <1>2, Zenon
<1>4. t \in [1..DIGITS -> Byte] /\ on_wires' = t
  BY <1>3, DisplayConstants, Zenon
<1>5. q \in Seq(Parts) /\ Len(q) = DIGITS + 6
  BY <1>2, <1>4, TextParts, Zenon
<1>6. p \in 1..Len(q) /\ q # <<>>
  BY <1>0, <1>5
<1>7. /\ Wires!next_level(call) = q[p][l]
      /\ Len(q[p]) \in 1..28
      /\ l < Len(q[p]) => Wires!advanced(call) = Goes(q, p, l + 1)
      /\ l = Len(q[p]) /\ p < DIGITS + 6 => Wires!advanced(call) = Goes(q, p + 1, 1)
      /\ l = Len(q[p]) /\ p = DIGITS + 6 => Wires!advanced(call) = Wires!NoCall
  BY <1>3, <1>5, <1>6, Advance
<1>8. Wires!set(q[p][l])
  BY <1>7, Zenon
<1>9. /\ l < Len(q[p]) => TextAt(t, p, l + 1)'
      /\ l = Len(q[p]) /\ p < DIGITS + 6 => TextAt(t, p + 1, 1)'
      /\ l = Len(q[p]) /\ p = DIGITS + 6 => AtRest'
      /\ on' = on
      /\ p \in 6..(DIGITS + 5) /\ l = 24 => digits' = [digits EXCEPT ![p - 5] = t[p - 5]]
      /\ ~(p \in 6..(DIGITS + 5) /\ l = 24) => digits' = digits
  <2>1. TextDone(t, q, p, l)
    BY <1>2, <1>3, <1>4, <1>8, TextStep, Zenon
  <2> QED
    BY <2>1, Zenon DEF TextDone
<1>10. l \in Nat /\ (p \in 6..(DIGITS + 5) => Len(q[p]) = 28)
  <2>1. l \in Nat
    BY <1>7
  <2>2. ASSUME p \in 6..(DIGITS + 5) PROVE Len(q[p]) = 28
    <3>1. PICK i \in 1..DIGITS : p = i + 5
      <4>1. p - 5 \in 1..DIGITS /\ p = (p - 5) + 5
        BY <1>0, <2>2
      <4> QED
        BY <4>1
    <3>2. q[i + 5] = Wires!tm_write_byte(t[i]) /\ t[i] \in Byte
      <4>1. t[i] \in Byte
        BY <1>4
      <4> QED
        BY <1>2, <1>4, <4>1, TextParts, Zenon
    <3> QED
      BY <3>1, <3>2, ByteLevels, Zenon
  <2> QED
    BY <2>1, <2>2
<1>11. CASE l < Len(q[p])
  <2>1. Wires!advanced(call) = Goes(q, p, l + 1) /\ TextAt(t, p, l + 1)'
    BY <1>7, <1>9, <1>11, Zenon
  <2>2. l + 1 \in 1..Len(q[p]) /\ l + 1 \in Nat
    BY <1>7, <1>11
  <2>3. TextGoes(Goes(q, p, l + 1))'
    BY <1>2, <1>4, <2>1, <2>2, Zenon DEF TextGoes
  <2>4. Wires!advanced(call) # Wires!NoCall
    BY <1>6, <2>1, GoesIsCall, Zenon
  <2>5. After(call) = Wires!Digit(Goes(q, p, l + 1))
    BY <2>1, <2>4, Zenon DEF After
  <2>6. CASE p \in 6..(DIGITS + 5) /\ l = 24
    <3>1. Wires!Digit(call) = p - 5
      <4>1. l <= 24
        BY <2>6
      <4> QED
        BY <1>3, <1>10, <2>6, <4>1, DigitAt, Zenon
    <3>2. After(call) = p - 4
      <4>1. l + 1 > 24
        BY <2>6
      <4> QED
        BY <2>2, <2>5, <2>6, <4>1, DigitAt, Zenon
    <3>3. digits' = [digits EXCEPT ![p - 5] = t[p - 5]]
      BY <1>9, <2>6, Zenon
    <3>4. p - 5 \in 1..DIGITS /\ p - 4 = (p - 5) + 1
      BY <1>0, <2>6
    <3>5. /\ Wires!Digit(call) \in 1..DIGITS
          /\ digits' = [digits EXCEPT ![Wires!Digit(call)] = on_wires[Wires!Digit(call)]]
          /\ After(call) = Wires!Digit(call) + 1
      BY <1>3, <3>1, <3>2, <3>3, <3>4, Zenon
    <3> QED
      BY <1>9, <2>1, <2>3, <2>4, <3>5, Zenon
  <2>7. CASE ~(p \in 6..(DIGITS + 5) /\ l = 24)
    <3>1. digits' = digits
      BY <1>9, <2>7, Zenon
    <3>2. After(call) = Wires!Digit(call)
      <4>1. \/ p < 6
            \/ p \in 6..(DIGITS + 5) /\ l <= 24 /\ l + 1 <= 24
            \/ p \in 6..(DIGITS + 5) /\ l > 24 /\ l + 1 > 24
            \/ p = DIGITS + 6
        BY <1>0, <1>10, <2>7
      <4> QED
        BY <1>3, <1>10, <2>2, <2>5, <4>1, DigitAt
    <3> QED
      BY <1>9, <2>1, <2>3, <2>4, <3>1, <3>2, Zenon
  <2> QED
    BY <2>6, <2>7
<1>12. CASE l = Len(q[p]) /\ p < DIGITS + 6
  <2>1. Wires!advanced(call) = Goes(q, p + 1, 1) /\ TextAt(t, p + 1, 1)'
    BY <1>7, <1>9, <1>12, Zenon
  <2>2. p + 1 \in 1..(DIGITS + 6) /\ p + 1 \in 1..Len(q) /\ 1 \in Nat
    BY <1>0, <1>5, <1>12
  <2>3. 1 \in 1..Len(q[p + 1])
    <3>1. q[p + 1] \in Parts
      BY <1>5, <2>2, ElementOfSeq, Zenon
    <3>2. Len(q[p + 1]) \in 1..28
      BY <3>1, PartLevels, Zenon
    <3>3. \A m \in 1..28 : 1 \in 1..m
      OBVIOUS
    <3> QED
      BY <3>2, <3>3, Zenon
  <2>4. TextGoes(Goes(q, p + 1, 1))'
    BY <1>2, <1>4, <2>1, <2>2, <2>3, Zenon DEF TextGoes
  <2>5. Wires!advanced(call) # Wires!NoCall
    BY <1>6, <2>1, GoesIsCall, Zenon
  <2>6. After(call) = Wires!Digit(Goes(q, p + 1, 1))
    BY <2>1, <2>5, Zenon DEF After
  <2>7. digits' = digits
    <3>1. ~(p \in 6..(DIGITS + 5) /\ l = 24)
      <4>1. p \in 6..(DIGITS + 5) => l = 28
        BY <1>10, <1>12, Zenon
      <4> QED
        BY <4>1
    <3> QED
      BY <1>9, <3>1, Zenon
  <2>8. After(call) = Wires!Digit(call)
    <3>1. CASE p < 5
      <4>1. p < 6 /\ p + 1 < 6
        BY <3>1
      <4> QED
        BY <1>3, <1>10, <2>2, <2>6, <4>1, DigitAt, Zenon
    <3>2. CASE p = 5
      <4>1. p < 6 /\ (p + 1 \in 6..(DIGITS + 5) \/ (p + 1 = DIGITS + 6 /\ DIGITS + 1 = 1))
            /\ 1 <= 24 /\ (p + 1) - 5 = 1
        BY <1>0, <3>2
      <4>2. Wires!Digit(call) = 1
        BY <1>3, <1>10, <4>1, DigitAt, Zenon
      <4>3. After(call) = 1
        BY <2>2, <2>6, <4>1, DigitAt, Zenon
      <4> QED
        BY <4>2, <4>3
    <3>3. CASE p > 5
      <4>1. /\ p \in 6..(DIGITS + 5) /\ l > 24 /\ 1 <= 24
            /\ p + 1 \in 6..(DIGITS + 5) \/ (p + 1 = DIGITS + 6 /\ DIGITS + 1 = p - 4)
            /\ (p + 1) - 5 = p - 4
        <5>1. p \in 6..(DIGITS + 5)
          BY <1>0, <1>12, <3>3
        <5>2. l = 28
          BY <1>10, <1>12, <5>1, Zenon
        <5> QED
          BY <1>0, <5>1, <5>2
      <4>2. Wires!Digit(call) = p - 4
        BY <1>3, <1>10, <4>1, DigitAt, Zenon
      <4>3. After(call) = p - 4
        BY <2>2, <2>6, <4>1, DigitAt, Zenon
      <4> QED
        BY <4>2, <4>3
    <3> QED
      BY <3>1, <3>2, <3>3
  <2> QED
    BY <1>9, <2>1, <2>4, <2>5, <2>7, <2>8, Zenon
<1>13. CASE l = Len(q[p]) /\ p = DIGITS + 6
  <2>1. Wires!advanced(call) = Wires!NoCall /\ AtRest'
    BY <1>7, <1>9, <1>13, Zenon
  <2>2. After(call) = DIGITS + 1
    BY <2>1, Zenon DEF After
  <2>3. Wires!Digit(call) = DIGITS + 1
    BY <1>3, <1>10, <1>13, DigitAt, Zenon
  <2>4. digits' = digits
    <3>1. ~(p \in 6..(DIGITS + 5))
      BY <1>0, <1>13
    <3> QED
      BY <1>9, <3>1, Zenon
  <2> QED
    BY <1>9, <2>1, <2>2, <2>3, <2>4, Zenon
<1>14. (l < Len(q[p]) \/ l = Len(q[p])) /\ (p < DIGITS + 6 \/ p = DIGITS + 6)
  BY <1>0, <1>7
<1> QED
  BY <1>11, <1>12, <1>13, <1>14, Zenon

\* A level of the call that lights the display.
LEMMA LightCallStep ==
  ASSUME WireTypes, NEW call, LightGoes(call), Wires!set(Wires!next_level(call))
  PROVE  /\ Wires!advanced(call) # Wires!NoCall => LightGoes(Wires!advanced(call))'
         /\ Wires!advanced(call) = Wires!NoCall => AtRest' /\ on'
         /\ on' = on \/ on' = TRUE
         /\ digits' = digits
<1>1. PICK q : q = Wires!tm1637_brightness
  OBVIOUS
<1>2. PICK p \in 1..3 : \E l \in 1..Len(q[p]) : call = Goes(q, p, l) /\ LightAt(p, l)
  BY <1>1 DEF LightGoes
<1>3. PICK l \in 1..Len(q[p]) : call = Goes(q, p, l) /\ LightAt(p, l)
  BY <1>2
<1>4. q \in Seq(Parts) /\ Len(q) = 3
  BY <1>1, LightParts, Zenon
<1>5. p \in 1..Len(q) /\ q # <<>>
  BY <1>4
<1>6. /\ Wires!next_level(call) = q[p][l]
      /\ Len(q[p]) \in 1..28
      /\ l < Len(q[p]) => Wires!advanced(call) = Goes(q, p, l + 1)
      /\ l = Len(q[p]) /\ p < 3 => Wires!advanced(call) = Goes(q, p + 1, 1)
      /\ l = Len(q[p]) /\ p = 3 => Wires!advanced(call) = Wires!NoCall
  <2>1. Advances(q, p, l)
    BY <1>3, <1>4, <1>5, Advancing, Zenon
  <2> QED
    BY <1>3, <1>4, <2>1, Zenon DEF Advances
<1>7. Wires!set(q[p][l])
  BY <1>6, Zenon
<1>8. /\ l < Len(q[p]) => LightAt(p, l + 1)'
      /\ l = Len(q[p]) /\ p < 3 => LightAt(p + 1, 1)'
      /\ l = Len(q[p]) /\ p = 3 => AtRest' /\ on'
      /\ on' = on \/ on' = TRUE
      /\ digits' = digits
  <2>1. LightDone(q, p, l)
    BY <1>1, <1>3, <1>7, LightStep, Zenon
  <2> QED
    BY <2>1, Zenon DEF LightDone
<1>9. CASE l < Len(q[p])
  <2>1. Wires!advanced(call) = Goes(q, p, l + 1) /\ LightAt(p, l + 1)'
    BY <1>6, <1>8, <1>9, Zenon
  <2>2. l + 1 \in 1..Len(q[p])
    BY <1>6, <1>9
  <2>3. LightGoes(Goes(q, p, l + 1))'
    BY <1>1, <2>1, <2>2, Zenon DEF LightGoes
  <2>4. Wires!advanced(call) # Wires!NoCall
    BY <1>5, <2>1, GoesIsCall, Zenon
  <2> QED
    BY <1>8, <2>1, <2>3, <2>4, Zenon
<1>10. CASE l = Len(q[p]) /\ p < 3
  <2>1. Wires!advanced(call) = Goes(q, p + 1, 1) /\ LightAt(p + 1, 1)'
    BY <1>6, <1>8, <1>10, Zenon
  <2>2. p + 1 \in 1..3 /\ p + 1 \in 1..Len(q)
    BY <1>4, <1>10
  <2>3. 1 \in 1..Len(q[p + 1])
    <3>1. q[p + 1] \in Parts
      BY <1>4, <2>2, ElementOfSeq, Zenon
    <3>2. Len(q[p + 1]) \in 1..28
      BY <3>1, PartLevels, Zenon
    <3>3. \A m \in 1..28 : 1 \in 1..m
      OBVIOUS
    <3> QED
      BY <3>2, <3>3, Zenon
  <2>4. LightGoes(Goes(q, p + 1, 1))'
    BY <1>1, <2>1, <2>2, <2>3, Zenon DEF LightGoes
  <2>5. Wires!advanced(call) # Wires!NoCall
    BY <1>5, <2>1, GoesIsCall, Zenon
  <2> QED
    BY <1>8, <2>1, <2>4, <2>5, Zenon
<1>11. CASE l = Len(q[p]) /\ p = 3
  BY <1>6, <1>8, <1>11, Zenon
<1>12. (l < Len(q[p]) \/ l = Len(q[p])) /\ (p < 3 \/ p = 3)
  BY <1>6
<1> QED
  BY <1>9, <1>10, <1>11, <1>12, Zenon

\* A level of any call, disturbed or not.
LEMMA CallStep ==
  ASSUME WireTypes, NEW q \in Seq(Parts), q[Len(q)] = Wires!tm_stop,
         NEW call, At(call, q), EndsIdle(call), Wires!set(Wires!next_level(call))
  PROVE  /\ WireTypes'
         /\ Wires!advanced(call) = Wires!NoCall => AtRest'
         /\ Wires!advanced(call) # Wires!NoCall => EndsIdle(Wires!advanced(call))'
<1>1. PICK p \in 1..Len(q) : \E l \in 1..Len(q[p]) : call = Goes(q, p, l)
  BY DEF At
<1>2. PICK l \in 1..Len(q[p]) : call = Goes(q, p, l)
  BY <1>1
<1>3. /\ Wires!next_level(call) = q[p][l] /\ q[p][l] \in Levels
      /\ Len(q[p]) \in 1..28 /\ Len(q) \in Nat
      /\ l < Len(q[p]) => Wires!advanced(call) = Goes(q, p, l + 1)
      /\ l = Len(q[p]) /\ p < Len(q) => Wires!advanced(call) = Goes(q, p + 1, 1)
      /\ l = Len(q[p]) /\ p = Len(q) => Wires!advanced(call) = Wires!NoCall
  <2>1. Advances(q, p, l)
    BY Advancing, Zenon
  <2> QED
    BY <1>2, <2>1, Zenon DEF Advances
<1>4. Wires!set(q[p][l]) /\ EndsIdle(Goes(q, p, l))
  BY <1>2, <1>3, Zenon
<1>5. WireTypes'
  BY <1>3, <1>4, LevelTypes, Zenon
<1>6. q # <<>>
  OBVIOUS
<1>7. /\ l < Len(q[p]) => EndsIdle(Goes(q, p, l + 1))'
      /\ l = Len(q[p]) /\ p < Len(q) => EndsIdle(Goes(q, p + 1, 1))'
      /\ l = Len(q[p]) /\ p = Len(q) => AtRest'
  BY <1>4, EndsIdleStep, Zenon
<1>8. (l < Len(q[p]) \/ l = Len(q[p])) /\ (p < Len(q) \/ p = Len(q))
  BY <1>3
<1>9. CASE l < Len(q[p])
  BY <1>3, <1>5, <1>6, <1>7, <1>9, GoesIsCall, Zenon
<1>10. CASE l = Len(q[p]) /\ p < Len(q)
  BY <1>3, <1>5, <1>6, <1>7, <1>10, GoesIsCall, Zenon
<1>11. CASE l = Len(q[p]) /\ p = Len(q)
  BY <1>3, <1>5, <1>7, <1>11, Zenon
<1> QED
  BY <1>8, <1>9, <1>10, <1>11, Zenon

\* The parts of the three calls: each ends with a stop.
LEMMA CallParts ==
  /\ \A t \in Texts : /\ Wires!tm1637_set_segments(t) \in Seq(Parts)
                      /\ Len(Wires!tm1637_set_segments(t)) > 0
                      /\ Wires!tm1637_set_segments(t)[Len(Wires!tm1637_set_segments(t))]
                           = Wires!tm_stop
  /\ Wires!tm1637_brightness \in Seq(Parts) /\ Len(Wires!tm1637_brightness) > 0
  /\ Wires!tm1637_brightness[Len(Wires!tm1637_brightness)] = Wires!tm_stop
<1>1. ASSUME NEW t \in Texts
      PROVE  LET s == Wires!tm1637_set_segments(t)
             IN  s \in Seq(Parts) /\ Len(s) > 0 /\ s[Len(s)] = Wires!tm_stop
  <2>1. DIGITS + 6 > 0 /\ t \in [1..DIGITS -> Byte]
    BY DisplayConstants
  <2> QED
    BY <2>1, TextParts, Zenon
<1>2. 3 > 0
  OBVIOUS
<1> QED
  BY <1>1, <1>2, LightParts, Zenon

\* The digit to be written next is one of the display, or the one after.
LEMMA NextDigitRange ==
  ASSUME CallTypes'
  PROVE  Wires!NextDigit' \in 1..(DIGITS + 1)
<1>0. DIGITS + 1 \in 1..(DIGITS + 1)
  BY DisplayConstants
<1>1. PICK w : w = work_call'
  OBVIOUS
<1>2. PICK b : b = boot_call'
  OBVIOUS
<1>3. ASSUME w # Wires!NoCall PROVE Wires!Digit(w) \in 1..(DIGITS + 1)
  <2>1. PICK t \in Texts : At(w, Wires!tm1637_set_segments(t))
    BY <1>1, <1>3, Zenon DEF CallTypes
  <2> QED
    BY <2>1, CallParts, DigitRange, Zenon
<1>4. ASSUME b # Wires!NoCall, boot' = 2 PROVE Wires!Digit(b) \in 1..(DIGITS + 1)
  <2>1. At(b, Wires!tm1637_set_segments(Banner))
    <3>1. 2 # 1
      OBVIOUS
    <3> QED
      BY <1>2, <1>4, <3>1, Zenon DEF CallTypes
  <2> QED
    BY <2>1, DisplayConstants, CallParts, DigitRange, Zenon
<1>5. Wires!NextDigit' = CASE w # Wires!NoCall -> Wires!Digit(w)
                           [] w = Wires!NoCall /\ boot' = 2 /\ b # Wires!NoCall -> Wires!Digit(b)
                           [] OTHER -> DIGITS + 1
  BY <1>1, <1>2, Zenon DEF Wires!NextDigit, Wires!Amid
<1> QED
  BY <1>0, <1>3, <1>4, <1>5, Zenon

\* The first level of a call that finds the wires at rest leaves them so.
LEMMA FirstLevel ==
  ASSUME WireTypes, AtRest, NEW q \in Seq(Parts), Len(q) > 0, q[1] = Wires!tm_start,
         Wires!set(Wires!next_level(Wires!begun(q)))
  PROVE  /\ WireTypes' /\ AtRest' /\ UNCHANGED <<digits, on>>
         /\ Wires!advanced(Wires!begun(q)) = Goes(q, 1, 2)
         /\ Goes(q, 1, 2) # Wires!NoCall
         /\ At(Goes(q, 1, 2), q) /\ 2 \in 1..Len(q[1])
<1>1. Len(q[1]) = 4 /\ q[1][1] = Wires!D(1)
  <2>1. Wires!tm_start[1] = Wires!D(1)
    BY DEF Wires!tm_start
  <2> QED
    BY <2>1, PartLevels, Zenon
<1>2. 1 \in 1..Len(q[1]) /\ 2 \in 1..Len(q[1]) /\ 1 < Len(q[1]) /\ 1 + 1 = 2
  BY <1>1
<1>3. Wires!begun(q) = Goes(q, 1, 1) /\ 1 \in 1..Len(q)
  BY Begins, Zenon
<1>4. Wires!next_level(Wires!begun(q)) = q[1][1] /\ Wires!advanced(Wires!begun(q)) = Goes(q, 1, 2)
  <2>1. /\ Wires!next_level(Goes(q, 1, 1)) = q[1][1]
        /\ Wires!advanced(Goes(q, 1, 1)) = Goes(q, 1, 1 + 1)
    BY <1>2, <1>3, Advance
  <2>2. Goes(q, 1, 1 + 1) = Goes(q, 1, 2)
    BY DEF Goes
  <2> QED
    BY <1>3, <2>1, <2>2, Zenon
<1>5. Wires!set(Wires!D(1))
  BY <1>1, <1>4, Zenon
<1>6. clk' = clk /\ dio' = 1 /\ Untouched
  BY <1>5, DataLevel DEF AtRest
<1>7. WireTypes' /\ AtRest' /\ UNCHANGED <<digits, on>>
  BY <1>6 DEF WireTypes, AtRest, Untouched
<1>8. q # <<>>
  OBVIOUS
<1> QED
  BY <1>2, <1>3, <1>4, <1>7, <1>8, GoesIsCall, Zenon DEF At

\* Of a disturbed call nothing is promised.
LEMMA DisturbStep ==
  ASSUME WireTypes', CallTypes', disturbed'
  PROVE  Wires!Abstract!Next
<1>1. Wires!NextDigit' \in 1..(DIGITS + 1)
  BY NextDigitRange, Zenon
<1>2. /\ digits' \in [1..DIGITS -> Byte] /\ on' \in BOOLEAN
      /\ on_wires' \in [1..DIGITS -> Byte]
      /\ disturbed' \in BOOLEAN /\ dark' \in BOOLEAN
  BY DEF WireTypes, CallTypes
<1>3. Wires!Abstract!TypeOK'
  BY <1>1, <1>2, Zenon DEF Wires!Abstract!TypeOK, Wires!Abstract!Contents, Byte
<1> QED
  BY <1>3, Zenon DEF Wires!Abstract!Next, Wires!Abstract!disturb

\* The pins become outputs.
LEMMA PinsStep ==
  ASSUME DriverInv, Wires!tm1637_init
  PROVE  DriverInv' /\ UNCHANGED Wires!Abstract!vars
<1>1. /\ boot = 0 /\ work_call = Wires!NoCall /\ boot' = 1 /\ wired' = TRUE
      /\ UNCHANGED <<boot_call, work_call, clk, dio, message, command, bits, ptr, digits, on,
                     on_wires, disturbed, dark>>
  BY DEF Wires!tm1637_init, Wires!chip_vars, Wires!history
<1>2. boot_call = Wires!NoCall /\ ~wired /\ dark
  BY <1>1 DEF DriverInv, CallTypes, Lit
<1>3. AtRest
  BY <1>2 DEF DriverInv, Rests
<1>4. WireTypes'
  BY <1>1 DEF DriverInv, WireTypes
<1>5. CallTypes'
  BY <1>1, <1>2 DEF DriverInv, CallTypes
<1>6. AtRest' /\ ~Wires!Amid'
  BY <1>1, <1>2, <1>3 DEF AtRest, Wires!Amid
<1>7. Rests'
  BY <1>1, <1>6 DEF Rests
<1>8. Alone'
  BY <1>1, <1>6 DEF Alone
<1>9. Lit'
  BY <1>1, <1>2, <1>6 DEF Lit
<1>10. Wires!NextDigit' = DIGITS + 1 /\ Wires!NextDigit = DIGITS + 1
  <2>1. 0 # 2 /\ 1 # 2
    OBVIOUS
  <2> QED
    BY <1>1, <1>2, <2>1, Zenon DEF Wires!NextDigit, Wires!Amid
<1> QED
  BY <1>1, <1>4, <1>5, <1>7, <1>8, <1>9, <1>10 DEF DriverInv, Wires!Abstract!vars

\* The workqueue's call begins.
LEMMA RxCallStep ==
  ASSUME DriverInv, NEW t \in Texts, Wires!rx_call(t)
  PROVE  DriverInv' /\ Wires!Abstract!Next
<1>1. PICK q : q = Wires!tm1637_set_segments(t)
  OBVIOUS
<1>2. /\ work_call = Wires!NoCall /\ work_call' = Wires!begun(q)
      /\ on_wires' = t
      /\ disturbed' = (Wires!Amid \/ ~wired)
      /\ dark' = (dark \/ Wires!Amid)
      /\ UNCHANGED <<boot, boot_call, wired, clk, dio, message, command, bits, ptr, digits, on>>
  BY <1>1, Zenon DEF Wires!rx_call, Wires!chip_vars
<1>3. q \in Seq(Parts) /\ Len(q) > 0 /\ q # <<>>
  <2>1. q \in Seq(Parts) /\ Len(q) > 0
    BY <1>1, CallParts, Zenon
  <2> QED
    BY <2>1
<1>4. /\ Wires!begun(q) = Goes(q, 1, 1) /\ At(Wires!begun(q), q)
      /\ 1 \in 1..Len(q) /\ 1 \in 1..Len(q[1]) /\ Wires!begun(q) # Wires!NoCall
  BY <1>3, Begins, GoesIsCall, Zenon
<1>5. (Wires!Amid' <=> Wires!Amid) /\ (AtRest' <=> AtRest)
  BY <1>2 DEF Wires!Amid, AtRest
<1>6. t \in [1..DIGITS -> Byte]
  BY DisplayConstants
<1>7. WireTypes'
  BY <1>2 DEF DriverInv, WireTypes
<1>8. CallTypes'
  <2>1. boot' \in 0..3 /\ wired' \in BOOLEAN /\ (wired' <=> boot' # 0)
    BY <1>2 DEF DriverInv, CallTypes
  <2>2. \E u \in Texts : At(work_call', Wires!tm1637_set_segments(u))
    BY <1>1, <1>2, <1>4, Zenon
  <2>3. \/ boot_call' = Wires!NoCall
        \/ boot' = 1 /\ At(boot_call', Wires!tm1637_brightness)
        \/ boot' = 2 /\ At(boot_call', Wires!tm1637_set_segments(Banner))
    BY <1>2, Zenon DEF DriverInv, CallTypes
  <2>4. disturbed' \in BOOLEAN /\ dark' \in BOOLEAN
    BY <1>2
  <2> QED
    BY <1>2, <1>6, <2>1, <2>2, <2>3, <2>4, Zenon DEF CallTypes
<1>9. Rests'
  <2>1. EndsIdle(Goes(q, 1, 1))'
    BY DEF EndsIdle, Goes
  <2>2. EndsIdle(work_call)'
    BY <1>2, <1>4, <2>1, Zenon DEF EndsIdle
  <2>3. ~wired' => AtRest'
    BY <1>2, <1>5 DEF DriverInv, Rests
  <2> QED
    BY <1>2, <1>4, <2>2, <2>3, Zenon DEF Rests
<1>10. ~Wires!Amid => AtRest
  BY <1>2, Zenon DEF DriverInv, Rests
<1>11. Alone'
  <2>1. ASSUME ~disturbed' PROVE wired' /\ ~Wires!Amid' /\ TextGoes(work_call)'
    <3>1. ~Wires!Amid /\ wired
      BY <1>2, <2>1, Zenon
    <3>2. InStart(1)'
      BY <1>5, <1>10, <3>1 DEF InStart
    <3>3. TextAt(t, 1, 1)'
      BY <3>2, DisplayConstants DEF TextAt
    <3>4. 1 \in 1..(DIGITS + 6)
      BY DisplayConstants
    <3>5. TextGoes(work_call)'
      BY <1>1, <1>2, <1>4, <3>3, <3>4, Zenon DEF TextGoes
    <3> QED
      BY <1>2, <1>5, <3>1, <3>5, Zenon
  <2> QED
    BY <1>2, <1>4, <2>1, Zenon DEF Alone
<1>12. ~dark' => ~dark /\ ~Wires!Amid /\ wired /\ on /\ ~disturbed'
  <2>1. ~dark' => ~dark /\ ~Wires!Amid
    BY <1>2, Zenon
  <2>2. ~dark /\ ~Wires!Amid => wired /\ on
    BY DEF DriverInv, Lit
  <2> QED
    BY <1>2, <2>1, <2>2, Zenon
<1>13. Lit'
  <2>1. Wires!Amid => disturbed' /\ dark'
    BY <1>2, Zenon
  <2> QED
    BY <1>2, <1>5, <1>12, <2>1, Zenon DEF Lit
<1>14. DriverInv'
  BY <1>7, <1>8, <1>9, <1>11, <1>13, Zenon DEF DriverInv
<1>15. CASE disturbed'
  BY <1>7, <1>8, <1>14, <1>15, DisturbStep, Zenon
<1>16. CASE ~disturbed'
  <2>1. ~Wires!Amid /\ wired /\ disturbed' = FALSE /\ dark' = dark
    <3>1. ~Wires!Amid /\ wired
      BY <1>2, <1>16, Zenon
    <3>2. dark \in BOOLEAN
      BY DEF DriverInv, CallTypes
    <3> QED
      BY <1>2, <3>1, <3>2
  <2>2. Wires!NextDigit = DIGITS + 1
    BY <1>2, <2>1, Zenon DEF Wires!NextDigit
  <2>3. Wires!NextDigit' = 1
    <3>1. Wires!NextDigit' = Wires!Digit(Goes(q, 1, 1))
      BY <1>2, <1>4, Zenon DEF Wires!NextDigit
    <3>2. 1 \in 1..(DIGITS + 6) /\ 1 \in Nat /\ 1 < 6
      BY DisplayConstants
    <3> QED
      BY <3>1, <3>2, DigitAt, Zenon
  <2>4. Wires!NextDigit > DIGITS
    BY <2>2, DisplayConstants
  <2>5. on \/ dark
    BY <2>1 DEF DriverInv, Lit
  <2>6. Wires!Abstract!begin
    BY <1>2, <1>6, <2>1, <2>3, <2>4, <2>5, Zenon DEF Wires!Abstract!begin, Wires!Abstract!Contents, Byte
  <2> QED
    BY <1>14, <2>6, Zenon DEF Wires!Abstract!Next
<1> QED
  BY <1>15, <1>16

\* The workqueue's call goes on.
LEMMA RxStep ==
  ASSUME DriverInv, Wires!rx_step
  PROVE  DriverInv' /\ (Wires!Abstract!Next \/ UNCHANGED Wires!Abstract!vars)
<1>1. PICK w : w = work_call
  OBVIOUS
<1>2. /\ w # Wires!NoCall /\ work_call' = Wires!advanced(w)
      /\ Wires!drive(Wires!next_level(w))
      /\ UNCHANGED <<boot, boot_call, wired, on_wires, disturbed, dark>>
  BY <1>1, Zenon DEF Wires!rx_step, Wires!history
<1>3. PICK t \in Texts : At(w, Wires!tm1637_set_segments(t))
  BY <1>1, <1>2, Zenon DEF DriverInv, CallTypes
<1>4. PICK q : q = Wires!tm1637_set_segments(t)
  OBVIOUS
<1>5. q \in Seq(Parts) /\ q[Len(q)] = Wires!tm_stop /\ At(w, q)
  BY <1>3, <1>4, CallParts, Zenon
<1>6. EndsIdle(w)
  BY <1>1, <1>2, Zenon DEF DriverInv, Rests
<1>7. Wires!Amid' <=> Wires!Amid
  BY <1>2 DEF Wires!Amid
<1>8. WireTypes
  BY DEF DriverInv
<1>9. /\ WireTypes'
      /\ ~wired' => AtRest'
      /\ work_call' = Wires!NoCall => AtRest'
      /\ work_call' # Wires!NoCall => EndsIdle(work_call)'
  <2>1. CASE wired
    <3>1. Wires!set(Wires!next_level(w))
      BY <1>2, <2>1, Zenon DEF Wires!drive
    <3>2. /\ WireTypes'
          /\ Wires!advanced(w) = Wires!NoCall => AtRest'
          /\ Wires!advanced(w) # Wires!NoCall => EndsIdle(Wires!advanced(w))'
      BY <1>5, <1>6, <1>8, <3>1, CallStep, Zenon
    <3>3. PICK c : c = Wires!advanced(w)
      OBVIOUS
    <3>4. c # Wires!NoCall => EndsIdle(c)'
      BY <3>2, <3>3, Zenon
    <3>5. c # Wires!NoCall => EndsIdle(work_call)'
      BY <1>2, <3>3, <3>4, Zenon DEF EndsIdle
    <3> QED
      BY <1>2, <2>1, <3>2, <3>3, <3>5, Zenon
  <2>2. CASE ~wired
    <3>1. UNCHANGED <<clk, dio, message, command, bits, ptr, digits, on>>
      BY <1>2, <2>2, Zenon DEF Wires!drive, Wires!chip_vars
    <3>2. AtRest
      BY <2>2 DEF DriverInv, Rests
    <3>3. AtRest' /\ WireTypes'
      BY <1>8, <3>1, <3>2 DEF AtRest, WireTypes
    <3>4. EndsIdle(work_call)'
      BY <3>3 DEF EndsIdle, AtRest
    <3> QED
      BY <3>3, <3>4
  <2> QED
    BY <2>1, <2>2
<1>10. CallTypes'
  <2>1. Wires!advanced(w) = Wires!NoCall \/ At(Wires!advanced(w), q)
    BY <1>5, GoesOn, Zenon
  <2>2. work_call' = Wires!NoCall \/ \E u \in Texts : At(work_call', Wires!tm1637_set_segments(u))
    BY <1>2, <1>4, <2>1, Zenon
  <2>3. /\ boot' \in 0..3 /\ wired' \in BOOLEAN /\ (wired' <=> boot' # 0)
        /\ on_wires' \in [1..DIGITS -> Byte]
        /\ disturbed' \in BOOLEAN /\ dark' \in BOOLEAN
    BY <1>2 DEF DriverInv, CallTypes
  <2>4. \/ boot_call' = Wires!NoCall
        \/ boot' = 1 /\ At(boot_call', Wires!tm1637_brightness)
        \/ boot' = 2 /\ At(boot_call', Wires!tm1637_set_segments(Banner))
    BY <1>2, Zenon DEF DriverInv, CallTypes
  <2> QED
    BY <2>2, <2>3, <2>4, Zenon DEF CallTypes
<1>11. Rests'
  <2>1. AtRest' => EndsIdle(boot_call)'
    BY DEF EndsIdle, AtRest
  <2> QED
    BY <1>9, <2>1, Zenon DEF Rests
<1>12. ASSUME ~disturbed
       PROVE  /\ wired /\ ~Wires!Amid
              /\ Wires!advanced(w) # Wires!NoCall => TextGoes(work_call)'
              /\ on' = on
              /\ \/ digits' = digits /\ After(w) = Wires!Digit(w)
                 \/ /\ Wires!Digit(w) \in 1..DIGITS
                    /\ digits' = [digits EXCEPT ![Wires!Digit(w)] = on_wires[Wires!Digit(w)]]
                    /\ After(w) = Wires!Digit(w) + 1
  <2>1. wired /\ ~Wires!Amid /\ TextGoes(w)
    BY <1>1, <1>2, <1>12, Zenon DEF DriverInv, Alone
  <2>2. Wires!set(Wires!next_level(w))
    BY <1>2, <2>1, Zenon DEF Wires!drive
  <2>3. on_wires' = on_wires
    BY <1>2
  <2>4. Wires!advanced(w) # Wires!NoCall => TextGoes(Wires!advanced(w))'
    BY <1>8, <2>1, <2>2, <2>3, TextCallStep, Zenon
  <2>5. on' = on
    BY <1>8, <2>1, <2>2, <2>3, TextCallStep, Zenon
  <2>6. \/ digits' = digits /\ After(w) = Wires!Digit(w)
        \/ /\ Wires!Digit(w) \in 1..DIGITS
           /\ digits' = [digits EXCEPT ![Wires!Digit(w)] = on_wires[Wires!Digit(w)]]
           /\ After(w) = Wires!Digit(w) + 1
    BY <1>8, <2>1, <2>2, <2>3, TextCallStep, Zenon
  <2>7. PICK c : c = Wires!advanced(w)
    OBVIOUS
  <2>8. c # Wires!NoCall => TextGoes(c)'
    BY <2>4, <2>7, Zenon
  <2>9. c # Wires!NoCall => TextGoes(work_call)'
    BY <1>2, <2>7, <2>8, Zenon DEF TextGoes
  <2> QED
    BY <2>1, <2>5, <2>6, <2>7, <2>9, Zenon
<1>13. Alone'
  BY <1>2, <1>7, <1>12, Zenon DEF Alone
<1>14. Lit'
  <2>1. ~dark => ~disturbed /\ wired
    BY <1>1, <1>2, Zenon DEF DriverInv, Lit
  <2>2. ~dark => ~Wires!Amid /\ on' = on
    BY <1>12, <2>1, Zenon
  <2>3. ~dark => on'
    BY <2>2 DEF DriverInv, Lit
  <2>4. ~(Wires!Amid /\ ~disturbed)
    BY <1>12, Zenon
  <2> QED
    BY <1>2, <1>7, <2>1, <2>2, <2>3, <2>4, Zenon DEF Lit
<1>15. DriverInv'
  BY <1>9, <1>10, <1>11, <1>13, <1>14, Zenon DEF DriverInv
<1>16. CASE disturbed
  <2>1. disturbed'
    BY <1>2, <1>16
  <2> QED
    BY <1>9, <1>10, <1>15, <2>1, DisturbStep, Zenon
<1>17. CASE ~disturbed
  <2>1. Wires!NextDigit = Wires!Digit(w)
    BY <1>1, <1>2, Zenon DEF Wires!NextDigit
  <2>2. Wires!NextDigit' = After(w)
    <3>1. CASE Wires!advanced(w) = Wires!NoCall
      BY <1>2, <1>7, <1>12, <1>17, <3>1, Zenon DEF Wires!NextDigit, After
    <3>2. CASE Wires!advanced(w) # Wires!NoCall
      BY <1>2, <3>2, Zenon DEF Wires!NextDigit, After
    <3> QED
      BY <3>1, <3>2
  <2>3. CASE digits' = digits /\ After(w) = Wires!Digit(w)
    BY <1>2, <1>12, <1>15, <1>17, <2>1, <2>2, <2>3 DEF Wires!Abstract!vars
  <2>4. CASE /\ Wires!Digit(w) \in 1..DIGITS
             /\ digits' = [digits EXCEPT ![Wires!Digit(w)] = on_wires[Wires!Digit(w)]]
             /\ After(w) = Wires!Digit(w) + 1
    <3>1. Wires!NextDigit <= DIGITS
      BY <2>1, <2>4, DisplayConstants
    <3>2. Wires!Abstract!put
      BY <1>2, <1>12, <1>17, <2>1, <2>2, <2>4, <3>1, Zenon DEF Wires!Abstract!put
    <3> QED
      BY <1>15, <3>2, Zenon DEF Wires!Abstract!Next
  <2> QED
    BY <1>12, <1>17, <2>3, <2>4, Zenon
<1> QED
  BY <1>16, <1>17

\* The call that lights the display begins, and goes on.
LEMMA LightingStep ==
  ASSUME DriverInv, boot = 1, Wires!boot_step
  PROVE  DriverInv' /\ (Wires!Abstract!Next \/ UNCHANGED Wires!Abstract!vars)
<1>1. PICK c : c = Wires!BootCall
  OBVIOUS
<1>2. /\ work_call = Wires!NoCall /\ work_call' = Wires!NoCall
      /\ Wires!drive(Wires!next_level(c))
      /\ boot_call' = Wires!advanced(c)
      /\ boot' = IF boot_call' = Wires!NoCall THEN 2 ELSE 1
      /\ dark' = (dark /\ ~(boot = 1 /\ ~Wires!Amid))
      /\ UNCHANGED <<wired, on_wires, disturbed>>
  <2>1. 1 # 2 /\ 1 + 1 = 2
    OBVIOUS
  <2>2. /\ work_call = Wires!NoCall /\ work_call' = work_call
        /\ Wires!drive(Wires!next_level(c))
        /\ boot_call' = Wires!advanced(c)
        /\ boot' = IF boot_call' = Wires!NoCall THEN boot + 1 ELSE boot
        /\ dark' = (dark /\ ~(boot = 1 /\ ~Wires!Amid))
        /\ wired' = wired
    BY <1>1, Zenon DEF Wires!boot_step
  <2>3. UNCHANGED <<on_wires, disturbed>>
    BY <2>1, Zenon DEF Wires!boot_step
  <2>4. boot + 1 = 2
    OBVIOUS
  <2> QED
    BY <2>2, <2>3, <2>4, Zenon
<1>3. wired /\ WireTypes
  BY DEF DriverInv, CallTypes
<1>4. Wires!set(Wires!next_level(c))
  BY <1>2, <1>3, Zenon DEF Wires!drive
<1>5. PICK q : q = Wires!tm1637_brightness
  OBVIOUS
<1>6. q \in Seq(Parts) /\ q[Len(q)] = Wires!tm_stop /\ Len(q) > 0
  BY <1>5, CallParts, Zenon
<1>7. q[1] = Wires!tm_start
  BY <1>5, LightParts, Zenon
<1>8. Wires!Amid' <=> Wires!advanced(c) # Wires!NoCall
  BY <1>2, Zenon DEF Wires!Amid
<1>9. PICK d : d = Wires!advanced(c)
  OBVIOUS
<1>10. CASE ~Wires!Amid
  <2>1. c = Wires!begun(q)
    BY <1>1, <1>5, <1>10, Zenon DEF Wires!BootCall
  <2>2. AtRest
    BY <1>2, <1>10, Zenon DEF DriverInv, Rests
  <2>3. /\ WireTypes' /\ AtRest' /\ UNCHANGED <<digits, on>>
        /\ d = Goes(q, 1, 2) /\ d # Wires!NoCall
        /\ At(d, q) /\ 2 \in 1..Len(q[1])
    BY <1>3, <1>4, <1>6, <1>7, <1>9, <2>1, <2>2, FirstLevel, Zenon
  <2>4. boot' = 1 /\ boot_call' = d /\ dark' = FALSE /\ Wires!Amid'
    <3>1. boot' = 1 /\ boot_call' = d /\ Wires!Amid'
      BY <1>2, <1>8, <1>9, <2>3, Zenon
    <3>2. dark' = FALSE
      BY <1>2, <1>10
    <3> QED
      BY <3>1, <3>2
  <2>5. CallTypes'
    <3>1. /\ boot' \in 0..3 /\ wired' \in BOOLEAN /\ (wired' <=> boot' # 0)
          /\ on_wires' \in [1..DIGITS -> Byte]
          /\ disturbed' \in BOOLEAN /\ dark' \in BOOLEAN
      BY <1>2, <1>3, <2>4 DEF DriverInv, CallTypes
    <3> QED
      BY <1>2, <1>5, <2>3, <2>4, <3>1, Zenon DEF CallTypes
  <2>6. Rests'
    <3>1. EndsIdle(boot_call)'
      BY <2>3 DEF EndsIdle, AtRest
    <3> QED
      BY <1>2, <2>3, <3>1, Zenon DEF Rests
  <2>7. Alone'
    BY <1>2, <2>4 DEF Alone
  <2>8. LightGoes(boot_call)'
    <3>1. LightAt(1, 2)'
      BY <2>3 DEF LightAt, InStart, AtRest
    <3>2. 1 \in 1..3
      OBVIOUS
    <3> QED
      BY <1>5, <2>3, <2>4, <3>1, <3>2, Zenon DEF LightGoes
  <2>9. Lit'
    BY <1>2, <1>3, <2>4, <2>8 DEF Lit
  <2>10. DriverInv'
    BY <2>3, <2>5, <2>6, <2>7, <2>9, Zenon DEF DriverInv
  <2>11. Wires!NextDigit = DIGITS + 1 /\ Wires!NextDigit' = DIGITS + 1
    <3>1. 1 # 2
      OBVIOUS
    <3> QED
      BY <1>2, <2>4, <3>1, Zenon DEF Wires!NextDigit
  <2>12. Wires!Abstract!lighting
    BY <1>2, <2>3, <2>4, <2>11 DEF Wires!Abstract!lighting
  <2> QED
    BY <2>10, <2>12, Zenon DEF Wires!Abstract!Next
<1>11. CASE Wires!Amid
  <2>1. c = boot_call
    BY <1>1, <1>11, Zenon DEF Wires!BootCall
  <2>2. At(c, q) /\ EndsIdle(c)
    <3>1. At(boot_call, Wires!tm1637_brightness)
      <4>1. 1 # 2
        OBVIOUS
      <4> QED
        BY <1>11, <4>1, Zenon DEF DriverInv, CallTypes, Wires!Amid
    <3>2. EndsIdle(boot_call)
      BY <1>2, <1>11, Zenon DEF DriverInv, Rests
    <3> QED
      BY <1>5, <2>1, <3>1, <3>2, Zenon
  <2>3. /\ WireTypes'
        /\ d = Wires!NoCall => AtRest'
        /\ d # Wires!NoCall => EndsIdle(d)'
    BY <1>3, <1>4, <1>6, <1>9, <2>2, CallStep, Zenon
  <2>4. dark' = dark
    <3>1. dark \in BOOLEAN
      BY DEF DriverInv, CallTypes
    <3> QED
      BY <1>2, <1>11, <3>1
  <2>5. boot_call' = d /\ (Wires!Amid' <=> d # Wires!NoCall)
    BY <1>2, <1>8, <1>9, Zenon
  <2>6. boot' = IF d = Wires!NoCall THEN 2 ELSE 1
    BY <1>2, <2>5, Zenon
  <2>7. CallTypes'
    <3>1. d = Wires!NoCall \/ At(d, q)
      BY <1>6, <1>9, <2>2, GoesOn, Zenon
    <3>2. /\ boot' \in 0..3 /\ wired' \in BOOLEAN /\ (wired' <=> boot' # 0)
          /\ on_wires' \in [1..DIGITS -> Byte]
          /\ disturbed' \in BOOLEAN /\ dark' \in BOOLEAN
      BY <1>2, <1>3, <2>4, <2>6 DEF DriverInv, CallTypes
    <3> QED
      BY <1>2, <1>5, <2>5, <2>6, <3>1, <3>2, Zenon DEF CallTypes
  <2>8. Rests'
    <3>1. d # Wires!NoCall => EndsIdle(boot_call)'
      BY <2>3, <2>5, Zenon DEF EndsIdle
    <3>2. wired'
      BY <1>2, <1>3
    <3> QED
      BY <1>2, <2>3, <2>5, <3>1, <3>2, Zenon DEF Rests
  <2>9. Alone'
    <3>1. ~(boot' = 2 /\ Wires!Amid')
      BY <2>5, <2>6
    <3> QED
      BY <1>2, <3>1, Zenon DEF Alone
  <2>10. ASSUME ~dark
         PROVE  /\ d # Wires!NoCall => LightGoes(boot_call)'
                /\ d = Wires!NoCall => on'
                /\ on' = on \/ on' = TRUE
                /\ digits' = digits
    <3>1. LightGoes(c)
      BY <1>11, <2>1, <2>10, Zenon DEF DriverInv, Lit
    <3>2. d # Wires!NoCall => LightGoes(d)'
      BY <1>3, <1>4, <1>9, <3>1, LightCallStep, Zenon
    <3>3. d = Wires!NoCall => on'
      BY <1>3, <1>4, <1>9, <3>1, LightCallStep, Zenon
    <3>4. on' = on \/ on' = TRUE
      BY <1>3, <1>4, <3>1, LightCallStep, Zenon
    <3>5. digits' = digits
      BY <1>3, <1>4, <3>1, LightCallStep, Zenon
    <3>6. d # Wires!NoCall => LightGoes(boot_call)'
      BY <2>5, <3>2, Zenon DEF LightGoes
    <3> QED
      BY <3>3, <3>4, <3>5, <3>6
  <2>11. Lit'
    <3>1. boot' = 1 <=> d # Wires!NoCall
      BY <2>6
    <3>2. ~(boot' = 2 /\ Wires!Amid')
      BY <2>5, <2>6
    <3>3. ~disturbed => ~dark
      BY <1>11 DEF DriverInv, Lit
    <3>4. ~dark' => wired'
      BY <1>2, <1>3
    <3>5. boot' = 1 /\ Wires!Amid' /\ ~dark' => LightGoes(boot_call)'
      BY <2>4, <2>5, <2>10, Zenon
    <3>6. ~dark' /\ ~(boot' = 1 /\ Wires!Amid') => on'
      BY <2>4, <2>5, <2>10, <3>1, Zenon
    <3>7. ~disturbed' => ~dark'
      BY <1>2, <2>4, <3>3
    <3> QED
      BY <1>2, <3>2, <3>4, <3>5, <3>6, <3>7, Zenon DEF Lit
  <2>12. DriverInv'
    BY <2>3, <2>7, <2>8, <2>9, <2>11, Zenon DEF DriverInv
  <2>13. CASE disturbed
    <3>1. disturbed'
      BY <1>2, <2>13
    <3> QED
      BY <2>3, <2>7, <2>12, <3>1, DisturbStep, Zenon
  <2>14. CASE ~disturbed
    <3>1. ~dark
      BY <1>11, <2>14 DEF DriverInv, Lit
    <3>2. Wires!NextDigit = DIGITS + 1 /\ Wires!NextDigit' = DIGITS + 1
      <4>1. 1 # 2
        OBVIOUS
      <4>2. ~(boot' = 2 /\ Wires!Amid')
        BY <2>5, <2>6
      <4> QED
        BY <1>2, <4>1, <4>2, Zenon DEF Wires!NextDigit
    <3>3. CASE on' = on
      BY <1>2, <2>4, <2>10, <2>12, <3>1, <3>2, <3>3 DEF Wires!Abstract!vars
    <3>4. CASE on' = TRUE
      <4>1. Wires!Abstract!light
        BY <1>2, <2>4, <2>10, <3>1, <3>2, <3>4 DEF Wires!Abstract!light
      <4> QED
        BY <2>12, <4>1, Zenon DEF Wires!Abstract!Next
    <3> QED
      BY <2>10, <3>1, <3>3, <3>4
  <2> QED
    BY <2>13, <2>14
<1> QED
  BY <1>10, <1>11

\* The call that shows the banner begins, and goes on.
LEMMA BannerStep ==
  ASSUME DriverInv, boot = 2, Wires!boot_step
  PROVE  DriverInv' /\ (Wires!Abstract!Next \/ UNCHANGED Wires!Abstract!vars)
<1>1. PICK c : c = Wires!BootCall
  OBVIOUS
<1>2. /\ work_call = Wires!NoCall /\ work_call' = Wires!NoCall
      /\ Wires!drive(Wires!next_level(c))
      /\ boot_call' = Wires!advanced(c)
      /\ boot' = IF boot_call' = Wires!NoCall THEN 3 ELSE 2
      /\ IF ~Wires!Amid THEN on_wires' = Banner /\ disturbed' = FALSE
                        ELSE UNCHANGED <<on_wires, disturbed>>
      /\ dark' = dark
      /\ wired' = wired
  <2>1. 2 # 1
    OBVIOUS
  <2>2. /\ work_call = Wires!NoCall /\ work_call' = work_call
        /\ Wires!drive(Wires!next_level(c))
        /\ boot_call' = Wires!advanced(c)
        /\ boot' = IF boot_call' = Wires!NoCall THEN boot + 1 ELSE boot
        /\ IF ~Wires!Amid THEN on_wires' = Banner /\ disturbed' = FALSE
                          ELSE UNCHANGED <<on_wires, disturbed>>
        /\ dark' = (dark /\ ~(boot = 1 /\ ~Wires!Amid))
        /\ wired' = wired
    BY <1>1, Zenon DEF Wires!boot_step
  <2>3. dark \in BOOLEAN
    BY DEF DriverInv, CallTypes
  <2>4. dark' = dark
    BY <2>1, <2>2, <2>3
  <2>5. boot + 1 = 3
    OBVIOUS
  <2> QED
    BY <2>2, <2>4, <2>5, Zenon
<1>3. wired /\ WireTypes
  BY DEF DriverInv, CallTypes
<1>4. Wires!set(Wires!next_level(c))
  BY <1>2, <1>3, Zenon DEF Wires!drive
<1>5. PICK q : q = Wires!tm1637_set_segments(Banner)
  OBVIOUS
<1>6. q \in Seq(Parts) /\ q[Len(q)] = Wires!tm_stop /\ Len(q) > 0
  BY <1>5, CallParts, DisplayConstants, Zenon
<1>b. Banner \in [1..DIGITS -> Byte] /\ Banner \in Texts
  BY DisplayConstants
<1>7. q[1] = Wires!tm_start
  BY <1>5, <1>b, TextParts, Zenon
<1>8. Wires!Amid' <=> Wires!advanced(c) # Wires!NoCall
  BY <1>2, Zenon DEF Wires!Amid
<1>9. PICK d : d = Wires!advanced(c)
  OBVIOUS
<1>10. CASE ~Wires!Amid
  <2>1. c = Wires!begun(q)
    <3>1. boot # 1
      OBVIOUS
    <3> QED
      BY <1>1, <1>5, <1>10, <3>1, Zenon DEF Wires!BootCall
  <2>2. AtRest
    BY <1>2, <1>10, Zenon DEF DriverInv, Rests
  <2>3. /\ WireTypes' /\ AtRest' /\ UNCHANGED <<digits, on>>
        /\ d = Goes(q, 1, 2) /\ d # Wires!NoCall
        /\ At(d, q) /\ 2 \in 1..Len(q[1])
    BY <1>3, <1>4, <1>6, <1>7, <1>9, <2>1, <2>2, FirstLevel, Zenon
  <2>4. /\ boot' = 2 /\ boot_call' = d /\ Wires!Amid'
        /\ on_wires' = Banner /\ disturbed' = FALSE
    BY <1>2, <1>8, <1>9, <1>10, <2>3, Zenon
  <2>5. CallTypes'
    <3>1. /\ boot' \in 0..3 /\ wired' \in BOOLEAN /\ (wired' <=> boot' # 0)
          /\ on_wires' \in [1..DIGITS -> Byte]
          /\ disturbed' \in BOOLEAN /\ dark' \in BOOLEAN
      BY <1>2, <1>3, <1>b, <2>4 DEF DriverInv, CallTypes
    <3> QED
      BY <1>2, <1>5, <2>3, <2>4, <3>1, Zenon DEF CallTypes
  <2>6. Rests'
    <3>1. EndsIdle(boot_call)'
      BY <2>3 DEF EndsIdle, AtRest
    <3> QED
      BY <1>2, <2>3, <3>1, Zenon DEF Rests
  <2>7. Alone'
    <3>1. TextAt(Banner, 1, 2)'
      BY <2>3, DisplayConstants DEF TextAt, InStart, AtRest
    <3>2. 1 \in 1..(DIGITS + 6)
      BY DisplayConstants
    <3>3. TextGoes(boot_call)'
      BY <1>5, <1>b, <2>3, <2>4, <3>1, <3>2, Zenon DEF TextGoes
    <3> QED
      BY <1>2, <3>3, Zenon DEF Alone
  <2>8. Lit'
    <3>1. ~dark => on
      BY DEF DriverInv, Lit
    <3> QED
      BY <1>2, <1>3, <2>3, <2>4, <3>1 DEF Lit
  <2>9. DriverInv'
    BY <2>3, <2>5, <2>6, <2>7, <2>8, Zenon DEF DriverInv
  <2>10. Wires!NextDigit = DIGITS + 1
    BY <1>2, <1>10, Zenon DEF Wires!NextDigit
  <2>11. Wires!NextDigit' = 1
    <3>1. Wires!NextDigit' = Wires!Digit(Goes(q, 1, 2))
      BY <1>2, <2>3, <2>4, Zenon DEF Wires!NextDigit
    <3>2. 1 \in 1..(DIGITS + 6) /\ 2 \in Nat /\ 1 < 6
      BY DisplayConstants
    <3> QED
      BY <3>1, <3>2, DigitAt, Zenon
  <2>12. Wires!NextDigit > DIGITS
    BY <2>10, DisplayConstants
  <2>13. on \/ dark
    BY DEF DriverInv, Lit
  <2>14. Wires!Abstract!begin
    BY <1>2, <1>b, <2>3, <2>4, <2>11, <2>12, <2>13, Zenon
       DEF Wires!Abstract!begin, Wires!Abstract!Contents, Byte
  <2> QED
    BY <2>9, <2>14, Zenon DEF Wires!Abstract!Next
<1>11. CASE Wires!Amid
  <2>1. c = boot_call
    BY <1>1, <1>11, Zenon DEF Wires!BootCall
  <2>2. At(c, q) /\ EndsIdle(c)
    <3>1. At(boot_call, Wires!tm1637_set_segments(Banner))
      <4>1. 1 # 2
        OBVIOUS
      <4> QED
        BY <1>11, <4>1, Zenon DEF DriverInv, CallTypes, Wires!Amid
    <3>2. EndsIdle(boot_call)
      BY <1>2, <1>11, Zenon DEF DriverInv, Rests
    <3> QED
      BY <1>5, <2>1, <3>1, <3>2, Zenon
  <2>3. /\ WireTypes'
        /\ d = Wires!NoCall => AtRest'
        /\ d # Wires!NoCall => EndsIdle(d)'
    BY <1>3, <1>4, <1>6, <1>9, <2>2, CallStep, Zenon
  <2>4. on_wires' = on_wires /\ disturbed' = disturbed
    BY <1>2, <1>11, Zenon
  <2>5. boot_call' = d /\ (Wires!Amid' <=> d # Wires!NoCall)
    BY <1>2, <1>8, <1>9, Zenon
  <2>6. boot' = IF d = Wires!NoCall THEN 3 ELSE 2
    BY <1>2, <2>5, Zenon
  <2>7. CallTypes'
    <3>1. d = Wires!NoCall \/ At(d, q)
      BY <1>6, <1>9, <2>2, GoesOn, Zenon
    <3>2. /\ boot' \in 0..3 /\ wired' \in BOOLEAN /\ (wired' <=> boot' # 0)
          /\ on_wires' \in [1..DIGITS -> Byte]
          /\ disturbed' \in BOOLEAN /\ dark' \in BOOLEAN
      BY <1>2, <1>3, <2>4, <2>6 DEF DriverInv, CallTypes
    <3> QED
      BY <1>2, <1>5, <2>5, <2>6, <3>1, <3>2, Zenon DEF CallTypes
  <2>8. Rests'
    <3>1. d # Wires!NoCall => EndsIdle(boot_call)'
      BY <2>3, <2>5, Zenon DEF EndsIdle
    <3>2. wired'
      BY <1>2, <1>3
    <3> QED
      BY <1>2, <2>3, <2>5, <3>1, <3>2, Zenon DEF Rests
  <2>9. ASSUME ~disturbed
        PROVE  /\ d # Wires!NoCall => TextGoes(boot_call)'
               /\ on' = on
               /\ \/ digits' = digits /\ After(c) = Wires!Digit(c)
                  \/ /\ Wires!Digit(c) \in 1..DIGITS
                     /\ digits' = [digits EXCEPT ![Wires!Digit(c)] = on_wires[Wires!Digit(c)]]
                     /\ After(c) = Wires!Digit(c) + 1
    <3>1. TextGoes(c)
      BY <1>2, <1>11, <2>1, <2>9, Zenon DEF DriverInv, Alone
    <3>2. d # Wires!NoCall => TextGoes(d)'
      BY <1>3, <1>4, <1>9, <2>4, <3>1, TextCallStep, Zenon
    <3>3. on' = on
      BY <1>3, <1>4, <2>4, <3>1, TextCallStep, Zenon
    <3>4. \/ digits' = digits /\ After(c) = Wires!Digit(c)
          \/ /\ Wires!Digit(c) \in 1..DIGITS
             /\ digits' = [digits EXCEPT ![Wires!Digit(c)] = on_wires[Wires!Digit(c)]]
             /\ After(c) = Wires!Digit(c) + 1
      BY <1>3, <1>4, <2>4, <3>1, TextCallStep, Zenon
    <3>5. d # Wires!NoCall => TextGoes(boot_call)'
      BY <2>5, <3>2, Zenon DEF TextGoes
    <3> QED
      BY <3>3, <3>4, <3>5
  <2>10. Alone'
    BY <1>2, <2>4, <2>5, <2>9, Zenon DEF Alone
  <2>11. Lit'
    <3>1. boot' # 1
      BY <2>6
    <3>2. ~dark => ~disturbed /\ on
      BY <1>11 DEF DriverInv, Lit
    <3>3. ~dark => on'
      <4>1. ~dark => on' = on
        BY <2>9, <3>2, Zenon
      <4> QED
        BY <3>2, <4>1
    <3> QED
      BY <1>2, <1>3, <2>4, <3>1, <3>2, <3>3, Zenon DEF Lit
  <2>12. DriverInv'
    BY <2>3, <2>7, <2>8, <2>10, <2>11, Zenon DEF DriverInv
  <2>13. CASE disturbed
    <3>1. disturbed'
      BY <2>4, <2>13
    <3> QED
      BY <2>3, <2>7, <2>12, <3>1, DisturbStep, Zenon
  <2>14. CASE ~disturbed
    <3>1. Wires!NextDigit = Wires!Digit(c)
      BY <1>2, <1>11, <2>1, Zenon DEF Wires!NextDigit
    <3>2. Wires!NextDigit' = After(c)
      <4>1. CASE d = Wires!NoCall
        BY <1>2, <1>9, <2>5, <4>1, Zenon DEF Wires!NextDigit, After
      <4>2. CASE d # Wires!NoCall
        <5>1. boot' = 2 /\ Wires!Amid'
          BY <2>5, <2>6, <4>2
        <5> QED
          BY <1>2, <1>9, <2>5, <4>2, <5>1, Zenon DEF Wires!NextDigit, After
      <4> QED
        BY <4>1, <4>2
    <3>3. CASE digits' = digits /\ After(c) = Wires!Digit(c)
      BY <1>2, <2>4, <2>9, <2>12, <2>14, <3>1, <3>2, <3>3 DEF Wires!Abstract!vars
    <3>4. CASE /\ Wires!Digit(c) \in 1..DIGITS
               /\ digits' = [digits EXCEPT ![Wires!Digit(c)] = on_wires[Wires!Digit(c)]]
               /\ After(c) = Wires!Digit(c) + 1
      <4>1. Wires!NextDigit <= DIGITS
        BY <3>1, <3>4, DisplayConstants
      <4>2. Wires!Abstract!put
        BY <1>2, <2>4, <2>9, <2>14, <3>1, <3>2, <3>4, <4>1, Zenon DEF Wires!Abstract!put
      <4> QED
        BY <2>12, <4>2, Zenon DEF Wires!Abstract!Next
    <3> QED
      BY <2>9, <2>14, <3>3, <3>4, Zenon
  <2> QED
    BY <2>13, <2>14
<1> QED
  BY <1>10, <1>11

\* The steps of the run.
LEMMA WireSteps ==
  ASSUME [Next]_vars
  PROVE  [Wires!Next]_(Wires!vars)
BY DEF Next, vars, capture_step, settings_step, health_step, boot_step, display_step,
       text_step, latency_step, display_vars, Wires!vars, Wires!driver_vars,
       Wires!chip_vars, Wires!history

\* What no call does changes nothing.
LEMMA WiresRest ==
  ASSUME DriverInv, UNCHANGED Wires!vars
  PROVE  DriverInv' /\ UNCHANGED Wires!Abstract!vars
<1>1. UNCHANGED <<boot, boot_call, work_call, wired, clk, dio, message, command, bits, ptr,
                  digits, on, on_wires, disturbed, dark>>
  BY DEF Wires!vars, Wires!driver_vars, Wires!chip_vars, Wires!history
<1>2. WireTypes'
  BY <1>1 DEF DriverInv, WireTypes
<1>3. CallTypes'
  BY <1>1, Zenon DEF DriverInv, CallTypes
<1>4. Rests'
  BY <1>1, Zenon DEF DriverInv, Rests, AtRest, EndsIdle, Wires!Amid
<1>5. \A l : (InStart(l)' <=> InStart(l)) /\ (InStop(l)' <=> InStop(l))
  BY <1>1, Zenon DEF InStart, InStop, AtRest
<1>6. \A b, l : InByte(b, l)' <=> InByte(b, l)
  BY <1>1 DEF InByte
<1>7. \A t, p, l : TextAt(t, p, l)' <=> TextAt(t, p, l)
  <2>1. command' = command /\ ptr' = ptr
    BY <1>1
  <2> QED
    BY <1>5, <1>6, <2>1 DEF TextAt
<1>8. \A p, l : LightAt(p, l)' <=> LightAt(p, l)
  BY <1>1, <1>5, <1>6 DEF LightAt
<1>9. /\ TextGoes(work_call) => TextGoes(work_call)'
      /\ TextGoes(boot_call) => TextGoes(boot_call)'
  BY <1>1, <1>7, Zenon DEF TextGoes
<1>10. LightGoes(boot_call) => LightGoes(boot_call)'
  BY <1>1, <1>8, Zenon DEF LightGoes
<1>11. Alone'
  BY <1>1, <1>9, Zenon DEF DriverInv, Alone, Wires!Amid
<1>12. Lit'
  BY <1>1, <1>10, Zenon DEF DriverInv, Lit, Wires!Amid
<1>13. Wires!NextDigit' = Wires!NextDigit
  BY <1>1, Zenon DEF Wires!NextDigit, Wires!Amid
<1> QED
  BY <1>1, <1>2, <1>3, <1>4, <1>11, <1>12, <1>13 DEF DriverInv, Wires!Abstract!vars

\* The driver at reset.
LEMMA WireInit ==
  ASSUME Wires!Init
  PROVE  DriverInv /\ Wires!Abstract!Init
<1>0. DIGITS \in 0..16
  BY DisplayConstants
<1>1. /\ boot = 0 /\ boot_call = Wires!NoCall /\ work_call = Wires!NoCall /\ wired = FALSE
      /\ clk = 1 /\ dio = 1 /\ message = FALSE /\ command = -1 /\ bits = <<>> /\ ptr = 0
      /\ digits = [i \in 1..DIGITS |-> 0] /\ on = FALSE
      /\ on_wires = digits /\ disturbed = TRUE /\ dark = TRUE
  BY DEF Wires!Init, Wires!None
<1>2. WireTypes
  <2>1. bits \in Seq({0, 1}) /\ Len(bits) <= 8
    BY <1>1
  <2>2. digits \in [1..DIGITS -> Byte]
    BY <1>1 DEF Byte
  <2>3. /\ clk \in {0, 1} /\ dio \in {0, 1} /\ message \in BOOLEAN
        /\ command \in -1..255 /\ ptr \in 0..15 /\ on \in BOOLEAN
    <3>1. /\ 0 \in {0, 1} /\ 1 \in {0, 1} /\ -1 \in -1..255 /\ 0 \in 0..15
          /\ FALSE \in BOOLEAN
      OBVIOUS
    <3> QED
      BY <1>1, <3>1, Zenon
  <2> QED
    BY <2>1, <2>2, <2>3 DEF WireTypes
<1>3. on_wires \in [1..DIGITS -> Byte]
  BY <1>1 DEF Byte
<1>4. CallTypes
  <2>1. /\ boot \in 0..3 /\ wired \in BOOLEAN /\ (wired <=> boot # 0)
        /\ disturbed \in BOOLEAN /\ dark \in BOOLEAN
    <3>1. 0 \in 0..3 /\ TRUE \in BOOLEAN /\ FALSE \in BOOLEAN
      OBVIOUS
    <3> QED
      BY <1>1, <3>1, Zenon
  <2> QED
    BY <1>1, <1>3, <2>1, Zenon DEF CallTypes
<1>5. AtRest
  BY <1>1 DEF AtRest
<1>6. Rests /\ Alone /\ Lit
  BY <1>1, <1>5 DEF Rests, Alone, Lit, Wires!Amid
<1>7. Wires!NextDigit = DIGITS + 1
  <2>1. 0 # 2
    OBVIOUS
  <2> QED
    BY <1>1, <2>1, Zenon DEF Wires!NextDigit, Wires!Amid
<1>8. DIGITS + 1 \in 1..(DIGITS + 1)
  BY <1>0
<1>9. Wires!Abstract!TypeOK
  <2>1. on \in BOOLEAN /\ disturbed \in BOOLEAN /\ dark \in BOOLEAN
    BY <1>1
  <2>2. digits \in [1..DIGITS -> Byte]
    BY <1>1 DEF Byte
  <2> QED
    BY <1>3, <1>7, <1>8, <2>1, <2>2, Zenon DEF Wires!Abstract!TypeOK, Wires!Abstract!Contents, Byte
<1>10. Wires!Abstract!Init
  BY <1>1, <1>7, <1>9, Zenon DEF Wires!Abstract!Init
<1> QED
  BY <1>2, <1>4, <1>6, <1>10 DEF DriverInv

\* Each step of the driver is one the display promises, or changes nothing
\* there.
LEMMA WireStep ==
  ASSUME DriverInv, [Wires!Next]_(Wires!vars)
  PROVE  DriverInv' /\ [Wires!Abstract!Next]_(Wires!Abstract!vars)
<1>1. CASE Wires!tm1637_init
  BY <1>1, PinsStep, Zenon
<1>2. CASE Wires!boot_step
  <2>1. boot = 1 \/ boot = 2
    BY <1>2 DEF Wires!boot_step
  <2> QED
    BY <1>2, <2>1, LightingStep, BannerStep, Zenon
<1>3. ASSUME NEW t \in Texts, Wires!rx_call(t)
      PROVE  DriverInv' /\ Wires!Abstract!Next
  BY <1>3, RxCallStep, Zenon
<1>4. CASE Wires!rx_step
  BY <1>4, RxStep, Zenon
<1>5. CASE UNCHANGED Wires!vars
  BY <1>5, WiresRest, Zenon
<1> QED
  BY <1>1, <1>2, <1>3, <1>4, <1>5, Zenon DEF Wires!Next

\* The driver implements the display it promises, level by level on the two
\* wires: whatever the boot and the workqueue did to each other's calls before,
\* a call that has the wires to itself puts the digits of its text on, one by
\* one from the left, each with all its bits (tm1637_set_segments,
\* output_svc_rx).
THEOREM DriverShows == Spec => Shows
<1>1. Init => DriverInv /\ Wires!Abstract!Init
  BY WireInit DEF Init
<1>2. DriverInv /\ [Next]_vars => DriverInv' /\ [Wires!Abstract!Next]_(Wires!Abstract!vars)
  BY WireSteps, WireStep, Zenon
<1> QED
  BY <1>1, <1>2, PTL DEF Spec, Shows, Wires!Shows, Wires!Abstract!Spec

-----------------------------------------------------------------------------
(* The text of the display *)

\* The rows of the segment table, and patterns without the dot.
Row == 1..29
Patterns == 0..127

\* The characters of the table: letters and digits, and the signs.
Letters == {"0", "1", "2", "3", "4", "S", "6", "7", "8", "9", "C", "L", "E", "n", "F",
            "H", "o", "A", "b", "d", "r", "I", "P", "t", "u", "x"}

Signs(a, b, c, d, e) ==
  /\ a # b /\ a # c /\ a # d /\ a # e /\ b # c /\ b # d /\ b # e /\ c # d /\ c # e
  /\ d # e
  /\ a \notin Letters /\ b \notin Letters /\ c \notin Letters /\ d \notin Letters
  /\ e \notin Letters

\* No sign is another one, or a letter.
LEMMA SignsDiffer == Signs("_", "-", "*", " ", ".")
BY Zenon DEF Signs, Letters

\* The segment table: no pattern and no character has two rows, and no
\* character is the dot, or the 'x' of the hexadecimal notation.
LEMMA Table ==
  /\ DOMAIN Text!map = Row
  /\ \A i, j \in Row : Text!map[i][1] = Text!map[j][1] => i = j
  /\ \A i, j \in Row : Text!map[i][2] = Text!map[j][2] => i = j
  /\ \A i \in Row : Text!map[i][1] \in Patterns
  /\ \A i \in Row : Text!map[i][2] # "." /\ Text!map[i][2] # "x"
  /\ Text!map[29][1] = 0 /\ Text!map[29][2] = " "
<1> DEFINE seg(i) == Text!map[i][1]
<1> DEFINE chr(i) == Text!map[i][2]
<1>1. DOMAIN Text!map = Row
  BY DEF Text!map, Row
<1>2. /\ seg(1) = 63 /\ seg(2) = 6 /\ seg(3) = 91 /\ seg(4) = 79 /\ seg(5) = 102
      /\ seg(6) = 109 /\ seg(7) = 125 /\ seg(8) = 7 /\ seg(9) = 127 /\ seg(10) = 111
      /\ seg(11) = 57 /\ seg(12) = 56 /\ seg(13) = 8 /\ seg(14) = 121 /\ seg(15) = 84
      /\ seg(16) = 113 /\ seg(17) = 118 /\ seg(18) = 92 /\ seg(19) = 119 /\ seg(20) = 124
      /\ seg(21) = 94 /\ seg(22) = 80 /\ seg(23) = 48 /\ seg(24) = 115 /\ seg(25) = 120
      /\ seg(26) = 64 /\ seg(27) = 62 /\ seg(28) = 42 /\ seg(29) = 0
  BY DEF Text!map
<1>3. /\ chr(1) = "0" /\ chr(2) = "1" /\ chr(3) = "2" /\ chr(4) = "3"
      /\ chr(5) = "4" /\ chr(6) = "S" /\ chr(7) = "6" /\ chr(8) = "7"
      /\ chr(9) = "8" /\ chr(10) = "9" /\ chr(11) = "C" /\ chr(12) = "L"
      /\ chr(13) = "_" /\ chr(14) = "E" /\ chr(15) = "n" /\ chr(16) = "F"
      /\ chr(17) = "H" /\ chr(18) = "o" /\ chr(19) = "A" /\ chr(20) = "b"
      /\ chr(21) = "d" /\ chr(22) = "r" /\ chr(23) = "I" /\ chr(24) = "P"
      /\ chr(25) = "t" /\ chr(26) = "-" /\ chr(27) = "u" /\ chr(28) = "*"
      /\ chr(29) = " "
  BY DEF Text!map
<1> HIDE DEF seg, chr
<1>4. /\ chr(1) = "0" /\ chr(2) = "1" /\ chr(3) = "2" /\ chr(4) = "3"
      /\ chr(5) = "4" /\ chr(6) = "S" /\ chr(7) = "6" /\ chr(8) = "7"
      /\ chr(9) = "8" /\ chr(10) = "9" /\ chr(11) = "C" /\ chr(12) = "L"
      /\ chr(14) = "E" /\ chr(15) = "n" /\ chr(16) = "F" /\ chr(17) = "H"
      /\ chr(18) = "o" /\ chr(19) = "A" /\ chr(20) = "b" /\ chr(21) = "d"
      /\ chr(22) = "r" /\ chr(23) = "I" /\ chr(24) = "P" /\ chr(25) = "t"
      /\ chr(27) = "u"
  BY <1>3, Zenon
<1>5. \A i, j \in Row : seg(i) = seg(j) => i = j
  BY <1>2, SMTT(60) DEF Row
<1>6. /\ \A i, j \in Row : chr(i) = chr(j) => i = j
      /\ \A i \in Row : chr(i) # "." /\ chr(i) # "x"
  <2>0. PICK a, b, c, d, e :
          /\ a = "_" /\ b = "-" /\ c = "*" /\ d = " " /\ e = "."
          /\ Signs(a, b, c, d, e)
    BY SignsDiffer, Zenon
  <2>s. Signs(a, b, c, d, e)
    BY <2>0, Zenon
  <2> DEFINE row(i, x) ==
        \/ (x = "0" /\ i = 1) \/ (x = "1" /\ i = 2) \/ (x = "2" /\ i = 3)
        \/ (x = "3" /\ i = 4) \/ (x = "4" /\ i = 5) \/ (x = "S" /\ i = 6)
        \/ (x = "6" /\ i = 7) \/ (x = "7" /\ i = 8) \/ (x = "8" /\ i = 9)
        \/ (x = "9" /\ i = 10) \/ (x = "C" /\ i = 11) \/ (x = "L" /\ i = 12)
        \/ (x = a /\ i = 13) \/ (x = "E" /\ i = 14) \/ (x = "n" /\ i = 15)
        \/ (x = "F" /\ i = 16) \/ (x = "H" /\ i = 17) \/ (x = "o" /\ i = 18)
        \/ (x = "A" /\ i = 19) \/ (x = "b" /\ i = 20) \/ (x = "d" /\ i = 21)
        \/ (x = "r" /\ i = 22) \/ (x = "I" /\ i = 23) \/ (x = "P" /\ i = 24)
        \/ (x = "t" /\ i = 25) \/ (x = b /\ i = 26) \/ (x = "u" /\ i = 27)
        \/ (x = c /\ i = 28) \/ (x = d /\ i = 29)
  <2>1. \A i \in Row : row(i, chr(i))
    <3>1. chr(13) = a /\ chr(26) = b /\ chr(28) = c /\ chr(29) = d
      BY <1>3, <2>0, Zenon
    <3> QED
      BY <1>4, <3>1, SMT DEF Row
  <2>2. \A i, j, x : row(i, x) /\ row(j, x) => i = j
    BY <2>s, SMT DEF Signs, Letters
  <2>3. \A i, x : row(i, x) => x # e /\ x # "x"
    BY <2>s, SMT DEF Signs, Letters
  <2> HIDE DEF row
  <2> QED
    BY <2>0, <2>1, <2>2, <2>3, Zenon
<1>7. \A i \in Row : seg(i) \in Patterns
  BY <1>2, SMTT(60) DEF Row, Patterns
<1> QED
  <2>1. seg(29) = 0 /\ chr(29) = " "
    BY <1>2, <1>3
  <2> QED
    BY <1>1, <1>5, <1>6, <1>7, <2>1, Zenon DEF seg, chr

\* What is mostly used of the rows.
LEMMA Rows ==
  /\ DOMAIN Text!map = Row
  /\ \A i, j \in Row : Text!map[i][1] = Text!map[j][1] => i = j
  /\ \A i, j \in Row : Text!map[i][2] = Text!map[j][2] => i = j
  /\ \A i \in Row : Text!map[i][1] \in Patterns
BY Table, Zenon

\* No row has the dot or the 'x', and the last one is the blank.
LEMMA RowSigns ==
  /\ \A i \in Row : Text!map[i][2] # "." /\ Text!map[i][2] # "x"
  /\ Text!map[29][1] = 0 /\ Text!map[29][2] = " "
BY Table, Zenon

\* A known pattern has the character of its row.
LEMMA ToAscii ==
  ASSUME NEW p, Text!Known(p)
  PROVE  \E i \in Row : Text!map[i][1] = p /\ Text!seg7_to_ascii(p) = Text!map[i][2]
<1>1. PICK i \in Row : Text!map[i][1] = p
  BY Rows DEF Text!Known, Text!Entries
<1>2. Text!first(i, 1, p)
  <2>1. \A j \in 1..(i - 1) : j \in Row /\ j # i
    BY DEF Row
  <2> QED
    BY <1>1, <2>1, Rows DEF Text!first
<1>3. \A j \in DOMAIN Text!map : Text!first(j, 1, p) => j = i
  BY <1>1, Rows DEF Text!first
<1>4. (CHOOSE j \in DOMAIN Text!map : Text!first(j, 1, p)) = i
  BY <1>2, <1>3, Rows
<1> QED
  BY <1>1, <1>4 DEF Text!seg7_to_ascii

\* What is typed becomes a segment pattern without the dot.
LEMMA FromAscii == \A x : Text!seg7_from_ascii(x) \in Patterns
<1> SUFFICES ASSUME NEW x PROVE Text!seg7_from_ascii(x) \in Patterns
  OBVIOUS
<1>1. PICK y : y = IF x = "5" THEN "S" ELSE x
  OBVIOUS
<1>2. CASE \E e \in Text!Entries : e[2] = y
  <2>1. PICK i \in Row : Text!map[i][2] = y
    BY <1>2, Rows DEF Text!Entries
  <2>2. Text!first(i, 2, y)
    <3>1. \A j \in 1..(i - 1) : j \in Row /\ j # i
      BY DEF Row
    <3> QED
      BY <2>1, <3>1, Rows DEF Text!first
  <2>3. (CHOOSE j \in DOMAIN Text!map : Text!first(j, 2, y)) \in Row
    BY <2>2, Rows
  <2>4. Text!seg7_from_ascii(x)
          = Text!map[CHOOSE j \in DOMAIN Text!map : Text!first(j, 2, y)][1]
    BY <1>1, <1>2, Zenon DEF Text!seg7_from_ascii
  <2> QED
    BY <2>3, <2>4, Rows
<1>3. CASE ~\E e \in Text!Entries : e[2] = y
  <2>1. Text!seg7_from_ascii(x) = 0
    BY <1>1, <1>3, Zenon DEF Text!seg7_from_ascii
  <2> QED
    BY <2>1 DEF Patterns
<1> QED
  BY <1>2, <1>3

\* The two hexadecimal digits of a pattern.
Upper(p) == Text!Hex[(p \div 16) + 1]
Lower(p) == Text!Hex[(p % 16) + 1]

\* They tell it from the others.
LEMMA HexTells ==
  \A p, q \in Patterns : Upper(p) = Upper(q) /\ Lower(p) = Lower(q) => p = q
<1> DEFINE chr(i) == Text!Hex[i]
<1>1. /\ chr(1) = "0" /\ chr(2) = "1" /\ chr(3) = "2" /\ chr(4) = "3"
      /\ chr(5) = "4" /\ chr(6) = "5" /\ chr(7) = "6" /\ chr(8) = "7"
      /\ chr(9) = "8" /\ chr(10) = "9" /\ chr(11) = "A" /\ chr(12) = "B"
      /\ chr(13) = "C" /\ chr(14) = "D" /\ chr(15) = "E" /\ chr(16) = "F"
  BY DEF Text!Hex
<1> HIDE DEF chr
<1>3. \A i, j \in 1..16 : chr(i) = chr(j) => i = j
  <2> DEFINE row(i, x) ==
        \/ (x = "0" /\ i = 1) \/ (x = "1" /\ i = 2) \/ (x = "2" /\ i = 3)
        \/ (x = "3" /\ i = 4) \/ (x = "4" /\ i = 5) \/ (x = "5" /\ i = 6)
        \/ (x = "6" /\ i = 7) \/ (x = "7" /\ i = 8) \/ (x = "8" /\ i = 9)
        \/ (x = "9" /\ i = 10) \/ (x = "A" /\ i = 11) \/ (x = "B" /\ i = 12)
        \/ (x = "C" /\ i = 13) \/ (x = "D" /\ i = 14) \/ (x = "E" /\ i = 15)
        \/ (x = "F" /\ i = 16)
  <2>1. \A i \in 1..16 : row(i, chr(i))
    BY <1>1, SMTT(60)
  <2>2. \A i, j, x : row(i, x) /\ row(j, x) => i = j
    BY SMTT(60)
  <2> HIDE DEF row
  <2> QED
    BY <2>1, <2>2, Zenon
<1>5. \A p \in Patterns : /\ (p \div 16) + 1 \in 1..16 /\ (p % 16) + 1 \in 1..16
                        /\ p = 16 * (p \div 16) + (p % 16)
  BY DEF Patterns
<1>6. ASSUME NEW p \in Patterns, NEW q \in Patterns,
             chr((p \div 16) + 1) = chr((q \div 16) + 1), chr((p % 16) + 1) = chr((q % 16) + 1)
      PROVE  p = q
  <2>1. (p \div 16) + 1 = (q \div 16) + 1 /\ (p % 16) + 1 = (q % 16) + 1
    BY <1>3, <1>5, <1>6
  <2>2. p \div 16 = q \div 16 /\ p % 16 = q % 16
    BY <2>1 DEF Patterns
  <2> QED
    BY <1>5, <2>2
<1> QED
  BY <1>6 DEF chr, Upper, Lower

\* The characters of a text.
Chars == {Text!map[i][2] : i \in Row} \cup {Text!Hex[i] : i \in 1..16}
         \cup {".", "0", "x"}

\* The rows, the digits and the marks are among them.
LEMMA CharsHold ==
  /\ \A i \in Row : Text!map[i][2] \in Chars
  /\ \A p \in Patterns : Upper(p) \in Chars /\ Lower(p) \in Chars
  /\ "." \in Chars /\ "0" \in Chars /\ "x" \in Chars
<1>1. \A p \in Patterns : (p \div 16) + 1 \in 1..16 /\ (p % 16) + 1 \in 1..16
  BY DEF Patterns
<1> QED
  BY <1>1, Zenon DEF Chars, Upper, Lower

\* How the text g shows pattern p, with a dot or without.
Shape(p, dot, g) ==
  /\ g \in Seq(Chars)
  /\ Text!Known(p) =>
       /\ Len(g) = IF dot THEN 2 ELSE 1
       /\ \E i \in Row : Text!map[i][1] = p /\ g[1] = Text!map[i][2]
       /\ dot => g[2] = "."
  /\ ~Text!Known(p) =>
       /\ Len(g) = IF dot THEN 5 ELSE 4
       /\ g[1] = "0" /\ g[2] = "x" /\ g[3] = Upper(p) /\ g[4] = Lower(p)
       /\ dot => g[5] = "."

\* A text that does not continue the one before it: it begins with neither a
\* dot nor an 'x'.
Opens(r) == r \in Seq(Chars) /\ (Len(r) >= 1 => r[1] # "." /\ r[1] # "x")

\* A sequence of one, and one of four.
LEMMA ShortTexts ==
  /\ \A S : \A e \in S : <<e>> \in Seq(S) /\ Len(<<e>>) = 1 /\ <<e>>[1] = e
  /\ \A S : \A e, f, g, h \in S :
       /\ <<e, f, g, h>> \in Seq(S) /\ Len(<<e, f, g, h>>) = 4
       /\ <<e, f, g, h>>[1] = e /\ <<e, f, g, h>>[2] = f
       /\ <<e, f, g, h>>[3] = g /\ <<e, f, g, h>>[4] = h
  /\ \A S : <<>> \in Seq(S) /\ Len(<<>>) = 0
OBVIOUS

\* A segment byte: its pattern, and its dot.
Plain(s) == s % 128
HasDot(s) == s >= 128

\* Every glyph has its shape.
LEMMA GlyphShape ==
  ASSUME NEW s \in Byte
  PROVE  \E dot \in BOOLEAN : (dot <=> HasDot(s)) /\ Shape(Plain(s), dot, Text!glyph(s))
<1> SUFFICES /\ HasDot(s) => Shape(Plain(s), TRUE, Text!glyph(s))
             /\ ~(HasDot(s)) => Shape(Plain(s), FALSE, Text!glyph(s))
  BY Zenon
<1>1. PICK p \in Patterns : p = Plain(s)
  BY DEF Byte, Patterns, Plain
<1>2. PICK d : d = IF HasDot(s) THEN <<".">> ELSE <<>>
  OBVIOUS
<1>3. /\ d \in Seq(Chars) /\ (HasDot(s) => Len(d) = 1 /\ d[1] = ".")
      /\ ~(HasDot(s)) => Len(d) = 0
  <2>1. CASE HasDot(s)
    BY <1>2, <2>1, CharsHold, ShortTexts, Zenon
  <2>2. CASE ~(HasDot(s))
    BY <1>2, <2>2, CharsHold, ShortTexts, Zenon
  <2> QED
    BY <2>1, <2>2, Zenon
<1>4. CASE Text!Known(p)
  <2>1. PICK i \in Row : Text!map[i][1] = p /\ Text!seg7_to_ascii(p) = Text!map[i][2]
    BY <1>4, ToAscii
  <2>2. PICK e \in Chars : e = Text!map[i][2]
    BY CharsHold
  <2>3. PICK h \in Seq(Chars) : h = <<e>> /\ Len(h) = 1 /\ h[1] = e
    BY ShortTexts, Zenon
  <2>4. PICK g : g = h \o d
    OBVIOUS
  <2>5. Text!glyph(s) = g
    BY <1>1, <1>2, <1>4, <2>1, <2>2, <2>3, <2>4, Zenon DEF Text!glyph, Plain, HasDot
  <2>6. Joins(Chars, g, h, d)
    BY <1>3, <2>3, <2>4, Joined, Zenon
  <2>7. /\ g \in Seq(Chars) /\ Len(g) = (IF HasDot(s) THEN 2 ELSE 1)
        /\ g[1] = e /\ (HasDot(s) => g[2] = ".")
    BY <1>3, <2>3, <2>6 DEF Joins
  <2> QED
    BY <1>1, <1>4, <2>1, <2>2, <2>5, <2>7, Zenon DEF Shape
<1>5. CASE ~Text!Known(p)
  <2>1. PICK u \in Chars, v \in Chars, o \in Chars, x \in Chars :
          u = Upper(p) /\ v = Lower(p) /\ o = "0" /\ x = "x"
    BY CharsHold, Zenon
  <2>2. PICK h : h = <<o, x, u, v>>
    OBVIOUS
  <2>3. /\ h \in Seq(Chars) /\ Len(h) = 4
        /\ h[1] = o /\ h[2] = x /\ h[3] = u /\ h[4] = v
    BY <2>2, ShortTexts, Zenon
  <2>4. PICK g : g = h \o d
    OBVIOUS
  <2>5. Text!glyph(s) = g
    <3>1. Text!hex(p) = h
      BY <2>1, <2>2, Zenon DEF Text!hex, Upper, Lower
    <3> QED
      BY <1>1, <1>2, <1>5, <2>4, <3>1, Zenon DEF Text!glyph, Plain, HasDot
  <2>6. Joins(Chars, g, h, d)
    BY <1>3, <2>3, <2>4, Joined, Zenon
  <2>7. /\ g \in Seq(Chars) /\ Len(g) = (IF HasDot(s) THEN 5 ELSE 4)
        /\ g[1] = o /\ g[2] = x /\ g[3] = u /\ g[4] = v
        /\ HasDot(s) => g[5] = "."
    BY <1>3, <2>3, <2>6 DEF Joins
  <2> QED
    BY <1>1, <1>5, <2>1, <2>5, <2>7, Zenon DEF Shape
<1> QED
  BY <1>4, <1>5

\* A glyph opens a text, whatever follows.
LEMMA GlyphOpens ==
  ASSUME NEW p \in Patterns, NEW dot \in BOOLEAN, NEW g, Shape(p, dot, g), NEW r \in Seq(Chars)
  PROVE  Opens(g \o r)
<1>1. g[1] # "." /\ g[1] # "x"
  <2>1. CASE Text!Known(p)
    <3>1. PICK i \in Row : g[1] = Text!map[i][2]
      BY <2>1, Zenon DEF Shape
    <3> QED
      BY <3>1, RowSigns, Zenon
  <2>2. CASE ~Text!Known(p)
    <3>1. g[1] = "0"
      BY <2>2, Zenon DEF Shape
    <3> QED
      BY <3>1, Zenon
  <2> QED
    BY <2>1, <2>2
<1>2. Len(g) >= 1
  BY DEF Shape
<1>3. g \in Seq(Chars)
  BY DEF Shape
<1>4. Joins(Chars, g \o r, g, r)
  BY <1>3, Joined, Zenon
<1>5. g \o r \in Seq(Chars) /\ (g \o r)[1] = g[1]
  BY <1>2, <1>3, <1>4 DEF Joins
<1> QED
  BY <1>1, <1>5, Zenon DEF Opens

\* What is read from a text w that begins with pattern p.
Reads(p, dot, w) ==
  /\ Text!Known(p) <=> ~(Len(w) >= 2 /\ w[2] = "x")
  /\ Text!Known(p) =>
       /\ \E i \in Row : Text!map[i][1] = p /\ w[1] = Text!map[i][2]
       /\ dot <=> (Len(w) >= 2 /\ w[2] = ".")
  /\ ~Text!Known(p) =>
       /\ w[3] = Upper(p) /\ w[4] = Lower(p)
       /\ dot <=> (Len(w) >= 5 /\ w[5] = ".")

\* That is read when nothing continues the glyph.
LEMMA Read ==
  ASSUME NEW p, NEW dot \in BOOLEAN, NEW g, Shape(p, dot, g), NEW r, Opens(r)
  PROVE  Reads(p, dot, g \o r)
<1>1. g \in Seq(Chars) /\ r \in Seq(Chars)
  BY DEF Shape, Opens
<1>2. PICK w : w = g \o r
  OBVIOUS
<1>3. Joins(Chars, w, g, r)
  BY <1>1, <1>2, Joined, Zenon
<1>4. PICK x : x = "x"
  OBVIOUS
<1>5. PICK y : y = "." /\ y # x
  BY <1>4
<1>6. Len(r) \in Nat /\ (Len(r) >= 1 => r[1] # y /\ r[1] # x)
  BY <1>1, <1>4, <1>5 DEF Opens
<1>7. CASE Text!Known(p)
  <2>1. PICK i \in Row : Text!map[i][1] = p /\ g[1] = Text!map[i][2]
    BY <1>7, Zenon DEF Shape
  <2>2. Len(g) = (IF dot THEN 2 ELSE 1) /\ (dot => g[2] = y)
    BY <1>5, <1>7, Zenon DEF Shape
  <2>3. Len(w) = Len(g) + Len(r) /\ w[1] = g[1]
    BY <1>3, <1>6, <2>2 DEF Joins
  <2>4. CASE dot
    <3>1. w[2] = y /\ Len(w) >= 2
      BY <1>3, <1>6, <2>2, <2>3, <2>4 DEF Joins
    <3> QED
      BY <1>2, <1>4, <1>5, <1>7, <2>1, <2>3, <2>4, <3>1, Zenon DEF Reads
  <2>5. CASE ~dot
    <3>1. ~(Len(w) >= 2 /\ w[2] = y) /\ ~(Len(w) >= 2 /\ w[2] = x)
      BY <1>3, <1>6, <2>2, <2>3, <2>5 DEF Joins
    <3> QED
      BY <1>2, <1>4, <1>5, <1>7, <2>1, <2>3, <2>5, <3>1, Zenon DEF Reads
  <2> QED
    BY <2>4, <2>5
<1>8. CASE ~Text!Known(p)
  <2>1. /\ Len(g) = (IF dot THEN 5 ELSE 4) /\ (dot => g[5] = y)
        /\ g[2] = x /\ g[3] = Upper(p) /\ g[4] = Lower(p)
    BY <1>4, <1>5, <1>8, Zenon DEF Shape
  <2>2. Len(w) = Len(g) + Len(r) /\ w[2] = x /\ w[3] = g[3] /\ w[4] = g[4] /\ Len(w) >= 2
    BY <1>3, <1>6, <2>1 DEF Joins
  <2>3. CASE dot
    <3>1. w[5] = y /\ Len(w) >= 5
      BY <1>3, <1>6, <2>1, <2>2, <2>3 DEF Joins
    <3> QED
      BY <1>2, <1>4, <1>5, <1>8, <2>1, <2>2, <2>3, <3>1, Zenon DEF Reads
  <2>4. CASE ~dot
    <3>1. ~(Len(w) >= 5 /\ w[5] = y)
      BY <1>3, <1>6, <2>1, <2>2, <2>4 DEF Joins
    <3> QED
      BY <1>2, <1>4, <1>5, <1>8, <2>1, <2>2, <2>4, <3>1, Zenon DEF Reads
  <2> QED
    BY <2>3, <2>4
<1> QED
  BY <1>7, <1>8

\* The dot is the eighth bit.
LEMMA Dotted ==
  \A s \in Byte : /\ Plain(s) \in Patterns
                  /\ s = IF HasDot(s) THEN Plain(s) + 128 ELSE Plain(s)
BY DEF Byte, Patterns, Plain, HasDot

\* A text is read in one way.
LEMMA Parse ==
  ASSUME NEW s \in Byte, NEW z \in Byte, NEW r, NEW q, Opens(r), Opens(q),
         Text!glyph(s) \o r = Text!glyph(z) \o q
  PROVE  s = z /\ r = q
<1>1. PICK a \in Patterns : a = Plain(s)
  BY Dotted, Zenon
<1>2. PICK b \in Patterns : b = Plain(z)
  BY Dotted, Zenon
<1>3. PICK g : g = Text!glyph(s)
  OBVIOUS
<1>4. PICK h : h = Text!glyph(z)
  OBVIOUS
<1>5. PICK d \in BOOLEAN : (d <=> HasDot(s)) /\ Shape(a, d, g)
  BY <1>1, <1>3, GlyphShape, Zenon
<1>6. PICK e \in BOOLEAN : (e <=> HasDot(z)) /\ Shape(b, e, h)
  BY <1>2, <1>4, GlyphShape, Zenon
<1>7. PICK w : w = g \o r /\ w = h \o q
  BY <1>3, <1>4
<1>8. Reads(a, d, w)
  BY <1>5, <1>7, Read, Zenon
<1>9. Reads(b, e, w)
  BY <1>6, <1>7, Read, Zenon
<1>10. a = b /\ d = e
  <2>1. CASE Text!Known(a)
    <3>1. Text!Known(b)
      BY <1>8, <1>9, <2>1, Zenon DEF Reads
    <3>2. PICK i \in Row : Text!map[i][1] = a /\ w[1] = Text!map[i][2]
      BY <1>8, <2>1, Zenon DEF Reads
    <3>3. PICK j \in Row : Text!map[j][1] = b /\ w[1] = Text!map[j][2]
      BY <1>9, <3>1, Zenon DEF Reads
    <3>4. a = b
      BY <3>2, <3>3, Rows, Zenon
    <3>5. d <=> e
      BY <1>8, <1>9, <2>1, <3>1, Zenon DEF Reads
    <3> QED
      BY <3>4, <3>5
  <2>2. CASE ~Text!Known(a)
    <3>1. ~Text!Known(b)
      BY <1>8, <1>9, <2>2, Zenon DEF Reads
    <3>2. Upper(a) = Upper(b) /\ Lower(a) = Lower(b) /\ (d <=> e)
      BY <1>8, <1>9, <2>2, <3>1, Zenon DEF Reads
    <3> QED
      BY <3>2, HexTells
  <2> QED
    BY <2>1, <2>2
<1>11. s = z
  <2>1. HasDot(s) <=> HasDot(z)
    BY <1>5, <1>6, <1>10, Zenon
  <2>2. Plain(s) = Plain(z)
    BY <1>1, <1>2, <1>10, Zenon
  <2> QED
    BY <2>1, <2>2, Dotted, Zenon
<1>12. r = q
  <2>1. g \in Seq(Chars) /\ r \in Seq(Chars) /\ q \in Seq(Chars)
    BY <1>5, Zenon DEF Shape, Opens
  <2>2. g \o r = g \o q
    BY <1>3, <1>4, <1>7, <1>11, Zenon
  <2> QED
    BY <2>1, <2>2, ConcatSimplifications, Zenon
<1> QED
  BY <1>11, <1>12

\* So is the text of a display field.
LEMMA FieldTells ==
  ASSUME NEW disp \in [1..3 -> Byte]
  PROVE  /\ Len(Text!decode_text(disp)) < 16
         /\ \A field \in [1..3 -> Byte] :
              Text!decode_text(disp) = Text!decode_text(field) => disp = field
<1> DEFINE g(field, i) == Text!glyph(field[i])
<1> DEFINE tail(field) == g(field, 2) \o g(field, 3)
<1>1. ASSUME NEW s \in Byte
      PROVE  /\ Text!glyph(s) \in Seq(Chars) /\ Len(Text!glyph(s)) <= 5
             /\ \A r \in Seq(Chars) : Opens(Text!glyph(s) \o r)
  <2>1. PICK p \in Patterns : p = Plain(s)
    BY DEF Byte, Patterns, Plain
  <2>2. PICK h : h = Text!glyph(s)
    OBVIOUS
  <2>3. PICK dot \in BOOLEAN : Shape(p, dot, h)
    BY <2>1, <2>2, GlyphShape, Zenon
  <2>4. h \in Seq(Chars) /\ Len(h) <= 5
    <3>1. h \in Seq(Chars) /\ (Len(h) = 1 \/ Len(h) = 2 \/ Len(h) = 4 \/ Len(h) = 5)
      BY <2>3, Zenon DEF Shape
    <3>2. PICK k : k = Len(h)
      OBVIOUS
    <3>3. k \in {1, 2, 4, 5}
      BY <3>1, <3>2
    <3>4. k <= 5
      BY <3>3
    <3> QED
      BY <3>1, <3>2, <3>4, Zenon
  <2>5. \A r \in Seq(Chars) : Opens(h \o r)
    BY <2>3, GlyphOpens, Zenon
  <2> QED
    BY <2>2, <2>4, <2>5, Zenon
<1>2. ASSUME NEW field \in [1..3 -> Byte]
      PROVE  /\ g(field, 1) \in Seq(Chars) /\ g(field, 2) \in Seq(Chars)
             /\ g(field, 3) \in Seq(Chars) /\ tail(field) \in Seq(Chars)
             /\ Text!decode_text(field) = g(field, 1) \o tail(field)
             /\ Len(Text!decode_text(field)) <= 15
             /\ Opens(tail(field)) /\ Opens(g(field, 3))
  <2>1. field[1] \in Byte /\ field[2] \in Byte /\ field[3] \in Byte
    OBVIOUS
  <2>2. PICK u \in Seq(Chars), v \in Seq(Chars), w \in Seq(Chars) :
          /\ u = g(field, 1) /\ v = g(field, 2) /\ w = g(field, 3)
          /\ Len(u) <= 5 /\ Len(v) <= 5 /\ Len(w) <= 5
          /\ \A r \in Seq(Chars) : Opens(v \o r) /\ Opens(w \o r)
    BY <1>1, <2>1, Zenon
  <2>3. Text!decode_text(field) = (u \o v) \o w
    BY <2>2, Zenon DEF Text!decode_text
  <2>4. (u \o v) \o w = u \o (v \o w)
    BY ConcatAssociative
  <2>5. Joins(Chars, v \o w, v, w)
    BY Joined, Zenon
  <2>6. v \o w \in Seq(Chars) /\ Len(v \o w) <= 10
    BY <2>2, <2>5 DEF Joins
  <2>7. Joins(Chars, u \o (v \o w), u, v \o w)
    BY <2>6, Joined, Zenon
  <2>8. Len(u \o (v \o w)) <= 15
    <3>1. PICK y \in Seq(Chars) : y = v \o w /\ Len(y) <= 10
      BY <2>6
    <3>2. Joins(Chars, u \o y, u, y)
      BY <2>7, <3>1, Zenon
    <3>3. Len(u \o y) <= 15
      BY <2>2, <3>1, <3>2 DEF Joins
    <3> QED
      BY <3>1, <3>3, Zenon
  <2>9. Opens(v \o w)
    BY <2>2, Zenon
  <2>10. Opens(w)
    <3>1. <<>> \in Seq(Chars) /\ w \o <<>> = w
      BY ShortTexts, ConcatEmptySeq, Zenon
    <3> QED
      BY <2>2, <3>1, Zenon
  <2> QED
    BY <2>2, <2>3, <2>4, <2>6, <2>8, <2>9, <2>10, Zenon
<1>3. Len(Text!decode_text(disp)) < 16
  <2>1. Joins(Chars, Text!decode_text(disp), g(disp, 1), tail(disp))
    BY <1>2, Joined, Zenon
  <2>2. PICK k : k = Len(Text!decode_text(disp))
    OBVIOUS
  <2>3. k \in Nat
    BY <2>1, <2>2 DEF Joins
  <2>4. k <= 15
    BY <1>2, <2>2, Zenon
  <2> QED
    BY <2>2, <2>3, <2>4
<1>4. ASSUME NEW field \in [1..3 -> Byte],
             Text!decode_text(disp) = Text!decode_text(field)
      PROVE  disp = field
  <2>1. /\ disp[1] \in Byte /\ disp[2] \in Byte /\ disp[3] \in Byte
        /\ field[1] \in Byte /\ field[2] \in Byte /\ field[3] \in Byte
    OBVIOUS
  <2>2. disp[1] = field[1] /\ tail(disp) = tail(field)
    <3>1. g(disp, 1) \o tail(disp) = g(field, 1) \o tail(field)
      BY <1>2, <1>4, Zenon
    <3>2. Opens(tail(disp)) /\ Opens(tail(field))
      BY <1>2, Zenon
    <3>3. PICK r : r = tail(disp)
      OBVIOUS
    <3>4. PICK q : q = tail(field)
      OBVIOUS
    <3> HIDE DEF tail
    <3>5. PICK s \in Byte : s = disp[1]
      BY <2>1
    <3>6. PICK z \in Byte : z = field[1]
      BY <2>1
    <3>7. Text!glyph(s) \o r = Text!glyph(z) \o q
      BY <3>1, <3>3, <3>4, <3>5, <3>6, Zenon
    <3>8. Opens(r)
      BY <3>2, <3>3, Zenon
    <3>9. Opens(q)
      BY <3>2, <3>4, Zenon
    <3>10. s = z /\ r = q
      BY <3>7, <3>8, <3>9, Parse, Zenon
    <3> QED
      BY <3>3, <3>4, <3>5, <3>6, <3>10, Zenon
  <2>3. disp[2] = field[2] /\ g(disp, 3) = g(field, 3)
    <3>1. PICK r : r = g(disp, 3) /\ Opens(r)
      BY <1>2, Zenon
    <3>2. PICK q : q = g(field, 3) /\ Opens(q)
      BY <1>2, Zenon
    <3>3. Text!glyph(disp[2]) \o r = Text!glyph(field[2]) \o q
      BY <2>2, <3>1, <3>2, Zenon
    <3>4. disp[2] = field[2] /\ r = q
      <4> HIDE DEF g
      <4>1. PICK s \in Byte : s = disp[2]
        BY <2>1
      <4>2. PICK z \in Byte : z = field[2]
        BY <2>1
      <4>3. Opens(r)
        BY <3>1, Zenon
      <4>4. Opens(q)
        BY <3>2, Zenon
      <4>5. Text!glyph(s) \o r = Text!glyph(z) \o q
        BY <3>3, <4>1, <4>2, Zenon
      <4>6. s = z
        BY <4>3, <4>4, <4>5, Parse, Zenon
      <4>7. r = q
        BY <4>3, <4>4, <4>5, Parse, Zenon
      <4> QED
        BY <4>1, <4>2, <4>6, <4>7, Zenon
    <3> QED
      BY <3>1, <3>2, <3>4, Zenon
  <2>4. disp[3] = field[3]
    <3>1. /\ Text!glyph(disp[3]) \o <<>> = Text!glyph(disp[3])
          /\ Text!glyph(field[3]) \o <<>> = Text!glyph(field[3])
      BY <1>1, <2>1, ConcatEmptySeq, Zenon
    <3>2. Opens(<<>>)
      BY ShortTexts DEF Opens
    <3>3. Text!glyph(disp[3]) \o <<>> = Text!glyph(field[3]) \o <<>>
      BY <2>3, <3>1, Zenon
    <3>4. PICK r : r = <<>> /\ Opens(r) /\ Text!glyph(disp[3]) \o r = Text!glyph(field[3]) \o r
      BY <3>2, <3>3, Zenon
    <3> QED
      BY <2>1, <3>4, Parse, Zenon
  <2> QED
    BY <2>2, <2>3, <2>4
<1> QED
  BY <1>3, <1>4

\* The text, the display field it was made of, and the simulator's.
TextInv ==
  /\ mosi_disp \in [1..3 -> Patterns]
  /\ prev_disp \in [1..3 -> Byte]
  /\ ~text_ready /\ ~text_early => prev_disp = Text!Blank
  /\ Len(text) < 16
  /\ text_ready /\ ~text_early => text = Text!decode_text(prev_disp)

\* Three blanks are shown as three spaces.
LEMMA BlankText ==
  Text!decode_text(Text!Blank) = <<" ", " ", " ">>
<1>1. PICK p : p = 0 /\ p % 128 = p /\ ~(p >= 128)
  OBVIOUS
<1>2. PICK k \in Row : k = 29
  BY DEF Row
<1>3. PICK e : e = " "
  OBVIOUS
<1>4. Text!map[k][1] = p /\ Text!map[k][2] = e /\ k \in DOMAIN Text!map
  BY <1>1, <1>2, <1>3, Rows, RowSigns, Zenon
<1>5. Text!Known(p)
  BY <1>4, Zenon DEF Text!Known, Text!Entries
<1>6. Text!seg7_to_ascii(p) = e
  <2>1. PICK i \in Row : Text!map[i][1] = p /\ Text!seg7_to_ascii(p) = Text!map[i][2]
    BY <1>5, ToAscii, Zenon
  <2> QED
    BY <1>4, <2>1, Rows, Zenon
<1>7. PICK h : h = <<e>> /\ h \in Seq({e}) /\ Len(h) = 1 /\ h[1] = e
  BY ShortTexts
<1>8. Text!glyph(p) = h
  <2>1. Text!glyph(p) = h \o <<>>
    BY <1>1, <1>5, <1>6, <1>7, Zenon DEF Text!glyph
  <2> QED
    BY <1>7, <2>1, ConcatEmptySeq, Zenon
<1>9. (h \o h) \o h = <<e, e, e>>
  <2>1. PICK d : d = h \o h
    OBVIOUS
  <2>2. Joins({e}, d, h, h)
    BY <1>7, <2>1, Joined, Zenon
  <2>3. d \in Seq({e}) /\ Len(d) = 2 /\ d[1] = e /\ d[2] = e
    BY <1>7, <2>2 DEF Joins
  <2>4. PICK b : b = d \o h
    OBVIOUS
  <2>5. Joins({e}, b, d, h)
    BY <1>7, <2>3, <2>4, Joined, Zenon
  <2>6. b \in Seq({e}) /\ Len(b) = 3 /\ b[1] = e /\ b[2] = e /\ b[3] = e
    BY <1>7, <2>3, <2>5 DEF Joins
  <2>7. b = <<e, e, e>>
    BY <2>6
  <2> QED
    BY <2>1, <2>4, <2>7, Zenon
<1>10. Text!Blank[1] = p /\ Text!Blank[2] = p /\ Text!Blank[3] = p
  BY <1>1 DEF Text!Blank
<1> QED
  BY <1>3, <1>8, <1>9, <1>10, Zenon DEF Text!decode_text

\* A field that comes holds bytes.
LEMMA FieldBytes == TextInv => \A disp \in Text!Fields \cup {mosi_disp, prev_disp} :
                                 disp \in [1..3 -> Byte]
<1>1. Segments \subseteq Byte
  BY DispTextAssumption DEF Text!Assumptions, Byte
<1>2. ASSUME NEW disp \in Text!Fields PROVE disp \in [1..3 -> Byte]
  BY <1>1, <1>2 DEF Text!Fields
<1>3. TextInv => mosi_disp \in [1..3 -> Byte] /\ prev_disp \in [1..3 -> Byte]
  BY DEF TextInv, Byte, Patterns
<1> QED
  BY <1>2, <1>3

\* The text begins as TextInv says.
LEMMA DispTextInit == Init => TextInv
BY DEF Init, Text!Init, Text!Blank, TextInv, Byte, Patterns

\* And no step changes that.
LEMMA DispTextStep == TextInv /\ [Next]_vars => TextInv'
<1> SUFFICES ASSUME TextInv, [Next]_vars PROVE TextInv'
  OBVIOUS
<1>1. CASE UNCHANGED text_vars
  BY <1>1 DEF TextInv, text_vars
<1>2. CASE Text!output_svc_init
  <2>1. Len(text') < 16
    <3>1. PICK e : e = " "
      OBVIOUS
    <3>2. text' = <<e, e, e>>
      BY <1>2, <3>1, Zenon DEF Text!output_svc_init
    <3>3. Len(<<e, e, e>>) = 3
      OBVIOUS
    <3> QED
      BY <3>2, <3>3
  <2>2. ~text_early => text' = Text!decode_text(prev_disp)
    BY <1>2, BlankText, Zenon DEF TextInv, Text!output_svc_init
  <2> QED
    BY <1>2, <2>1, <2>2, Zenon DEF TextInv, Text!output_svc_init
<1>3. ASSUME NEW disp \in Text!Fields \cup {mosi_disp}, Text!output_svc_rx(disp)
      PROVE  TextInv'
  <2>1. disp \in [1..3 -> Byte]
    BY FieldBytes, Zenon
  <2>2. Len(Text!decode_text(disp)) < 16
    BY <2>1, FieldTells
  <2> QED
    BY <1>3, <2>1, <2>2, Zenon DEF TextInv, Text!output_svc_rx
<1>4. ASSUME NEW txt, Text!cmd_sim_disp(txt)
      PROVE  TextInv'
  <2>1. mosi_disp' \in [1..3 -> Patterns]
    BY <1>4, FromAscii DEF Text!cmd_sim_disp, Patterns
  <2> QED
    BY <1>4, <2>1, Zenon DEF TextInv, Text!cmd_sim_disp
<1>5. CASE Text!Next
  BY <1>2, <1>3, <1>4, <1>5, Zenon DEF Text!Next
<1>6. CASE ~Text!Next
  BY <1>1, <1>6, Zenon DEF Next, vars, capture_step, settings_step, health_step, boot_step,
     display_step, text_step, latency_step
<1> QED
  BY <1>5, <1>6

\* The text of rim disp is that of the last display field and of no other,
\* and never longer than its buffer (decode_text, output_svc_rx).
THEOREM TextIsTelling == Spec => []TextTells
<1>1. TextInv => TextTells
  <2> SUFFICES ASSUME TextInv PROVE TextTells
    OBVIOUS
  <2>1. \A disp \in Text!Fields \cup {prev_disp} : disp \in [1..3 -> Byte]
    BY FieldBytes, Zenon
  <2>2. ASSUME text_ready, ~text_early, NEW disp \in Text!Fields \cup {prev_disp}
        PROVE  text = Text!decode_text(disp) <=> disp = prev_disp
    BY <2>1, <2>2, FieldTells, Zenon DEF TextInv
  <2> QED
    BY <2>2 DEF TextTells, Text!TextTells, TextInv
<1> QED
  BY <1>1, DispTextInit, DispTextStep, PTL DEF Spec

-----------------------------------------------------------------------------
(* The display *)

\* Of an undisturbed call, the digits to the left of the next one show its
\* text already.
Shown ==
  ~disturbed => \A i \in 1..(Wires!NextDigit - 1) : digits[i] = on_wires[i]

\* The steps of the display keep its types.
LEMMA DisplayTypes ==
  ASSUME Wires!Abstract!TypeOK, [Wires!Abstract!Next]_(Wires!Abstract!vars)
  PROVE  Wires!Abstract!TypeOK'
<1>0. DIGITS \in Nat
  BY Tm1637Assumption DEF Wires!Assumptions
<1>1. CASE Wires!Abstract!lighting \/ Wires!Abstract!light
  BY <1>1 DEF Wires!Abstract!lighting, Wires!Abstract!light, Wires!Abstract!TypeOK
<1>2. CASE Wires!Abstract!begin
  <2>1. Wires!NextDigit' \in 1..(DIGITS + 1)
    BY <1>0, <1>2 DEF Wires!Abstract!begin
  <2>2. on_wires' \in Wires!Abstract!Contents /\ disturbed' = FALSE
        /\ UNCHANGED <<digits, on, dark>>
    BY <1>2 DEF Wires!Abstract!begin
  <2> QED
    BY <2>1, <2>2 DEF Wires!Abstract!TypeOK
<1>3. CASE Wires!Abstract!put
  <2>1. Wires!NextDigit \in 1..DIGITS
    BY <1>0, <1>3 DEF Wires!Abstract!put, Wires!Abstract!TypeOK
  <2>2. digits' \in Wires!Abstract!Contents
    BY <1>3, <2>1 DEF Wires!Abstract!put, Wires!Abstract!TypeOK, Wires!Abstract!Contents
  <2>3. Wires!NextDigit' \in 1..(DIGITS + 1)
    BY <1>0, <1>3, <2>1 DEF Wires!Abstract!put
  <2>4. UNCHANGED <<on, on_wires, disturbed, dark>>
    BY <1>3 DEF Wires!Abstract!put
  <2> QED
    BY <2>2, <2>3, <2>4 DEF Wires!Abstract!TypeOK
<1>4. CASE Wires!Abstract!disturb
  BY <1>4 DEF Wires!Abstract!disturb
<1>5. CASE UNCHANGED Wires!Abstract!vars
  BY <1>5 DEF Wires!Abstract!vars, Wires!Abstract!TypeOK
<1> QED
  BY <1>1, <1>2, <1>3, <1>4, <1>5 DEF Wires!Abstract!Next

\* A digit shown stays shown until the next call begins or something disturbs
\* the bus.
LEMMA DisplayStep ==
  ASSUME Wires!Abstract!TypeOK, Shown, [Wires!Abstract!Next]_(Wires!Abstract!vars)
  PROVE  Shown'
<1>0. DIGITS \in Nat
  BY Tm1637Assumption DEF Wires!Assumptions
<1>1. CASE Wires!Abstract!lighting \/ Wires!Abstract!light
  BY <1>1 DEF Wires!Abstract!lighting, Wires!Abstract!light, Shown
<1>2. CASE Wires!Abstract!begin
  <2>1. Wires!NextDigit' = 1
    BY <1>2 DEF Wires!Abstract!begin
  <2> QED
    BY <2>1 DEF Shown
<1>3. CASE Wires!Abstract!put
  <2>1. Wires!NextDigit \in 1..DIGITS /\ Wires!NextDigit' = Wires!NextDigit + 1
        /\ digits' = [digits EXCEPT ![Wires!NextDigit] = on_wires[Wires!NextDigit]]
        /\ on_wires' = on_wires /\ disturbed' = disturbed /\ ~disturbed
    BY <1>0, <1>3 DEF Wires!Abstract!put, Wires!Abstract!TypeOK
  <2>2. digits \in [1..DIGITS -> Byte]
    BY DEF Wires!Abstract!TypeOK, Wires!Abstract!Contents, Byte
  <2> SUFFICES ASSUME NEW i \in 1..(Wires!NextDigit' - 1) PROVE digits'[i] = on_wires'[i]
    BY DEF Shown
  <2>3. i \in 1..(Wires!NextDigit - 1) \/ i = Wires!NextDigit
    BY <2>1
  <2>4. i \in 1..DIGITS
    BY <1>0, <2>1
  <2> QED
    BY <2>1, <2>2, <2>3, <2>4 DEF Shown
<1>4. CASE Wires!Abstract!disturb
  BY <1>4 DEF Wires!Abstract!disturb, Shown
<1>5. CASE UNCHANGED Wires!Abstract!vars
  BY <1>5 DEF Wires!Abstract!vars, Shown
<1> QED
  BY <1>1, <1>2, <1>3, <1>4, <1>5 DEF Wires!Abstract!Next

\* Whatever the number of digits, a driver that implements Display shows,
\* between two calls, the last undisturbed text in full (tm1637.c).
THEOREM RestShows == Shows => []Wires!Abstract!RestShowsText
<1>0. DIGITS \in Nat
  BY Tm1637Assumption DEF Wires!Assumptions
<1>1. Wires!Abstract!Init => Wires!Abstract!TypeOK /\ Shown
  BY DEF Wires!Abstract!Init, Shown
<1>2. Wires!Abstract!TypeOK /\ Shown /\ [Wires!Abstract!Next]_(Wires!Abstract!vars)
        => Wires!Abstract!TypeOK' /\ Shown'
  BY DisplayTypes, DisplayStep
<1>3. Wires!Abstract!TypeOK /\ Shown => Wires!Abstract!RestShowsText
  BY <1>0 DEF Wires!Abstract!TypeOK, Wires!Abstract!RestShowsText,
              Wires!Abstract!Contents, Shown
<1> QED
  BY <1>1, <1>2, <1>3, PTL DEF Shows, Wires!Shows, Wires!Abstract!Spec

\* Between two calls the display shows the last undisturbed text in full, which
\* is what output_svc.c relies on when it sends a changed field once.
THEOREM TextsAreShown == Spec => []Wires!Abstract!RestShowsText
BY DriverShows, RestShows, PTL
=============================================================================
