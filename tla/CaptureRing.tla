---------------------------- MODULE CaptureRing ----------------------------
(***************************************************************************)
(* The diagnostic capture ring (lib/rimlink/rimlink_capture.c, built with  *)
(* CONFIG_RIMLINK_CAPTURE) with its two users: the link thread, which      *)
(* records every armed and every received frame and notes anomalies, and   *)
(* the shell, which starts, stops, freezes and dumps it (cmd_rim_cap of    *)
(* app/src/diag_svc.c).  The link thread preempts the shell anywhere, so a *)
(* dump is one step per entry; the shell never preempts the link thread,   *)
(* so a submit is one step.                                                *)
(*                                                                         *)
(* An entry is abstracted to its direction, its CRC verdict and its place  *)
(* in the order of recording (which stands for timestamp and frame).       *)
(***************************************************************************)
EXTENDS Integers, Sequences

CONSTANTS
  DEPTH,        \* RIMLINK_CAP_DEPTH
  WrMod,        \* modulus of the write index, 2^32 in the code
  MaxRecords    \* bound on the number of records

\* What is assumed of the constants.  The index into the ring survives the
\* wrap of wr only because the depth divides the modulus.
Assumptions ==
  /\ DEPTH \in Nat \ {0}
  /\ \E k \in 1..WrMod : WrMod = k * DEPTH
  /\ MaxRecords \in Nat

VARIABLES
  ring,         \* the entries
  cap_armed,    \* recording enabled
  frozen,       \* post-mortem freeze
  freeze_on_anomaly,
  wr,           \* total entries written, as the code counts them
  dump_idx,     \* index of the dump in progress, NoDump if none
  dump_out,     \* what the dump printed so far
  \* History
  total,        \* entries ever recorded
  since_start,  \* entries recorded since rim cap start
  cause,        \* what froze the ring
  dump_total    \* entries recorded when the dump began, NoDump if some were
                \* recorded while it ran

flags == <<cap_armed, frozen, freeze_on_anomaly>>
dump_vars == <<dump_idx, dump_out>>
vars == <<ring, flags, wr, dump_vars, total, since_start, cause, dump_total>>

NoDump == -1
Empty == [dir |-> "TX", crc_ok |-> TRUE, seq |-> -1]
Entry == [dir : {"TX", "RX"}, crc_ok : BOOLEAN, seq : (0..MaxRecords) \cup {-1}]

TypeOK ==
  /\ ring \in [0..(DEPTH - 1) -> Entry]
  /\ cap_armed \in BOOLEAN
  /\ frozen \in BOOLEAN
  /\ freeze_on_anomaly \in BOOLEAN
  /\ wr \in 0..(WrMod - 1)
  /\ dump_idx \in Nat \cup {NoDump}
  /\ dump_out \in Seq(Entry)
  /\ Len(dump_out) <= DEPTH
  /\ total \in 0..MaxRecords
  /\ since_start \in 0..MaxRecords
  /\ cause \in {"none", "shell", "crc", "short"}
  /\ dump_total \in 0..MaxRecords \cup {NoDump}

Init ==
  /\ ring = [i \in 0..(DEPTH - 1) |-> Empty]
  /\ cap_armed = FALSE
  /\ frozen = FALSE
  /\ freeze_on_anomaly = TRUE
  /\ wr = 0
  /\ dump_idx = NoDump
  /\ dump_out = <<>>
  /\ total = 0
  /\ since_start = 0
  /\ cause = "none"
  /\ dump_total = NoDump

-----------------------------------------------------------------------------
(* The hooks the adapter calls *)

recording == cap_armed /\ ~frozen

slot == wr % DEPTH

record(dir, crc_ok) ==
  IF recording
    THEN /\ ring' = [ring EXCEPT ![slot] =
                       [dir |-> dir, crc_ok |-> crc_ok, seq |-> total]]
         /\ wr' = (wr + 1) % WrMod
         /\ total' = total + 1
         /\ since_start' = since_start + 1
         /\ dump_total' = NoDump
    ELSE UNCHANGED <<ring, wr, total, since_start, dump_total>>

note_anomaly(kind) ==
  IF cap_armed /\ freeze_on_anomaly
    THEN /\ frozen' = TRUE
         /\ cause' = IF frozen THEN cause ELSE kind
    ELSE UNCHANGED <<frozen, cause>>

\* rimlink_tx_acquire ends by recording the armed frame.
tx_acquire ==
  /\ total < MaxRecords
  /\ record("TX", TRUE)
  /\ UNCHANGED <<flags, cause, dump_vars>>

\* Mutant: the ring is frozen before the offending frame is in it.
rx_submit_freezes_first ==
  \/ /\ note_anomaly("crc")
     /\ IF frozen' THEN UNCHANGED <<ring, wr, total, since_start, dump_total>>
                   ELSE total < MaxRecords /\ record("RX", FALSE)
     /\ UNCHANGED <<cap_armed, freeze_on_anomaly, dump_vars>>
  \/ /\ total < MaxRecords
     /\ record("RX", TRUE)
     /\ UNCHANGED <<flags, cause, dump_vars>>

\* rimlink_rx_submit: a short frame is an anomaly and is not recorded; a full
\* one is recorded, and is an anomaly after that if its CRC does not match.
rx_submit ==
  \/ /\ note_anomaly("short")
     /\ UNCHANGED <<ring, wr, total, since_start, dump_total, cap_armed,
                    freeze_on_anomaly, dump_vars>>
  \/ /\ total < MaxRecords
     /\ record("RX", FALSE)
     /\ note_anomaly("crc")
     /\ UNCHANGED <<cap_armed, freeze_on_anomaly, dump_vars>>
  \/ /\ total < MaxRecords
     /\ record("RX", TRUE)
     /\ UNCHANGED <<flags, cause, dump_vars>>

-----------------------------------------------------------------------------
(* rim cap, from the shell thread *)

Idle == dump_idx = NoDump

cap_start ==
  /\ Idle
  /\ frozen' = FALSE
  /\ cap_armed' = TRUE
  /\ since_start' = 0
  /\ cause' = "none"
  /\ UNCHANGED <<ring, freeze_on_anomaly, wr, dump_vars, total, dump_total>>

cap_stop ==
  /\ Idle
  /\ cap_armed' = FALSE
  /\ UNCHANGED <<ring, frozen, freeze_on_anomaly, wr, dump_vars, total,
                 since_start, cause, dump_total>>

cap_freeze ==
  /\ Idle
  /\ frozen' = TRUE
  /\ cause' = IF frozen THEN cause ELSE "shell"
  /\ UNCHANGED <<ring, cap_armed, freeze_on_anomaly, wr, dump_vars, total,
                 since_start, dump_total>>

cap_auto ==
  /\ Idle
  /\ freeze_on_anomaly' \in BOOLEAN
  /\ UNCHANGED <<ring, cap_armed, frozen, wr, dump_vars, total, since_start,
                 cause, dump_total>>

dump_begin ==
  /\ Idle
  /\ dump_idx' = 0
  /\ dump_out' = <<>>
  /\ dump_total' = total
  /\ UNCHANGED <<ring, flags, wr, total, since_start, cause>>

avail == IF wr < DEPTH THEN wr ELSE DEPTH

\* Mutant: the oldest entry is taken one too far.
first_off_by_one == wr - avail + 1

first == wr - avail

\* rimlink_cap_read of the next index: an entry, or the end of the dump.
dump_next ==
  /\ ~Idle
  /\ IF dump_idx < avail
       THEN /\ dump_out' = Append(dump_out, ring[(first + dump_idx) % DEPTH])
            /\ dump_idx' = dump_idx + 1
       ELSE /\ dump_idx' = NoDump
            /\ UNCHANGED dump_out
  /\ UNCHANGED <<ring, flags, wr, total, since_start, cause, dump_total>>

Next ==
  \/ tx_acquire
  \/ rx_submit
  \/ cap_start
  \/ cap_stop
  \/ cap_freeze
  \/ cap_auto
  \/ dump_begin
  \/ dump_next

Spec == Init /\ [][Next]_vars

-----------------------------------------------------------------------------
(* Properties *)

\* A dump of a ring that does not record meanwhile (frozen or stopped) prints
\* the last entries recorded, in the order they were recorded, none missing
\* and none twice, also after the write index has wrapped around; and it leaves
\* out nothing the ring still holds, until then.
DumpIsTail ==
  Idle /\ dump_total # NoDump =>
    /\ \A i \in 1..Len(dump_out) :
         dump_out[i].seq = dump_total - Len(dump_out) + i - 1
    /\ dump_total < WrMod =>
         Len(dump_out) = IF dump_total < DEPTH THEN dump_total ELSE DEPTH

\* When a CRC mismatch froze the ring, the frame that caused it is the newest
\* entry and stays the newest: the post-mortem shows the anomaly.
PostMortem ==
  frozen /\ cause = "crc" =>
    LET newest == ring[(wr + WrMod - 1) % DEPTH]
    IN  newest.dir = "RX" /\ ~newest.crc_ok /\ newest.seq = total - 1

\* rim cap status: rimlink_capture.h:64 describes recorded as the "total
\* entries recorded since start".
RecordedSinceStart == wr = since_start % WrMod
=============================================================================
