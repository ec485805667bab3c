-------------------------------- MODULE Dpad --------------------------------
(***************************************************************************)
(* The D-pad on its resistor ladder (app/src/dpad.c) and its calibration   *)
(* (input_svc_dpad_cal): descending thresholds cut the ADC range into      *)
(* positions, with a hysteresis band around each threshold.  The input     *)
(* thread decodes one sample per tick; the shell, which it may preempt     *)
(* anywhere, calibrates.                                                   *)
(***************************************************************************)
EXTENDS Integers, Sequences, FiniteSets, SequencesExt

CONSTANTS
  DPAD_THRESHOLDS,      \* number of thresholds, 7 in the code
  RAW_MAX,              \* full scale of the ADC
  Thresholds, Hysts,    \* what the shell may pass
  DPAD_DEFAULT_HYST

\* What is assumed of the constants.
Assumptions ==
  /\ {DPAD_THRESHOLDS, RAW_MAX} \subseteq Nat
  /\ Thresholds \subseteq [1..DPAD_THRESHOLDS -> 0..RAW_MAX]
  /\ Hysts \subseteq Nat
  /\ DPAD_DEFAULT_HYST \in Nat \ {0}

VARIABLES
  thr, hyst, cur,       \* the decoder
  raw,                  \* the last sample
  moved,                \* it changed cur
  sampled,              \* there was a sample since the decoder was set up
  shell,                \* next store of the shell: 0 none
  dpad_thr, dpad_hyst   \* of the settings, stored before the decoder's

decoder == <<thr, hyst, cur>>
shell_vars == <<shell, dpad_thr, dpad_hyst>>
vars == <<decoder, raw, moved, sampled, shell_vars>>

Descending(t) == \A i \in 2..DPAD_THRESHOLDS : t[i] < t[i - 1]
hyst_of(h) == IF h # 0 THEN h ELSE DPAD_DEFAULT_HYST

TypeOK ==
  /\ thr \in [1..DPAD_THRESHOLDS -> 0..RAW_MAX]
  /\ hyst \in Nat \ {0}
  /\ cur \in 0..DPAD_THRESHOLDS
  /\ raw \in 0..RAW_MAX
  /\ {moved, sampled} \subseteq BOOLEAN
  /\ shell \in 0..(DPAD_THRESHOLDS + 2)
  /\ dpad_thr \in Thresholds
  /\ dpad_hyst \in Hysts

Init ==
  /\ dpad_thr \in {t \in Thresholds : Descending(t)}
  /\ dpad_hyst \in Hysts
  /\ thr = dpad_thr
  /\ hyst = hyst_of(dpad_hyst)
  /\ cur = 0
  /\ raw = 0
  /\ moved = FALSE
  /\ sampled = FALSE
  /\ shell = 0

-----------------------------------------------------------------------------
(* dpad_decode.  Threshold i of the code is thr[i + 1]. *)

\* The first threshold the sample is above, or the last position.
window_of(r) ==
  SelectInSeq(thr, LAMBDA t : r > t) - 1

position(r) == IF window_of(r) = -1 THEN DPAD_THRESHOLDS ELSE window_of(r)

Distance(a, b) == IF a > b THEN a - b ELSE b - a

\* The threshold that has to be cleared on the way to another position.
boundary(next) == thr[1 + IF next > cur THEN cur ELSE next]

\* Mutant: there is no hysteresis.
decode_plain(r) == position(r)

\* Mutant: the decoder moves by one position per sample.
decode_stepwise(r) ==
  CASE position(r) > cur /\ Distance(r, boundary(position(r))) > hyst -> cur + 1
    [] position(r) < cur /\ Distance(r, boundary(position(r))) > hyst -> cur - 1
    [] OTHER -> cur

decode(r) ==
  IF position(r) # cur /\ Distance(r, boundary(position(r))) > hyst
    THEN position(r) ELSE cur

dpad_decode(r) ==
  /\ cur' = decode(r)
  /\ raw' = r
  /\ moved' = (cur' # cur)
  /\ sampled' = TRUE
  /\ UNCHANGED <<thr, hyst, shell_vars>>

-----------------------------------------------------------------------------
(* rim dpad <thresholds> <hysteresis> *)

accepted(t) == Descending(t)

dpad_cal(t, h) ==
  /\ shell = 0
  /\ accepted(t)
  /\ shell' = 1
  /\ dpad_thr' = t
  /\ dpad_hyst' = h
  /\ UNCHANGED <<decoder, raw, moved, sampled>>

store_thr ==
  /\ shell \in 1..DPAD_THRESHOLDS
  /\ thr' = [thr EXCEPT ![shell] = dpad_thr[shell]]
  /\ shell' = shell + 1
  /\ UNCHANGED <<hyst, cur, raw, moved, sampled, dpad_thr, dpad_hyst>>

store_hyst ==
  /\ shell = DPAD_THRESHOLDS + 1
  /\ hyst' = hyst_of(dpad_hyst)
  /\ shell' = shell + 1
  /\ UNCHANGED <<thr, cur, raw, moved, sampled, dpad_thr, dpad_hyst>>

store_cur ==
  /\ shell = DPAD_THRESHOLDS + 2
  /\ cur' = 0
  /\ shell' = 0
  /\ moved' = FALSE
  /\ sampled' = FALSE
  /\ UNCHANGED <<thr, hyst, raw, dpad_thr, dpad_hyst>>

Next ==
  \/ \E r \in 0..RAW_MAX : dpad_decode(r)
  \/ \E t \in Thresholds, h \in Hysts : dpad_cal(t, h)
  \/ store_thr
  \/ store_hyst
  \/ store_cur

Spec == Init /\ [][Next]_vars

-----------------------------------------------------------------------------
(* Properties *)

Clear(r) == \A i \in DOMAIN thr : Distance(r, thr[i]) > hyst

\* The cut of the range that the last calibration defines.
Cut(r) == Cardinality({i \in DOMAIN dpad_thr : r <= dpad_thr[i]})

\* A sample that is clear of every band is decoded to the position of its
\* window at once, from whatever position, and also after the thresholds
\* changed under the decoder's feet.
ClearIsDecoded ==
  shell = 0 /\ sampled /\ Clear(raw) => cur = Cut(raw)

\* The hysteresis works for jumps across several windows too: after a change,
\* noise within the band does not change the position again.
Noise == moved /\ shell = 0 /\ shell' = 0 /\ sampled' /\ Distance(raw', raw) <= hyst

\* Such noise moves nothing.
NoChatter == [][Noise => cur' = cur]_vars

\* dpad.h:34: the position changes only when the sample clears the boundary by
\* more than the hysteresis band; readings inside a band keep the position.
BandKeepsPosition ==
  [][shell = 0 /\ shell' = 0 /\ cur' # cur => Clear(raw')]_vars
=============================================================================
