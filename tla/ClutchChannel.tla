--------------------------- MODULE ClutchChannel ---------------------------
(***************************************************************************)
(* The pipeline of one Hall clutch (clutch_chan_feed of app/src/clutch.c): *)
(* median of three, IIR low pass, calibration with guard bands, deadzone,  *)
(* slew limit.  The raw range and the output range are constants so that   *)
(* they can be small.                                                      *)
(***************************************************************************)
EXTENDS Integers

CONSTANTS
  Raws,                 \* samples of the ADC
  min, max, guard, deadzone,    \* struct clutch_cal
  iir_shift, rate_limit, rail_lo, rail_hi,
  OUT_MAX,              \* 255 in the code
  SETTLE                \* samples after which the output has settled

\* What is assumed of the constants; the filter stops short of its input by
\* less than a guard band.
Assumptions ==
  /\ Raws \subseteq Nat /\ Raws # {}
  /\ {min, max, guard, deadzone, iir_shift, rate_limit, OUT_MAX, SETTLE} \subseteq Nat
  /\ min + guard < max - guard
  /\ 2 ^ iir_shift \in 1..(guard + 1)

VARIABLES
  med, med_i,   \* the window of the median
  iir,          \* filtered sample
  out,          \* the output; out_prev always equals it
  diag,         \* set of flags
  \* History
  base,         \* the sample that has been held, but for lone spikes
  same,         \* for how many samples, saturated at SETTLE
  since         \* samples since the last spike, saturated at 2

vars == <<med, med_i, iir, out, diag, base, same, since>>

TypeOK ==
  /\ med \in [0..2 -> Raws \cup {0}]
  /\ med_i \in 0..2
  /\ iir \in Nat
  /\ out \in 0..OUT_MAX
  /\ diag \subseteq {"RATE", "OPEN", "SHORT"}
  /\ base \in Raws \cup {0}
  /\ same \in 0..SETTLE
  /\ since \in 0..2

\* clutch_chan_init
Init ==
  /\ med = [i \in 0..2 |-> 0]
  /\ med_i = 0
  /\ iir = 0
  /\ out = 0
  /\ diag = {}
  /\ base = 0
  /\ same = 0
  /\ since = 2

-----------------------------------------------------------------------------
(* The stages of clutch_chan_feed *)

\* Mutant: the mean instead of the median.
median3_mean(w) == (w[0] + w[1] + w[2]) \div 3

smaller(a, b) == IF a < b THEN a ELSE b
larger(a, b) == IF a > b THEN a ELSE b

median3(w) ==
  w[0] + w[1] + w[2] - smaller(w[0], smaller(w[1], w[2]))
                     - larger(w[0], larger(w[1], w[2]))

\* Division of a signed number truncates towards zero.
Shift == 2 ^ iir_shift
quarter(d) == IF d >= 0 THEN d \div Shift ELSE -((-d) \div Shift)

\* Mutant: the calibration ends at the stored limits, not at the guard bands.
calibrated_no_guard(y) ==
  CASE y <= min -> 0
    [] y >= max -> OUT_MAX
    [] OTHER -> ((y - min) * OUT_MAX) \div (max - min)

\* A calibration whose guard bands meet gives zero.
calibrated(y) ==
  CASE max - guard <= min + guard \/ y <= min + guard -> 0
    [] y >= max - guard -> OUT_MAX
    [] OTHER -> ((y - min - guard) * OUT_MAX) \div (max - guard - min - guard)

zoned(o) == IF o <= deadzone THEN 0 ELSE o

\* No more than rate_limit per sample.
slewed(o) ==
  CASE o - out > rate_limit  -> out + rate_limit
    [] o - out < -rate_limit -> out - rate_limit
    [] OTHER -> o

rails(raw) ==
  CASE raw < rail_lo -> {"OPEN"}
    [] raw > rail_hi -> {"SHORT"}
    [] OTHER -> {}

feed(raw) ==
  LET target == zoned(calibrated(iir'))
  IN  /\ med' = [med EXCEPT ![med_i] = raw]
      /\ med_i' = (med_i + 1) % 3
      /\ iir' = iir + quarter(median3(med') - iir)
      /\ out' = slewed(target)
      /\ diag' = rails(raw) \cup IF slewed(target) # target THEN {"RATE"} ELSE {}

-----------------------------------------------------------------------------

upto(n, bound) == IF n < bound THEN n + 1 ELSE bound

\* A sample that differs is a lone spike if the window holds no other.
note(raw) ==
  CASE raw = base ->
         base' = base /\ same' = upto(same, SETTLE) /\ since' = upto(since, 2)
    [] raw # base /\ same >= 2 /\ since = 2 ->
         base' = base /\ same' = same /\ since' = 0
    [] OTHER ->
         base' = raw /\ same' = 0 /\ since' = 2

Next == \E raw \in Raws : feed(raw) /\ note(raw)

Spec == Init /\ [][Next]_vars

-----------------------------------------------------------------------------
(* Properties *)

\* How the distance of the filter from a sample that is held shrinks, sample
\* by sample, until the division truncates it to nothing; and how many samples
\* of the slew limit the whole range takes.
Settles(gap, steps, slews) ==
  /\ steps \in Nat /\ slews \in Nat
  /\ gap \in [0..steps -> Nat]
  /\ Raws \subseteq 0..gap[0]
  /\ \A i \in 0..(steps - 1) : gap[i] - (gap[i] \div Shift) <= gap[i + 1]
  /\ gap[steps] < Shift
  /\ OUT_MAX <= slews * rate_limit
  /\ steps + slews <= SETTLE /\ SETTLE > 0

\* A paddle held at or beyond its calibrated ends arrives at the end of the
\* range: the filter's truncation and the slew limit leave no rest, and a
\* released paddle does not drag the clutch.
EndsReached ==
  same = SETTLE =>
    /\ base >= max => out = OUT_MAX
    /\ base <= min => out = 0

\* A held paddle's output does not move for spikes of one sample, however
\* large, if they are at least three samples apart.
SpikesIgnored ==
  [][same = SETTLE /\ same' = SETTLE => out' = out]_vars
=============================================================================
