------------------------------ MODULE MCUnits ------------------------------
(* Units on small constants for TLC.                                       *)
EXTENDS Units

\* Two calibrations with descending thresholds and one that has none.
MCThresholds == {<<24, 16, 8>>, <<27, 14, 5>>, <<16, 24, 8>>}

\* Every combination of the push buttons, single contacts, a diagonal and a
\* chord of the funky switch, with and without its push, D-pad positions of one
\* and of two bits, and mixtures that set one bit from two sides.
LOCAL Sample(b, d, p, q) == [btn |-> b, dir |-> d, push |-> p, pos |-> q]

MCInputSamples == {
  Sample({}, {}, FALSE, 0),
  Sample({1}, {}, FALSE, 0),
  Sample({2}, {}, FALSE, 0),
  Sample({1, 2}, {1}, FALSE, 0),
  Sample({}, {1}, FALSE, 0),
  Sample({}, {3}, TRUE, 0),
  Sample({}, {1, 2}, FALSE, 0),
  Sample({}, {1, 4}, FALSE, 0),
  Sample({1}, {1, 4}, TRUE, 5),
  Sample({2}, {}, FALSE, 3)}

\* The bytes of a snapshot are of one bit, their signature is the XOR of the
\* code.
MCAxisSig == [t \in Axes \X Axes \X Encs |-> (t[1] + t[2] + t[3]) % 2]

\* What the filter can be away from a sample that is held, after each sample:
\* with ten of them and four steps of the slew limit the output has settled.
MCGap[i \in 0..10] ==
  IF i = 0 THEN RAW_MAX ELSE MCGap[i - 1] - (MCGap[i - 1] \div Channel!Shift)

ASSUME MCSettles == Channel!Settles(MCGap, 10, 4)
=============================================================================
