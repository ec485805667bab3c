------------------------------ MODULE Encoder ------------------------------
(***************************************************************************)
(* The quadrature decoder (app/src/encoder.c) as operators on its state:   *)
(* a table of quarter steps over the last and the present level of the two *)
(* lines, an accumulator of quarter steps and a saturating delta of        *)
(* detents.                                                                *)
(***************************************************************************)
EXTENDS Integers, Sequences

CONSTANTS
  DETENT_DIV,   \* quarter steps per detent
  INT8_MAX      \* saturation of the delta: -INT8_MAX - 1 .. INT8_MAX

\* What is assumed of the constants.
Assumptions == {DETENT_DIV, INT8_MAX} \subseteq Nat \ {0}

ILLEGAL == 2

\* Indexed by 4 * previous level + level, from 1.
transition == << 0,  1, -1, ILLEGAL,
                -1,  0, ILLEGAL,  1,
                 1, ILLEGAL,  0, -1,
                ILLEGAL, -1,  1,  0>>

encoder_init(ab) == [prev_ab |-> ab, accum |-> 0, delta |-> 0, illegal |-> 0]

saturate(n) ==
  IF n > INT8_MAX THEN INT8_MAX ELSE IF n < -INT8_MAX - 1 THEN -INT8_MAX - 1 ELSE n

\* Mutant: the level is not remembered when the transition is illegal.
encoder_feed_forgets(e, ab) ==
  LET step == transition[4 * e.prev_ab + ab + 1]
      n    == e.accum + step
  IN  IF step = ILLEGAL THEN [e EXCEPT !.illegal = @ + 1]
      ELSE [e EXCEPT
              !.prev_ab = ab,
              !.accum = IF n >= DETENT_DIV THEN n - DETENT_DIV
                        ELSE IF n <= -DETENT_DIV THEN n + DETENT_DIV ELSE n,
              !.delta = saturate(@ + IF n >= DETENT_DIV THEN 1
                                     ELSE IF n <= -DETENT_DIV THEN -1 ELSE 0)]

\* One sample.  A step is one quarter, so the accumulator, which is kept
\* below a detent, crosses it at most once.
encoder_feed(e, ab) ==
  LET step == transition[4 * e.prev_ab + ab + 1]
      n    == e.accum + step
  IN  IF step = ILLEGAL THEN [e EXCEPT !.prev_ab = ab, !.illegal = @ + 1]
      ELSE [e EXCEPT
              !.prev_ab = ab,
              !.accum = IF n >= DETENT_DIV THEN n - DETENT_DIV
                        ELSE IF n <= -DETENT_DIV THEN n + DETENT_DIV ELSE n,
              !.delta = saturate(@ + IF n >= DETENT_DIV THEN 1
                                     ELSE IF n <= -DETENT_DIV THEN -1 ELSE 0)]

\* The delta is taken and reset; what it was is e.delta.
encoder_consume(e) == [e EXCEPT !.delta = 0]
=============================================================================
