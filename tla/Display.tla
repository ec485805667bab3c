------------------------------ MODULE Display ------------------------------
(***************************************************************************)
(* What the TM1637 driver promises its callers: the digits of a text go on *)
(* from left to right, each with the byte it was given and none but those, *)
(* and the display is lit before its first text.  Nothing is promised of a *)
(* call that is disturbed: one made before the pins are driven, or one     *)
(* that meets another call on the same two wires.                          *)
(***************************************************************************)
EXTENDS Integers

CONSTANTS
  DIGITS,       \* digits of the module, 4 in the code
  Segs          \* segment bytes

\* What is assumed of the constants.
Assumptions == DIGITS \in Nat

VARIABLES
  shown,        \* what each digit shows
  lit,          \* the display is on
  text,         \* the text of the current call, or of the last one
  next,         \* the digit to be written next, DIGITS + 1 at rest
  disturbed,    \* nothing is known of the current or last call
  spoiled       \* nobody has lit it yet, or a disturbed call may have put it out

vars == <<shown, lit, text, next, disturbed, spoiled>>

Contents == [1..DIGITS -> Segs]

TypeOK ==
  /\ shown \in Contents
  /\ lit \in BOOLEAN
  /\ text \in Contents
  /\ next \in 1..(DIGITS + 1)
  /\ disturbed \in BOOLEAN
  /\ spoiled \in BOOLEAN

Init == TypeOK /\ next = DIGITS + 1 /\ disturbed = TRUE /\ spoiled = TRUE

\* The brightness command is on its way, and switches the display on.
lighting ==
  /\ spoiled' = FALSE
  /\ UNCHANGED <<shown, lit, text, next, disturbed>>

light ==
  /\ lit' = TRUE
  /\ UNCHANGED <<shown, text, next, disturbed, spoiled>>

begin ==
  /\ next > DIGITS
  /\ text' \in Contents
  /\ next' = 1
  /\ disturbed' = FALSE
  /\ lit \/ spoiled
  /\ UNCHANGED <<shown, lit, spoiled>>

put ==
  /\ ~disturbed
  /\ next <= DIGITS
  /\ shown' = [shown EXCEPT ![next] = text[next]]
  /\ next' = next + 1
  /\ UNCHANGED <<lit, text, disturbed, spoiled>>

\* A disturbed call leaves anything behind.
disturb == TypeOK' /\ disturbed'

Next == lighting \/ light \/ begin \/ put \/ disturb

Spec == Init /\ [][Next]_vars

-----------------------------------------------------------------------------
(* Properties *)

\* Between two calls the display shows the last text in full, unless that
\* call was disturbed.
RestShowsText == next > DIGITS /\ ~disturbed => shown = text
=============================================================================
