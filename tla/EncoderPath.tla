---------------------------- MODULE EncoderPath ----------------------------
(***************************************************************************)
(* The way of a detent: knob, quadrature decoder, snapshot, TX double      *)
(* buffer, wheel base.  The input thread samples the knob, consumes the    *)
(* delta and publishes in one tick; the base receives the armed frame in   *)
(* every transaction and the link thread re-arms after it.  The clocks of  *)
(* the base and of the tick are independent: a tick may find the last      *)
(* snapshot unsent and overwrite it, and a poll may find nothing new and   *)
(* get the armed frame again.  Every transfer is intact here.              *)
(***************************************************************************)
EXTENDS Integers, Sequences

CONSTANTS
  DETENT_DIV, INT8_MAX,
  MaxStep,      \* quarter steps the knob moves between two samples, at most 2
  MaxPos,       \* bound on the position of the knob, in quarter steps
  MaxIllegal,   \* bound on illegal transitions
  MaxSkips,     \* bound on ticks without a poll since the tick before
  MaxRepeats,   \* bound on polls without a tick since the poll before
  AllOnes, AxisSig, HOLD, LATE, Idents, STALE_MS, CounterMod, NoFrame

Encs == (-INT8_MAX - 1)..INT8_MAX

VARIABLES
  buf, armed, fresh, stale_cleared, silence, stale_clear, current_id, wire,
  ticking, tick_sem, late, prev_buttons, prev_axis_sig, hold, sampled, lag,
  enc,            \* the decoder of the selected encoder
  \* History
  pos,            \* position of the knob in quarter steps
  turned,         \* detents consumed from the decoder
  base_sum,       \* detents the base has received
  first,          \* of these, the ones it received for the first time
  received,       \* the base has received the frame on the wire
  last,           \* what came last, a tick or, after the first tick, a poll
  skips,          \* ticks without a poll since the tick before
  repeats         \* polls without a tick since the poll before

E == INSTANCE Encoder
Pub == INSTANCE InputPublish WITH Buttons <- {0}, Axes <- {0}

ASSUME EncoderAssumption == E!Assumptions
ASSUME PublishAssumption == Pub!Assumptions
ASSUME BoundsAssumption ==
  {MaxStep, MaxPos, MaxIllegal, MaxSkips, MaxRepeats} \subseteq Nat /\ MaxStep <= 2

\* With the axes at rest the signature is the encoder's byte.
ASSUME SignatureAssumption ==
  \A d, e \in Encs : AxisSig[<<0, 0, d>>] = AxisSig[<<0, 0, e>>] => d = e

pub_vars == <<buf, armed, fresh, stale_cleared, silence, stale_clear,
              current_id, wire, ticking, tick_sem, late, prev_buttons,
              prev_axis_sig, hold, sampled, lag>>
base_vars == <<base_sum, first, received, last, skips, repeats>>
vars == <<pub_vars, enc, pos, turned, base_vars>>

\* The level of the lines over one cycle of the knob.
gray(p) == <<0, 1, 3, 2>>[(p % 4) + 1]

Distance(i) == IF i < 0 THEN -i ELSE i

TypeOK ==
  /\ Pub!TypeOK
  /\ enc \in [prev_ab : 0..3, accum : (1 - DETENT_DIV)..(DETENT_DIV - 1),
              delta : Encs, illegal : 0..MaxIllegal]
  /\ pos \in -MaxPos..MaxPos
  /\ turned \in Int
  /\ base_sum \in Int
  /\ first \in Int
  /\ received \in BOOLEAN
  /\ last \in {"none", "tick", "poll"}
  /\ skips \in 0..MaxSkips
  /\ repeats \in 0..MaxRepeats

Init ==
  /\ Pub!Init
  /\ pos = 0
  /\ enc = E!encoder_init(gray(pos))
  /\ turned = 0
  /\ base_sum = 0
  /\ first = 0
  /\ received = FALSE
  /\ last = "none"
  /\ skips = 0
  /\ repeats = 0

\* Detents published that the base has not received yet.
in_flight ==
  (IF fresh THEN buf[Pub!Tx!staging].in.enc ELSE 0)
    + (IF wire = Pub!Tx!NoBuffer \/ received THEN 0 ELSE buf[wire].in.enc)

\* Mutant: the delta is consumed for the diagnostics and once more for the
\* frame.
compose_consumes_twice(d) ==
  LET fed == E!encoder_feed(enc, gray(pos + d))
  IN  /\ Pub!tick([Pub!Zero EXCEPT !.enc = E!encoder_consume(fed).delta])
      /\ enc' = E!encoder_consume(fed)
      /\ turned' = turned + fed.delta

\* Sampling and composing: the frame carries the delta consumed in this tick.
compose(d) ==
  LET fed == E!encoder_feed(enc, gray(pos + d))
  IN  /\ Pub!tick([Pub!Zero EXCEPT !.enc = fed.delta])
      /\ enc' = E!encoder_consume(fed)
      /\ turned' = turned + fed.delta

tick(d) ==
  /\ pos + d \in -MaxPos..MaxPos
  /\ Distance(d) = 2 => enc.illegal < MaxIllegal
  /\ wire # Pub!Tx!NoBuffer
  /\ last = "tick" => skips < MaxSkips
  /\ compose(d)
  /\ pos' = pos + d
  /\ last' = "tick"
  /\ skips' = IF last = "tick" THEN skips + 1 ELSE skips
  /\ UNCHANGED <<base_sum, first, received, repeats>>

\* The link thread arms the first frame at boot.
arm ==
  /\ wire = Pub!Tx!NoBuffer
  /\ Pub!acquire
  /\ UNCHANGED <<enc, pos, turned, base_vars>>

\* The base polls whenever it likes: it receives the frame on the wire, and
\* the link thread re-arms with the newest snapshot or with the same frame.
transaction ==
  /\ wire # Pub!Tx!NoBuffer
  /\ last = "poll" => repeats < MaxRepeats
  /\ Pub!acquire
  /\ base_sum' = base_sum + buf[wire].in.enc
  /\ first' = IF received THEN first ELSE first + buf[wire].in.enc
  /\ received' = ~fresh
  /\ last' = IF last = "none" THEN "none" ELSE "poll"
  /\ repeats' = IF last = "poll" THEN repeats + 1 ELSE repeats
  /\ UNCHANGED <<enc, pos, turned, skips>>

elapse ==
  /\ Pub!elapse
  /\ UNCHANGED <<enc, pos, turned, base_vars>>

start ==
  /\ Pub!input_svc_init
  /\ UNCHANGED <<enc, pos, turned, base_vars>>

Next ==
  \/ start
  \/ \E d \in -MaxStep..MaxStep : tick(d)
  \/ arm
  \/ transaction
  \/ elapse

Spec == Init /\ [][Next]_vars

-----------------------------------------------------------------------------
(* Properties *)

\* Movement is accounted for: what the decoder has counted differs from what
\* the knob has turned by whole half-steps, two quarters per transition it
\* counted as illegal; without illegal transitions nothing is lost and no
\* bounce at a detent is counted.
Accounting ==
  LET drift == DETENT_DIV * turned + enc.accum - pos
  IN  /\ drift % 2 = 0
      /\ Distance(drift) <= 2 * enc.illegal

\* Whatever the order of ticks and polls, a detent goes astray only where the
\* two clocks slip: a tick that finds no poll since the tick before loses at
\* most one detent, the one it overwrites in staging, and a poll that finds no
\* tick since the poll before makes the base count at most one detent again,
\* the one of the frame it is sent again.  Where neither happens, every detent
\* is received, or on its way, exactly once.
DetentsDelivered ==
  /\ Distance(turned - first - in_flight) <= skips
  /\ Distance(base_sum - first) <= repeats

\* Does not hold: zero lost detents (phases2-6-software-spec.md:111 and :121),
\* every detent consumed from the decoder is received by the base, or is on its
\* way.
NoDetentLost == first + in_flight = turned

\* Does not hold: no detent is received twice.  A base that polls more often
\* than the tick is sent the armed frame again, detent included
\* (rimlink_link.c:98-111).
NoDetentTwice == base_sum = first
=============================================================================
