------------------------- MODULE EncoderPath_proofs -------------------------
(***************************************************************************)
(* Proofs about EncoderPath, for any detent, any saturation and turns of   *)
(* any length: the decoder accounts for the movement of the knob up to two *)
(* quarter steps per illegal transition, and a base that polls whenever it *)
(* likes misses or repeats at most one detent per slip of the two clocks.  *)
(***************************************************************************)
EXTENDS EncoderPath, TLAPS

-----------------------------------------------------------------------------
(* The decoder *)

\* What the table says of a knob that moved by at most two quarter steps.
LEMMA TableTells ==
  ASSUME NEW p \in Int, NEW d \in -2..2
  PROVE  /\ d \in -1..1 =>
              E!transition[4 * gray(p) + gray(p + d) + 1] = d
         /\ d \in {-2, 2} =>
              E!transition[4 * gray(p) + gray(p + d) + 1] = E!ILLEGAL
<1>1. p % 4 \in 0..3
  OBVIOUS
<1>2. /\ (p + 1) % 4 = ((p % 4) + 1) % 4 /\ (p - 1) % 4 = ((p % 4) + 3) % 4
      /\ (p + 2) % 4 = ((p % 4) + 2) % 4 /\ (p - 2) % 4 = ((p % 4) + 2) % 4
  OBVIOUS
<1>3. CASE p % 4 = 0
  BY <1>2, <1>3 DEF gray, E!transition, E!ILLEGAL
<1>4. CASE p % 4 = 1
  BY <1>2, <1>4 DEF gray, E!transition, E!ILLEGAL
<1>5. CASE p % 4 = 2
  BY <1>2, <1>5 DEF gray, E!transition, E!ILLEGAL
<1>6. CASE p % 4 = 3
  BY <1>2, <1>6 DEF gray, E!transition, E!ILLEGAL
<1> QED
  BY <1>1, <1>3, <1>4, <1>5, <1>6

\* Between two ticks the decoder knows the level of the knob, holds less than a
\* detent, and its delta is consumed.
Decoding ==
  /\ pos \in Int /\ turned \in Int
  /\ enc \in [prev_ab : Int, accum : Int, delta : Int, illegal : Nat]
  /\ enc.prev_ab = gray(pos)
  /\ enc.accum \in (1 - DETENT_DIV)..(DETENT_DIV - 1)
  /\ enc.delta = 0

\* The levels are levels.
LEMMA GrayIsLevel == ASSUME NEW p \in Int PROVE gray(p) \in 0..3
<1>1. p % 4 \in 0..3
  OBVIOUS
<1> QED
  BY <1>1 DEF gray

\* One sample: an illegal transition, or a quarter step that may complete a
\* detent in either direction.
LEMMA FeedCases ==
  ASSUME Decoding, NEW d \in -2..2, NEW fed, fed = E!encoder_feed(enc, gray(pos + d))
  PROVE  /\ fed \in [prev_ab : Int, accum : Int, delta : Int, illegal : Nat]
         /\ fed.prev_ab = gray(pos + d)
         /\ fed.accum \in (1 - DETENT_DIV)..(DETENT_DIV - 1)
         /\ \/ /\ d \in {-2, 2} /\ fed.illegal = enc.illegal + 1
               /\ fed.accum = enc.accum /\ fed.delta = 0
            \/ /\ d \in -1..1 /\ fed.illegal = enc.illegal
               /\ \/ fed.accum = enc.accum + d /\ fed.delta = 0
                  \/ fed.accum = enc.accum + d - DETENT_DIV /\ fed.delta = 1
                  \/ fed.accum = enc.accum + d + DETENT_DIV /\ fed.delta = -1
<1> DEFINE step == E!transition[4 * enc.prev_ab + gray(pos + d) + 1]
           n == enc.accum + step
<1>0. DETENT_DIV \in Nat \ {0} /\ INT8_MAX \in Nat \ {0}
  BY EncoderAssumption DEF E!Assumptions
<1>1. gray(pos + d) \in 0..3
  BY GrayIsLevel DEF Decoding
<1>2. CASE d \in {-2, 2}
  <2>1. step = E!ILLEGAL
    BY <1>2, TableTells DEF Decoding
  <2>2. fed = [enc EXCEPT !.prev_ab = gray(pos + d), !.illegal = @ + 1]
    BY <2>1 DEF E!encoder_feed
  <2>3. /\ fed.prev_ab = gray(pos + d) /\ fed.illegal = enc.illegal + 1
        /\ fed.accum = enc.accum /\ fed.delta = 0
    BY <2>2 DEF Decoding
  <2>4. fed \in [prev_ab : Int, accum : Int, delta : Int, illegal : Nat]
    <3>1. gray(pos + d) \in Int /\ enc.illegal + 1 \in Nat
      BY <1>1 DEF Decoding
    <3> QED
      BY <2>2, <3>1 DEF Decoding
  <2> QED
    BY <1>2, <2>3, <2>4 DEF Decoding
<1>3. CASE d \in -1..1
  <2>1. step = d
    BY <1>3, TableTells DEF Decoding
  <2>2. step # E!ILLEGAL
    BY <1>3, <2>1 DEF E!ILLEGAL
  <2>3. fed = [enc EXCEPT
              !.prev_ab = gray(pos + d),
              !.accum = IF n >= DETENT_DIV THEN n - DETENT_DIV
                        ELSE IF n <= -DETENT_DIV THEN n + DETENT_DIV ELSE n,
              !.delta = E!saturate(@ + IF n >= DETENT_DIV THEN 1
                                     ELSE IF n <= -DETENT_DIV THEN -1 ELSE 0)]
    BY <2>2 DEF E!encoder_feed
  <2>4. n = enc.accum + d
    BY <2>1
  <2> HIDE DEF step, n
  <2>5. /\ fed.prev_ab = gray(pos + d) /\ fed.illegal = enc.illegal
        /\ fed.accum = IF n >= DETENT_DIV THEN n - DETENT_DIV
                        ELSE IF n <= -DETENT_DIV THEN n + DETENT_DIV ELSE n
        /\ fed.delta = E!saturate(enc.delta + IF n >= DETENT_DIV THEN 1
                                     ELSE IF n <= -DETENT_DIV THEN -1 ELSE 0)
    BY <2>3 DEF Decoding
  <2>6. \/ n >= DETENT_DIV /\ fed.accum = n - DETENT_DIV /\ fed.delta = 1
        \/ n <= -DETENT_DIV /\ fed.accum = n + DETENT_DIV /\ fed.delta = -1
        \/ -DETENT_DIV < n /\ n < DETENT_DIV /\ fed.accum = n /\ fed.delta = 0
    <3>1. n \in Int /\ enc.delta = 0
      BY <1>3, <2>4 DEF Decoding
    <3>2. E!saturate(0 + 1) = 1 /\ E!saturate(0 + -1) = -1 /\ E!saturate(0 + 0) = 0
      BY <1>0 DEF E!saturate
    <3>3. CASE n >= DETENT_DIV
      BY <1>0, <2>5, <3>1, <3>2, <3>3
    <3>4. CASE n <= -DETENT_DIV
      BY <1>0, <2>5, <3>1, <3>2, <3>4
    <3>5. CASE -DETENT_DIV < n /\ n < DETENT_DIV
      BY <1>0, <2>5, <3>1, <3>2, <3>5
    <3> QED
      BY <1>0, <3>1, <3>3, <3>4, <3>5
  <2>7. fed.accum \in (1 - DETENT_DIV)..(DETENT_DIV - 1)
    BY <1>0, <1>3, <2>4, <2>6 DEF Decoding
  <2>8. fed \in [prev_ab : Int, accum : Int, delta : Int, illegal : Nat]
    <3>1. /\ fed.prev_ab \in Int /\ fed.accum \in Int /\ fed.delta \in Int
          /\ fed.illegal \in Nat
      BY <1>0, <1>1, <2>5, <2>6, <2>7 DEF Decoding
    <3>2. fed = [prev_ab |-> fed.prev_ab, accum |-> fed.accum, delta |-> fed.delta,
                 illegal |-> fed.illegal]
      BY <2>3 DEF Decoding
    <3> HIDE DEF Decoding
    <3> QED
      BY <3>1, <3>2
  <2>9. \/ fed.accum = enc.accum + d /\ fed.delta = 0
        \/ fed.accum = enc.accum + d - DETENT_DIV /\ fed.delta = 1
        \/ fed.accum = enc.accum + d + DETENT_DIV /\ fed.delta = -1
    <3>1. n \in Int /\ enc.accum \in Int /\ d \in Int /\ DETENT_DIV \in Int
      BY <1>0, <2>4 DEF Decoding
    <3> QED
      BY <2>4, <2>6, <3>1
  <2> QED
    BY <1>3, <2>5, <2>7, <2>8, <2>9
<1> QED
  BY <1>2, <1>3

\* Turning by one detent, in either direction.
LEMMA OneDetent ==
  ASSUME NEW t \in Int
  PROVE  /\ DETENT_DIV * (t + 1) = DETENT_DIV * t + DETENT_DIV
         /\ DETENT_DIV * (t + -1) = DETENT_DIV * t - DETENT_DIV
         /\ DETENT_DIV * t \in Int
<1>1. DETENT_DIV \in Int
  BY EncoderAssumption DEF E!Assumptions
<1> QED
  BY <1>1

\* What the decoder has counted beyond what the knob has turned.
Drift == DETENT_DIV * turned + enc.accum - pos

\* A tick leaves the decoder in step with the knob; only an illegal transition
\* moves the drift, by the two quarter steps it did not count.
LEMMA TickTurns ==
  ASSUME Decoding, NEW d \in -MaxStep..MaxStep, tick(d)
  PROVE  /\ Decoding'
         /\ \/ Drift' = Drift /\ enc'.illegal = enc.illegal
            \/ Drift' \in {Drift - 2, Drift + 2} /\ enc'.illegal = enc.illegal + 1
<1> DEFINE fed == E!encoder_feed(enc, gray(pos + d))
<1>1. d \in -2..2
  BY BoundsAssumption
<1>2. enc' = [fed EXCEPT !.delta = 0] /\ turned' = turned + fed.delta /\ pos' = pos + d
  BY DEF tick, compose, E!encoder_consume
<1>3. /\ fed \in [prev_ab : Int, accum : Int, delta : Int, illegal : Nat]
      /\ fed.prev_ab = gray(pos + d)
      /\ fed.accum \in (1 - DETENT_DIV)..(DETENT_DIV - 1)
  BY <1>1, FeedCases
<1>4. \/ /\ d \in {-2, 2} /\ fed.illegal = enc.illegal + 1
         /\ fed.accum = enc.accum /\ fed.delta = 0
      \/ /\ d \in -1..1 /\ fed.illegal = enc.illegal
         /\ \/ fed.accum = enc.accum + d /\ fed.delta = 0
            \/ fed.accum = enc.accum + d - DETENT_DIV /\ fed.delta = 1
            \/ fed.accum = enc.accum + d + DETENT_DIV /\ fed.delta = -1
  BY <1>1, FeedCases
<1> HIDE DEF fed
<1>5. /\ enc'.prev_ab = gray(pos') /\ enc'.accum = fed.accum
      /\ enc'.delta = 0 /\ enc'.illegal = fed.illegal
  BY <1>2, <1>3
<1>6. enc' \in [prev_ab : Int, accum : Int, delta : Int, illegal : Nat]
  BY <1>2, <1>3
<1>7. pos' \in Int /\ turned' \in Int
  BY <1>1, <1>2, <1>3 DEF Decoding
<1>8. Decoding'
  BY <1>3, <1>5, <1>6, <1>7 DEF Decoding
<1>9. DETENT_DIV \in Int /\ DETENT_DIV * turned \in Int /\ turned \in Int
      /\ pos \in Int /\ enc.accum \in Int
  BY OneDetent, EncoderAssumption DEF E!Assumptions, Decoding
<1>10. /\ DETENT_DIV * (turned + 1) = DETENT_DIV * turned + DETENT_DIV
       /\ DETENT_DIV * (turned + -1) = DETENT_DIV * turned - DETENT_DIV
       /\ turned + 0 = turned
  BY <1>9, OneDetent
<1>11. Drift' = DETENT_DIV * (turned + fed.delta) + fed.accum - (pos + d)
  BY <1>2, <1>5 DEF Drift
<1>12. ASSUME d \in {-2, 2}, fed.accum = enc.accum, fed.delta = 0
       PROVE  Drift' \in {Drift - 2, Drift + 2}
  BY <1>9, <1>10, <1>11, <1>12 DEF Drift
<1>13. ASSUME d \in -1..1, fed.accum = enc.accum + d, fed.delta = 0
       PROVE  Drift' = Drift
  BY <1>9, <1>10, <1>11, <1>13 DEF Drift
<1>14. ASSUME d \in -1..1, fed.accum = enc.accum + d - DETENT_DIV, fed.delta = 1
       PROVE  Drift' = Drift
  BY <1>9, <1>10, <1>11, <1>14 DEF Drift
<1>15. ASSUME d \in -1..1, fed.accum = enc.accum + d + DETENT_DIV, fed.delta = -1
       PROVE  Drift' = Drift
  BY <1>9, <1>10, <1>11, <1>15 DEF Drift
<1>16. \/ Drift' = Drift /\ enc'.illegal = enc.illegal
       \/ Drift' \in {Drift - 2, Drift + 2} /\ enc'.illegal = enc.illegal + 1
  <2>1. CASE d \in {-2, 2} /\ fed.illegal = enc.illegal + 1
    <3>1. Drift' \in {Drift - 2, Drift + 2}
      <4>1. d \notin -1..1
        BY <2>1
      <4> QED
        BY <1>4, <1>12, <2>1, <4>1
    <3> QED
      BY <1>5, <2>1, <3>1
  <2>2. CASE d \in -1..1 /\ fed.illegal = enc.illegal
    <3>1. Drift' = Drift
      <4>1. d \notin {-2, 2}
        BY <2>2
      <4> QED
        BY <1>4, <1>13, <1>14, <1>15, <2>2, <4>1
    <3> QED
      BY <1>5, <2>2, <3>1
  <2> QED
    BY <1>4, <2>1, <2>2
<1> QED
  BY <1>8, <1>16

-----------------------------------------------------------------------------
\* The decoder accounts for the movement of the knob.
THEOREM MovementAccounted == Spec => []Accounting
<1> DEFINE Counted == Decoding /\ Drift % 2 = 0 /\ Distance(Drift) <= 2 * enc.illegal
<1>1. Init => Counted
  <2> SUFFICES ASSUME Init PROVE Counted
    OBVIOUS
  <2>1. pos = 0 /\ turned = 0 /\ enc = [prev_ab |-> gray(0), accum |-> 0, delta |-> 0,
                                       illegal |-> 0]
    BY DEF Init, E!encoder_init
  <2>2. DETENT_DIV \in Nat \ {0} /\ gray(0) \in 0..3
    BY EncoderAssumption, GrayIsLevel DEF E!Assumptions
  <2>3. Decoding
    BY <2>1, <2>2 DEF Decoding
  <2>4. Drift = 0
    BY <2>1, <2>2 DEF Drift
  <2> QED
    BY <2>1, <2>3, <2>4 DEF Distance
<1>2. Counted /\ [Next]_vars => Counted'
  <2> SUFFICES ASSUME Counted, [Next]_vars PROVE Counted'
    OBVIOUS
  <2>1. ASSUME NEW d \in -MaxStep..MaxStep, tick(d) PROVE Counted'
    <3>1. Decoding'
      BY <2>1, TickTurns
    <3>2. \/ Drift' = Drift /\ enc'.illegal = enc.illegal
          \/ Drift' \in {Drift - 2, Drift + 2} /\ enc'.illegal = enc.illegal + 1
      BY <2>1, TickTurns
    <3>3. Drift \in Int /\ enc.illegal \in Nat
      BY OneDetent, EncoderAssumption DEF E!Assumptions, Decoding, Drift
    <3>4. Drift' % 2 = 0 /\ Distance(Drift') <= 2 * enc'.illegal
      BY <3>2, <3>3 DEF Distance
    <3> QED
      BY <3>1, <3>4
  <2>2. CASE start \/ arm \/ transaction \/ elapse \/ UNCHANGED vars
    <3>1. UNCHANGED <<enc, pos, turned>>
      BY <2>2 DEF start, arm, transaction, elapse, vars
    <3> QED
      BY <3>1 DEF Decoding, Drift
  <2> QED
    BY <2>1, <2>2 DEF Next
<1>3. Counted => Accounting
  BY DEF Accounting, Drift
<1> QED
  BY <1>1, <1>2, <1>3, PTL DEF Spec

-----------------------------------------------------------------------------
(* Delivery *)

\* Detents on the wire that the base receives again if nothing is re-armed.
again == IF received THEN Distance(buf[wire].in.enc) ELSE 0

\* A frame carries at most one detent.  Only a tick leaves a snapshot unsent,
\* and unless the last tick's snapshot waits, the armed frame carries a detent
\* only after a poll: the tick after a frame with a detent publishes, since the
\* signature of a frame without one differs.  So an unsent snapshot is
\* overwritten only by a tick after a tick, and what the base may receive again
\* is paid for by a poll after a poll.
Delivery ==
  /\ armed \in 0..1 /\ DOMAIN buf = 0..1 /\ wire \in {Pub!Tx!NoBuffer, armed}
  /\ \A b \in 0..1 : buf[b].in.enc \in -1..1
  /\ base_sum \in Int /\ first \in Int /\ skips \in Nat /\ repeats \in Nat
  /\ fresh \in BOOLEAN /\ received \in BOOLEAN
  /\ wire = Pub!Tx!NoBuffer => ~received /\ last = "none"
  /\ fresh => last = "tick"
  /\ ~fresh /\ last # "poll" => buf[armed].in.enc = 0
  /\ \/ Pub!latest.enc = 0
     \/ prev_axis_sig = AxisSig[<<0, 0, Pub!latest.enc>>]
  /\ Distance(turned - first - in_flight) <= skips
  /\ Distance(base_sum - first) + again <= repeats

\* A tick publishes the delta it consumed, unless it is zero and the last
\* frame carries none either.
LEMMA TickPublishes ==
  ASSUME Decoding, Delivery, NEW d \in -MaxStep..MaxStep, tick(d)
  PROVE  \E k \in -1..1 :
           /\ turned' = turned + k
           /\ \/ /\ k = 0 /\ Pub!latest.enc = 0
                 /\ UNCHANGED <<Pub!tx_vars, prev_axis_sig>>
              \/ /\ Pub!Tx!snapshot_publish([Pub!Zero EXCEPT !.enc = k])
                 /\ k = 0 \/ prev_axis_sig' = AxisSig[<<0, 0, k>>]
<1> DEFINE fed == E!encoder_feed(enc, gray(pos + d))
           in == [Pub!Zero EXCEPT !.enc = fed.delta]
<1>1. d \in -2..2
  BY BoundsAssumption
<1>2. fed.delta \in -1..1
  BY <1>1, FeedCases
<1>3. turned' = turned + fed.delta /\ Pub!tick(in)
  BY DEF tick, compose
<1> HIDE DEF fed
<1>4. in.buttons = 0 /\ in.x = 0 /\ in.y = 0 /\ in.enc = fed.delta
  BY DEF Pub!Zero
<1>5. Pub!sig(in) = AxisSig[<<0, 0, fed.delta>>]
  BY <1>4 DEF Pub!sig
<1>6. CASE Pub!publish_changed(in)
  <2>1. Pub!Tx!snapshot_publish(in) /\ prev_axis_sig' = AxisSig[<<0, 0, fed.delta>>]
    BY <1>5, <1>6 DEF Pub!publish_changed
  <2> QED
    BY <1>2, <1>3, <2>1
<1>7. CASE Pub!keep_alive(in)
  <2>1. fed.delta = 0 /\ AxisSig[<<0, 0, 0>>] = prev_axis_sig
    BY <1>4, <1>5, <1>7 DEF Pub!keep_alive, Pub!changed
  <2>2. \/ Pub!Tx!snapshot_publish(in)
        \/ UNCHANGED <<Pub!tx_vars, prev_axis_sig>>
    BY <1>7 DEF Pub!keep_alive
  <2>3. Pub!latest.enc \in Encs /\ 0 \in Encs
    <3>1. Pub!latest.enc \in -1..1
      BY DEF Delivery, Pub!latest, Pub!Tx!staging
    <3> QED
      BY <3>1, EncoderAssumption DEF E!Assumptions, Encs
  <2>4. Pub!latest.enc = 0
    BY <2>1, <2>3, SignatureAssumption DEF Delivery
  <2> QED
    BY <1>2, <1>3, <2>1, <2>2, <2>4
<1> QED
  BY <1>3, <1>6, <1>7 DEF Pub!tick

\* What is on its way: at most a detent that waits and one on the wire.
LEMMA InFlight ==
  ASSUME Decoding, Delivery
  PROVE  /\ again \in Nat /\ in_flight \in Int
         /\ wire # Pub!Tx!NoBuffer =>
              /\ wire = armed /\ wire \in 0..1
              /\ in_flight = (IF fresh THEN buf[1 - armed].in.enc ELSE 0)
                               + (IF received THEN 0 ELSE buf[armed].in.enc)
<1>1. /\ armed \in 0..1 /\ 1 - armed \in 0..1 /\ wire \in {Pub!Tx!NoBuffer, armed}
      /\ wire = Pub!Tx!NoBuffer => ~received
  BY DEF Delivery
<1>2. buf[armed].in.enc \in -1..1 /\ buf[1 - armed].in.enc \in -1..1
  BY <1>1 DEF Delivery
<1>3. again \in Nat
  BY <1>1, <1>2 DEF again, Distance
<1>4. in_flight \in Int
  BY <1>1, <1>2 DEF in_flight, Pub!Tx!staging
<1>5. wire # Pub!Tx!NoBuffer =>
        in_flight = (IF fresh THEN buf[1 - armed].in.enc ELSE 0)
                      + (IF received THEN 0 ELSE buf[armed].in.enc)
  BY <1>1 DEF in_flight, Pub!Tx!staging
<1> QED
  BY <1>1, <1>3, <1>4, <1>5

\* A tick adds its detents to what is on its way; only after another tick does
\* it overwrite a detent that waits.
LEMMA TickDelivers ==
  ASSUME Decoding, Delivery, NEW d \in -MaxStep..MaxStep, tick(d)
  PROVE  Delivery'
<1>1. /\ wire # Pub!Tx!NoBuffer /\ last' = "tick"
      /\ UNCHANGED <<base_sum, first, received, repeats>>
      /\ skips' = IF last = "tick" THEN skips + 1 ELSE skips
  BY DEF tick
<1>2. wire = armed /\ armed \in 0..1 /\ skips \in Nat /\ skips' \in Nat
  BY <1>1 DEF Delivery
<1>3. PICK k \in -1..1 :
           /\ turned' = turned + k
           /\ \/ /\ k = 0 /\ Pub!latest.enc = 0
                 /\ UNCHANGED <<Pub!tx_vars, prev_axis_sig>>
              \/ /\ Pub!Tx!snapshot_publish([Pub!Zero EXCEPT !.enc = k])
                 /\ k = 0 \/ prev_axis_sig' = AxisSig[<<0, 0, k>>]
  BY TickPublishes
<1>4. CASE k = 0 /\ Pub!latest.enc = 0 /\ UNCHANGED <<Pub!tx_vars, prev_axis_sig>>
  <2>1. UNCHANGED <<buf, armed, fresh, wire, prev_axis_sig, turned>>
    BY <1>3, <1>4 DEF Pub!tx_vars, Decoding
  <2>2. in_flight' = in_flight /\ again' = again /\ Pub!latest' = Pub!latest
    BY <1>1, <2>1 DEF in_flight, again, Pub!Tx!staging, Pub!latest
  <2>3. ~fresh => buf[armed].in.enc = 0
    BY <1>4 DEF Pub!latest
  <2>4. Distance(turned - first - in_flight) <= skips'
    <3>1. turned - first - in_flight \in Int
      BY InFlight DEF Decoding, Delivery
    <3>2. Distance(turned - first - in_flight) \in Int
      BY <3>1 DEF Distance
    <3> QED
      BY <1>1, <1>2, <3>2 DEF Delivery
  <2> QED
    BY <1>1, <1>2, <2>1, <2>2, <2>3, <2>4 DEF Delivery
<1>5. CASE /\ Pub!Tx!snapshot_publish([Pub!Zero EXCEPT !.enc = k])
           /\ k = 0 \/ prev_axis_sig' = AxisSig[<<0, 0, k>>]
  <2> DEFINE s == 1 - armed
             lost == IF fresh THEN buf[s].in.enc ELSE 0
             gone == turned - first - in_flight
  <2>1. s \in 0..1 /\ s # armed
    BY <1>2
  <2>2. /\ DOMAIN buf' = 0..1 /\ buf'[s].in.enc = k /\ buf'[armed] = buf[armed]
        /\ fresh' = TRUE /\ armed' = armed /\ wire' = wire
    BY <1>5, <2>1 DEF Delivery, Pub!Tx!snapshot_publish, Pub!Tx!staging,
                      Pub!Tx!frame_build, Pub!Zero
  <2>3. \A b \in 0..1 : buf'[b].in.enc \in -1..1
    <3> SUFFICES ASSUME NEW b \in 0..1 PROVE buf'[b].in.enc \in -1..1
      OBVIOUS
    <3>1. b = s \/ b = armed
      BY <1>2
    <3> QED
      BY <2>2, <3>1 DEF Delivery
  <2>4. Pub!latest'.enc = k
    BY <2>2 DEF Pub!latest, Pub!Tx!staging
  <2>5. again' = again
    BY <1>1, <1>2, <2>2 DEF again
  <2>6. lost \in -1..1 /\ (fresh => last = "tick")
    BY <2>1 DEF Delivery
  <2>7. in_flight' = in_flight + k - lost
    <3>1. in_flight' = k + (IF received THEN 0 ELSE buf[armed].in.enc)
      BY <1>1, <1>2, <2>2 DEF in_flight, Pub!Tx!staging
    <3>2. in_flight = lost + (IF received THEN 0 ELSE buf[armed].in.enc)
      BY <1>1, InFlight
    <3>3. (IF received THEN 0 ELSE buf[armed].in.enc) \in Int
      BY <1>2 DEF Delivery
    <3> QED
      BY <1>3, <2>6, <3>1, <3>2, <3>3
  <2>8. turned' - first' - in_flight' = gone + lost
    <3>1. in_flight \in Int /\ first \in Int /\ turned \in Int
      BY InFlight DEF Delivery, Decoding
    <3> QED
      BY <1>1, <1>3, <2>6, <2>7, <3>1
  <2>9. Distance(turned' - first' - in_flight') <= skips'
    <3>1. gone \in Int /\ Distance(gone) <= skips
      BY InFlight DEF Delivery, Decoding
    <3>2. CASE fresh
      <4>1. skips' = skips + 1
        BY <1>1, <2>6, <3>2
      <4> QED
        BY <1>2, <2>6, <2>8, <3>1, <4>1 DEF Distance
    <3>3. CASE ~fresh
      <4>1. lost = 0 /\ skips <= skips'
        BY <1>1, <1>2, <3>3
      <4> QED
        BY <1>2, <2>8, <3>1, <4>1 DEF Distance
    <3> QED
      BY <3>2, <3>3
  <2> HIDE DEF s, lost, gone
  <2>10. base_sum' \in Int /\ first' \in Int /\ repeats' \in Nat /\ received' \in BOOLEAN
         /\ Distance(base_sum' - first') + again' <= repeats'
    BY <1>1, <2>5 DEF Delivery
  <2> QED
    BY <1>1, <1>2, <1>5, <2>2, <2>3, <2>4, <2>9, <2>10 DEF Delivery
<1> QED
  BY <1>3, <1>4, <1>5

\* Re-arming takes what waits, or leaves the armed frame, cleared or not.
LEMMA Rearmed ==
  ASSUME Decoding, Delivery, Pub!acquire
  PROVE  /\ fresh' = FALSE /\ wire' = armed' /\ armed' \in 0..1
         /\ DOMAIN buf' = 0..1 /\ \A b \in 0..1 : buf'[b].in.enc \in -1..1
         /\ buf'[armed'].in.enc \in {Pub!latest.enc, 0}
         /\ fresh => /\ buf' = buf
                     /\ buf'[armed'].in.enc = buf[1 - armed].in.enc
         /\ ~fresh => /\ armed' = armed
                      /\ Distance(buf'[armed'].in.enc) <= Distance(buf[armed].in.enc)
         /\ Pub!latest'.enc \in {Pub!latest.enc, 0} /\ prev_axis_sig' = prev_axis_sig
<1>1. Pub!Tx!tx_acquire /\ wire' = armed' /\ prev_axis_sig' = prev_axis_sig
  BY DEF Pub!acquire, Pub!Tx!tx_acquire, Pub!thread_vars
<1>2. armed \in 0..1 /\ 1 - armed \in 0..1 /\ buf[armed].in.enc \in -1..1
  BY DEF Delivery
<1>3. CASE fresh
  <2>1. fresh' = FALSE /\ armed' = 1 - armed /\ buf' = buf
    BY <1>1, <1>3 DEF Pub!Tx!tx_acquire, Pub!Tx!swap_staging, Pub!Tx!clear_stale,
                      Pub!Tx!repeat_frame, Pub!Tx!staging
  <2>2. Pub!latest.enc = buf[1 - armed].in.enc
    BY <1>3 DEF Pub!latest, Pub!Tx!staging
  <2>3. Pub!latest'.enc = buf[1 - armed].in.enc
    BY <2>1 DEF Pub!latest
  <2> QED
    BY <1>1, <1>2, <1>3, <2>1, <2>2, <2>3 DEF Delivery
<1>4. CASE ~fresh
  <2>1. fresh' = FALSE /\ armed' = armed
        /\ \/ buf' = buf
           \/ buf' = [buf EXCEPT ![armed] = Pub!Tx!frame_build(Pub!Zero)]
    BY <1>1, <1>4 DEF Pub!Tx!tx_acquire, Pub!Tx!swap_staging, Pub!Tx!clear_stale,
                      Pub!Tx!repeat_frame
  <2>2. Pub!latest.enc = buf[armed].in.enc /\ Pub!latest'.enc = buf'[armed].in.enc
    BY <1>4, <2>1 DEF Pub!latest
  <2>3. CASE buf' = buf
    BY <1>1, <1>2, <1>4, <2>1, <2>2, <2>3 DEF Delivery, Distance
  <2>4. CASE buf' = [buf EXCEPT ![armed] = Pub!Tx!frame_build(Pub!Zero)]
    <3>1. DOMAIN buf' = 0..1 /\ buf'[armed].in.enc = 0
      BY <1>2, <2>4 DEF Pub!Tx!frame_build, Pub!Zero, Delivery
    <3>2. \A b \in 0..1 : buf'[b].in.enc \in -1..1
      <4> SUFFICES ASSUME NEW b \in 0..1 PROVE buf'[b].in.enc \in -1..1
        OBVIOUS
      <4>1. CASE b = armed
        BY <3>1, <4>1
      <4>2. CASE b # armed
        BY <2>4, <4>2 DEF Delivery
      <4> QED
        BY <4>1, <4>2
    <3>3. Distance(0) <= Distance(buf[armed].in.enc)
      BY <1>2 DEF Distance
    <3> QED
      BY <1>1, <1>2, <1>4, <2>1, <2>2, <3>1, <3>2, <3>3
  <2> QED
    BY <2>1, <2>3, <2>4
<1> QED
  BY <1>3, <1>4

\* The first re-arm puts a neutral frame on the wire.
LEMMA ArmDelivers ==
  ASSUME Decoding, Delivery, arm
  PROVE  Delivery'
<1>1. wire = Pub!Tx!NoBuffer /\ Pub!acquire /\ UNCHANGED <<turned, base_vars>>
  BY DEF arm
<1>2. ~received /\ last = "none" /\ ~fresh /\ buf[armed].in.enc = 0 /\ Pub!latest.enc = 0
  BY <1>1 DEF Delivery, Pub!latest
<1>3. /\ fresh' = FALSE /\ wire' = armed' /\ armed' \in 0..1 /\ DOMAIN buf' = 0..1
      /\ \A b \in 0..1 : buf'[b].in.enc \in -1..1
      /\ buf'[armed'].in.enc = 0 /\ Pub!latest'.enc = 0
  BY <1>1, <1>2, Rearmed
<1>4. in_flight = 0 /\ in_flight' = 0
  BY <1>1, <1>2, <1>3 DEF in_flight, Pub!Tx!NoBuffer
<1>5. again = 0 /\ again' = 0 /\ ~received' /\ last' = "none"
  BY <1>1, <1>2 DEF again, base_vars
<1>6. UNCHANGED <<turned, base_sum, first, received, skips, repeats>>
  BY <1>1 DEF base_vars
<1>7. wire' # Pub!Tx!NoBuffer
  BY <1>3 DEF Pub!Tx!NoBuffer
<1> QED
  BY <1>3, <1>4, <1>5, <1>6, <1>7 DEF Delivery

\* A poll hands the base what was on the wire; what waited is re-armed, and
\* what was armed may be received again.
LEMMA TransactionDelivers ==
  ASSUME Decoding, Delivery, transaction
  PROVE  Delivery'
<1> DEFINE e == buf[armed].in.enc
<1>1. /\ wire # Pub!Tx!NoBuffer /\ Pub!acquire /\ UNCHANGED <<turned, skips>>
      /\ base_sum' = base_sum + buf[wire].in.enc
      /\ first' = IF received THEN first ELSE first + buf[wire].in.enc
      /\ received' = ~fresh
      /\ last' = IF last = "none" THEN "none" ELSE "poll"
      /\ repeats' = IF last = "poll" THEN repeats + 1 ELSE repeats
  BY DEF transaction
<1>2. wire = armed /\ armed \in 0..1 /\ e \in -1..1
  BY <1>1 DEF Delivery
<1>3. /\ fresh' = FALSE /\ wire' = armed' /\ armed' \in 0..1
      /\ DOMAIN buf' = 0..1 /\ \A b \in 0..1 : buf'[b].in.enc \in -1..1
      /\ fresh => buf'[armed'].in.enc = buf[1 - armed].in.enc
      /\ ~fresh => Distance(buf'[armed'].in.enc) <= Distance(e)
      /\ Pub!latest'.enc \in {Pub!latest.enc, 0} /\ prev_axis_sig' = prev_axis_sig
  BY <1>1, Rearmed
<1>4. base_sum' \in Int /\ first' \in Int /\ repeats' \in Nat /\ received' \in BOOLEAN
      /\ base_sum \in Int /\ first \in Int /\ repeats \in Nat /\ skips \in Nat
  BY <1>1, <1>2 DEF Delivery
<1>5. wire' # Pub!Tx!NoBuffer
  BY <1>3 DEF Pub!Tx!NoBuffer
<1>6. last' # "poll" => buf'[armed'].in.enc = 0
  <2> SUFFICES ASSUME last' # "poll" PROVE buf'[armed'].in.enc = 0
    OBVIOUS
  <2>1. last = "none" /\ ~fresh
    BY <1>1 DEF Delivery
  <2>2. e = 0
    BY <2>1 DEF Delivery
  <2>3. buf'[armed'].in.enc \in -1..1
    BY <1>3
  <2> QED
    BY <1>3, <2>1, <2>2, <2>3 DEF Distance
<1>7. in_flight' = in_flight - (IF received THEN 0 ELSE e)
  <2>1. in_flight = (IF fresh THEN buf[1 - armed].in.enc ELSE 0)
                      + (IF received THEN 0 ELSE e)
    BY <1>1, InFlight
  <2>2. in_flight' = IF received' THEN 0 ELSE buf'[armed'].in.enc
    <3>1. buf'[armed'].in.enc \in -1..1
      BY <1>3
    <3> QED
      BY <1>3, <1>5, <3>1 DEF in_flight
  <2>3. in_flight' = IF fresh THEN buf[1 - armed].in.enc ELSE 0
    BY <1>1, <1>3, <2>2
  <2>4. in_flight' \in Int
    <3>1. 1 - armed \in 0..1
      BY <1>2
    <3>2. buf[1 - armed].in.enc \in -1..1
      BY <3>1 DEF Delivery
    <3> QED
      BY <2>3, <3>2
  <2> HIDE DEF e
  <2> QED
    BY <1>2, <2>1, <2>3, <2>4
<1>8. Distance(turned' - first' - in_flight') <= skips'
  <2>1. in_flight \in Int /\ turned \in Int
    BY InFlight DEF Decoding
  <2>2. turned' - first' - in_flight' = turned - first - in_flight
    <3>1. CASE received
      <4>1. turned' = turned /\ first' = first /\ in_flight' = in_flight - 0
        BY <1>1, <1>7, <3>1
      <4> QED
        BY <2>1, <4>1
    <3>2. CASE ~received
      <4>1. turned' = turned /\ first' = first + e /\ in_flight' = in_flight - e
        BY <1>1, <1>2, <1>7, <3>2
      <4> HIDE DEF e
      <4> QED
        BY <1>2, <1>4, <2>1, <4>1
    <3> QED
      BY <3>1, <3>2
  <2> QED
    BY <1>1, <2>2 DEF Delivery
<1>9. Distance(base_sum' - first') + again' <= repeats'
  <2>1. again = IF received THEN Distance(e) ELSE 0
    BY <1>2 DEF again
  <2>2. again' = IF ~fresh THEN Distance(buf'[armed'].in.enc) ELSE 0
    BY <1>1, <1>3 DEF again
  <2>3. again' <= IF fresh THEN 0 ELSE Distance(e)
    <3>1. buf'[armed'].in.enc \in -1..1 /\ Distance(buf'[armed'].in.enc) \in Int
      BY <1>3 DEF Distance
    <3> QED
      BY <1>2, <1>3, <2>2, <3>1 DEF Distance
  <2>4. Distance(base_sum' - first') <= Distance(base_sum - first) + again
    BY <1>1, <1>2, <1>4, <2>1 DEF Distance
  <2>5. Distance(base_sum - first) + again <= repeats
    BY DEF Delivery
  <2>6. Distance(base_sum - first) \in Int /\ Distance(base_sum' - first') \in Int
        /\ again \in Int /\ again' \in Int
    <3>1. buf'[armed'].in.enc \in -1..1
      BY <1>3
    <3>2. again \in Int /\ again' \in Int
      BY <1>2, <2>1, <2>2, <3>1 DEF Distance
    <3>3. base_sum - first \in Int /\ base_sum' - first' \in Int
      BY <1>4
    <3>4. \A i \in Int : Distance(i) \in Int
      BY DEF Distance
    <3> QED
      BY <3>2, <3>3, <3>4
  <2>7. CASE fresh \/ last # "poll"
    <3>1. again' <= 0
      <4>1. ~fresh => e = 0
        BY <2>7 DEF Delivery
      <4> QED
        BY <2>3, <4>1 DEF Distance
    <3>2. repeats <= repeats'
      BY <1>1, <1>4
    <3> HIDE DEF e
    <3> QED
      BY <1>4, <2>4, <2>5, <2>6, <3>1, <3>2
  <2>8. CASE last = "poll"
    <3>1. again' <= 1
      <4>1. Distance(e) \in 0..1
        BY <1>2 DEF Distance
      <4> HIDE DEF e
      <4> QED
        BY <2>3, <2>6, <4>1
    <3>2. repeats' = repeats + 1
      BY <1>1, <2>8
    <3> HIDE DEF e
    <3> QED
      BY <1>4, <2>4, <2>5, <2>6, <3>1, <3>2
  <2> QED
    BY <2>7, <2>8
<1> HIDE DEF e
<1>10. \/ Pub!latest'.enc = 0
       \/ prev_axis_sig' = AxisSig[<<0, 0, Pub!latest'.enc>>]
  BY <1>3 DEF Delivery
<1>11. skips' \in Nat
  BY <1>1, <1>4
<1> QED
  BY <1>3, <1>4, <1>5, <1>6, <1>8, <1>9, <1>10, <1>11 DEF Delivery

\* Whatever the order of ticks and polls, the base misses at most one detent
\* per tick that found no poll since the tick before, and counts again at most
\* one per poll that found no tick since the poll before.
THEOREM EveryDetentDelivered == Spec => []DetentsDelivered
<1> DEFINE Inv == Decoding /\ Delivery
<1>1. Init => Inv
  <2> SUFFICES ASSUME Init PROVE Inv
    OBVIOUS
  <2> USE DEF Init, Pub!Init, Pub!Tx!Init
  <2>1. gray(0) \in 0..3 /\ DETENT_DIV \in Nat \ {0}
    BY GrayIsLevel, EncoderAssumption DEF E!Assumptions
  <2>2. Decoding
    BY <2>1 DEF Decoding, E!encoder_init
  <2>3. \A b \in 0..1 : buf[b].in.enc = 0
    BY DEF Pub!Tx!frame_build, Pub!Zero
  <2>4. Pub!latest.enc = 0
    BY <2>3 DEF Pub!latest
  <2>5. in_flight = 0 /\ again = 0
    BY DEF in_flight, again
  <2>6. Delivery
    <3>1. received \in BOOLEAN /\ fresh \in BOOLEAN
      OBVIOUS
    <3>2. armed \in 0..1 /\ DOMAIN buf = 0..1 /\ wire = Pub!Tx!NoBuffer /\ last = "none"
          /\ ~received /\ ~fresh
      OBVIOUS
    <3>3. base_sum = 0 /\ first = 0 /\ skips = 0 /\ repeats = 0 /\ turned = 0
      OBVIOUS
    <3>4. /\ Distance(turned - first - in_flight) <= skips
          /\ Distance(base_sum - first) + again <= repeats
      BY <2>5, <3>3 DEF Distance
    <3> QED
      BY <2>3, <2>4, <3>1, <3>2, <3>3, <3>4 DEF Delivery
  <2> QED
    BY <2>2, <2>6
<1>2. Inv /\ [Next]_vars => Inv'
  <2> SUFFICES ASSUME Inv, [Next]_vars PROVE Inv'
    OBVIOUS
  <2>1. ASSUME NEW d \in -MaxStep..MaxStep, tick(d) PROVE Inv'
    BY <2>1, TickTurns, TickDelivers
  <2>2. CASE arm \/ transaction
    <3>1. Decoding'
      BY <2>2 DEF arm, transaction, Decoding
    <3> QED
      BY <2>2, <3>1, ArmDelivers, TransactionDelivers
  <2>3. CASE start \/ elapse \/ UNCHANGED vars
    <3>1. UNCHANGED <<buf, armed, fresh, wire, prev_axis_sig, enc, pos, turned,
                      base_sum, first, received, last, skips, repeats>>
      BY <2>3 DEF start, elapse, vars, pub_vars, base_vars, Pub!input_svc_init,
                  Pub!elapse, Pub!Tx!elapse, Pub!tx_vars, Pub!thread_vars
    <3>2. Decoding'
      BY <3>1 DEF Decoding
    <3>3. in_flight' = in_flight /\ again' = again /\ Pub!latest' = Pub!latest
      BY <3>1 DEF in_flight, again, Pub!latest, Pub!Tx!staging
    <3>4. Delivery'
      BY <3>1, <3>3 DEF Delivery
    <3> QED
      BY <3>2, <3>4
  <2> QED
    BY <2>1, <2>2, <2>3 DEF Next
<1>3. Inv => DetentsDelivered
  <2> SUFFICES ASSUME Inv PROVE DetentsDelivered
    OBVIOUS
  <2>1. again \in Nat
    BY InFlight
  <2>2. Distance(base_sum - first) \in Int /\ repeats \in Nat
    BY DEF Delivery, Distance
  <2>3. /\ Distance(turned - first - in_flight) <= skips
        /\ Distance(base_sum - first) + again <= repeats
    BY DEF Delivery
  <2> QED
    BY <2>1, <2>2, <2>3 DEF DetentsDelivered
<1> QED
  BY <1>1, <1>2, <1>3, PTL DEF Spec
=============================================================================
