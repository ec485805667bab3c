------------------------------ MODULE Buttons ------------------------------
(***************************************************************************)
(* The composition of the button word in the input thread                  *)
(* (app/src/input_svc.c): debounced push buttons through the button map,   *)
(* the bits of the D-pad position, the funky switch (app/src/funky.c) and  *)
(* the overrides of the shell.  A word is the set of its bits, a mask of   *)
(* contacts the set of the closed ones.                                    *)
(***************************************************************************)
EXTENDS Integers, Sequences

CONSTANTS
  INPUT_NUM_BUTTONS,
  Samples,      \* inputs of a scan: [btn, dir, push, pos]
  MapBits,      \* bits the shell maps a button to
  ManualBits    \* bits the shell overrides

Btns == 1..INPUT_NUM_BUTTONS

\* Bits of the word (rimlink.h).
UP == 1
LEFT == 2
RIGHT == 3
DOWN == 4
DPAD_BUTTON == 18
JOYSTICK_BUTTON == 19
MENU == 22

\* A contact of the funky switch has the name of the bit it sets.
Contacts == {UP, DOWN, LEFT, RIGHT}

\* What is assumed of the constants.
Assumptions ==
  /\ INPUT_NUM_BUTTONS \in Nat
  /\ Samples \subseteq [btn : SUBSET Btns, dir : SUBSET Contacts,
                        push : BOOLEAN, pos : 0..7]
  /\ MapBits \subseteq 1..22
  /\ ManualBits \subseteq 1..24

VARIABLES
  btn_db,       \* debounce state of each button
  funky,        \* the funky switch's decoder
  dpad_prev_pos,
  button_map,   \* the bit of each button
  manual_bits,
  buttons,      \* the word composed last
  \* History
  before, last  \* the last two samples

vars == <<btn_db, funky, dpad_prev_pos, button_map, manual_bits, buttons,
          before, last>>

Idle == [btn |-> {}, dir |-> {}, push |-> FALSE, pos |-> 0]

TypeOK ==
  /\ btn_db \in [Btns -> [state : BOOLEAN, prev : BOOLEAN]]
  /\ funky \in [dir_raw_prev : SUBSET Contacts, dir_stable : SUBSET Contacts,
                push_raw_prev : BOOLEAN, push_stable : BOOLEAN, fault : BOOLEAN]
  /\ dpad_prev_pos \in 0..7
  /\ button_map \in [Btns -> 1..22]
  /\ manual_bits \subseteq 1..24
  /\ buttons \subseteq 1..24
  /\ {before, last} \subseteq Samples \cup {Idle}

\* Nothing is pressed; the settings hold a map without a bit used twice.
Init ==
  /\ btn_db = [i \in Btns |-> [state |-> FALSE, prev |-> FALSE]]
  /\ funky = [dir_raw_prev |-> {}, dir_stable |-> {}, push_raw_prev |-> FALSE,
              push_stable |-> FALSE, fault |-> FALSE]
  /\ dpad_prev_pos = 0
  /\ button_map \in {m \in [Btns -> MapBits] :
                       \A i, j \in Btns : m[i] = m[j] => i = j}
  /\ manual_bits = {}
  /\ buttons = {}
  /\ before = Idle
  /\ last = Idle

\* Mutant: every sample is believed.
debounce_feed_at_once(d, raw) == [state |-> raw, prev |-> raw]

\* The state follows the contact once two samples running agree.
debounce_feed(d, raw) ==
  [state |-> IF raw = d.prev THEN raw ELSE d.state, prev |-> raw]

chord(mask) == {UP, DOWN} \subseteq mask \/ {LEFT, RIGHT} \subseteq mask

\* The directions are debounced as one mask, the push on its own.
funky_feed(f, mask, push) ==
  LET stable == IF mask = f.dir_raw_prev THEN mask ELSE f.dir_stable
  IN  [dir_raw_prev  |-> mask,
       dir_stable    |-> stable,
       push_raw_prev |-> push,
       push_stable   |-> IF push = f.push_raw_prev THEN push ELSE f.push_stable,
       fault         |-> chord(stable)]

\* One direction or none: neither a chord nor a diagonal is one.
funky_dir_get(f) ==
  IF ~f.fault /\ \E c \in Contacts : f.dir_stable = {c} THEN f.dir_stable ELSE {}

funky_apply(f) == funky_dir_get(f) \cup IF f.push_stable THEN {DPAD_BUTTON} ELSE {}

\* Position 3 calibrates the centre of the wheel, position 6 is the menu.
dpad_apply_bits(pos) ==
  << {}, {RIGHT}, {LEFT}, {DPAD_BUTTON, JOYSTICK_BUTTON}, {DOWN}, {UP}, {MENU},
     {DPAD_BUTTON} >>[pos + 1]

\* Each button sets or clears its bit, in order: of several with one bit the
\* last decides.
map_apply(db) ==
  {button_map[i] : i \in {i \in Btns :
      /\ db[i].state
      /\ \A j \in Btns : j > i => button_map[j] # button_map[i]}}

\* Mutant: the push buttons come last, and released ones clear what the
\* others have set.
compose_buttons_last(db, f, pos) ==
  ((dpad_apply_bits(pos) \cup funky_apply(f))
      \ {button_map[i] : i \in {i \in Btns : ~db[i].state}})
    \cup map_apply(db) \cup manual_bits

compose(db, f, pos) ==
  map_apply(db) \cup dpad_apply_bits(pos) \cup funky_apply(f) \cup manual_bits

\* A tick of the input thread, as far as buttons go.  When the ladder cannot
\* be read the position stays: a sample with the same one.
scan(s) ==
  LET db == [i \in Btns |-> debounce_feed(btn_db[i], i \in s.btn)]
      f  == funky_feed(funky, s.dir, s.push)
  IN  /\ btn_db' = db
      /\ funky' = f
      /\ dpad_prev_pos' = s.pos
      /\ buttons' = compose(db, f, s.pos)
      /\ before' = last
      /\ last' = s
      /\ UNCHANGED <<button_map, manual_bits>>

\* The shell maps a button; two buttons may get the same bit.
input_svc_map_set(i, bit) ==
  /\ button_map' = [button_map EXCEPT ![i] = bit]
  /\ UNCHANGED <<btn_db, funky, dpad_prev_pos, manual_bits, buttons, before, last>>

input_svc_manual_bit(bit, on) ==
  /\ manual_bits' = IF on THEN manual_bits \cup {bit} ELSE manual_bits \ {bit}
  /\ UNCHANGED <<btn_db, funky, dpad_prev_pos, button_map, buttons, before, last>>

input_svc_manual_toggle(bit) ==
  input_svc_manual_bit(bit, bit \notin manual_bits)

Next ==
  \/ \E s \in Samples : scan(s)
  \/ \E i \in Btns, bit \in MapBits : input_svc_map_set(i, bit)
  \/ \E bit \in ManualBits :
        \/ \E on \in BOOLEAN : input_svc_manual_bit(bit, on)
        \/ input_svc_manual_toggle(bit)

Spec == Init /\ [][Next]_vars

-----------------------------------------------------------------------------
(* Properties *)

\* What a contact is worth: closed in both samples, or taken for closed
\* before and not open in both.
Believed(was, s1, s2) == (s1 \cap s2) \cup (was \cap (s1 \cup s2))

Pressed == {i \in Btns : btn_db[i].state}

\* The steps that leave the map and the overrides alone are the scans.
Scanned == UNCHANGED <<button_map, manual_bits>>

\* Everything held is in the word: what a user holds over two scans is
\* reported whatever the other inputs do, a button at least when no other is
\* mapped to its bit.  No source clears what another one has set.
HeldReported ==
  /\ manual_bits \subseteq buttons'
  /\ dpad_apply_bits(last'.pos) \subseteq buttons'
  /\ before'.push /\ last'.push => DPAD_BUTTON \in buttons'
  /\ before'.dir = last'.dir /\ last'.dir \in {{c} : c \in Contacts}
       => last'.dir \subseteq buttons'
  /\ \A i \in before'.btn \cap last'.btn :
       (\A j \in Btns \ {i} : button_map[j] # button_map[i])
         => button_map[i] \in buttons'

\* No scan loses what is held.
HeldIsReported == [][Scanned => HeldReported]_vars

\* Every bit of the word has an input behind it: a press of one scan is none,
\* and a steady opposite-direction chord of the funky switch raises a fault
\* and produces no input (steering_wheel_sw_spec.md:101).  While its mask
\* bounces the switch keeps its last steady direction.
Explained ==
  LET pushed == \/ before'.push /\ last'.push
                \/ funky.push_stable /\ (before'.push \/ last'.push)
      dirs == IF before'.dir # last'.dir THEN funky.dir_stable
              ELSE IF chord(last'.dir) THEN {} ELSE last'.dir
  IN  /\ buttons' \subseteq
           manual_bits \cup dpad_apply_bits(last'.pos) \cup dirs
             \cup (IF pushed THEN {DPAD_BUTTON} ELSE {})
             \cup {button_map[i] : i \in
                     Believed(Pressed, before'.btn, last'.btn)}
      /\ before'.dir = last'.dir /\ chord(last'.dir) => funky'.fault

\* No scan makes up a bit.
NoPhantom == [][Scanned => Explained]_vars

\* Does not hold: a held button is reported whatever the map is.  Of two
\* buttons mapped to one bit, the later one in the scan clears the bit while
\* it is not pressed.
SharedBitReported ==
  [][Scanned => \A i \in before'.btn \cap last'.btn :
                  button_map[i] \in buttons']_vars

\* Does not hold: a direction whose contact has been open in two scans is no
\* longer reported.  The mask is debounced as one, so that another contact
\* which bounces keeps the released direction alive.
ReleasedIsSilent ==
  [][Scanned => \A c \in Contacts :
       (/\ c \notin before'.dir \cup last'.dir
        /\ \A i \in Btns : button_map[i] # c
        /\ c \notin dpad_apply_bits(last'.pos) \cup manual_bits)
          => c \notin buttons']_vars
=============================================================================
