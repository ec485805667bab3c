------------------------------ MODULE DispText ------------------------------
(***************************************************************************)
(* The text of the display field: the seven-segment table (app/src/seg7.c) *)
(* as the simulator's sim disp encodes with it (app/sim/src/main.c), and   *)
(* as the output service decodes with it and keeps the text for rim disp   *)
(* (decode_text, output_svc_rx and output_svc_init of                      *)
(* app/src/output_svc.c).  Text and segments are under one lock but for    *)
(* the initialisation, which frames may overtake.                          *)
(***************************************************************************)
EXTENDS Integers, Sequences, SequencesExt

CONSTANTS
  Segments,     \* segment bytes a base sends
  Typed         \* characters typed at the simulator

\* What is assumed of the constants.
Assumptions == Segments \subseteq 0..255 /\ 0 \in Segments

VARIABLES
  mosi_disp,    \* the simulator's display field
  prev_disp,    \* osvc.prev_disp
  text,         \* osvc.text
  ready,        \* output_svc_init has run
  \* History
  early         \* a frame came before it

vars == <<mosi_disp, prev_disp, text, ready, early>>

Fields == [1..3 -> Segments]
Blank == <<0, 0, 0>>

-----------------------------------------------------------------------------
(* seg7.c *)

map == <<
  <<63, "0">>, <<6, "1">>, <<91, "2">>, <<79, "3">>, <<102, "4">>, <<109, "S">>,
  <<125, "6">>, <<7, "7">>, <<127, "8">>, <<111, "9">>, <<57, "C">>, <<56, "L">>,
  <<8, "_">>, <<121, "E">>, <<84, "n">>, <<113, "F">>, <<118, "H">>, <<92, "o">>,
  <<119, "A">>, <<124, "b">>, <<94, "d">>, <<80, "r">>, <<48, "I">>, <<115, "P">>,
  <<120, "t">>, <<64, "-">>, <<62, "u">>, <<42, "*">>, <<0, " ">>>>

Entries == {map[i] : i \in DOMAIN map}
Known(p) == \E e \in Entries : e[1] = p

\* Entry i is the first one with x in column k.
first(i, k, x) == map[i][k] = x /\ \A j \in 1..(i - 1) : map[j][k] # x

seg7_to_ascii(p) == map[CHOOSE i \in DOMAIN map : first(i, 1, p)][2]

\* A '5' has the glyph of 'S', an unsupported character none.
seg7_from_ascii(c) ==
  LET x == IF c = "5" THEN "S" ELSE c
  IN  IF \E e \in Entries : e[2] = x
      THEN map[CHOOSE i \in DOMAIN map : first(i, 2, x)][1] ELSE 0

-----------------------------------------------------------------------------
(* output_svc.c *)

Hex == <<"0", "1", "2", "3", "4", "5", "6", "7", "8", "9", "A", "B", "C", "D",
         "E", "F">>
hex(p) == <<"0", "x", Hex[(p \div 16) + 1], Hex[(p % 16) + 1]>>

\* Mutant: the dot is masked before it is looked at.
glyph_no_dot(s) ==
  IF Known(s % 128) THEN <<seg7_to_ascii(s % 128)>> ELSE hex(s % 128)

\* A known glyph is its character, an unknown one hexadecimal; then the dot.
glyph(s) ==
  (IF Known(s % 128) THEN <<seg7_to_ascii(s % 128)>> ELSE hex(s % 128))
  \o (IF s >= 128 THEN <<".">> ELSE <<>>)

decode_text(disp) == glyph(disp[1]) \o glyph(disp[2]) \o glyph(disp[3])

Init ==
  /\ mosi_disp = Blank
  /\ prev_disp = Blank
  /\ text = <<>>
  /\ ready = FALSE
  /\ early = FALSE

output_svc_init ==
  /\ ~ready
  /\ ready' = TRUE
  /\ text' = <<" ", " ", " ">>
  /\ UNCHANGED <<mosi_disp, prev_disp, early>>

\* A valid frame: only a changed field is decoded.
output_svc_rx(disp) ==
  /\ disp # prev_disp
  /\ prev_disp' = disp
  /\ text' = decode_text(disp)
  /\ early' = (early \/ ~ready)
  /\ UNCHANGED <<mosi_disp, ready>>

\* sim disp <txt>, cut and padded to three.
cmd_sim_disp(txt) ==
  /\ mosi_disp' = [i \in 1..3 |-> IF i <= Len(txt) THEN seg7_from_ascii(txt[i]) ELSE 0]
  /\ UNCHANGED <<prev_disp, text, ready, early>>

\* The rim is driven by a base or by the simulator.
Next ==
  \/ output_svc_init
  \/ \E disp \in Fields \cup {mosi_disp} : output_svc_rx(disp)
  \/ \E txt \in BoundedSeq(Typed, 3) : cmd_sim_disp(txt)

Spec == Init /\ [][Next]_vars

-----------------------------------------------------------------------------
(* Properties *)

\* The text rim disp shows is that of the last display field and tells it from
\* every other one, unknown glyphs and dots included, and with its terminator
\* it fits the 16 bytes it is written to without a check (output_svc.c:38).
TextTells ==
  /\ Len(text) < 16
  /\ ready /\ ~early =>
       \A disp \in Fields \cup {prev_disp} :
         text = decode_text(disp) <=> disp = prev_disp

\* The same although a frame came before output_svc_init.
TextIsCurrent == ready => text = decode_text(prev_disp)
=============================================================================
