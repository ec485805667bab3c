------------------------------- MODULE Clutch -------------------------------
(***************************************************************************)
(* Dual-clutch logic and its mode (dual_clutch_combine of app/src/clutch.c *)
(* with its callers in app/src/input_svc.c and the shell's rim clutch):    *)
(* the input thread combines the two calibrated paddles once per tick and  *)
(* cycles the mode on a chord; the shell sets mode and bite point.         *)
(*                                                                         *)
(* A tick is one step against the shell, which it preempts anywhere: the   *)
(* shell's writes are one step each.                                       *)
(***************************************************************************)
EXTENDS Integers

CONSTANTS
  Values,       \* calibrated paddle positions, 0..255 in the code
  THR,          \* PADDLE_ACTIVE_THR
  CHORD,        \* both paddles above this are part of the chord
  Bites         \* bite points

\* What is assumed of the constants.
Assumptions ==
  /\ Values \subseteq Nat /\ 0 \in Values
  /\ Bites \subseteq Values
  /\ THR \in Nat /\ CHORD \in Nat /\ THR <= CHORD

Paddles == 0..1
Modes == 0..2
BITE == 0       \* CLUTCH_MODE_BITE
AXES == 1       \* CLUTCH_MODE_AXES
MAPPED == 2     \* CLUTCH_MODE_MAPPED

VARIABLES
  st_mode, st_bite,     \* clutch_mode and bite_point of the settings
  dual_mode, dual_bite, \* the input service's struct dual_clutch
  launch, master,
  combined,             \* v2.clutch_combined
  chord_prev,           \* the chord was held in the last tick
  c, menu,              \* the paddles and the menu bit of the last tick
  shell,                \* next write of the shell's input_svc_clutch_mode_set
  set_mode, set_bite,   \* its arguments
  \* History
  torn                  \* a chord acted in the middle of the shell's writes

settings == <<st_mode, st_bite>>
dual == <<dual_mode, dual_bite, launch, master>>
inputs == <<c, menu>>
shell_vars == <<shell, set_mode, set_bite>>
vars == <<settings, dual, combined, chord_prev, inputs, shell_vars, torn>>

TypeOK ==
  /\ st_mode \in Modes /\ dual_mode \in Modes /\ set_mode \in Modes
  /\ st_bite \in Bites /\ dual_bite \in Bites /\ set_bite \in Bites
  /\ launch \in BOOLEAN
  /\ master \in Paddles
  /\ combined \in Values
  /\ chord_prev \in BOOLEAN
  /\ c \in [Paddles -> Values]
  /\ menu \in BOOLEAN
  /\ shell \in {"idle", "st_mode", "st_bite", "dual_mode", "dual_rest"}
  /\ torn \in BOOLEAN

Init ==
  /\ st_mode \in Modes
  /\ st_bite \in Bites
  /\ dual_mode = st_mode
  /\ dual_bite = st_bite
  /\ launch = FALSE
  /\ master = 0
  /\ combined = 0
  /\ chord_prev = FALSE
  /\ c = [p \in Paddles |-> 0]
  /\ menu = FALSE
  /\ shell = "idle"
  /\ set_mode = st_mode
  /\ set_bite = st_bite
  /\ torn = FALSE

-----------------------------------------------------------------------------
(* The input thread *)

Pulled(v) == {p \in Paddles : v[p] > THR}

larger(a, b) == IF a > b THEN a ELSE b

\* What a call returns, and what it makes of launch and master: a single
\* pulled paddle is the master and counts directly; with both pulled the
\* master counts, but no less than the bite point.
combine(v) ==
  CASE dual_mode = AXES   -> [out |-> v[0], launch |-> launch, master |-> master]
    [] dual_mode = MAPPED -> [out |-> 0, launch |-> launch, master |-> master]
    [] dual_mode = BITE /\ Pulled(v) = {} ->
         [out |-> 0, launch |-> FALSE, master |-> master]
    [] dual_mode = BITE /\ Pulled(v) = {0} ->
         [out |-> v[0], launch |-> FALSE, master |-> 0]
    [] dual_mode = BITE /\ Pulled(v) = {1} ->
         [out |-> v[1], launch |-> FALSE, master |-> 1]
    [] dual_mode = BITE /\ Pulled(v) = Paddles ->
         [out |-> larger(v[master], dual_bite), launch |-> TRUE,
          master |-> master]

Chord(v, m) == m /\ \A p \in Paddles : v[p] > CHORD

\* The chord acts on its leading edge.
chord_starts(v, m) == Chord(v, m) /\ ~chord_prev

\* Mutant: the chord changes the settings and not the state machine.
cycle_mode_settings_only(v) ==
  /\ st_mode' = (st_mode + 1) % 3
  /\ launch' = combine(v).launch
  /\ master' = combine(v).master
  /\ UNCHANGED <<st_bite, dual_mode, dual_bite>>

\* clutch_chord_check: input_svc_clutch_mode_set with the next mode.
cycle_mode(v) ==
  /\ st_mode' = (st_mode + 1) % 3
  /\ dual_mode' = st_mode'
  /\ dual_bite' = st_bite
  /\ launch' = FALSE
  /\ master' = 0
  /\ UNCHANGED st_bite

keep_mode(v) ==
  /\ launch' = combine(v).launch
  /\ master' = combine(v).master
  /\ UNCHANGED <<settings, dual_mode, dual_bite>>

\* One tick, as far as the clutches go.
tick(v, m) ==
  /\ combined' = combine(v).out
  /\ IF chord_starts(v, m) THEN cycle_mode(v) ELSE keep_mode(v)
  /\ torn' = IF chord_starts(v, m) THEN shell # "idle" ELSE torn
  /\ chord_prev' = Chord(v, m)
  /\ c' = v
  /\ menu' = m
  /\ UNCHANGED shell_vars

-----------------------------------------------------------------------------
(* rim clutch <mode> <bite>, write by write *)

clutch_mode_set(mode, bite) ==
  /\ shell = "idle"
  /\ shell' = "st_mode"
  /\ set_mode' = mode
  /\ set_bite' = bite
  /\ torn' = FALSE
  /\ UNCHANGED <<settings, dual, combined, chord_prev, inputs>>

write_st_mode ==
  /\ shell = "st_mode"
  /\ st_mode' = set_mode
  /\ shell' = "st_bite"
  /\ UNCHANGED <<st_bite, dual>>

write_st_bite ==
  /\ shell = "st_bite"
  /\ st_bite' = set_bite
  /\ shell' = "dual_mode"
  /\ UNCHANGED <<st_mode, dual>>

\* dual_clutch_init assigns a whole struct, in more than one store.
write_dual_mode ==
  /\ shell = "dual_mode"
  /\ dual_mode' = set_mode
  /\ shell' = "dual_rest"
  /\ UNCHANGED <<settings, dual_bite, launch, master>>

write_dual_rest ==
  /\ shell = "dual_rest"
  /\ dual_bite' = set_bite
  /\ launch' = FALSE
  /\ master' = 0
  /\ shell' = "idle"
  /\ UNCHANGED <<settings, dual_mode>>

write ==
  /\ write_st_mode \/ write_st_bite \/ write_dual_mode \/ write_dual_rest
  /\ UNCHANGED <<combined, chord_prev, inputs, set_mode, set_bite, torn>>

Next ==
  \/ \E v \in [Paddles -> Values], m \in BOOLEAN : tick(v, m)
  \/ \E mode \in Modes, bite \in Bites : clutch_mode_set(mode, bite)
  \/ write

Spec == Init /\ [][Next]_vars

-----------------------------------------------------------------------------
(* Properties *)

\* "Live clutch mode/bite control (settings-backed)" (input_svc.h): between
\* two rim clutch commands the state machine runs in the mode and with the
\* bite point that the settings show and that rim save would persist,
\* whoever changed them last.  Only a chord in the middle of a command can
\* leave them apart, and the next chord or command brings them together.
ModeAgrees ==
  shell = "idle" /\ ~torn => st_mode = dual_mode /\ st_bite = dual_bite

\* The same after a chord in the middle of a command.
ModeAlwaysAgrees == shell = "idle" => st_mode = dual_mode /\ st_bite = dual_bite

ModeStays ==
  shell = "idle" /\ dual_mode = BITE /\ UNCHANGED <<settings, dual_mode, dual_bite>>

\* "While the second is also pulled, releasing the master holds output at the
\* bite point" (clutch.h:74), "until the second paddle releases" (clutch.c:122):
\* once both paddles were pulled, the output is the bite point as long as the
\* master is at or below it and the other paddle stays pulled.
BitePointHeld ==
  [][launch /\ ModeStays
      /\ c'[master] <= dual_bite /\ c'[1 - master] > THR
        => combined' = dual_bite]_vars
=============================================================================
