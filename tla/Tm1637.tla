------------------------------- MODULE Tm1637 -------------------------------
(***************************************************************************)
(* The bit-banged TM1637 driver (app/src/tm1637.c), line level by line     *)
(* level, against the chip at the other end of the two wires.  The driver  *)
(* has no lock.  output_svc_init calls it at boot, on the workqueue in a   *)
(* fastboot build and in the main thread otherwise; output_svc_rx calls it *)
(* on the workqueue, which preempts the main thread between any two levels.*)
(*                                                                         *)
(* The chip is as the driver uses it: DIO falling under a high CLK starts  *)
(* a message and DIO rising ends it; in between, each rising CLK takes a   *)
(* bit, low bit first, and the ninth is the acknowledge.                   *)
(***************************************************************************)
EXTENDS Integers, Sequences

CONSTANTS
  DIGITS,       \* digits of the module, 4 in the code
  Texts,        \* texts of the display, as segment bytes
  Banner,       \* the one of the boot
  Fastboot      \* CONFIG_RIM_FASTBOOT

\* What is assumed of the constants.
Assumptions ==
  /\ DIGITS \in 0..16      \* the chip's address has four bits
  /\ Texts \subseteq [1..DIGITS -> 0..255]
  /\ Banner \in Texts
  /\ Fastboot \in BOOLEAN

VARIABLES
  boot,         \* 0 not yet, 1 brightness, 2 banner, 3 done
  boot_call,    \* where the call of the boot is
  work_call,    \* where output_svc_rx's call is
  wired,        \* the pins are configured as outputs
  clk, dio,     \* the wires
  \* The chip
  message,      \* a message has started
  command,      \* its first byte, or None
  bits,         \* bits of the byte on its way
  ptr,          \* address of the next digit
  digits,       \* what the digits show
  on,           \* the display is on
  \* History
  text,         \* text of the last call that began
  disturbed,    \* that call was not alone, or had no pins
  dark          \* the display was never lit, or a call of the boot was not
                \* alone: it may have sent any command

driver_vars == <<boot, boot_call, work_call, wired>>
chip_vars == <<message, command, bits, ptr, digits, on>>
history == <<text, disturbed, dark>>
vars == <<driver_vars, clk, dio, chip_vars, history>>

None == -1

-----------------------------------------------------------------------------
(* What a call does to the wires: its parts, each a sequence of levels *)

C(level) == <<"clk", level>>
D(level) == <<"dio", level>>

tm_start == <<D(1), C(1), D(0), C(0)>>
tm_stop == <<C(0), D(0), C(1), D(1)>>

Weights == <<1, 2, 4, 8, 16, 32, 64, 128>>
bit(b, i) == (b \div Weights[i + 1]) % 2

\* Three levels for each bit and for the acknowledge, whose DIO is released.
bit_level(b, l) ==
  CASE l % 3 = 1 -> C(0)
    [] l % 3 = 2 -> D(IF l < 25 THEN bit(b, l \div 3) ELSE 1)
    [] OTHER -> C(1)

\* Mutant: no clock for the acknowledge.
tm_write_byte_no_ack(b) == [l \in 1..25 |-> bit_level(b, l)]

\* Eight bits, the acknowledge, and the clock low.
tm_write_byte(b) == [l \in 1..28 |-> bit_level(b, l)]

send(bytes) ==
  <<tm_start>> \o [i \in 1..Len(bytes) |-> tm_write_byte(bytes[i])] \o <<tm_stop>>

\* tm1637_brightness(5, true).
tm1637_brightness == send(<<141>>)

tm1637_set_segments(t) == send(<<64>>) \o send(<<192>> \o t)

\* A call is where it sets its next level.
begun(parts) == [parts |-> parts, part |-> 1, level |-> 1]
NoCall == begun(<<>>)

next_level(call) == call.parts[call.part][call.level]

advanced(call) ==
  CASE call.level < Len(call.parts[call.part]) -> [call EXCEPT !.level = @ + 1]
    [] call.level = Len(call.parts[call.part]) /\ call.part < Len(call.parts) ->
         [call EXCEPT !.part = @ + 1, !.level = 1]
    [] OTHER -> NoCall

-----------------------------------------------------------------------------
(* The chip *)

\* A byte is complete: a command to begin a message, then data.
take(b) ==
  /\ command' = IF command = None THEN b ELSE command
  /\ ptr' = CASE command = None /\ b >= 192 -> b % 16
              [] command >= 192 -> (ptr + 1) % 16
              [] OTHER -> ptr
  /\ digits' = [i \in 1..DIGITS |->
                  IF command >= 192 /\ ptr = i - 1 THEN b ELSE digits[i]]
  /\ on' = IF command = None /\ b \div 64 = 2 THEN bit(b, 3) = 1 ELSE on

\* Eight bits, the first one lowest.
value(s) ==
  s[1] + 2 * s[2] + 4 * s[3] + 8 * s[4] + 16 * s[5] + 32 * s[6] + 64 * s[7] + 128 * s[8]

\* A wire takes a level.
set(op) ==
  /\ clk' = IF op[1] = "clk" THEN op[2] ELSE clk
  /\ dio' = IF op[1] = "dio" THEN op[2] ELSE dio
  /\ \/ /\ dio' # dio /\ clk = 1
        /\ message' = (dio' = 0)
        /\ command' = None
        /\ bits' = <<>>
        /\ UNCHANGED <<ptr, digits, on>>
     \/ /\ clk' > clk /\ message
        /\ bits' = IF Len(bits) = 8 THEN <<>> ELSE Append(bits, dio)
        /\ IF Len(bits) = 7 THEN take(value(Append(bits, dio)))
                            ELSE UNCHANGED <<command, ptr, digits, on>>
        /\ UNCHANGED message
     \/ /\ ~(dio' # dio /\ clk = 1) /\ ~(clk' > clk /\ message)
        /\ UNCHANGED chip_vars

\* Levels set before the pins are outputs do not reach the wires.
drive(op) == IF wired THEN set(op) ELSE UNCHANGED <<clk, dio, chip_vars>>

-----------------------------------------------------------------------------
(* The two callers *)

Init ==
  /\ boot = 0 /\ boot_call = NoCall
  /\ work_call = NoCall
  /\ wired = FALSE
  /\ clk = 1 /\ dio = 1
  /\ message = FALSE /\ command = None /\ bits = <<>> /\ ptr = 0
  /\ digits = [i \in 1..DIGITS |-> 0] /\ on = FALSE
  /\ text = digits
  /\ disturbed = TRUE
  /\ dark = TRUE

\* tm1637_init configures both pins, high.
tm1637_init ==
  /\ boot = 0 /\ work_call = NoCall
  /\ boot' = 1
  /\ wired' = TRUE
  /\ UNCHANGED <<boot_call, work_call, clk, dio, chip_vars, history>>

\* A call of the boot has set some of its levels.
Amid == boot_call # NoCall

BootCall ==
  CASE Amid -> boot_call
    [] ~Amid /\ boot = 1 -> begun(tm1637_brightness)
    [] OTHER -> begun(tm1637_set_segments(Banner))

\* The boot's next level; the workqueue, if it has a call, comes first.
boot_step ==
  /\ boot \in {1, 2} /\ work_call = NoCall
  /\ drive(next_level(BootCall))
  /\ boot_call' = advanced(BootCall)
  /\ boot' = IF boot_call' = NoCall THEN boot + 1 ELSE boot
  /\ IF boot = 2 /\ ~Amid
       THEN text' = Banner /\ disturbed' = FALSE
       ELSE UNCHANGED <<text, disturbed>>
  /\ dark' = (dark /\ ~(boot = 1 /\ ~Amid))
  /\ UNCHANGED <<work_call, wired>>

\* output_svc_rx mirrors a changed display.  In a fastboot build the boot's
\* work item runs to its end first.
rx_call(t) ==
  /\ work_call = NoCall
  /\ Fastboot => boot \in {0, 3}
  /\ work_call' = begun(tm1637_set_segments(t))
  /\ text' = t
  /\ disturbed' = (Amid \/ ~wired)
  /\ dark' = (dark \/ Amid)
  /\ UNCHANGED <<boot, boot_call, wired, clk, dio, chip_vars>>

rx_step ==
  /\ work_call # NoCall
  /\ drive(next_level(work_call))
  /\ work_call' = advanced(work_call)
  /\ UNCHANGED <<boot, boot_call, wired, history>>

Next ==
  \/ tm1637_init
  \/ boot_step
  \/ \E t \in Texts : rx_call(t)
  \/ rx_step

Spec == Init /\ [][Next]_vars

-----------------------------------------------------------------------------
(* Properties *)

\* The digit a text's call writes next: five parts come before its
\* first byte, and the chip has a byte with its eighth bit.
Digit(call) ==
  LET i == call.part - 5
  IN  CASE i < 1 -> 1
        [] i \in 1..DIGITS /\ call.level <= 24 -> i
        [] i \in 1..DIGITS /\ call.level > 24 -> i + 1
        [] OTHER -> DIGITS + 1

\* The digit to be written next, with the boot's call below the workqueue's.
NextDigit ==
  CASE work_call # NoCall -> Digit(work_call)
    [] work_call = NoCall /\ boot = 2 /\ Amid -> Digit(boot_call)
    [] OTHER -> DIGITS + 1

Abstract == INSTANCE Display WITH
  shown <- digits, lit <- on, next <- NextDigit, spoiled <- dark, Segs <- 0..255

\* Every call that has the wires to itself shows its text, digit by digit from
\* the left, whatever an earlier, garbled call left on the wires and in the
\* chip (tm1637.c); and on a lit display, if none of the boot was garbled.
Shows == Abstract!Spec

\* output_svc_init lights the display; nothing lights it later.
LitAfterBoot == boot = 3 => on
=============================================================================
