-------------------------------- MODULE Crc8 --------------------------------
(***************************************************************************)
(* The checksum of the 33-byte frame (lib/rimlink/rimlink_crc8.c) and its  *)
(* use by rimlink_frame_validate: a table of 256 entries, fed byte by byte.*)
(* A frame of any length is sent; any of its bytes may be altered on the   *)
(* way, the checksum itself included.  The sender is a base that computes  *)
(* the checksum by its definition, the reflected polynomial 0x8C bit by    *)
(* bit; the receiver is the rim with its table.                            *)
(***************************************************************************)
EXTENDS Integers, Sequences

CONSTANTS
  Bytes,        \* bytes the sender sends
  Flips         \* error patterns of one byte, 0 none

\* What is assumed of the constants.
Assumptions == Bytes \subseteq 0..255 /\ Flips \subseteq 0..255 /\ 0 \in Flips

VARIABLES
  crc,          \* the sender's checksum of the bytes so far
  seen,         \* the receiver's checksum of the bytes it got
  hit           \* altered bytes: 0, 1 or more (2)

vars == <<crc, seen, hit>>

\* The exclusive or of two bytes, from the bits of weight w in which they
\* differ.
differ(a, b, w) == ((a \div w) + (b \div w)) % 2
xor(a, b) ==
  differ(a, b, 1) + 2 * differ(a, b, 2) + 4 * differ(a, b, 4) + 8 * differ(a, b, 8)
  + 16 * differ(a, b, 16) + 32 * differ(a, b, 32) + 64 * differ(a, b, 64)
  + 128 * differ(a, b, 128)

\* One bit of the division, the low bit first.
shift(r) == IF r % 2 = 1 THEN xor(r \div 2, 140) ELSE r \div 2
remainder(r) == shift(shift(shift(shift(shift(shift(shift(shift(r))))))))

\* Mutant: one entry of the table is wrong.
crc8_table_typo ==
  [i \in 1..256 |-> IF i = 166 THEN remainder(164) ELSE remainder(i - 1)]

crc8_table == <<
  0, 94, 188, 226, 97, 63, 221, 131, 194, 156, 126, 32, 163, 253, 31, 65,
  157, 195, 33, 127, 252, 162, 64, 30, 95, 1, 227, 189, 62, 96, 130, 220,
  35, 125, 159, 193, 66, 28, 254, 160, 225, 191, 93, 3, 128, 222, 60, 98,
  190, 224, 2, 92, 223, 129, 99, 61, 124, 34, 192, 158, 29, 67, 161, 255,
  70, 24, 250, 164, 39, 121, 155, 197, 132, 218, 56, 102, 229, 187, 89, 7,
  219, 133, 103, 57, 186, 228, 6, 88, 25, 71, 165, 251, 120, 38, 196, 154,
  101, 59, 217, 135, 4, 90, 184, 230, 167, 249, 27, 69, 198, 152, 122, 36,
  248, 166, 68, 26, 153, 199, 37, 123, 58, 100, 134, 216, 91, 5, 231, 185,
  140, 210, 48, 110, 237, 179, 81, 15, 78, 16, 242, 172, 47, 113, 147, 205,
  17, 79, 173, 243, 112, 46, 204, 146, 211, 141, 111, 49, 178, 236, 14, 80,
  175, 241, 19, 77, 206, 144, 114, 44, 109, 51, 209, 143, 12, 82, 176, 238,
  50, 108, 142, 208, 83, 13, 239, 177, 240, 174, 76, 18, 145, 207, 45, 115,
  202, 148, 118, 40, 171, 245, 23, 73, 8, 86, 180, 234, 105, 55, 213, 139,
  87, 9, 235, 181, 54, 104, 138, 212, 149, 203, 41, 119, 244, 170, 72, 22,
  233, 183, 85, 11, 136, 214, 52, 106, 43, 117, 151, 201, 74, 20, 246, 168,
  116, 42, 200, 150, 21, 75, 169, 247, 182, 232, 10, 84, 215, 137, 107, 53>>

\* One byte of rimlink_crc8.
crc8(r, b) == crc8_table[xor(b, r) + 1]

\* rimlink_frame_validate, when the checksum is received altered by e.
frame_validate(e) == seen = xor(crc, e)

Init ==
  /\ crc = 255
  /\ seen = 255
  /\ hit = 0

altered(e) == IF e = 0 \/ hit = 2 THEN hit ELSE hit + 1

\* A byte is sent, and received altered by e.
byte(b, e) ==
  /\ crc' = remainder(xor(crc, b))
  /\ seen' = crc8(seen, xor(b, e))
  /\ hit' = altered(e)

Next == \E b \in Bytes, e \in Flips : byte(b, e)

Spec == Init /\ [][Next]_vars

-----------------------------------------------------------------------------
(* Properties *)

\* The rim accepts every frame that arrives as it was sent and rejects every
\* frame altered in one byte, the checksum included: in particular the table
\* computes what its comment defines (rimlink_crc8.c:8), with no entry wrong.
AcceptsExactly ==
  \A e \in Flips :
    /\ altered(e) = 0 => frame_validate(e)
    /\ altered(e) = 1 => ~frame_validate(e)
=============================================================================
