---------------------------- MODULE Units_proofs ----------------------------
(***************************************************************************)
(* Proofs about the parts of the input side (Units): the checksum of a     *)
(* frame, the publishing of snapshots, the dual clutch, the button word,   *)
(* the Hall channel and the D-pad ladder, each from an inductive invariant *)
(* of its own module's step or from its step alone.  Units runs one        *)
(* component at a time; that a step of another disturbs none of these is   *)
(* the first lemma.                                                        *)
(***************************************************************************)
EXTENDS Units, Sequences, FiniteSetTheorems, TLAPS

\* Every step is one of the component, or leaves it as it is.
LEMMA UnitSteps ==
  ASSUME [Next]_vars
  PROVE  /\ [Pub!Next]_(Pub!vars)
         /\ [Channel!Next]_(Channel!vars)
         /\ [Ladder!Next]_(Ladder!vars)
         /\ [Dual!Next]_(Dual!vars)
         /\ [Word!Next]_(Word!vars)
<1>1. \/ Pub!Next /\ UNCHANGED <<dpad_vars, channel_vars, clutch_vars, button_vars>>
      \/ Ladder!Next /\ UNCHANGED <<publish_vars, channel_vars, clutch_vars, button_vars>>
      \/ Channel!Next /\ UNCHANGED <<publish_vars, dpad_vars, clutch_vars, button_vars>>
      \/ Dual!Next /\ UNCHANGED <<publish_vars, dpad_vars, channel_vars, button_vars>>
      \/ Word!Next /\ UNCHANGED <<publish_vars, dpad_vars, channel_vars, clutch_vars>>
      \/ UNCHANGED <<publish_vars, dpad_vars, channel_vars, clutch_vars, button_vars>>
  BY DEF Next, crc_step, dpad_step, channel_step, clutch_step, button_step,
         publish_step, vars
<1>2. UNCHANGED publish_vars => UNCHANGED Pub!vars
  BY DEF publish_vars, Pub!vars, Pub!tx_vars, Pub!thread_vars, Pub!tick_vars,
         Pub!history
<1>3. UNCHANGED dpad_vars => UNCHANGED Ladder!vars
  BY DEF dpad_vars, Ladder!vars, Ladder!decoder, Ladder!shell_vars
<1>4. UNCHANGED channel_vars => UNCHANGED Channel!vars
  BY DEF channel_vars, Channel!vars
<1>5. UNCHANGED clutch_vars => UNCHANGED Dual!vars
  BY DEF clutch_vars, Dual!vars, Dual!settings, Dual!dual, Dual!inputs,
         Dual!shell_vars
<1>6. UNCHANGED button_vars => UNCHANGED Word!vars
  BY DEF button_vars, Word!vars
<1> QED
  BY <1>1, <1>2, <1>3, <1>4, <1>5, <1>6

-----------------------------------------------------------------------------
(* The checksum *)

\* The bytes, and the number of eight bits, which the provers need not expand
\* where they only pass one on.
Byte == 0..255
EightBits(x0, x1, x2, x3, x4, x5, x6, x7) ==
  x0 + 2 * x1 + 4 * x2 + 8 * x3 + 16 * x4 + 32 * x5 + 64 * x6 + 128 * x7

\* A byte is the sum of its bits.
LEMMA BitsOfByte ==
  \A a \in Byte :
    a = EightBits(a % 2, (a \div 2) % 2, (a \div 4) % 2, (a \div 8) % 2,
                  (a \div 16) % 2, (a \div 32) % 2, (a \div 64) % 2, (a \div 128) % 2)
BY DEF Byte, EightBits

\* The weights of the bits.
Powers == {1, 2, 4, 8, 16, 32, 64, 128}

\* Where two bytes differ in a bit, and where they do not.
LEMMA Differ ==
  ASSUME NEW a \in Nat, NEW b \in Nat, NEW w \in Powers
  PROVE  /\ Crc!differ(a, b, w) \in {0, 1}
         /\ Crc!differ(a, b, w) = 0 <=> (a \div w) % 2 = (b \div w) % 2
<1>1. PICK p \in Nat, q \in Nat : p = a \div w /\ q = b \div w
  BY DEF Powers
<1>2. /\ (p + q) % 2 \in {0, 1}
      /\ (p + q) % 2 = 0 <=> p % 2 = q % 2
  OBVIOUS
<1> QED
  BY <1>1, <1>2, Zenon DEF Crc!differ

\* The sum of eight bits.
Sum(f) == EightBits(f[1], f[2], f[4], f[8], f[16], f[32], f[64], f[128])

\* The sum is a byte and tells the bits.
LEMMA SumOfBits ==
  ASSUME NEW f \in [Powers -> {0, 1}], NEW g \in [Powers -> {0, 1}]
  PROVE  Sum(f) \in Byte /\ (Sum(f) = Sum(g) => \A w \in Powers : f[w] = g[w])
<1>1. PICK x0, x1, x2, x3, x4, x5, x6, x7 \in {0, 1} :
        /\ x0 = f[1] /\ x1 = f[2] /\ x2 = f[4] /\ x3 = f[8]
        /\ x4 = f[16] /\ x5 = f[32] /\ x6 = f[64] /\ x7 = f[128]
  BY DEF Powers
<1>2. PICK y0, y1, y2, y3, y4, y5, y6, y7 \in {0, 1} :
        /\ y0 = g[1] /\ y1 = g[2] /\ y2 = g[4] /\ y3 = g[8]
        /\ y4 = g[16] /\ y5 = g[32] /\ y6 = g[64] /\ y7 = g[128]
  BY DEF Powers
<1>3. Sum(f) = EightBits(x0, x1, x2, x3, x4, x5, x6, x7)
  BY <1>1 DEF Sum
<1>4. Sum(g) = EightBits(y0, y1, y2, y3, y4, y5, y6, y7)
  BY <1>2 DEF Sum
<1>5. Sum(f) \in Byte
  BY <1>3 DEF EightBits, Byte
<1>6. ASSUME Sum(f) = Sum(g) PROVE \A w \in Powers : f[w] = g[w]
  <2>1. EightBits(x0, x1, x2, x3, x4, x5, x6, x7) = EightBits(y0, y1, y2, y3, y4, y5, y6, y7)
    BY <1>3, <1>4, <1>6
  <2>2. x7 = y7
    BY <2>1 DEF EightBits
  <2>3. x6 = y6
    BY <2>1, <2>2 DEF EightBits
  <2>4. x5 = y5
    BY <2>1, <2>2, <2>3 DEF EightBits
  <2>5. x4 = y4
    BY <2>1, <2>2, <2>3, <2>4 DEF EightBits
  <2>6. x3 = y3 /\ x2 = y2
    BY <2>1, <2>2, <2>3, <2>4, <2>5 DEF EightBits
  <2>7. x1 = y1 /\ x0 = y0
    BY <2>1, <2>2, <2>3, <2>4, <2>5, <2>6 DEF EightBits
  <2>8. /\ f[1] = g[1] /\ f[2] = g[2] /\ f[4] = g[4] /\ f[8] = g[8]
        /\ f[16] = g[16] /\ f[32] = g[32] /\ f[64] = g[64] /\ f[128] = g[128]
    BY <1>1, <1>2, <2>2, <2>3, <2>4, <2>5, <2>6, <2>7
  <2> QED
    BY <2>8 DEF Powers
<1> QED
  BY <1>5, <1>6

\* The bits tell the byte.
LEMMA BitsTell ==
  ASSUME NEW p \in Byte, NEW q \in Byte,
         \A w \in Powers : (p \div w) % 2 = (q \div w) % 2
  PROVE  p = q
<1> DEFINE bits(x) == [w \in Powers |-> (x \div w) % 2]
<1>1. bits(p) = bits(q)
  OBVIOUS
<1>2. ASSUME NEW x \in Byte PROVE x = Sum(bits(x))
  <2>1. PICK f : f = bits(x)
    OBVIOUS
  <2>2. /\ f[1] = (x \div 1) % 2 /\ f[2] = (x \div 2) % 2
        /\ f[4] = (x \div 4) % 2 /\ f[8] = (x \div 8) % 2
        /\ f[16] = (x \div 16) % 2 /\ f[32] = (x \div 32) % 2
        /\ f[64] = (x \div 64) % 2 /\ f[128] = (x \div 128) % 2
    BY <2>1 DEF Powers
  <2>3. x \div 1 = x
    BY DEF Byte
  <2>4. x = EightBits(x % 2, (x \div 2) % 2, (x \div 4) % 2, (x \div 8) % 2,
                      (x \div 16) % 2, (x \div 32) % 2, (x \div 64) % 2, (x \div 128) % 2)
    BY BitsOfByte
  <2>5. x = Sum(f)
    BY <2>2, <2>3, <2>4 DEF Sum
  <2> QED
    BY <2>1, <2>5, Zenon
<1> HIDE DEF bits
<1> QED
  BY <1>1, <1>2, Zenon

\* The bits in which two bytes differ.
LEMMA XorBits ==
  ASSUME NEW a \in Byte, NEW b \in Byte
  PROVE  \E f \in [Powers -> {0, 1}] :
           Crc!xor(a, b) = Sum(f) /\ \A w \in Powers : f[w] = Crc!differ(a, b, w)
<1>1. PICK f : f = [w \in Powers |-> Crc!differ(a, b, w)]
  OBVIOUS
<1>2. \A w \in Powers : f[w] = Crc!differ(a, b, w) /\ Crc!differ(a, b, w) \in {0, 1}
  BY <1>1, Differ DEF Byte
<1>3. f \in [Powers -> {0, 1}]
  BY <1>1, <1>2
<1>4. /\ f[1] = Crc!differ(a, b, 1) /\ f[2] = Crc!differ(a, b, 2)
      /\ f[4] = Crc!differ(a, b, 4) /\ f[8] = Crc!differ(a, b, 8)
      /\ f[16] = Crc!differ(a, b, 16) /\ f[32] = Crc!differ(a, b, 32)
      /\ f[64] = Crc!differ(a, b, 64) /\ f[128] = Crc!differ(a, b, 128)
  BY <1>2 DEF Powers
<1>5. Crc!xor(a, b) = Sum(f)
  BY <1>4 DEF Crc!xor, Sum, EightBits
<1> QED
  BY <1>2, <1>3, <1>5, Zenon

\* The exclusive or is a byte, and it cancels.
LEMMA XorCancels ==
  ASSUME NEW a \in Byte, NEW b \in Byte
  PROVE  /\ Crc!xor(a, b) \in Byte
         /\ Crc!xor(a, b) = Crc!xor(b, a)
         /\ \A d \in Byte : Crc!xor(a, b) = Crc!xor(a, d) => b = d
<1>1. PICK f \in [Powers -> {0, 1}] :
        Crc!xor(a, b) = Sum(f) /\ \A w \in Powers : f[w] = Crc!differ(a, b, w)
  BY XorBits, Zenon
<1>2. Crc!xor(a, b) = Crc!xor(b, a)
  <2>1. ASSUME NEW w \in Powers
        PROVE  Crc!differ(a, b, w) = Crc!differ(b, a, w)
    <3>1. PICK p \in Nat, q \in Nat : p = a \div w /\ q = b \div w
      BY DEF Powers, Byte
    <3>2. p + q = q + p
      OBVIOUS
    <3>3. Crc!differ(a, b, w) = (p + q) % 2 /\ Crc!differ(b, a, w) = (q + p) % 2
      BY <3>1, Zenon DEF Crc!differ
    <3> QED
      BY <3>2, <3>3, Zenon
  <2>2. PICK g \in [Powers -> {0, 1}] :
          Crc!xor(b, a) = Sum(g) /\ \A w \in Powers : g[w] = Crc!differ(b, a, w)
    BY XorBits, Zenon
  <2>3. f = g
    BY <1>1, <2>1, <2>2
  <2> QED
    BY <1>1, <2>2, <2>3, Zenon
<1>3. ASSUME NEW d \in Byte, Crc!xor(a, b) = Crc!xor(a, d)
      PROVE  b = d
  <2>1. PICK g \in [Powers -> {0, 1}] :
          Crc!xor(a, d) = Sum(g) /\ \A w \in Powers : g[w] = Crc!differ(a, d, w)
    BY XorBits, Zenon
  <2>2. \A w \in Powers : f[w] = g[w]
    <3>1. Sum(f) = Sum(g)
      BY <1>1, <1>3, <2>1, Zenon
    <3> QED
      BY <3>1, SumOfBits, Zenon
  <2>3. \A w \in Powers : Crc!differ(a, b, w) = Crc!differ(a, d, w)
    BY <1>1, <2>1, <2>2, Zenon
  <2>4. ASSUME NEW w \in Powers
        PROVE  (b \div w) % 2 = (d \div w) % 2
    <3>1. PICK x \in {0, 1}, y \in {0, 1}, z \in {0, 1} :
            x = (a \div w) % 2 /\ y = (b \div w) % 2 /\ z = (d \div w) % 2
      BY DEF Powers, Byte
    <3>2. a \in Nat /\ b \in Nat /\ d \in Nat
      BY DEF Byte
    <3>3. Crc!differ(a, b, w) = 0 <=> (a \div w) % 2 = (b \div w) % 2
      BY <3>2, Differ, Zenon
    <3>4. Crc!differ(a, d, w) = 0 <=> (a \div w) % 2 = (d \div w) % 2
      BY <3>2, Differ, Zenon
    <3>5. x = y <=> x = z
      BY <2>3, <3>1, <3>3, <3>4, Zenon
    <3>6. y = z
      BY <3>5
    <3> QED
      BY <3>1, <3>6, Zenon
  <2> QED
    BY <2>4, BitsTell, Zenon
<1> QED
  BY <1>1, <1>2, <1>3, SumOfBits, Zenon

\* The same, for whoever cites it.
LEMMA XorTells == \A a, b, d \in Byte : Crc!xor(a, b) = Crc!xor(a, d) => b = d
<1> SUFFICES ASSUME NEW a \in Byte, NEW b \in Byte
             PROVE  \A d \in Byte : Crc!xor(a, b) = Crc!xor(a, d) => b = d
  OBVIOUS
<1> QED
  BY XorCancels, Zenon

\* Nothing is altered by zero.
LEMMA XorZero == \A a \in Byte : Crc!xor(a, 0) = a
<1> SUFFICES ASSUME NEW a \in Byte PROVE Crc!xor(a, 0) = a
  OBVIOUS
<1>1. /\ Crc!differ(a, 0, 1) = a % 2 /\ Crc!differ(a, 0, 2) = (a \div 2) % 2
      /\ Crc!differ(a, 0, 4) = (a \div 4) % 2 /\ Crc!differ(a, 0, 8) = (a \div 8) % 2
      /\ Crc!differ(a, 0, 16) = (a \div 16) % 2 /\ Crc!differ(a, 0, 32) = (a \div 32) % 2
      /\ Crc!differ(a, 0, 64) = (a \div 64) % 2 /\ Crc!differ(a, 0, 128) = (a \div 128) % 2
  BY DEF Crc!differ, Byte
<1>2. Crc!xor(a, 0) = EightBits(a % 2, (a \div 2) % 2, (a \div 4) % 2, (a \div 8) % 2,
                                (a \div 16) % 2, (a \div 32) % 2, (a \div 64) % 2,
                                (a \div 128) % 2)
  BY <1>1 DEF Crc!xor, EightBits
<1> QED
  BY <1>2, BitsOfByte

\* The polynomial's exclusive or with seven bits.
LEMMA XorPolynomial ==
  \A v \in 0..127 :
    /\ Crc!xor(v, 140) \in 128..255
    /\ Crc!xor(v, 140) = v + 128 + (IF (v \div 4) % 2 = 0 THEN 4 ELSE -4)
                             + (IF (v \div 8) % 2 = 0 THEN 8 ELSE -8)
<1> SUFFICES ASSUME NEW v \in 0..127
             PROVE  /\ Crc!xor(v, 140) \in 128..255
                    /\ Crc!xor(v, 140) = v + 128 + (IF (v \div 4) % 2 = 0 THEN 4 ELSE -4)
                                             + (IF (v \div 8) % 2 = 0 THEN 8 ELSE -8)
  OBVIOUS
<1>1. /\ Crc!differ(v, 140, 1) = v % 2 /\ Crc!differ(v, 140, 2) = (v \div 2) % 2
      /\ Crc!differ(v, 140, 4) = 1 - ((v \div 4) % 2) /\ Crc!differ(v, 140, 8) = 1 - ((v \div 8) % 2)
      /\ Crc!differ(v, 140, 16) = (v \div 16) % 2 /\ Crc!differ(v, 140, 32) = (v \div 32) % 2
      /\ Crc!differ(v, 140, 64) = (v \div 64) % 2 /\ Crc!differ(v, 140, 128) = 1
  BY DEF Crc!differ
<1>2. PICK x0, x1, x2, x3, x4, x5, x6 \in {0, 1} :
        /\ x0 = v % 2 /\ x1 = (v \div 2) % 2 /\ x2 = (v \div 4) % 2 /\ x3 = (v \div 8) % 2
        /\ x4 = (v \div 16) % 2 /\ x5 = (v \div 32) % 2 /\ x6 = (v \div 64) % 2
  OBVIOUS
<1>3. v = EightBits(x0, x1, x2, x3, x4, x5, x6, 0)
  <2>1. (v \div 128) % 2 = 0 /\ v \in Byte
    BY DEF Byte
  <2> QED
    BY <1>2, <2>1, BitsOfByte
<1>4. Crc!xor(v, 140) = EightBits(x0, x1, 1 - x2, 1 - x3, x4, x5, x6, 1)
  BY <1>1, <1>2 DEF Crc!xor, EightBits
<1> QED
  BY <1>2, <1>3, <1>4 DEF EightBits

\* One bit of the division, and that it loses nothing.
LEMMA ShiftTells ==
  /\ \A r \in Byte : Crc!shift(r) \in Byte
  /\ \A r, s \in Byte : Crc!shift(r) = Crc!shift(s) => r = s
<1> DEFINE low == 0..127
           high == 128..255
           polynomial == 140
<1>1. \A r \in Byte : /\ r \div 2 \in low /\ r \div 2 \in Byte /\ r % 2 \in {0, 1}
                      /\ r = 2 * (r \div 2) + (r % 2)
  BY DEF Byte
<1>2. /\ polynomial \in Byte
      /\ \A x \in low : x \in Byte /\ x \notin high
      /\ \A x \in high : x \in Byte
  BY DEF Byte
<1>3. \A r \in Byte : r % 2 = 1 => Crc!shift(r) = Crc!xor(r \div 2, polynomial)
  BY DEF Crc!shift
<1>4. \A r \in Byte : r % 2 # 1 => Crc!shift(r) = r \div 2
  BY DEF Crc!shift
<1>5. \A v \in low : Crc!xor(v, polynomial) \in high
  BY XorPolynomial
<1> HIDE DEF low, high, polynomial
<1>6. \A r \in Byte : /\ r % 2 = 1 => Crc!shift(r) \in high
                      /\ r % 2 # 1 => Crc!shift(r) \in low
  BY <1>1, <1>3, <1>4, <1>5, Zenon
<1>7. \A r \in Byte : Crc!shift(r) \in Byte
  BY <1>2, <1>6, Zenon
<1>8. ASSUME NEW r \in Byte, NEW s \in Byte, Crc!shift(r) = Crc!shift(s)
      PROVE  r = s
  <2>1. r % 2 = 1 <=> s % 2 = 1
    BY <1>2, <1>6, <1>8, Zenon
  <2>2. r \div 2 = s \div 2
    <3>1. CASE r % 2 = 1
      <4>1. PICK v \in Byte, w \in Byte : v = r \div 2 /\ w = s \div 2
        BY <1>1, Zenon
      <4>2. Crc!xor(v, polynomial) = Crc!xor(w, polynomial)
        BY <1>3, <1>8, <2>1, <3>1, <4>1, Zenon
      <4>3. Crc!xor(polynomial, v) = Crc!xor(polynomial, w)
        BY <1>2, <4>2, XorCancels, Zenon
      <4>4. v = w
        BY <1>2, <4>3, XorTells, Zenon
      <4> QED
        BY <4>1, <4>4, Zenon
    <3>2. CASE r % 2 # 1
      BY <1>4, <1>8, <2>1, <3>2, Zenon
    <3> QED
      BY <3>1, <3>2
  <2>3. r % 2 = s % 2
    <3>1. r % 2 \in {0, 1} /\ s % 2 \in {0, 1}
      BY <1>1, Zenon
    <3> QED
      BY <2>1, <3>1
  <2> QED
    BY <1>1, <2>2, <2>3, Zenon
<1> QED
  BY <1>7, <1>8

\* So do the eight of a byte.
LEMMA RemainderTells ==
  /\ \A r \in Byte : Crc!remainder(r) \in Byte
  /\ \A r, s \in Byte : Crc!remainder(r) = Crc!remainder(s) => r = s
<1> DEFINE two(r) == Crc!shift(Crc!shift(r))
<1> DEFINE four(r) == two(two(r))
<1>1. /\ \A r \in Byte : two(r) \in Byte
      /\ \A r, s \in Byte : two(r) = two(s) => r = s
  BY ShiftTells, Zenon
<1>2. \A r : Crc!remainder(r) = four(four(r))
  BY Zenon DEF Crc!remainder
<1> HIDE DEF two
<1>3. /\ \A r \in Byte : four(r) \in Byte
      /\ \A r, s \in Byte : four(r) = four(s) => r = s
  BY <1>1, Zenon
<1> HIDE DEF four
<1> QED
  BY <1>2, <1>3, Zenon

\* The table holds the remainder of every byte.
LEMMA TableIsRemainder == \A i \in Byte : Crc!crc8_table[i + 1] = Crc!remainder(i)
<1>1. \A r \in 0..255 :
        Crc!shift(r) = IF r % 2 = 1
                     THEN (r \div 2) + 128 + (IF ((r \div 2) \div 4) % 2 = 0 THEN 4 ELSE -4)
                                            + (IF ((r \div 2) \div 8) % 2 = 0 THEN 8 ELSE -8)
                     ELSE r \div 2
  <2>1. \A r \in 0..255 : r \div 2 \in 0..127
    OBVIOUS
  <2> SUFFICES ASSUME NEW r \in 0..255
               PROVE  Crc!shift(r) = IF r % 2 = 1
                     THEN (r \div 2) + 128 + (IF ((r \div 2) \div 4) % 2 = 0 THEN 4 ELSE -4)
                                            + (IF ((r \div 2) \div 8) % 2 = 0 THEN 8 ELSE -8)
                     ELSE r \div 2
    OBVIOUS
  <2>2. PICK v \in 0..127 : v = r \div 2
    BY <2>1
  <2>3. Crc!xor(v, 140) = v + 128 + (IF (v \div 4) % 2 = 0 THEN 4 ELSE -4)
                            + (IF (v \div 8) % 2 = 0 THEN 8 ELSE -8)
    BY XorPolynomial
  <2>4. Crc!shift(r) = IF r % 2 = 1 THEN Crc!xor(v, 140) ELSE v
    BY <2>2 DEF Crc!shift
  <2> QED
    BY <2>2, <2>3, <2>4
<1>2. \A i \in 0..31 : Crc!crc8_table[i + 1] = Crc!remainder(i)
  BY <1>1, SMTT(60) DEF Crc!remainder, Crc!crc8_table
<1>3. \A i \in 32..63 : Crc!crc8_table[i + 1] = Crc!remainder(i)
  BY <1>1, SMTT(60) DEF Crc!remainder, Crc!crc8_table
<1>4. \A i \in 64..95 : Crc!crc8_table[i + 1] = Crc!remainder(i)
  BY <1>1, SMTT(60) DEF Crc!remainder, Crc!crc8_table
<1>5. \A i \in 96..127 : Crc!crc8_table[i + 1] = Crc!remainder(i)
  BY <1>1, SMTT(60) DEF Crc!remainder, Crc!crc8_table
<1>6. \A i \in 128..159 : Crc!crc8_table[i + 1] = Crc!remainder(i)
  BY <1>1, SMTT(60) DEF Crc!remainder, Crc!crc8_table
<1>7. \A i \in 160..191 : Crc!crc8_table[i + 1] = Crc!remainder(i)
  BY <1>1, SMTT(60) DEF Crc!remainder, Crc!crc8_table
<1>8. \A i \in 192..223 : Crc!crc8_table[i + 1] = Crc!remainder(i)
  BY <1>1, SMTT(60) DEF Crc!remainder, Crc!crc8_table
<1>9. \A i \in 224..255 : Crc!crc8_table[i + 1] = Crc!remainder(i)
  BY <1>1, SMTT(60) DEF Crc!remainder, Crc!crc8_table
<1>10. \A i \in Byte : \/ i \in 0..31 \/ i \in 32..63 \/ i \in 64..95 \/ i \in 96..127
                       \/ i \in 128..159 \/ i \in 160..191 \/ i \in 192..223
                       \/ i \in 224..255
  BY DEF Byte
<1> QED
  BY <1>2, <1>3, <1>4, <1>5, <1>6, <1>7, <1>8, <1>9, <1>10

\* What the run's property needs: the two checksums are equal until a byte is
\* altered, and differ from then on until a second one is.
Checks ==
  /\ crc \in Byte /\ received \in Byte
  /\ hit \in 0..2
  /\ hit = 0 => received = crc
  /\ hit = 1 => received # crc

\* A byte keeps it so, whatever it is and however it is altered.
LEMMA ChecksByte ==
  ASSUME Checks, NEW b \in Bytes, NEW e \in Flips, Crc!byte(b, e)
  PROVE  Checks'
<1>1. b \in Byte /\ e \in Byte /\ 0 \in Byte
  BY Crc8Assumption DEF Crc!Assumptions, Byte
<1>2. PICK x \in Byte : x = Crc!xor(b, e)
  BY <1>1, XorCancels, Zenon
<1>3. PICK y \in Byte : y = Crc!xor(crc, b) /\ y = Crc!xor(b, crc)
  BY <1>1, XorCancels, Zenon DEF Checks
<1>4. PICK z \in Byte : z = Crc!xor(x, received)
  BY <1>2, XorCancels, Zenon DEF Checks
<1>5. crc' = Crc!remainder(y)
  BY <1>3, Zenon DEF Crc!byte
<1>6. received' = Crc!remainder(z)
  <2>1. received' = Crc!crc8_table[z + 1]
    BY <1>2, <1>4, Zenon DEF Crc!byte, Crc!crc8
  <2> QED
    BY <2>1, TableIsRemainder, Zenon
<1>7. crc' \in Byte /\ received' \in Byte /\ (received' = crc' <=> z = y)
  BY <1>5, <1>6, RemainderTells, Zenon
<1>8. e = 0 => x = b
  BY <1>1, <1>2, XorZero, Zenon
<1>9. x = b => e = 0
  <2>1. Crc!xor(b, 0) = b
    BY <1>1, XorZero, Zenon
  <2> QED
    BY <1>1, <1>2, <2>1, XorTells, Zenon
<1>10. x = b => (z = y <=> received = crc)
  <2>1. crc \in Byte /\ received \in Byte
    BY DEF Checks
  <2> QED
    BY <1>1, <1>3, <1>4, <2>1, XorTells, Zenon
<1>11. ASSUME received = crc, z = y PROVE x = b
  <2>1. crc \in Byte
    BY DEF Checks
  <2>2. z = Crc!xor(x, received) /\ Crc!xor(x, received) = Crc!xor(received, x)
    BY <1>4, XorCancels, Zenon DEF Checks
  <2>3. Crc!xor(crc, x) = Crc!xor(crc, b)
    BY <1>3, <1>11, <2>2, Zenon
  <2> QED
    BY <1>1, <2>1, <2>3, XorTells, Zenon
<1>12. hit' = IF e = 0 \/ hit = 2 THEN hit ELSE hit + 1
  BY DEF Crc!byte, Crc!altered
<1>13. hit' \in 0..2
  BY <1>12 DEF Checks
<1>14. hit' = 0 => received' = crc'
  <2>1. hit' = 0 => hit = 0 /\ e = 0
    BY <1>12 DEF Checks
  <2> QED
    BY <1>7, <1>8, <1>10, <2>1, Zenon DEF Checks
<1>15. hit' = 1 => received' # crc'
  <2>1. hit' = 1 => \/ hit = 1 /\ e = 0
                    \/ hit = 0 /\ e # 0
    BY <1>12 DEF Checks
  <2> QED
    BY <1>7, <1>8, <1>9, <1>10, <1>11, <2>1, Zenon DEF Checks
<1> QED
  BY <1>7, <1>13, <1>14, <1>15 DEF Checks

\* The rim accepts every frame that arrives as it was sent and none that is
\* altered in one byte, whatever bytes are sent and however that one is
\* altered: no entry of its table is wrong (crc8_table, rimlink_frame_validate).
THEOREM FramesAreJudged == Spec => []AcceptsExactly
<1>1. Init => Checks
  BY DEF Init, Crc!Init, Checks, Byte
<1>2. Checks /\ [Next]_vars => Checks'
  <2> SUFFICES ASSUME Checks, [Next]_vars PROVE Checks'
    OBVIOUS
  <2>1. CASE Crc!Next
    BY <2>1, ChecksByte DEF Crc!Next
  <2>2. CASE UNCHANGED crc_vars
    BY <2>2 DEF crc_vars, Checks
  <2> QED
    BY <2>1, <2>2, Zenon DEF Next, crc_step, dpad_step, channel_step, clutch_step,
       button_step, publish_step, vars
<1>3. Checks => AcceptsExactly
  <2> SUFFICES ASSUME Checks, NEW e \in Flips
               PROVE  /\ Crc!altered(e) = 0 => Crc!frame_validate(e)
                      /\ Crc!altered(e) = 1 => ~Crc!frame_validate(e)
    BY DEF AcceptsExactly, Crc!AcceptsExactly
  <2>1. e \in Byte /\ 0 \in Byte /\ crc \in Byte
    BY Crc8Assumption DEF Crc!Assumptions, Checks, Byte
  <2>2. Crc!xor(crc, e) = crc <=> e = 0
    <3>1. Crc!xor(crc, 0) = crc
      BY <2>1, XorZero, Zenon
    <3> QED
      BY <2>1, <3>1, XorTells, Zenon
  <2>3. Crc!altered(e) = 0 => hit = 0 /\ e = 0
    BY DEF Crc!altered, Checks
  <2>4. Crc!altered(e) = 1 => \/ hit = 1 /\ e = 0
                              \/ hit = 0 /\ e # 0
    <3>1. Crc!altered(e) = IF e = 0 \/ hit = 2 THEN hit ELSE hit + 1
      BY Zenon DEF Crc!altered
    <3>2. hit \in 0..2
      BY DEF Checks
    <3>3. CASE (e = 0 \/ hit = 2)
      BY <3>1, <3>3
    <3>4. CASE (e # 0 /\ hit # 2)
      BY <3>1, <3>2, <3>4
    <3> QED
      BY <3>3, <3>4
  <2> QED
    BY <2>2, <2>3, <2>4, Zenon DEF Crc!frame_validate, Checks
<1> QED
  BY <1>1, <1>2, <1>3, PTL DEF Spec

-----------------------------------------------------------------------------
(* InputPublish *)
\* The most ms one pass of the loop takes: the tick that was waited for, and
\* the wait.
Pass == 1 + LATE

\* The age of the newest snapshot in terms of what the code counts: a pass for
\* each tick held, and what the tick in the semaphore has waited.
Timing ==
  /\ tick_sem \in 0..1 /\ late \in 0..LATE
  /\ hold \in 0..(HOLD - 1) /\ silence \in 0..(STALE_MS + 1)
  /\ tick_sem = 1 => ticking
  /\ Pub!Published =>
       /\ ticking
       /\ silence <= hold * Pass + (IF tick_sem = 1 THEN 1 + late ELSE 0)

\* The adapter, the thread and the sample agree on the buttons; the axes lag
\* at most as many ticks as were held.
Following ==
  /\ armed \in 0..1 /\ DOMAIN buf = 0..1
  /\ Pub!Published => Pub!latest.buttons = prev_buttons /\ snapshot.buttons = prev_buttons
  /\ lag \in Nat /\ lag <= hold

-----------------------------------------------------------------------------
\* What one pass of the loop does: it publishes, or it holds one tick more.
LEMMA TickCases ==
  ASSUME Pub!Assumptions, Timing, NEW in \in Pub!Snapshots, Pub!tick(in)
  PROVE  \/ /\ Pub!Tx!snapshot_publish(in)
            /\ \/ prev_buttons' = in.buttons /\ hold' = hold
               \/ /\ prev_buttons' = prev_buttons /\ hold' = 0
                  /\ in.buttons = prev_buttons
         \/ /\ UNCHANGED Pub!tx_vars
            /\ prev_buttons' = prev_buttons /\ in.buttons = prev_buttons
            /\ hold' = hold + 1 /\ hold + 1 < HOLD
<1>1. HOLD \in Nat /\ hold \in Nat
  BY DEF Pub!Assumptions, Timing
<1>2. CASE Pub!publish_changed(in)
  BY <1>2 DEF Pub!publish_changed
<1>3. CASE Pub!keep_alive(in)
  BY <1>1, <1>3 DEF Pub!keep_alive, Pub!changed
<1> QED
  BY <1>2, <1>3 DEF Pub!tick

\* The keep-alive's arithmetic.
LEMMA HoldTime ==
  ASSUME Pub!Assumptions, NEW h \in 0..(HOLD - 1)
  PROVE  /\ h * Pass \in Nat
         /\ (h + 1) * Pass = h * Pass + Pass
         /\ h * Pass + Pass <= STALE_MS
<1>1. HOLD \in Nat /\ LATE \in Nat /\ Pass \in Nat /\ STALE_MS \in Nat
  BY DEF Pub!Assumptions, Pass
<1>2. (h + 1) * Pass = h * Pass + Pass /\ h * Pass \in Nat
  BY <1>1
<1>3. (h + 1) * Pass <= HOLD * Pass
  BY <1>1
<1> QED
  BY <1>1, <1>2, <1>3 DEF Pub!Assumptions, Pass

-----------------------------------------------------------------------------
\* The age of the newest snapshot follows what the code counts.
LEMMA TimingStep ==
  ASSUME Pub!Assumptions, Timing, [Pub!Next]_(Pub!vars)
  PROVE  Timing'
<1>1. HOLD \in Nat \ {0} /\ LATE \in Nat /\ STALE_MS \in Nat /\ Pass \in Nat
  BY DEF Pub!Assumptions, Pass
<1>2. hold * Pass \in Nat /\ (hold + 1) * Pass = hold * Pass + Pass
  BY HoldTime DEF Timing
<1>3. CASE Pub!input_svc_init
  BY <1>3 DEF Pub!input_svc_init, Pub!tx_vars, Pub!thread_vars, Timing, Pub!Published
<1>4. ASSUME NEW in \in Pub!Snapshots, Pub!tick(in) PROVE Timing'
  <2>1. tick_sem = 1 /\ tick_sem' = 0 /\ late' = 0 /\ ticking' = ticking
    BY <1>4 DEF Pub!tick
  <2>2. CASE UNCHANGED Pub!tx_vars /\ hold' = hold + 1 /\ hold + 1 < HOLD
             /\ prev_buttons' = prev_buttons
    <3>1. hold' \in 0..(HOLD - 1) /\ late' \in 0..LATE /\ silence' = silence
      BY <1>1, <2>1, <2>2 DEF Timing, Pub!tx_vars
    <3>2. Pub!Published' => silence <= hold * Pass + 1 + late /\ late <= LATE
      <4>1. Pub!Published' => silence <= hold * Pass + (1 + late)
        BY <2>1, <2>2 DEF Timing, Pub!Published
      <4> QED
        BY <1>1, <1>2, <4>1 DEF Timing
    <3>3. Pub!Published' => silence' <= hold' * Pass
      BY <1>1, <1>2, <2>2, <3>1, <3>2 DEF Pass, Timing
    <3> QED
      BY <1>1, <1>2, <2>1, <2>2, <3>1, <3>3 DEF Timing, Pub!Published
  <2>3. CASE Pub!Tx!snapshot_publish(in) /\ hold' \in {hold, 0}
    <3>1. silence' = 0 /\ hold' \in 0..(HOLD - 1) /\ late' \in 0..LATE
      BY <1>1, <2>1, <2>3 DEF Pub!Tx!snapshot_publish, Timing
    <3>2. hold' * Pass \in Nat
      BY <3>1, HoldTime
    <3>3. ticking'
      BY <2>1 DEF Timing
    <3>4. silence' <= hold' * Pass + (IF tick_sem' = 1 THEN 1 + late' ELSE 0)
      BY <2>1, <3>1, <3>2
    <3>5. silence' \in 0..(STALE_MS + 1) /\ tick_sem' \in 0..1
      BY <1>1, <2>1, <3>1
    <3> QED
      BY <2>1, <3>1, <3>3, <3>4, <3>5 DEF Timing
  <2> QED
    BY <1>4, <2>2, <2>3, TickCases
<1>5. CASE Pub!elapse
  <2>1. silence' \in 0..(STALE_MS + 1) /\ silence' <= silence + 1
    BY <1>1, <1>5 DEF Pub!elapse, Pub!Tx!elapse, Timing
  <2>2. hold' = hold /\ prev_buttons' = prev_buttons /\ ticking' = ticking
    BY <1>5 DEF Pub!elapse, Pub!thread_vars
  <2>3. /\ tick_sem' = IF ticking THEN 1 ELSE 0
        /\ late' = IF tick_sem = 1 THEN late + 1 ELSE 0
        /\ tick_sem = 1 => late < LATE
    BY <1>5 DEF Pub!elapse
  <2>4. late' \in 0..LATE
    BY <1>1, <2>3 DEF Timing
  <2>5. Pub!Published => silence' <= hold * Pass + (1 + late')
    BY <1>2, <2>1, <2>3, <2>4 DEF Timing
  <2> QED
    BY <2>1, <2>2, <2>3, <2>4, <2>5 DEF Timing, Pub!Published
<1>6. CASE Pub!acquire
  BY <1>6 DEF Pub!acquire, Pub!Tx!tx_acquire, Pub!thread_vars, Pub!tick_vars, Timing, Pub!Published
<1>7. CASE UNCHANGED Pub!vars
  BY <1>7 DEF Pub!vars, Pub!tx_vars, Pub!thread_vars, Pub!tick_vars, Timing, Pub!Published
<1> QED
  BY <1>3, <1>4, <1>5, <1>6, <1>7 DEF Pub!Next

\* The stale limit is above every age the keep-alive allows.
LEMMA TimingIsFresh == Pub!Assumptions /\ Timing => Pub!NeverStale
<1> SUFFICES ASSUME Pub!Assumptions, Timing, Pub!Published PROVE silence <= STALE_MS
  BY DEF Pub!NeverStale
<1>1. hold * Pass \in Nat /\ hold * Pass + Pass <= STALE_MS
  BY HoldTime DEF Timing
<1>2. LATE \in Nat /\ STALE_MS \in Nat
  BY DEF Pub!Assumptions
<1> QED
  BY <1>1, <1>2 DEF Timing, Pass

-----------------------------------------------------------------------------
\* The stale rule being out of reach, nothing but a publish changes what the
\* adapter holds.
LEMMA FollowingStep ==
  ASSUME Pub!Assumptions, Timing, Pub!NeverStale, Following, [Pub!Next]_(Pub!vars)
  PROVE  Following'
<1>1. CASE Pub!input_svc_init
  BY <1>1 DEF Pub!input_svc_init, Pub!tx_vars, Pub!thread_vars, Pub!history, Following,
              Pub!Published, Pub!latest, Pub!Tx!staging
<1>2. ASSUME NEW in \in Pub!Snapshots, Pub!tick(in) PROVE Following'
  <2>1. snapshot' = in
    BY <1>2 DEF Pub!tick
  <2>2. lag' = IF <<Pub!latest'.x, Pub!latest'.y>> = <<in.x, in.y>> THEN 0 ELSE lag + 1
    BY <1>2 DEF Pub!tick
  <2>3. CASE /\ UNCHANGED Pub!tx_vars
             /\ prev_buttons' = prev_buttons /\ in.buttons = prev_buttons
             /\ hold' = hold + 1
    <3>1. Pub!latest' = Pub!latest /\ armed' = armed /\ buf' = buf
      BY <2>3 DEF Pub!tx_vars, Pub!latest, Pub!Tx!staging
    <3>2. lag' \in Nat /\ lag' <= hold'
      BY <2>2, <2>3 DEF Following, Timing
    <3> QED
      BY <2>1, <2>3, <3>1, <3>2 DEF Following, Pub!Published
  <2>4. CASE /\ Pub!Tx!snapshot_publish(in)
             /\ prev_buttons' = in.buttons /\ hold' \in Nat
    <3>1. fresh' = TRUE /\ armed' = armed /\ DOMAIN buf' = DOMAIN buf
      BY <2>4 DEF Pub!Tx!snapshot_publish
    <3>2. Pub!Tx!staging \in DOMAIN buf
      BY DEF Following, Pub!Tx!staging
    <3>3. buf'[Pub!Tx!staging].in = in
      BY <2>4, <3>2 DEF Pub!Tx!snapshot_publish, Pub!Tx!frame_build
    <3>4. Pub!latest' = in
      BY <3>1, <3>3 DEF Pub!latest, Pub!Tx!staging
    <3>5. lag' = 0
      BY <2>2, <3>4
    <3> QED
      BY <2>1, <2>4, <3>1, <3>4, <3>5 DEF Following, Pub!Published
  <2>5. hold \in Nat
    BY DEF Timing
  <2> QED
    BY <1>2, <2>3, <2>4, <2>5, TickCases
<1>3. CASE Pub!elapse
  BY <1>3 DEF Pub!elapse, Pub!Tx!elapse, Pub!thread_vars, Pub!history, Following, Pub!Published,
              Pub!latest, Pub!Tx!staging
<1>4. CASE Pub!acquire
  <2>1. Pub!Tx!tx_acquire /\ UNCHANGED <<prev_buttons, snapshot, lag, hold>>
    BY <1>4 DEF Pub!acquire, Pub!thread_vars, Pub!history
  <2>2. armed' \in 0..1 /\ DOMAIN buf' = 0..1
    BY <2>1 DEF Pub!Tx!tx_acquire, Pub!Tx!swap_staging, Pub!Tx!clear_stale,
                Pub!Tx!repeat_frame, Pub!Tx!staging, Following
  <2>3. Pub!Published => Pub!latest' = Pub!latest
    <3>1. CASE Pub!Tx!swap_staging
      BY <3>1 DEF Pub!Tx!swap_staging, Pub!latest, Pub!Tx!staging
    <3>2. CASE Pub!Tx!clear_stale
      <4>1. silence > STALE_MS
        BY <3>2 DEF Pub!Tx!clear_stale
      <4>2. silence \in Nat /\ STALE_MS \in Nat
        BY DEF Timing, Pub!Assumptions
      <4> QED
        BY <4>1, <4>2 DEF Pub!NeverStale
    <3>3. CASE Pub!Tx!repeat_frame
      BY <3>3 DEF Pub!Tx!repeat_frame, Pub!latest, Pub!Tx!staging
    <3> QED
      BY <2>1, <3>1, <3>2, <3>3 DEF Pub!Tx!tx_acquire
  <2> QED
    BY <2>1, <2>2, <2>3 DEF Following, Pub!Published
<1>5. CASE UNCHANGED Pub!vars
  BY <1>5 DEF Pub!vars, Pub!tx_vars, Pub!thread_vars, Pub!history, Following, Pub!Published,
              Pub!latest, Pub!Tx!staging
<1> QED
  BY <1>1, <1>2, <1>3, <1>4, <1>5 DEF Pub!Next

-----------------------------------------------------------------------------
\* A live input thread never runs into the stale rule: the adapter is never
\* without a new snapshot for longer than STALE_MS.
THEOREM LiveIsNeverStale == Spec => []NeverStale
<1>1. Init => Timing
  BY InputPublishAssumption
     DEF Init, Pub!Init, Pub!Tx!Init, Timing, Pub!Published, Pub!Assumptions
<1>2. Timing /\ [Next]_vars => Timing'
  BY InputPublishAssumption, UnitSteps, TimingStep
<1>3. Timing => NeverStale
  BY InputPublishAssumption, TimingIsFresh DEF NeverStale
<1> QED
  BY <1>1, <1>2, <1>3, PTL DEF Spec

\* The adapter holds the buttons sampled last, and the axes of at most
\* HOLD - 1 ticks ago.
THEOREM AdapterKeepsUp == Spec => []AdapterFollows
<1>1. Init => Timing /\ Following
  <2> SUFFICES ASSUME Init PROVE Timing /\ Following
    OBVIOUS
  <2>1. Timing
    BY InputPublishAssumption
       DEF Init, Pub!Init, Pub!Tx!Init, Timing, Pub!Published, Pub!Assumptions
  <2>2. Following
    BY DEF Init, Pub!Init, Pub!Tx!Init, Following, Pub!Published
  <2> QED
    BY <2>1, <2>2
<1>2. Timing /\ Following /\ [Next]_vars => Timing' /\ Following'
  BY InputPublishAssumption, UnitSteps, TimingStep, FollowingStep, TimingIsFresh
<1>3. Timing /\ Following => AdapterFollows
  BY InputPublishAssumption
     DEF Timing, Following, AdapterFollows, Pub!AdapterFollows, Pub!Assumptions
<1> QED
  BY <1>1, <1>2, <1>3, PTL DEF Spec

-----------------------------------------------------------------------------
(* Clutch *)

\* How far a command of the shell has come, and what its writes have brought
\* together so far.  A chord in the middle spoils it until the next one.
Command ==
  /\ shell \in {"idle", "st_mode", "st_bite", "dual_mode", "dual_rest"}
  /\ ~torn /\ shell \in {"st_bite", "dual_mode", "dual_rest"} => st_mode = set_mode
  /\ ~torn /\ shell \in {"dual_mode", "dual_rest"} => st_bite = set_bite
  /\ ~torn /\ shell = "dual_rest" => dual_mode = set_mode
  /\ ~torn /\ shell = "idle" => st_mode = dual_mode /\ st_bite = dual_bite

\* A chord acts on both sides at once; only the shell takes its time.
LEMMA CommandStep ==
  ASSUME Command, [Dual!Next]_(Dual!vars)
  PROVE  Command'
<1> USE DEF Command
<1>1. ASSUME NEW v \in [Dual!Paddles -> Values], NEW m \in BOOLEAN, Dual!tick(v, m)
      PROVE  Command'
  <2>1. UNCHANGED <<shell, set_mode, set_bite>>
    BY <1>1 DEF Dual!tick, Dual!shell_vars
  <2>2. CASE Dual!chord_starts(v, m)
    <3>1. torn' = (shell # "idle") /\ Dual!cycle_mode(v)
      BY <1>1, <2>2 DEF Dual!tick
    <3>2. st_mode' = dual_mode' /\ st_bite' = dual_bite'
      BY <3>1 DEF Dual!cycle_mode
    <3> QED
      BY <2>1, <3>1, <3>2
  <2>3. CASE ~Dual!chord_starts(v, m)
    <3>1. torn' = torn /\ Dual!keep_mode(v)
      BY <1>1, <2>3 DEF Dual!tick
    <3>2. UNCHANGED <<st_mode, st_bite, dual_mode, dual_bite>>
      BY <3>1 DEF Dual!keep_mode, Dual!settings
    <3> QED
      BY <2>1, <3>1, <3>2
  <2> QED
    BY <2>2, <2>3
<1>2. ASSUME NEW mode \in Dual!Modes, NEW bite \in Bites,
             Dual!clutch_mode_set(mode, bite)
      PROVE  Command'
  BY <1>2 DEF Dual!clutch_mode_set
<1>3. CASE Dual!write
  BY <1>3 DEF Dual!write, Dual!write_st_mode, Dual!write_st_bite,
              Dual!write_dual_mode, Dual!write_dual_rest, Dual!settings, Dual!dual
<1>4. CASE UNCHANGED Dual!vars
  BY <1>4 DEF Dual!vars, Dual!settings, Dual!dual, Dual!shell_vars
<1> QED
  BY <1>1, <1>2, <1>3, <1>4 DEF Dual!Next

\* What is set is what runs: between two commands of the shell the settings and
\* the state machine have the same mode and bite point.
THEOREM SettingsAndClutchAgree == Spec => []ModeAgrees
<1>1. Init => Command
  BY DEF Init, Dual!Init, Command
<1>2. Command /\ [Next]_vars => Command'
  BY UnitSteps, CommandStep
<1>3. Command => ModeAgrees
  BY DEF Command, ModeAgrees, Dual!ModeAgrees
<1> QED
  BY <1>1, <1>2, <1>3, PTL DEF Spec

-----------------------------------------------------------------------------
(* Buttons *)

\* What the debouncers remember is the last sample.
Remembered ==
  /\ \A i \in Word!Btns : btn_db[i].prev = (i \in last_sample.btn)
  /\ funky.dir_raw_prev = last_sample.dir
  /\ funky.push_raw_prev = last_sample.push
  /\ last_sample.push \in BOOLEAN

\* Nothing was sampled and nothing is remembered.
LEMMA RememberedInit == Word!Init => Remembered
<1> SUFFICES ASSUME Word!Init PROVE Remembered
  OBVIOUS
<1>1. last_sample.btn = {} /\ last_sample.dir = {} /\ last_sample.push = FALSE
  BY DEF Word!Init, Word!Idle
<1>2. funky.dir_raw_prev = {} /\ funky.push_raw_prev = FALSE
  BY DEF Word!Init
<1>3. ASSUME NEW i \in Word!Btns PROVE btn_db[i].prev = (i \in last_sample.btn)
  <2>1. btn_db[i] = [state |-> FALSE, prev |-> FALSE]
    BY Zenon DEF Word!Init
  <2>2. btn_db[i].prev = FALSE
    BY <2>1, SMT
  <2>3. (i \in last_sample.btn) = FALSE
    BY <1>1
  <2> QED
    BY <2>2, <2>3
<1> QED
  BY <1>1, <1>2, <1>3 DEF Remembered

\* A scan brings the next sample, and leaves it remembered.
LEMMA RememberedStep ==
  ASSUME Remembered, [Word!Next]_(Word!vars)
  PROVE  Remembered'
<1>1. ASSUME NEW s \in Samples, Word!scan(s) PROVE Remembered'
  <2>1. \A i \in Word!Btns : btn_db'[i] = Word!debounce_feed(btn_db[i], i \in s.btn)
    BY <1>1 DEF Word!scan
  <2>2. funky' = Word!funky_feed(funky, s.dir, s.push) /\ last_sample' = s
    BY <1>1 DEF Word!scan
  <2>3. funky'.dir_raw_prev = s.dir /\ funky'.push_raw_prev = s.push
    BY <2>2 DEF Word!funky_feed
  <2>4. \A i \in Word!Btns : btn_db'[i].prev = (i \in s.btn)
    <3> SUFFICES ASSUME NEW i \in Word!Btns PROVE btn_db'[i].prev = (i \in s.btn)
      OBVIOUS
    <3>1. btn_db'[i] = Word!debounce_feed(btn_db[i], i \in s.btn)
      BY <2>1
    <3> QED
      BY <3>1, SMT DEF Word!debounce_feed
  <2>5. s.push \in BOOLEAN
    BY ButtonsAssumption DEF Word!Assumptions
  <2> QED
    BY <2>2, <2>3, <2>4, <2>5 DEF Remembered
<1>2. CASE UNCHANGED <<btn_db, funky, last_sample>>
  BY <1>2 DEF Remembered
<1>3. ASSUME NEW i \in Word!Btns, NEW bit \in MapBits, Word!input_svc_map_set(i, bit)
      PROVE  Remembered'
  BY <1>2, <1>3 DEF Word!input_svc_map_set
<1>4. ASSUME NEW bit \in ManualBits, NEW on, Word!input_svc_manual_bit(bit, on)
      PROVE  Remembered'
  BY <1>2, <1>4 DEF Word!input_svc_manual_bit
<1>5. CASE UNCHANGED Word!vars
  BY <1>2, <1>5 DEF Word!vars
<1> QED
  BY <1>1, <1>3, <1>4, <1>5 DEF Word!Next, Word!input_svc_manual_toggle

\* What a scan makes of two samples running.
LEMMA ScanComposes ==
  ASSUME Remembered, NEW s \in Samples, Word!scan(s)
  PROVE  /\ before' = last_sample /\ last_sample' = s
         /\ UNCHANGED <<button_map, manual_bits>>
         /\ \A i \in Word!Btns :
              IF i \in before'.btn <=> i \in s.btn
                THEN btn_db'[i].state = (i \in s.btn)
                ELSE btn_db'[i].state = btn_db[i].state
         /\ funky'.dir_stable = IF s.dir = before'.dir THEN s.dir ELSE funky.dir_stable
         /\ funky'.push_stable = IF s.push = before'.push THEN s.push
                                   ELSE funky.push_stable
         /\ funky'.fault = Word!chord(funky'.dir_stable)
         /\ buttons' = Word!map_apply(btn_db') \cup Word!dpad_apply_bits(s.pos)
                         \cup Word!funky_apply(funky') \cup manual_bits
<1>1. before' = last_sample /\ last_sample' = s /\ UNCHANGED <<button_map, manual_bits>>
  BY DEF Word!scan
<1>2. \A i \in Word!Btns : btn_db'[i] = Word!debounce_feed(btn_db[i], i \in s.btn)
  BY DEF Word!scan
<1>3. ASSUME NEW i \in Word!Btns
      PROVE  IF i \in last_sample.btn <=> i \in s.btn
               THEN btn_db'[i].state = (i \in s.btn)
               ELSE btn_db'[i].state = btn_db[i].state
  <2>1. btn_db[i].prev = (i \in last_sample.btn)
    BY DEF Remembered
  <2>2. btn_db'[i] = Word!debounce_feed(btn_db[i], i \in s.btn)
    BY <1>2
  <2>3. CASE (i \in s.btn) = btn_db[i].prev
    <3>1. btn_db'[i].state = (i \in s.btn)
      BY <2>2, <2>3, SMT DEF Word!debounce_feed
    <3> QED
      BY <2>1, <2>3, <3>1
  <2>4. CASE (i \in s.btn) # btn_db[i].prev
    <3>1. btn_db'[i].state = btn_db[i].state
      BY <2>2, <2>4, SMT DEF Word!debounce_feed
    <3> QED
      BY <2>1, <2>4, <3>1
  <2> QED
    BY <2>3, <2>4
<1>4. funky' = Word!funky_feed(funky, s.dir, s.push)
  BY DEF Word!scan
<1>5. funky'.dir_stable = IF s.dir = last_sample.dir THEN s.dir ELSE funky.dir_stable
  BY <1>4 DEF Word!funky_feed, Remembered
<1>6. funky'.push_stable = IF s.push = last_sample.push THEN s.push ELSE funky.push_stable
  BY <1>4 DEF Word!funky_feed, Remembered
<1>7. funky'.fault = Word!chord(funky'.dir_stable)
  BY <1>4 DEF Word!funky_feed, Word!chord
<1>8. buttons' = Word!map_apply(btn_db') \cup Word!dpad_apply_bits(s.pos)
                  \cup Word!funky_apply(funky') \cup manual_bits
  BY DEF Word!scan, Word!compose
<1> QED
  BY <1>1, <1>3, <1>5, <1>6, <1>7, <1>8

\* A step that changes something but neither the map nor the overrides is a
\* scan.
LEMMA ScannedIsScan ==
  ASSUME Word!Next, Word!Scanned
  PROVE  UNCHANGED Word!vars \/ \E s \in Samples : Word!scan(s)
<1>1. ASSUME NEW i \in Word!Btns, NEW bit \in MapBits, Word!input_svc_map_set(i, bit)
      PROVE  UNCHANGED Word!vars
  BY <1>1 DEF Word!input_svc_map_set, Word!Scanned, Word!vars
<1>2. ASSUME NEW bit, NEW on, Word!input_svc_manual_bit(bit, on)
      PROVE  UNCHANGED Word!vars
  BY <1>2 DEF Word!input_svc_manual_bit, Word!Scanned, Word!vars
<1> QED
  BY <1>1, <1>2 DEF Word!Next, Word!input_svc_manual_toggle

\* Everything held over two scans is in the word.
THEOREM HeldReachesTheWord == Spec => HeldIsReported
<1>1. Init => Remembered
  BY RememberedInit DEF Init
<1>2. Remembered /\ [Next]_vars => Remembered'
  BY UnitSteps, RememberedStep
<1>3. ASSUME Remembered, NEW s \in Samples, Word!scan(s) PROVE Word!HeldReported
  <2>1. /\ before' = last_sample /\ last_sample' = s /\ UNCHANGED button_map
        /\ manual_bits \subseteq buttons'
        /\ Word!dpad_apply_bits(s.pos) \subseteq buttons'
        /\ Word!funky_apply(funky') \subseteq buttons'
        /\ Word!map_apply(btn_db') \subseteq buttons'
    BY <1>3, ScanComposes
  <2>2. before'.push /\ s.push => Word!DPAD_BUTTON \in buttons'
    <3> SUFFICES ASSUME before'.push, s.push PROVE Word!DPAD_BUTTON \in buttons'
      OBVIOUS
    <3>1. funky'.push_stable
      BY <1>3, ScanComposes
    <3> QED
      BY <2>1, <3>1 DEF Word!funky_apply
  <2>3. before'.dir = s.dir /\ s.dir \in {{contact} : contact \in Word!Contacts}
          => s.dir \subseteq buttons'
    <3> SUFFICES ASSUME before'.dir = s.dir, NEW contact \in Word!Contacts,
                        s.dir = {contact}
                 PROVE  s.dir \subseteq buttons'
      OBVIOUS
    <3>1. funky'.dir_stable = {contact} /\ funky'.fault = Word!chord({contact})
      BY <1>3, ScanComposes
    <3>2. ~Word!chord({contact})
      BY DEF Word!chord, Word!UP, Word!DOWN, Word!LEFT, Word!RIGHT
    <3>3. Word!funky_dir_get(funky') = {contact}
      BY <3>1, <3>2 DEF Word!funky_dir_get
    <3> QED
      BY <2>1, <3>3 DEF Word!funky_apply
  <2>4. ASSUME NEW i \in before'.btn \cap s.btn,
               \A j \in Word!Btns \ {i} : button_map[j] # button_map[i]
        PROVE  button_map[i] \in buttons'
    <3>1. i \in Word!Btns
      BY ButtonsAssumption DEF Word!Assumptions
    <3>2. btn_db'[i].state
      BY <1>3, <3>1, ScanComposes
    <3>3. \A j \in Word!Btns : j > i => j # i
      BY <3>1, ButtonsAssumption DEF Word!Assumptions, Word!Btns
    <3>4. button_map[i] \in Word!map_apply(btn_db')
      BY <2>1, <2>4, <3>1, <3>2, <3>3 DEF Word!map_apply
    <3> QED
      BY <2>1, <3>4
  <2> QED
    BY <2>1, <2>2, <2>3, <2>4 DEF Word!HeldReported
<1>4. Remembered /\ [Next]_vars => [Word!Scanned => Word!HeldReported]_(Word!vars)
  <2> SUFFICES ASSUME Remembered, Word!Next, Word!Scanned, ~UNCHANGED Word!vars
               PROVE  Word!HeldReported
    BY UnitSteps
  <2> QED
    BY <1>3, ScannedIsScan
<1> QED
  BY <1>1, <1>2, <1>4, PTL DEF Spec, HeldIsReported, Word!HeldIsReported

\* Every bit of the word has an input behind it.
THEOREM WordIsExplained == Spec => NoPhantom
<1>1. Init => Remembered
  BY RememberedInit DEF Init
<1>2. Remembered /\ [Next]_vars => Remembered'
  BY UnitSteps, RememberedStep
<1>3. ASSUME Remembered, NEW s \in Samples, Word!scan(s)
      PROVE  Word!Explained
  <2> DEFINE pushed == \/ before'.push /\ s.push
                       \/ funky.push_stable /\ (before'.push \/ s.push)
             dirs == IF before'.dir # s.dir THEN funky.dir_stable
                     ELSE IF Word!chord(s.dir) THEN {} ELSE s.dir
  <2>1. /\ before' = last_sample /\ last_sample' = s /\ UNCHANGED button_map
        /\ buttons' = Word!map_apply(btn_db') \cup Word!dpad_apply_bits(s.pos)
                         \cup Word!funky_apply(funky') \cup manual_bits
    BY <1>3, ScanComposes
  <2>2. Word!map_apply(btn_db') \subseteq
          {button_map[i] : i \in Word!Believed(Word!Pressed, before'.btn, s.btn)}
    <3>1. ASSUME NEW i \in Word!Btns, btn_db'[i].state
          PROVE  i \in Word!Believed(Word!Pressed, before'.btn, s.btn)
      <4>1. \/ i \in before'.btn /\ i \in s.btn
            \/ ~(i \in before'.btn <=> i \in s.btn) /\ btn_db[i].state
        BY <1>3, <3>1, ScanComposes
      <4> QED
        BY <4>1 DEF Word!Believed, Word!Pressed
    <3> QED
      BY <2>1, <3>1 DEF Word!map_apply
  <2>3. Word!funky_dir_get(funky') \subseteq dirs
    <3>1. /\ funky'.dir_stable = IF s.dir = before'.dir THEN s.dir ELSE funky.dir_stable
          /\ funky'.fault = Word!chord(funky'.dir_stable)
      BY <1>3, ScanComposes
    <3> QED
      BY <3>1 DEF Word!funky_dir_get
  <2>4. funky'.push_stable => pushed
    <3>1. funky'.push_stable = IF s.push = before'.push THEN s.push
                               ELSE funky.push_stable
      BY <1>3, ScanComposes
    <3>2. s.push \in BOOLEAN /\ before'.push \in BOOLEAN
      BY <1>3, <2>1, ButtonsAssumption DEF Word!Assumptions, Remembered
    <3> QED
      BY <3>1, <3>2
  <2>5. Word!funky_apply(funky') \subseteq
          dirs \cup (IF pushed THEN {Word!DPAD_BUTTON} ELSE {})
    BY <2>3, <2>4 DEF Word!funky_apply
  <2>6. before'.dir = s.dir /\ Word!chord(s.dir) => funky'.fault
    BY <1>3, ScanComposes
  <2> QED
    BY <2>1, <2>2, <2>5, <2>6 DEF Word!Explained
<1>4. Remembered /\ [Next]_vars => [Word!Scanned => Word!Explained]_(Word!vars)
  <2> SUFFICES ASSUME Remembered, Word!Next, Word!Scanned, ~UNCHANGED Word!vars
               PROVE  Word!Explained
    BY UnitSteps
  <2> QED
    BY <1>3, ScannedIsScan
<1> QED
  BY <1>1, <1>2, <1>4, PTL DEF Spec, NoPhantom, Word!NoPhantom

-----------------------------------------------------------------------------
(* Dpad *)

\* The least number of a set: what stands here for induction.
LEMMA LeastNumber ==
  ASSUME NEW T \in SUBSET Nat, T # {}
  PROVE  \E x \in T : \A y \in T : x <= y
<1> DEFINE R == OpToRel(<, Nat)
<1>1. IsWellFoundedOn(R, Nat)
  BY NatLessThanWellFounded
<1>2. \A x, y \in Nat : <<x, y>> \in R <=> x < y
  BY DEF OpToRel
<1> HIDE DEF R
<1>3. PICK x \in T : \A y \in T : ~ (<<y, x>> \in R)
  BY <1>1, WFMin, Zenon
<1>4. ASSUME NEW y \in T PROVE x <= y
  <2>1. x \in Nat /\ y \in Nat /\ ~ (y < x)
    BY <1>2, <1>3
  <2> QED
    BY <2>1
<1> QED
  BY <1>4

\* Thresholds that descend from one to the next descend throughout.
LEMMA DescendThroughout ==
  ASSUME NEW n \in Nat, NEW t \in [1..n -> Int],
         \A i \in 2..n : t[i] < t[i - 1],
         NEW j \in 1..n, NEW k \in 1..n, j <= k
  PROVE  t[k] <= t[j]
<1> DEFINE T == {i \in 1..n : j <= i /\ t[i] > t[j]}
<1> SUFFICES ASSUME ~ (t[k] <= t[j]) PROVE FALSE
  OBVIOUS
<1>1. PICK m \in T : \A i \in T : m <= i
  <2>1. t[k] \in Int /\ t[j] \in Int
    OBVIOUS
  <2>2. T \in SUBSET Nat /\ k \in T
    BY <2>1
  <2> HIDE DEF T
  <2> QED
    BY <2>2, LeastNumber
<1>2. m \in 2..n /\ m - 1 \in 1..n /\ j <= m - 1
  <2>1. m \in 1..n /\ j <= m /\ t[m] > t[j] /\ t[j] \in Int
    OBVIOUS
  <2>2. m # j
    BY <2>1
  <2> QED
    BY <2>1, <2>2
<1>3. m - 1 \notin T
  BY <1>1, <1>2
<1>4. t[m - 1] <= t[j] /\ t[m] < t[m - 1] /\ t[m] > t[j]
  BY <1>1, <1>2, <1>3
<1> QED
  BY <1>1, <1>2, <1>4

\* The window of a sample: it is not above the thresholds up to its position,
\* and above the next one.
LEMMA Window ==
  ASSUME Ladder!Assumptions, thr \in [1..DPAD_THRESHOLDS -> 0..RAW_MAX],
         NEW r \in 0..RAW_MAX
  PROVE  /\ Ladder!position(r) \in 0..DPAD_THRESHOLDS
         /\ \A i \in 1..Ladder!position(r) : r <= thr[i]
         /\ Ladder!position(r) < DPAD_THRESHOLDS => r > thr[Ladder!position(r) + 1]
<1> DEFINE above == {i \in 1..DPAD_THRESHOLDS : r > thr[i]}
<1>1. DPAD_THRESHOLDS \in Nat /\ RAW_MAX \in Nat
  BY DEF Ladder!Assumptions
<1>2. Ladder!window_of(r) = (IF above # {} THEN Ladder!Min(above) ELSE 0) - 1
  <2>1. Len(thr) = DPAD_THRESHOLDS
    BY <1>1
  <2> QED
    BY <2>1 DEF Ladder!window_of, Ladder!SelectInSeq
<1>3. CASE above = {}
  <2>1. Ladder!position(r) = DPAD_THRESHOLDS
    BY <1>2, <1>3 DEF Ladder!position
  <2>2. \A i \in 1..DPAD_THRESHOLDS : thr[i] \in Int /\ ~ (r > thr[i])
    BY <1>1, <1>3
  <2> QED
    BY <1>1, <2>1, <2>2
<1>4. CASE above # {}
  <2>1. PICK m : m = Ladder!Min(above)
    OBVIOUS
  <2>2. m \in above /\ \A i \in above : m <= i
    <3>1. above \in SUBSET Nat
      OBVIOUS
    <3> HIDE DEF above
    <3>2. \E x \in above : \A y \in above : x <= y
      BY <1>4, <3>1, LeastNumber
    <3> QED
      BY <2>1, <3>2 DEF Ladder!Min
  <2>3. m \in 1..DPAD_THRESHOLDS /\ r > thr[m]
    BY <2>2
  <2>4. Ladder!position(r) = m - 1
    BY <1>2, <1>4, <2>1, <2>3 DEF Ladder!position
  <2>5. ASSUME NEW i \in 1..(m - 1) PROVE r <= thr[i]
    <3>1. i \in 1..DPAD_THRESHOLDS /\ thr[i] \in Int
      BY <1>1, <2>3
    <3>2. i \notin above
      BY <2>2, <2>3
    <3> QED
      BY <3>1, <3>2
  <2> QED
    BY <1>1, <2>3, <2>4, <2>5
<1> QED
  BY <1>3, <1>4

\* What the decoder keeps: its thresholds are those of the settings as far as
\* the shell has stored them, and while the shell rests the position fits the
\* last sample that moved it or was clear.
DecoderTyped ==
  /\ thr \in [1..DPAD_THRESHOLDS -> 0..RAW_MAX]
  /\ dpad_thr \in [1..DPAD_THRESHOLDS -> 0..RAW_MAX]
  /\ hyst \in Nat /\ dpad_hyst \in Hysts
  /\ cur \in 0..DPAD_THRESHOLDS
  /\ dpad_raw \in 0..RAW_MAX
  /\ dpad_shell \in 0..(DPAD_THRESHOLDS + 2)

Stored ==
  /\ Ladder!Descending(dpad_thr)
  /\ \A i \in 1..DPAD_THRESHOLDS :
       dpad_shell = 0 \/ i < dpad_shell => thr[i] = dpad_thr[i]

Fits == moved \/ (sampled /\ Ladder!Clear(dpad_raw)) => cur = Ladder!position(dpad_raw)

Decoding == DecoderTyped /\ Stored /\ (dpad_shell = 0 => Fits)

\* One sample: the position stays, or is the one of the sample's window; it is
\* the latter when the sample is clear of every threshold.
LEMMA Decode ==
  ASSUME Ladder!Assumptions, thr \in [1..DPAD_THRESHOLDS -> 0..RAW_MAX],
         cur \in 0..DPAD_THRESHOLDS, NEW r \in 0..RAW_MAX
  PROVE  /\ Ladder!decode(r) \in {cur, Ladder!position(r)}
         /\ Ladder!Clear(r) => Ladder!decode(r) = Ladder!position(r)
<1>1. DPAD_THRESHOLDS \in Nat
  BY DEF Ladder!Assumptions
<1>2. PICK p \in 0..DPAD_THRESHOLDS : p = Ladder!position(r)
  BY Window
<1>3. ASSUME Ladder!Clear(r), p # cur
      PROVE  Ladder!Distance(r, Ladder!boundary(p)) > hyst
  <2>1. PICK k \in 1..DPAD_THRESHOLDS : Ladder!boundary(p) = thr[k]
    BY <1>1, <1>3 DEF Ladder!boundary
  <2> QED
    BY <1>3, <2>1 DEF Ladder!Clear
<1> QED
  BY <1>2, <1>3 DEF Ladder!decode

\* Neither a sample nor a store of the shell disturbs it.
LEMMA DecodingStep ==
  ASSUME Ladder!Assumptions, Decoding, [Ladder!Next]_(Ladder!vars)
  PROVE  Decoding'
<1>1. DPAD_THRESHOLDS \in Nat /\ RAW_MAX \in Nat
  BY DEF Ladder!Assumptions
<1>2. DecoderTyped /\ Stored
  BY DEF Decoding
<1>3. dpad_thr' = dpad_thr => Ladder!Descending(dpad_thr)'
  BY <1>2 DEF Stored, Ladder!Descending
<1>4. ASSUME NEW r \in 0..RAW_MAX, Ladder!dpad_decode(r) PROVE Decoding'
  <2>1. /\ cur' = Ladder!decode(r) /\ dpad_raw' = r /\ moved' = (cur' # cur)
        /\ UNCHANGED <<thr, hyst, dpad_shell, dpad_thr, dpad_hyst>>
    BY <1>4 DEF Ladder!dpad_decode, Ladder!shell_vars
  <2>2. /\ cur' \in {cur, Ladder!position(r)}
        /\ Ladder!Clear(r) => cur' = Ladder!position(r)
    BY <1>2, <2>1, Decode DEF DecoderTyped
  <2>3. Ladder!position(dpad_raw)' = Ladder!position(r)
    BY <2>1 DEF Ladder!position, Ladder!window_of, Ladder!SelectInSeq
  <2>4. Ladder!Clear(dpad_raw)' = Ladder!Clear(r)
    BY <2>1 DEF Ladder!Clear
  <2>5. cur' \in 0..DPAD_THRESHOLDS
    BY <1>2, <2>2, Window DEF DecoderTyped
  <2>6. Fits'
    BY <2>1, <2>2, <2>3, <2>4 DEF Fits
  <2>7. DecoderTyped'
    BY <1>2, <2>1, <2>5 DEF DecoderTyped
  <2>8. Stored'
    BY <1>2, <1>3, <2>1 DEF Stored
  <2> QED
    BY <2>6, <2>7, <2>8 DEF Decoding
<1>5. ASSUME NEW t \in Thresholds, NEW h \in Hysts, Ladder!dpad_cal(t, h)
      PROVE  Decoding'
  <2>1. /\ dpad_shell' = 1 /\ dpad_thr' = t /\ dpad_hyst' = h /\ Ladder!Descending(t)
        /\ UNCHANGED <<thr, hyst, cur, dpad_raw>>
    BY <1>5 DEF Ladder!dpad_cal, Ladder!accepted, Ladder!decoder
  <2>2. t \in [1..DPAD_THRESHOLDS -> 0..RAW_MAX]
    BY DEF Ladder!Assumptions
  <2>3. Ladder!Descending(dpad_thr)'
    BY <2>1 DEF Ladder!Descending
  <2>4. DecoderTyped'
    BY <1>1, <1>2, <2>1, <2>2 DEF DecoderTyped
  <2>5. Stored'
    BY <1>1, <2>1, <2>3 DEF Stored
  <2> QED
    BY <2>1, <2>4, <2>5 DEF Decoding
<1>6. CASE Ladder!store_thr
  <2>1. /\ dpad_shell \in 1..DPAD_THRESHOLDS /\ dpad_shell' = dpad_shell + 1
        /\ thr' = [thr EXCEPT ![dpad_shell] = dpad_thr[dpad_shell]]
        /\ UNCHANGED <<hyst, cur, dpad_raw, dpad_thr, dpad_hyst>>
    BY <1>6 DEF Ladder!store_thr
  <2>2. thr' \in [1..DPAD_THRESHOLDS -> 0..RAW_MAX]
    BY <1>2, <2>1 DEF DecoderTyped
  <2>3. ASSUME NEW i \in 1..DPAD_THRESHOLDS, i < dpad_shell'
        PROVE  thr'[i] = dpad_thr[i]
    BY <1>1, <1>2, <2>1, <2>3 DEF DecoderTyped, Stored
  <2>4. dpad_shell' \in 2..(DPAD_THRESHOLDS + 2)
    BY <1>1, <2>1
  <2>5. DecoderTyped'
    BY <1>1, <1>2, <2>1, <2>2, <2>4 DEF DecoderTyped
  <2>6. Stored'
    BY <1>3, <2>1, <2>3, <2>4 DEF Stored
  <2> QED
    BY <2>4, <2>5, <2>6 DEF Decoding
<1>7. CASE Ladder!store_hyst
  <2>1. /\ dpad_shell = DPAD_THRESHOLDS + 1 /\ dpad_shell' = dpad_shell + 1
        /\ hyst' = Ladder!hyst_of(dpad_hyst)
        /\ UNCHANGED <<thr, cur, dpad_raw, dpad_thr, dpad_hyst>>
    BY <1>7 DEF Ladder!store_hyst
  <2>2. hyst' \in Nat
    BY <1>2, <2>1 DEF Ladder!hyst_of, Ladder!Assumptions, DecoderTyped
  <2>3. DecoderTyped'
    BY <1>1, <1>2, <2>1, <2>2 DEF DecoderTyped
  <2>4. Stored'
    BY <1>1, <1>2, <1>3, <2>1 DEF Stored
  <2> QED
    BY <1>1, <2>1, <2>3, <2>4 DEF Decoding
<1>8. CASE Ladder!store_cur
  <2>1. /\ dpad_shell = DPAD_THRESHOLDS + 2 /\ dpad_shell' = 0 /\ cur' = 0
        /\ moved' = FALSE /\ sampled' = FALSE
        /\ UNCHANGED <<thr, hyst, dpad_raw, dpad_thr, dpad_hyst>>
    BY <1>8 DEF Ladder!store_cur
  <2>2. DecoderTyped'
    BY <1>1, <1>2, <2>1 DEF DecoderTyped
  <2>3. Stored'
    BY <1>1, <1>2, <1>3, <2>1 DEF Stored
  <2>4. Fits'
    BY <2>1 DEF Fits
  <2> QED
    BY <2>2, <2>3, <2>4 DEF Decoding
<1>9. CASE UNCHANGED Ladder!vars
  BY <1>9 DEF Ladder!vars, Ladder!decoder, Ladder!shell_vars, Decoding, DecoderTyped,
              Stored, Fits, Ladder!Descending, Ladder!Clear, Ladder!position,
              Ladder!window_of, Ladder!SelectInSeq
<1> QED
  BY <1>4, <1>5, <1>6, <1>7, <1>8, <1>9 DEF Ladder!Next

\* The decoder starts with the thresholds of the settings and without a sample.
LEMMA DecodingInit == Ladder!Assumptions /\ Ladder!Init => Decoding
<1> SUFFICES ASSUME Ladder!Assumptions, Ladder!Init PROVE Decoding
  OBVIOUS
<1>1. DPAD_THRESHOLDS \in Nat /\ RAW_MAX \in Nat
  BY DEF Ladder!Assumptions
<1>2. DecoderTyped
  BY <1>1 DEF Ladder!Init, Ladder!Assumptions, DecoderTyped, Ladder!hyst_of
<1>3. Stored
  BY DEF Ladder!Init, Stored
<1>4. Fits
  BY DEF Ladder!Init, Fits
<1> QED
  BY <1>2, <1>3, <1>4 DEF Decoding

\* While the shell rests the position of a sample is the number of the
\* calibrated thresholds it is not above.
LEMMA PositionIsCut ==
  ASSUME Ladder!Assumptions, Decoding, dpad_shell = 0
  PROVE  Ladder!position(dpad_raw) = Ladder!Cut(dpad_raw)
<1> USE DEF Decoding
<1>1. DPAD_THRESHOLDS \in Nat /\ RAW_MAX \in Nat
  BY DEF Ladder!Assumptions
<1>2. PICK p \in 0..DPAD_THRESHOLDS :
        /\ p = Ladder!position(dpad_raw)
        /\ \A i \in 1..p : dpad_raw <= thr[i]
        /\ p < DPAD_THRESHOLDS => dpad_raw > thr[p + 1]
  BY Window DEF DecoderTyped
<1>3. \A i \in 1..DPAD_THRESHOLDS : thr[i] = dpad_thr[i] /\ thr[i] \in 0..RAW_MAX
  BY DEF Stored, DecoderTyped
<1>4. ASSUME NEW i \in 1..DPAD_THRESHOLDS, i > p PROVE dpad_raw > dpad_thr[i]
  <2>1. p + 1 \in 1..DPAD_THRESHOLDS /\ p + 1 <= i
    BY <1>1, <1>4
  <2>2. dpad_thr \in [1..DPAD_THRESHOLDS -> Int]
    BY <1>1 DEF DecoderTyped
  <2>3. \A k \in 2..DPAD_THRESHOLDS : dpad_thr[k] < dpad_thr[k - 1]
    BY DEF Stored, Ladder!Descending
  <2>4. dpad_thr[i] <= dpad_thr[p + 1]
    BY <1>1, <2>1, <2>2, <2>3, DescendThroughout
  <2>5. dpad_raw \in Int /\ dpad_thr[p + 1] \in Int /\ dpad_thr[i] \in Int
    BY <1>1, <2>1, <2>2 DEF DecoderTyped
  <2>6. dpad_raw > dpad_thr[p + 1]
    BY <1>1, <1>2, <1>3, <2>1
  <2> QED
    BY <2>4, <2>5, <2>6
<1>5. {i \in DOMAIN dpad_thr : dpad_raw <= dpad_thr[i]} = 1..p
  <2>1. DOMAIN dpad_thr = 1..DPAD_THRESHOLDS
    BY DEF DecoderTyped
  <2>2. ASSUME NEW i \in 1..DPAD_THRESHOLDS PROVE dpad_raw <= dpad_thr[i] <=> i <= p
    <3>1. dpad_raw \in Int /\ dpad_thr[i] \in Int
      BY <1>1 DEF DecoderTyped
    <3>2. CASE i <= p
      <4>1. dpad_raw <= thr[i]
        BY <1>1, <1>2, <3>2
      <4> QED
        BY <1>3, <3>2, <4>1
    <3>3. CASE ~ (i <= p)
      <4>1. dpad_raw > dpad_thr[i]
        BY <1>1, <1>4, <3>3
      <4> QED
        BY <3>1, <3>3, <4>1
    <3> QED
      BY <3>2, <3>3
  <2> QED
    BY <1>1, <2>1, <2>2
<1>6. Cardinality(1..p) = p
  BY <1>1, FS_Interval
<1> QED
  BY <1>2, <1>5, <1>6 DEF Ladder!Cut, Ladder!Cardinality, Cardinality

\* A sample that is clear of every band is decoded to its window at once.
THEOREM ClearAtOnce == Spec => []ClearIsDecoded
<1>1. Init => Decoding
  BY DpadAssumption, DecodingInit DEF Init
<1>2. Decoding /\ [Next]_vars => Decoding'
  BY DpadAssumption, UnitSteps, DecodingStep
<1>3. Decoding => ClearIsDecoded
  <2> SUFFICES ASSUME Decoding, dpad_shell = 0, sampled, Ladder!Clear(dpad_raw)
               PROVE  cur = Ladder!Cut(dpad_raw)
    BY DEF ClearIsDecoded, Ladder!ClearIsDecoded
  <2>1. cur = Ladder!position(dpad_raw)
    BY DEF Decoding, Fits
  <2> QED
    BY <2>1, DpadAssumption, PositionIsCut
<1> QED
  BY <1>1, <1>2, <1>3, PTL DEF Spec

\* After a change of position, noise within the band changes it no more.
THEOREM BandHolds == Spec => NoChatter
<1>1. Init => Decoding
  BY DpadAssumption, DecodingInit DEF Init
<1>2. Decoding /\ [Next]_vars => Decoding'
  BY DpadAssumption, UnitSteps, DecodingStep
<1>3. Decoding /\ [Next]_vars => [Ladder!Noise => cur' = cur]_(Ladder!vars)
  <2> SUFFICES ASSUME Decoding, Ladder!Next, Ladder!Noise PROVE cur' = cur
    BY UnitSteps
  <2>1. DPAD_THRESHOLDS \in Nat /\ RAW_MAX \in Nat
    BY DpadAssumption DEF Ladder!Assumptions
  <2>2. /\ moved /\ dpad_shell = 0 /\ dpad_shell' = 0 /\ sampled'
        /\ Ladder!Distance(dpad_raw', dpad_raw) <= hyst
    BY DEF Ladder!Noise
  <2>3. PICK r \in 0..RAW_MAX : Ladder!dpad_decode(r)
    BY <2>1, <2>2 DEF Ladder!Next, Ladder!dpad_cal, Ladder!store_thr, Ladder!store_hyst,
                      Ladder!store_cur
  <2>4. cur' = Ladder!decode(r) /\ Ladder!Distance(r, dpad_raw) <= hyst
    BY <2>2, <2>3 DEF Ladder!dpad_decode
  <2>5. /\ thr \in [1..DPAD_THRESHOLDS -> 0..RAW_MAX] /\ dpad_raw \in 0..RAW_MAX
        /\ hyst \in Nat /\ cur = Ladder!position(dpad_raw) /\ cur \in 0..DPAD_THRESHOLDS
    BY <2>2 DEF Decoding, DecoderTyped, Fits
  <2>6. PICK q \in 0..DPAD_THRESHOLDS :
          /\ q = Ladder!position(r)
          /\ \A i \in 1..q : r <= thr[i]
          /\ q < DPAD_THRESHOLDS => r > thr[q + 1]
    BY <2>5, DpadAssumption, Window
  <2>7. /\ \A i \in 1..cur : dpad_raw <= thr[i]
        /\ cur < DPAD_THRESHOLDS => dpad_raw > thr[cur + 1]
    BY <2>5, DpadAssumption, Window
  <2>8. CASE q > cur
    <3>1. Ladder!boundary(q) = thr[1 + cur] /\ 1 + cur \in 1..q
      BY <2>5, <2>8 DEF Ladder!boundary
    <3>2. PICK t \in 0..RAW_MAX : t = thr[1 + cur]
      BY <2>1, <2>5, <2>8
    <3>3. r <= t /\ t < dpad_raw
      BY <2>1, <2>5, <2>6, <2>7, <2>8, <3>1, <3>2
    <3>4. ~ (Ladder!Distance(r, t) > hyst)
      BY <2>1, <2>4, <2>5, <3>2, <3>3 DEF Ladder!Distance
    <3> QED
      BY <2>4, <2>6, <3>1, <3>2, <3>4, Zenon DEF Ladder!decode
  <2>9. CASE q < cur
    <3>1. Ladder!boundary(q) = thr[1 + q] /\ 1 + q \in 1..cur
      BY <2>5, <2>9 DEF Ladder!boundary
    <3>2. PICK t \in 0..RAW_MAX : t = thr[1 + q]
      BY <2>1, <2>5, <2>9
    <3>3. dpad_raw <= t /\ t < r
      BY <2>1, <2>5, <2>6, <2>7, <2>9, <3>1, <3>2
    <3>4. ~ (Ladder!Distance(r, t) > hyst)
      BY <2>1, <2>4, <2>5, <3>2, <3>3 DEF Ladder!Distance
    <3> QED
      BY <2>4, <2>6, <3>1, <3>2, <3>4, Zenon DEF Ladder!decode
  <2>10. CASE q = cur
    BY <2>4, <2>6, <2>10 DEF Ladder!decode
  <2> QED
    BY <2>5, <2>8, <2>9, <2>10
<1> QED
  BY <1>1, <1>2, <1>3, PTL DEF Spec, NoChatter, Ladder!NoChatter

-----------------------------------------------------------------------------
(* ClutchChannel *)

\* What the proofs use of the constants.
LEMMA ChannelConstants ==
  /\ Channel!Shift \in Nat \ {0} /\ Channel!Shift <= guard + 1
  /\ {min, max, guard, deadzone, rate_limit, OUT_MAX, SETTLE} \subseteq Nat
  /\ min + guard < max - guard
  /\ Raws \subseteq Nat
BY ClutchChannelAssumption DEF Channel!Assumptions, Channel!Shift

\* Division of natural numbers.
LEMMA Quotient ==
  ASSUME NEW d \in Nat \ {0}, NEW x \in Nat
  PROVE  \E q \in Nat, r \in 0..(d - 1) : q = x \div d /\ x = q * d + r
<1>1. PICK q \in Int : q = x \div d /\ x % d = x - d * q
  OBVIOUS
<1>2. PICK r \in 0..(d - 1) : r = x % d
  OBVIOUS
<1>3. PICK u \in Int : u = d * q /\ u = q * d
  OBVIOUS
<1>4. r = x - u
  BY <1>1, <1>2, <1>3, Zenon
<1>5. x = u + r
  BY <1>4
<1>6. x = q * d + r
  BY <1>3, <1>5, Zenon
<1>7. q \in Nat
  <2>1. SUFFICES ASSUME q <= -1 PROVE FALSE
    OBVIOUS
  <2>2. u <= -d
    BY <1>3, <2>1
  <2> QED
    BY <1>5, <2>2
<1> QED
  BY <1>1, <1>6, <1>7, Zenon

\* The part of a distance that the filter moves.
LEMMA PartOf ==
  ASSUME NEW d \in Nat \ {0}, NEW x \in Nat
  PROVE  /\ x \div d \in Nat /\ x \div d <= x
         /\ x < d => x \div d = 0
<1>1. PICK q \in Nat, r \in 0..(d - 1) : q = x \div d /\ x = q * d + r
  BY Quotient
<1>2. q * d >= q
  OBVIOUS
<1>3. q >= 1 => q * d >= d
  OBVIOUS
<1>4. PICK u \in Nat : u = q * d
  OBVIOUS
<1>5. q \in Nat /\ q <= x /\ (x < d => q = 0)
  BY <1>1, <1>2, <1>3, <1>4
<1> QED
  BY <1>1, <1>5, Zenon

\* From further away the filter stays further away.
LEMMA FilterMonotone ==
  ASSUME NEW d \in Nat \ {0}, NEW x \in Nat, NEW y \in Nat, x <= y
  PROVE  x - (x \div d) <= y - (y \div d)
<1>1. PICK q \in Nat, r \in 0..(d - 1) : q = x \div d /\ x = q * d + r
  BY Quotient
<1>2. PICK p \in Nat, s \in 0..(d - 1) : p = y \div d /\ y = p * d + s
  BY Quotient
<1>3. p - q <= y - x
  <2>1. SUFFICES ASSUME p - q >= y - x + 1 PROVE FALSE
    BY <1>1, <1>2
  <2>2. PICK k \in Nat : k = p - q /\ k >= 1
    BY <2>1
  <2>3. PICK u \in Nat, v \in Nat, w \in Nat : u = q * d /\ v = p * d /\ w = k * d
    OBVIOUS
  <2>4. v = u + w
    <3>1. p = q + k
      BY <2>2
    <3>2. p * d = q * d + k * d
      BY <3>1
    <3> QED
      BY <2>3, <3>2
  <2>5. w >= k + d - 1
    <3>1. k * d = k + (d - 1) + (k - 1) * (d - 1)
      OBVIOUS
    <3>2. (k - 1) * (d - 1) >= 0
      BY <2>2
    <3>3. PICK e \in Int : e = (k - 1) * (d - 1)
      OBVIOUS
    <3> QED
      BY <2>3, <3>1, <3>2, <3>3
  <2>6. x = u + r /\ y = v + s
    BY <1>1, <1>2, <2>3, Zenon
  <2> QED
    BY <2>1, <2>2, <2>4, <2>5, <2>6
<1>4. x - q <= y - p
  BY <1>3
<1> QED
  BY <1>1, <1>2, <1>4, Zenon

Distance(a, b) == IF a < b THEN b - a ELSE a - b

\* It is no longer than the range.
LEMMA DistanceInRange ==
  ASSUME NEW bound \in Nat, NEW a \in 0..bound, NEW b \in 0..bound
  PROVE  Distance(a, b) \in 0..bound /\ Distance(a, b) \in Nat
BY DEF Distance

\* A step of the filter moves it towards its input, by a part of the distance.
LEMMA FilterStep ==
  ASSUME NEW y \in Nat, NEW m \in Nat, NEW bound \in Nat, y <= bound, m <= bound
  PROVE  /\ y + Channel!quarter(m - y) \in 0..bound
         /\ Distance(m, y + Channel!quarter(m - y))
              = Distance(m, y) - (Distance(m, y) \div Channel!Shift)
         /\ Distance(m, y) < Channel!Shift => y + Channel!quarter(m - y) = y
<1>0. Channel!Shift \in Nat \ {0}
  BY ChannelConstants
<1>1. CASE m >= y
  <2>1. PICK x \in Nat : x = m - y
    BY <1>1
  <2>2. PICK k \in Nat : k = x \div Channel!Shift /\ k <= x /\ (x < Channel!Shift => k = 0)
    BY <1>0, PartOf
  <2>3. Channel!quarter(m - y) = k
    <3>1. Channel!quarter(x) = IF x >= 0 THEN x \div Channel!Shift ELSE -((-x) \div Channel!Shift)
      BY Zenon DEF Channel!quarter, Channel!Shift
    <3>2. x >= 0
      OBVIOUS
    <3> QED
      BY <2>1, <2>2, <3>1, <3>2, Zenon
  <2>4. Distance(m, y) = x
    BY <1>1, <2>1 DEF Distance
  <2>5. y + k \in 0..bound /\ Distance(m, y + k) = x - k
    BY <2>1, <2>2 DEF Distance
  <2>6. x < Channel!Shift => y + k = y
    BY <2>2
  <2> QED
    BY <2>2, <2>3, <2>4, <2>5, <2>6, Zenon
<1>2. CASE m < y
  <2>1. PICK x \in Nat : x = y - m /\ x > 0 /\ m - y = -x
    BY <1>2
  <2>2. PICK k \in Nat : k = x \div Channel!Shift /\ k <= x /\ (x < Channel!Shift => k = 0)
    BY <1>0, PartOf
  <2>3. Channel!quarter(m - y) = -k
    <3>1. PICK z \in Int : z = -x /\ ~(z >= 0) /\ -z = x
      BY <2>1
    <3>2. Channel!quarter(z) = IF z >= 0 THEN z \div Channel!Shift ELSE -((-z) \div Channel!Shift)
      BY Zenon DEF Channel!quarter, Channel!Shift
    <3> QED
      BY <2>1, <2>2, <3>1, <3>2, Zenon
  <2>4. Distance(m, y) = x
    BY <1>2, <2>1 DEF Distance
  <2>5. y + (-k) \in 0..bound /\ Distance(m, y + (-k)) = x - k
    BY <2>1, <2>2 DEF Distance
  <2>6. x < Channel!Shift => y + (-k) = y
    BY <2>2
  <2> QED
    BY <2>2, <2>3, <2>4, <2>5, <2>6, Zenon
<1> QED
  BY <1>1, <1>2

\* The output stays in its range; at the ends of the calibration it is at its
\* own ends.
LEMMA Calibrates ==
  ASSUME NEW y \in Nat
  PROVE  /\ Channel!calibrated(y) \in 0..OUT_MAX
         /\ y <= min + guard => Channel!calibrated(y) = 0
         /\ y >= max - guard => Channel!calibrated(y) = OUT_MAX
<1>0. {min, max, guard, OUT_MAX} \subseteq Nat /\ min + guard < max - guard
      /\ ~(max - guard <= min + guard)
  BY ChannelConstants
<1>1. CASE y <= min + guard
  <2>1. ~(y >= max - guard)
    BY <1>0, <1>1
  <2>2. Channel!calibrated(y) = 0
    BY <1>0, <1>1, <2>1, Zenon DEF Channel!calibrated
  <2>3. 0 \in 0..OUT_MAX
    BY <1>0
  <2> QED
    BY <2>1, <2>2, <2>3, Zenon
<1>2. CASE y >= max - guard
  <2>1. ~(y <= min + guard)
    BY <1>0, <1>2
  <2>2. Channel!calibrated(y) = OUT_MAX
    BY <1>0, <1>2, <2>1, Zenon DEF Channel!calibrated
  <2>3. OUT_MAX \in 0..OUT_MAX
    BY <1>0
  <2> QED
    BY <2>1, <2>2, <2>3, Zenon
<1>3. CASE ~(y <= min + guard) /\ ~(y >= max - guard)
  <2>1. Channel!calibrated(y) = ((y - min - guard) * OUT_MAX) \div (max - guard - min - guard)
    BY <1>0, <1>3, Zenon DEF Channel!calibrated
  <2>2. PICK x \in Nat, k \in Nat \ {0} :
          x = y - min - guard /\ k = max - guard - min - guard /\ x <= k
    BY <1>0, <1>3
  <2>3. PICK u \in Nat : u = x * OUT_MAX
    BY <1>0
  <2>4. PICK q \in Nat, r \in 0..(k - 1) : q = u \div k /\ u = q * k + r
    BY Quotient
  <2>5. q <= OUT_MAX
    <3>1. SUFFICES ASSUME q >= OUT_MAX + 1 PROVE FALSE
      BY <1>0
    <3>2. q * k >= (OUT_MAX + 1) * k
      BY <1>0, <3>1
    <3>3. (OUT_MAX + 1) * k = OUT_MAX * k + k
      BY <1>0
    <3>4. x * OUT_MAX <= OUT_MAX * k
      BY <1>0, <2>2
    <3>5. PICK v \in Nat, w \in Nat : v = OUT_MAX * k /\ w = q * k
      BY <1>0
    <3> QED
      BY <2>3, <2>4, <3>2, <3>3, <3>4, <3>5
  <2>6. Channel!calibrated(y) = q
    BY <2>1, <2>2, <2>3, <2>4, Zenon
  <2>7. q \in 0..OUT_MAX
    BY <1>0, <2>5
  <2> QED
    BY <1>3, <2>6, <2>7, Zenon
<1> QED
  BY <1>1, <1>2, <1>3

\* What the output is to become.
Target(y) == Channel!zoned(Channel!calibrated(y))

\* The target is in the range of the output, at its ends outside the guard bands.
LEMMA TargetInRange ==
  ASSUME NEW y \in Nat
  PROVE  /\ Target(y) \in 0..OUT_MAX
         /\ y <= min + guard => Target(y) = 0
         /\ y >= max - guard /\ deadzone < OUT_MAX => Target(y) = OUT_MAX
BY Calibrates, ChannelConstants DEF Target, Channel!zoned

\* The slew limit moves the output towards it, by the limit or all the way.
LEMMA SlewStep ==
  ASSUME NEW o \in 0..OUT_MAX, out \in 0..OUT_MAX
  PROVE  /\ Channel!slewed(o) \in 0..OUT_MAX
         /\ \/ Channel!slewed(o) = o
            \/ Distance(o, Channel!slewed(o)) = Distance(o, out) - rate_limit
         /\ out = o => Channel!slewed(o) = o
<1>0. rate_limit \in Nat /\ OUT_MAX \in Nat
  BY ChannelConstants
<1>1. CASE o - out > rate_limit
  <2>1. ~(o - out < -rate_limit) /\ o # out
    BY <1>0, <1>1
  <2>2. Channel!slewed(o) = out + rate_limit
    BY <1>1, <2>1, Zenon DEF Channel!slewed
  <2> QED
    BY <1>0, <1>1, <2>1, <2>2 DEF Distance
<1>2. CASE o - out < -rate_limit
  <2>1. ~(o - out > rate_limit) /\ o # out
    BY <1>0, <1>2
  <2>2. Channel!slewed(o) = out - rate_limit
    BY <1>2, <2>1, Zenon DEF Channel!slewed
  <2> QED
    BY <1>0, <1>2, <2>1, <2>2 DEF Distance
<1>3. CASE ~(o - out > rate_limit) /\ ~(o - out < -rate_limit)
  <2>1. Channel!slewed(o) = o
    BY <1>3, Zenon DEF Channel!slewed
  <2> QED
    BY <2>1
<1> QED
  BY <1>1, <1>2, <1>3

\* Two equal samples of three are the median.
LEMMA Majority ==
  ASSUME NEW bound \in Nat, NEW w \in [0..2 -> 0..bound], NEW b \in 0..bound
  PROVE  /\ Channel!median3(w) \in 0..bound
         /\ \/ w[0] = b /\ w[1] = b
            \/ w[0] = b /\ w[2] = b
            \/ w[1] = b /\ w[2] = b
            => Channel!median3(w) = b
<1>1. w[0] \in 0..bound /\ w[1] \in 0..bound /\ w[2] \in 0..bound
  OBVIOUS
<1> QED
  BY <1>1 DEF Channel!median3, Channel!smaller, Channel!larger

\* The newest sample of the window, and the one before it.
newest == IF med_i = 0 THEN med[2] ELSE med[med_i - 1]
earlier == IF med_i = 0 THEN med[1] ELSE (IF med_i = 1 THEN med[2] ELSE med[0])

ChannelTypes(bound) ==
  /\ med \in [0..2 -> 0..bound] /\ med_i \in 0..2
  /\ iir \in 0..bound /\ base \in 0..bound
  /\ out \in 0..OUT_MAX
  /\ same \in 0..SETTLE /\ since \in 0..2

\* The window holds the sample that is held twice, except where it has just
\* begun.
WindowHolds ==
  /\ since = 2 => newest = base /\ (same >= 1 => earlier = base)
  /\ since = 1 => newest = base /\ same >= 2
  /\ since = 0 => earlier = base /\ same >= 2

\* A sample is held, or a new one is.
LEMMA NoteCases ==
  ASSUME NEW bound \in Nat, ChannelTypes(bound), NEW s \in Nat, Channel!note(s)
  PROVE  \/ /\ s = base /\ base' = base
            /\ same' = (IF same < SETTLE THEN same + 1 ELSE SETTLE)
            /\ since' = (IF since < 2 THEN since + 1 ELSE 2)
         \/ /\ s # base /\ same >= 2 /\ since = 2
            /\ base' = base /\ same' = same /\ since' = 0
         \/ /\ s # base /\ base' = s /\ same' = 0 /\ since' = 2
<1>1. CASE s = base
  <2>1. ~(s # base /\ same >= 2 /\ since = 2)
    BY <1>1
  <2>2. base' = base /\ same' = Channel!upto(same, SETTLE) /\ since' = Channel!upto(since, 2)
    BY <1>1, <2>1, Zenon DEF Channel!note
  <2> QED
    BY <1>1, <2>2 DEF Channel!upto
<1>2. CASE s # base /\ same >= 2 /\ since = 2
  BY <1>2, Zenon DEF Channel!note
<1>3. CASE s # base /\ ~(same >= 2 /\ since = 2)
  BY <1>3, Zenon DEF Channel!note
<1> QED
  BY <1>1, <1>2, <1>3

\* While a sample is held, the median is that sample, also in the step in
\* which a spike comes.
LEMMA SpikeIsOutvoted ==
  ASSUME NEW bound \in Nat, ChannelTypes(bound), WindowHolds,
         NEW s \in 0..bound, Channel!feed(s), Channel!note(s)
  PROVE  /\ med' \in [0..2 -> 0..bound] /\ med_i' \in 0..2
         /\ WindowHolds'
         /\ base' = base /\ ~(s # base /\ same' = 0) => Channel!median3(med') = base
<1>1. med' = [med EXCEPT ![med_i] = s] /\ med_i' = (med_i + 1) % 3
  BY DEF Channel!feed
<1>2. med \in [0..2 -> 0..bound] /\ med_i \in 0..2 /\ since \in 0..2 /\ same \in 0..SETTLE
      /\ base \in 0..bound /\ SETTLE \in Nat
  BY ChannelConstants DEF ChannelTypes
<1>3. med' \in [0..2 -> 0..bound]
  BY <1>1, <1>2
<1>4. med_i' = IF med_i = 2 THEN 0 ELSE med_i + 1
  <2>1. CASE med_i = 0
    BY <1>1, <2>1
  <2>2. CASE med_i = 1
    BY <1>1, <2>2
  <2>3. CASE med_i = 2
    BY <1>1, <2>3
  <2> QED
    BY <1>2, <2>1, <2>2, <2>3
<1>5. med_i' \in 0..2 /\ newest' = s /\ earlier' = newest
  BY <1>1, <1>2, <1>4 DEF newest, earlier
<1>6. \/ /\ s = base /\ base' = base
         /\ same' = (IF same < SETTLE THEN same + 1 ELSE SETTLE)
         /\ since' = (IF since < 2 THEN since + 1 ELSE 2)
      \/ /\ s # base /\ same >= 2 /\ since = 2
         /\ base' = base /\ same' = same /\ since' = 0
      \/ /\ s # base /\ base' = s /\ same' = 0 /\ since' = 2
  BY NoteCases
<1>7. WindowHolds'
  BY <1>2, <1>5, <1>6 DEF WindowHolds
<1>8. ASSUME base' = base, ~(s # base /\ same' = 0)
      PROVE  Channel!median3(med') = base
  <2>1. \/ s = base /\ (newest = base \/ earlier = base)
        \/ newest = base /\ earlier = base
    BY <1>2, <1>6, <1>8 DEF WindowHolds
  <2>2. \/ med'[0] = base /\ med'[1] = base
        \/ med'[0] = base /\ med'[2] = base
        \/ med'[1] = base /\ med'[2] = base
    BY <1>1, <1>2, <2>1 DEF newest, earlier
  <2> QED
    BY <1>2, <1>3, <2>2, Majority, Zenon
<1> QED
  BY <1>3, <1>5, <1>7, <1>8

\* How far the filter is from the sample held, and the output from the target.
Filtered(gap, steps) ==
  Distance(base, iir) <= gap[IF same < steps THEN same ELSE steps]

Slewing(steps) ==
  same >= steps =>
    \/ out = Target(iir)
    \/ Distance(Target(iir), out) + (same - steps) * rate_limit <= OUT_MAX

ChannelInv(gap, steps) ==
  /\ ChannelTypes(gap[0])
  /\ WindowHolds
  /\ Filtered(gap, steps)
  /\ Slewing(steps)

\* A settled channel follows the filter.
LEMMA SettledFollows ==
  ASSUME NEW gap, NEW steps, NEW slews, Channel!Settles(gap, steps, slews),
         ChannelInv(gap, steps), same = SETTLE
  PROVE  Distance(base, iir) < Channel!Shift /\ out = Target(iir)
<1>0. /\ steps \in Nat /\ slews \in Nat /\ SETTLE \in Nat /\ steps + slews <= SETTLE
      /\ rate_limit \in Nat /\ OUT_MAX \in Nat /\ OUT_MAX <= slews * rate_limit
      /\ gap \in [0..steps -> Nat] /\ gap[steps] < Channel!Shift /\ Channel!Shift \in Nat
      /\ ChannelTypes(gap[0])
  BY ChannelConstants DEF Channel!Settles, ChannelInv
<1>1. Distance(base, iir) <= gap[steps]
  BY <1>0 DEF ChannelInv, Filtered
<1>2. gap[0] \in Nat /\ gap[steps] \in Nat
  BY <1>0
<1>3. Distance(base, iir) \in Nat /\ iir \in Nat /\ out \in 0..OUT_MAX
  BY <1>0, <1>2 DEF ChannelTypes, Distance
<1>4. PICK k \in Nat, u \in Nat, v \in Nat :
        k = SETTLE - steps /\ u = k * rate_limit /\ v = slews * rate_limit
  BY <1>0
<1>5. u >= v
  <2>1. PICK e \in Nat : e = k - slews
    BY <1>0, <1>4
  <2>2. k = slews + e
    BY <1>0, <2>1
  <2>3. k * rate_limit = slews * rate_limit + e * rate_limit
    BY <1>0, <2>2
  <2>4. e * rate_limit >= 0 /\ e * rate_limit \in Int
    BY <1>0
  <2> QED
    BY <1>4, <2>3, <2>4
<1>6. out = Target(iir) \/ Distance(Target(iir), out) + u <= OUT_MAX
  BY <1>0, <1>4 DEF ChannelInv, Slewing
<1>7. Target(iir) \in 0..OUT_MAX
  BY <1>3, TargetInRange
<1>8. Distance(Target(iir), out) \in Nat /\ (Distance(Target(iir), out) = 0 => out = Target(iir))
  BY <1>0, <1>3, <1>7 DEF Distance
<1>9. out = Target(iir)
  <2>1. OUT_MAX <= v /\ OUT_MAX \in Nat
    BY <1>0, <1>4, Zenon
  <2>2. PICK x \in Nat : x = Distance(Target(iir), out)
    BY <1>8
  <2>3. x + u <= OUT_MAX => x = 0
    BY <1>5, <2>1
  <2> QED
    BY <1>6, <1>8, <2>2, <2>3
<1> QED
  BY <1>0, <1>1, <1>2, <1>3, <1>9

\* A sample feeds the filter and moves the output.
LEMMA FeedDoes ==
  ASSUME NEW gap, NEW steps, NEW slews, Channel!Settles(gap, steps, slews),
         ChannelInv(gap, steps), NEW s \in Raws, Channel!feed(s), Channel!note(s)
  PROVE  /\ ChannelTypes(gap[0])' /\ WindowHolds'
         /\ out' = Channel!slewed(Target(iir'))
         /\ base' = base /\ ~(s # base /\ same' = 0) =>
              /\ Distance(base, iir') = Distance(base, iir) - (Distance(base, iir) \div Channel!Shift)
              /\ Distance(base, iir) < Channel!Shift => iir' = iir
<1>0. gap[0] \in Nat /\ s \in 0..gap[0] /\ ChannelTypes(gap[0]) /\ WindowHolds
  BY DEF Channel!Settles, ChannelInv
<1>1. /\ med' \in [0..2 -> 0..gap[0]] /\ med_i' \in 0..2 /\ WindowHolds'
      /\ base' = base /\ ~(s # base /\ same' = 0) => Channel!median3(med') = base
  BY <1>0, SpikeIsOutvoted
<1>2. PICK m \in 0..gap[0] : m = Channel!median3(med')
  BY <1>0, <1>1, Majority
<1>3. iir' = iir + Channel!quarter(m - iir) /\ out' = Channel!slewed(Target(iir'))
  BY <1>2 DEF Channel!feed, Target
<1>4. iir \in 0..gap[0] /\ out \in 0..OUT_MAX
  BY <1>0 DEF ChannelTypes
<1>5. /\ iir' \in 0..gap[0]
      /\ Distance(m, iir') = Distance(m, iir) - (Distance(m, iir) \div Channel!Shift)
      /\ Distance(m, iir) < Channel!Shift => iir' = iir
  <2>1. m \in Nat /\ iir \in Nat /\ iir <= gap[0] /\ m <= gap[0]
    BY <1>0, <1>2, <1>4
  <2> QED
    BY <1>0, <1>3, <2>1, FilterStep, Zenon
<1>6. out' \in 0..OUT_MAX
  <2>1. Target(iir') \in 0..OUT_MAX
    BY <1>0, <1>5, TargetInRange
  <2> QED
    BY <1>3, <1>4, <2>1, SlewStep
<1>7. base' \in 0..gap[0] /\ same' \in 0..SETTLE /\ since' \in 0..2
  <2>1. s \in Nat
    BY <1>0
  <2>2. base \in 0..gap[0] /\ same \in 0..SETTLE /\ since \in 0..2 /\ SETTLE \in Nat
    BY <1>0, ChannelConstants DEF ChannelTypes
  <2> QED
    BY <1>0, <2>1, <2>2, NoteCases
<1>8. ChannelTypes(gap[0])'
  <2>1. ASSUME NEW bound \in Nat, med' \in [0..2 -> 0..bound], iir' \in 0..bound,
               base' \in 0..bound
        PROVE  ChannelTypes(bound)'
    BY <1>1, <1>6, <1>7, <2>1 DEF ChannelTypes
  <2> QED
    BY <1>0, <1>1, <1>5, <1>7, <2>1
<1> QED
  BY <1>1, <1>2, <1>3, <1>5, <1>8

\* The filter gets as close to the sample as the schedule says.
LEMMA FilterSettles ==
  ASSUME NEW gap, NEW steps, NEW slews, Channel!Settles(gap, steps, slews),
         ChannelInv(gap, steps), NEW s \in Raws, Channel!feed(s), Channel!note(s)
  PROVE  Filtered(gap, steps)'
<1>0. /\ steps \in Nat /\ SETTLE \in Nat /\ gap \in [0..steps -> Nat]
      /\ gap[0] \in Nat /\ s \in 0..gap[0] /\ s \in Nat
      /\ gap[steps] < Channel!Shift /\ Channel!Shift \in Nat \ {0}
      /\ ChannelTypes(gap[0])
      /\ \A i \in 0..(steps - 1) : gap[i] - (gap[i] \div Channel!Shift) <= gap[i + 1]
  BY ChannelConstants DEF Channel!Settles, ChannelInv
<1>5. ChannelTypes(gap[0])'
  BY FeedDoes, Zenon
<1>1. /\ base \in 0..gap[0] /\ iir \in 0..gap[0] /\ iir' \in 0..gap[0]
      /\ same \in 0..SETTLE /\ since \in 0..2 /\ base' \in 0..gap[0]
  BY <1>0, <1>5 DEF ChannelTypes
<1>2. CASE s # base /\ base' = s /\ same' = 0 /\ since' = 2
  <2>1. Distance(base', iir') <= gap[0]
    BY <1>0, <1>1 DEF Distance
  <2>2. (IF same' < steps THEN same' ELSE steps) = 0
    BY <1>0, <1>2
  <2> QED
    BY <2>1, <2>2 DEF Filtered
<1>3. CASE base' = base /\ ~(s # base /\ same' = 0)
           /\ (same' = same \/ same' = same + 1)
  <2>1. PICK x \in Nat, y \in Nat :
          x = Distance(base, iir) /\ y = Distance(base', iir')
    <3>1. Distance(base, iir) \in Nat /\ Distance(base', iir') \in Nat
      BY <1>0, <1>1, DistanceInRange
    <3> QED
      BY <3>1
  <2>2. y = x - (x \div Channel!Shift)
    BY <1>3, <2>1, FeedDoes
  <2>3. x \div Channel!Shift \in Nat
    BY <1>0, PartOf
  <2>4. PICK j \in 0..steps : j = IF same < steps THEN same ELSE steps
    BY <1>0, <1>1
  <2>5. PICK g \in Nat : g = gap[j] /\ x <= g
    BY <1>0, <2>1, <2>4 DEF ChannelInv, Filtered
  <2>6. CASE same' = same + 1 /\ same < steps
    <3>1. j \in 0..(steps - 1) /\ j + 1 \in 0..steps
          /\ j + 1 = (IF same' < steps THEN same' ELSE steps)
      BY <1>0, <1>1, <2>4, <2>6
    <3>2. PICK h \in Nat : h = gap[j + 1] /\ g - (g \div Channel!Shift) <= h
      BY <1>0, <2>5, <3>1
    <3>3. x - (x \div Channel!Shift) <= g - (g \div Channel!Shift)
      BY <1>0, <2>5, FilterMonotone
    <3>4. g \div Channel!Shift \in Nat
      BY <1>0, PartOf
    <3>5. y <= h
      <4>1. PICK a \in Nat, b \in Nat : a = x \div Channel!Shift /\ b = g \div Channel!Shift
        BY <2>3, <3>4
      <4>2. x - a <= g - b /\ g - b <= h /\ y = x - a
        BY <2>2, <3>2, <3>3, <4>1, Zenon
      <4> QED
        BY <4>2
    <3> QED
      BY <2>1, <3>1, <3>2, <3>5 DEF Filtered
  <2>7. CASE same' = same \/ same >= steps
    <3>1. j = (IF same' < steps THEN same' ELSE steps)
      BY <1>0, <1>1, <1>3, <2>4, <2>7
    <3>2. y <= g
      <4>1. PICK a \in Nat : a = x \div Channel!Shift
        BY <2>3
      <4>2. y = x - a
        BY <2>2, <4>1, Zenon
      <4> QED
        BY <2>5, <4>2
    <3> QED
      BY <2>1, <2>5, <3>1, <3>2 DEF Filtered
  <2> QED
    BY <1>0, <1>1, <1>3, <2>6, <2>7
<1>4. \/ s # base /\ base' = s /\ same' = 0 /\ since' = 2
      \/ base' = base /\ ~(s # base /\ same' = 0) /\ (same' = same \/ same' = same + 1)
  BY <1>0, <1>1, NoteCases
<1> QED
  BY <1>2, <1>3, <1>4

\* Once it has, the output gets there too.
LEMMA OutputSettles ==
  ASSUME NEW gap, NEW steps, NEW slews, Channel!Settles(gap, steps, slews),
         ChannelInv(gap, steps), NEW s \in Raws, Channel!feed(s), Channel!note(s)
  PROVE  Slewing(steps)'
<1>0. /\ steps \in Nat /\ SETTLE \in Nat /\ gap \in [0..steps -> Nat]
      /\ gap[0] \in Nat /\ s \in 0..gap[0] /\ s \in Nat
      /\ gap[steps] < Channel!Shift /\ gap[steps] \in Nat /\ Channel!Shift \in Nat \ {0}
      /\ OUT_MAX \in Nat /\ rate_limit \in Nat
      /\ ChannelTypes(gap[0])
  BY ChannelConstants DEF Channel!Settles, ChannelInv
<1>8. ChannelTypes(gap[0])'
  BY FeedDoes, Zenon
<1>1. /\ base \in 0..gap[0] /\ iir \in 0..gap[0] /\ iir' \in 0..gap[0]
      /\ iir \in Nat /\ iir' \in Nat
      /\ same \in 0..SETTLE /\ same' \in 0..SETTLE /\ since \in 0..2
      /\ out \in 0..OUT_MAX /\ out' \in 0..OUT_MAX
  BY <1>0, <1>8 DEF ChannelTypes
<1>2. PICK t \in 0..OUT_MAX : t = Target(iir')
  BY <1>1, TargetInRange
<1>3. out' = Channel!slewed(t)
  BY <1>2, FeedDoes
<1> SUFFICES ASSUME same' >= steps
             PROVE  \/ out' = t
                    \/ Distance(t, out') + (same' - steps) * rate_limit <= OUT_MAX
  BY <1>2 DEF Slewing
<1>4. Distance(t, out') \in 0..OUT_MAX /\ Distance(t, out) \in 0..OUT_MAX
  BY <1>0, <1>1, DistanceInRange
<1>5. CASE same' = steps
  <2>1. (same' - steps) * rate_limit = 0
    BY <1>0, <1>1, <1>5
  <2> QED
    BY <1>0, <1>4, <2>1
<1>6. CASE same >= steps /\ base' = base /\ ~(s # base /\ same' = 0)
           /\ (same' = same \/ same' = same + 1)
  <2>1. Distance(base, iir) < Channel!Shift
    <3>1. Distance(base, iir) <= gap[steps]
      BY <1>0, <1>1, <1>6 DEF ChannelInv, Filtered
    <3>2. Distance(base, iir) \in Nat
      BY <1>0, <1>1 DEF Distance
    <3> QED
      BY <1>0, <3>1, <3>2
  <2>2. iir' = iir
    BY <1>6, <2>1, FeedDoes
  <2>3. \/ out = t
        \/ Distance(t, out) + (same - steps) * rate_limit <= OUT_MAX
    BY <1>2, <1>6, <2>2 DEF ChannelInv, Slewing
  <2>4. CASE out = t
    BY <1>1, <1>3, <2>4, SlewStep
  <2>5. CASE out # t /\ Channel!slewed(t) # t
    <3>1. Distance(t, out') = Distance(t, out) - rate_limit
      BY <1>1, <1>3, <2>5, SlewStep
    <3>2. PICK k \in Nat, i \in {0, 1} : k = same - steps /\ same' - steps = k + i
      <4>1. PICK i \in {0, 1} : same' = same + i
        BY <1>1, <1>6
      <4>2. PICK k \in Nat : k = same - steps
        BY <1>0, <1>1, <1>6
      <4>3. same' - steps = k + i
        BY <1>0, <1>1, <4>1, <4>2
      <4> QED
        BY <4>2, <4>3
    <3>3. PICK u \in Nat, v \in Nat :
            u = k * rate_limit /\ v = (k + i) * rate_limit /\ v <= u + rate_limit
      <4>1. (k + i) * rate_limit = k * rate_limit + i * rate_limit
        BY <1>0
      <4>2. i * rate_limit <= rate_limit
        BY <1>0
      <4> QED
        BY <1>0, <4>1, <4>2
    <3>4. Distance(t, out) + u <= OUT_MAX
      BY <2>3, <2>5, <3>2, <3>3, Zenon
    <3>5. Distance(t, out') + v <= OUT_MAX
      BY <1>0, <1>4, <3>1, <3>3, <3>4
    <3> QED
      BY <3>2, <3>3, <3>5, Zenon
  <2> QED
    BY <1>3, <2>4, <2>5
<1>7. \/ s # base /\ base' = s /\ same' = 0 /\ since' = 2
      \/ base' = base /\ ~(s # base /\ same' = 0) /\ (same' = same \/ same' = same + 1)
  BY <1>0, <1>1, NoteCases
<1> QED
  BY <1>0, <1>1, <1>5, <1>6, <1>7

\* The invariant holds after clutch_chan_init.
LEMMA ChannelInit ==
  ASSUME NEW gap, NEW steps, NEW slews, Channel!Settles(gap, steps, slews), Channel!Init
  PROVE  ChannelInv(gap, steps)
<1>0. /\ steps \in Nat /\ SETTLE \in Nat /\ gap[0] \in Nat /\ OUT_MAX \in Nat
      /\ rate_limit \in Nat /\ gap \in [0..steps -> Nat]
  BY ChannelConstants DEF Channel!Settles
<1>1. /\ med = [i \in 0..2 |-> 0] /\ med_i = 0 /\ iir = 0 /\ out = 0 /\ base = 0
      /\ same = 0 /\ since = 2
  BY DEF Channel!Init
<1>2. ChannelTypes(gap[0]) /\ WindowHolds
  BY <1>0, <1>1 DEF ChannelTypes, WindowHolds, newest, earlier
<1>3. Filtered(gap, steps)
  <2>1. Distance(base, iir) = 0
    BY <1>1 DEF Distance
  <2>2. gap[IF same < steps THEN same ELSE steps] \in Nat
    BY <1>0, <1>1
  <2> QED
    BY <2>1, <2>2 DEF Filtered
<1>4. Slewing(steps)
  <2>1. SUFFICES ASSUME same >= steps
                 PROVE  Distance(Target(iir), out) + (same - steps) * rate_limit <= OUT_MAX
    BY DEF Slewing
  <2>2. Target(iir) \in 0..OUT_MAX /\ out \in 0..OUT_MAX
    BY <1>0, <1>1, TargetInRange
  <2>3. (same - steps) * rate_limit = 0
    BY <1>0, <1>1, <2>1
  <2>4. Distance(Target(iir), out) \in 0..OUT_MAX
    BY <1>0, <2>2, DistanceInRange, Zenon
  <2>5. PICK d \in 0..OUT_MAX : d = Distance(Target(iir), out)
    BY <2>4, Zenon
  <2>6. d + 0 <= OUT_MAX
    BY <1>0
  <2> QED
    BY <2>3, <2>5, <2>6, Zenon
<1> QED
  BY <1>2, <1>3, <1>4 DEF ChannelInv

\* And after every sample.
LEMMA ChannelStep ==
  ASSUME NEW gap, NEW steps, NEW slews, Channel!Settles(gap, steps, slews),
         ChannelInv(gap, steps), [Channel!Next]_(Channel!vars)
  PROVE  ChannelInv(gap, steps)'
<1>1. ASSUME NEW s \in Raws, Channel!feed(s), Channel!note(s)
      PROVE  ChannelInv(gap, steps)'
  <2>1. ChannelTypes(gap[0])' /\ WindowHolds'
    BY <1>1, FeedDoes, Zenon
  <2>2. Filtered(gap, steps)'
    BY <1>1, FilterSettles, Zenon
  <2>3. Slewing(steps)'
    BY <1>1, OutputSettles, Zenon
  <2> QED
    BY <2>1, <2>2, <2>3 DEF ChannelInv
<1>2. CASE UNCHANGED Channel!vars
  BY <1>2 DEF Channel!vars, ChannelInv, ChannelTypes, WindowHolds, Filtered, Slewing,
              newest, earlier
<1> QED
  BY <1>1, <1>2 DEF Channel!Next

\* A paddle that is held at or beyond an end of its calibration is at the end of
\* the output after the samples the schedule allows, whatever the samples were
\* before and whatever spikes came between: neither the filter's truncation nor
\* the slew limit leaves a rest, as long as the deadzone leaves room for an
\* output at all (clutch_chan_feed).
THEOREM PaddleArrives ==
  ASSUME NEW gap, NEW steps, NEW slews, Channel!Settles(gap, steps, slews), deadzone < OUT_MAX
  PROVE  Spec => []EndsReached
<1>1. Init => ChannelInv(gap, steps)
  BY ChannelInit DEF Init
<1>2. ChannelInv(gap, steps) /\ [Next]_vars => ChannelInv(gap, steps)'
  BY UnitSteps, ChannelStep
<1>3. ChannelInv(gap, steps) => EndsReached
  <2> SUFFICES ASSUME ChannelInv(gap, steps), same = SETTLE
               PROVE  (base >= max => out = OUT_MAX) /\ (base <= min => out = 0)
    BY DEF EndsReached, Channel!EndsReached
  <2>1. Distance(base, iir) < Channel!Shift /\ out = Target(iir)
    BY SettledFollows
  <2>2. base \in Nat /\ iir \in Nat
    <3>1. gap[0] \in Nat
      BY DEF Channel!Settles
    <3> QED
      BY <3>1 DEF ChannelInv, ChannelTypes
  <2>3. Channel!Shift \in Nat /\ Channel!Shift <= guard + 1 /\ {min, max, guard} \subseteq Nat
    BY ChannelConstants
  <2>4. (base >= max => iir >= max - guard) /\ (base <= min => iir <= min + guard)
    BY <2>1, <2>2, <2>3 DEF Distance
  <2> QED
    BY <2>1, <2>2, <2>4, TargetInRange
<1> QED
  BY <1>1, <1>2, <1>3, PTL DEF Spec

\* A step does not move the output of a settled channel.
Unmoved == same = SETTLE /\ same' = SETTLE => out' = out

\* Once settled, the output does not move for a spike of one sample, however
\* large, if spikes are at least three samples apart (clutch_chan_feed,
\* median3).
THEOREM SpikesDoNotReach ==
  ASSUME NEW gap, NEW steps, NEW slews, Channel!Settles(gap, steps, slews)
  PROVE  Spec => SpikesIgnored
<1>1. Init => ChannelInv(gap, steps)
  BY ChannelInit DEF Init
<1>2. ChannelInv(gap, steps) /\ [Next]_vars => ChannelInv(gap, steps)'
  BY UnitSteps, ChannelStep
<1>3. ChannelInv(gap, steps) /\ [Next]_vars => [Unmoved]_(Channel!vars)
  <2> SUFFICES ASSUME ChannelInv(gap, steps), [Next]_vars, ~UNCHANGED Channel!vars,
                      same = SETTLE, same' = SETTLE
               PROVE  out' = out
    BY DEF Unmoved
  <2>1. PICK s \in Raws : Channel!feed(s) /\ Channel!note(s)
    BY UnitSteps DEF Channel!Next
  <2>2. Distance(base, iir) < Channel!Shift /\ out = Target(iir)
    BY SettledFollows
  <2>3. SETTLE > 0 /\ gap[0] \in Nat /\ ChannelTypes(gap[0]) /\ s \in Nat
    BY DEF Channel!Settles, ChannelInv
  <2>4. base' = base /\ ~(s # base /\ same' = 0)
    BY <2>1, <2>3, NoteCases
  <2>5. iir' = iir /\ out' = Channel!slewed(Target(iir'))
    BY <2>1, <2>2, <2>4, FeedDoes
  <2>6. iir \in Nat /\ out \in 0..OUT_MAX
    BY <2>3 DEF ChannelTypes
  <2>7. Target(iir) \in 0..OUT_MAX
    BY <2>6, TargetInRange
  <2>8. Channel!slewed(out) = out
    BY <2>6, SlewStep
  <2> QED
    BY <2>2, <2>5, <2>8
<1> QED
  BY <1>1, <1>2, <1>3, PTL DEF Spec, SpikesIgnored, Channel!SpikesIgnored, Unmoved
=============================================================================
