----------------------------- MODULE ByteLemmas -----------------------------
(***************************************************************************)
(* What the byte operators and the arithmetic return, for every operand;   *)
(* and induction over the natural numbers.                                 *)
(***************************************************************************)
EXTENDS Alu, WellFoundedInduction, TLAPS

-----------------------------------------------------------------------------
(* Ranges. *)

\* Words by their bounds; the large number is kept out of the membership.
LEMMA WordBounds ==
  \A n : n \in Word <=> n \in Int /\ 0 <= n /\ n <= MaxWord
<1>1. MaxWord \in Int
  BY DEF MaxWord
<1> QED  BY <1>1 DEF Word

LEMMA ByteIsWord == \A b \in Byte : b \in Word
<1> SUFFICES ASSUME NEW b \in Byte  PROVE b \in Word
  OBVIOUS
<1>1. b \in Int /\ 0 <= b /\ b <= 255
  BY DEF Byte
<1>2. b <= MaxWord
  BY <1>1 DEF MaxWord
<1> QED  BY <1>1, <1>2, WordBounds

\* The casts to std::uint8_t and std::uint16_t return values of those types.
LEMMA CastTypes ==
  ASSUME NEW n \in Int
  PROVE  U8(n) \in Byte /\ U16(n) \in Word
<1>1. U8(n) \in Byte
  BY DEF U8, Byte
<1>2. U16(n) \in Int /\ 0 <= U16(n) /\ U16(n) <= MaxWord
  BY DEF U16, MaxWord
<1>3. U16(n) \in Word
  BY <1>2, WordBounds
<1> QED  BY <1>1, <1>3

\* Two bytes make a word, and a word is the two bytes it is split into.
LEMMA Make16Type ==
  ASSUME NEW l \in Byte, NEW h \in Byte
  PROVE  Make16(l, h) \in Word /\ Low(Make16(l, h)) = l /\ High(Make16(l, h)) = h
<1>1. /\ l \in Int /\ 0 <= l /\ l < 256
      /\ h \in Int /\ 0 <= h /\ h < 256
  BY DEF Byte
<1>2. /\ Make16(l, h) \in Int /\ 0 <= Make16(l, h)
      /\ Make16(l, h) <= MaxWord
  BY <1>1 DEF Make16, MaxWord
<1>3. (l + 256 * h) % 256 = l
  BY <1>1
<1>4. (l + 256 * h) \div 256 = h
  BY <1>1
<1>5. Make16(l, h) \in Word
  BY <1>2, WordBounds
<1>6. Low(Make16(l, h)) = l /\ High(Make16(l, h)) = h
  BY <1>3, <1>4 DEF Make16, Low, High
<1> QED  BY <1>5, <1>6

LEMMA SplitType ==
  ASSUME NEW w \in Word
  PROVE  Low(w) \in Byte /\ High(w) \in Byte /\ Make16(Low(w), High(w)) = w
<1>1. w \in Int /\ 0 <= w /\ w <= MaxWord
  BY WordBounds
<1>2. w % 256 \in Int /\ 0 <= w % 256 /\ w % 256 <= 255
  BY <1>1
<1>3. /\ w \div 256 \in Int /\ 0 <= w \div 256
      /\ w \div 256 <= 255
  BY <1>1 DEF MaxWord
<1>4. (w % 256) + 256 * (w \div 256) = w
  BY <1>1
<1>5. Low(w) \in Byte /\ High(w) \in Byte
  BY <1>2, <1>3 DEF Low, High, Byte
<1>6. Make16(Low(w), High(w)) = w
  BY <1>4 DEF Make16, Low, High
<1> QED  BY <1>5, <1>6

LEMMA BitType ==
  ASSUME NEW b \in Byte, NEW i \in 0 .. 7
  PROVE  Bit(b, i) \in {0, 1}
<1>1. Weight[i] \in 1 .. 128
  BY DEF Weight
<1>2. \A w \in 1 .. 128 : (b \div w) \in Nat
  BY DEF Byte
<1>3. b \div Weight[i] \in Nat
  BY <1>1, <1>2
<1>4. \A q \in Nat : q % 2 \in {0, 1}
  OBVIOUS
<1> QED  BY <1>3, <1>4 DEF Bit

LEMMA FromBitsType ==
  ASSUME NEW f \in [0 .. 7 -> {0, 1}]
  PROVE  FromBits(f) \in Byte
<1>1. \A i \in 0 .. 7 : f[i] = 0 \/ f[i] = 1
  OBVIOUS
<1>2. /\ f[0] \in 0 .. 1 /\ f[1] \in 0 .. 1 /\ f[2] \in 0 .. 1 /\ f[3] \in 0 .. 1
      /\ f[4] \in 0 .. 1 /\ f[5] \in 0 .. 1 /\ f[6] \in 0 .. 1 /\ f[7] \in 0 .. 1
  BY <1>1
<1> QED  BY <1>2 DEF FromBits, Byte

\* AND, ORA and EOR of bytes are bytes.
LEMMA LogicTypes ==
  ASSUME NEW a1 \in Byte, NEW b1 \in Byte
  PROVE  BitAnd(a1, b1) \in Byte /\ BitOr(a1, b1) \in Byte /\ BitXor(a1, b1) \in Byte
<1>1. \A i \in 0 .. 7 : Bit(a1, i) \in {0, 1} /\ Bit(b1, i) \in {0, 1}
  BY BitType
<1>2. [i \in 0 .. 7 |-> Bit(a1, i) * Bit(b1, i)] \in [0 .. 7 -> {0, 1}]
  <2>1. \A i \in 0 .. 7 : Bit(a1, i) * Bit(b1, i) \in {0, 1}
    <3> SUFFICES ASSUME NEW i \in 0 .. 7
                 PROVE  Bit(a1, i) * Bit(b1, i) \in {0, 1}
      OBVIOUS
    <3>1. CASE Bit(a1, i) = 0 /\ Bit(b1, i) = 0  BY <3>1
    <3>2. CASE Bit(a1, i) = 0 /\ Bit(b1, i) = 1  BY <3>2
    <3>3. CASE Bit(a1, i) = 1 /\ Bit(b1, i) = 0  BY <3>3
    <3>4. CASE Bit(a1, i) = 1 /\ Bit(b1, i) = 1  BY <3>4
    <3> QED  BY <1>1, <3>1, <3>2, <3>3, <3>4
  <2> QED  BY <2>1
<1>3. [i \in 0 .. 7 |-> IF Bit(a1, i) + Bit(b1, i) = 0 THEN 0 ELSE 1]
        \in [0 .. 7 -> {0, 1}]
  OBVIOUS
<1>4. [i \in 0 .. 7 |-> IF Bit(a1, i) = Bit(b1, i) THEN 0 ELSE 1]
        \in [0 .. 7 -> {0, 1}]
  OBVIOUS
<1> QED  BY <1>2, <1>3, <1>4, FromBitsType DEF BitAnd, BitOr, BitXor

\* P fits a byte, and any byte pulled into P is a set of flags.
LEMMA FlagTypes ==
  /\ \A p \in SUBSET Flags : PackFlags(p) \in Byte
  /\ \A b \in Byte : UnpackFlags(b) \subseteq Flags
<1>1. ASSUME NEW p \in SUBSET Flags  PROVE PackFlags(p) \in Byte
  BY DEF PackFlags, Byte
<1>2. \A b \in Byte : UnpackFlags(b) \subseteq Flags
  BY DEF UnpackFlags
<1> QED  BY <1>1, <1>2

LEMMA WithType ==
  ASSUME NEW p \in SUBSET Flags, NEW f \in Flags, NEW set
  PROVE  With(p, f, set) \subseteq Flags
BY DEF With

LEMMA WithNZType ==
  ASSUME NEW p \in SUBSET Flags, NEW b
  PROVE  WithNZ(p, b) \subseteq Flags
<1>1. "N" \in Flags /\ "Z" \in Flags
  BY DEF Flags
<1> QED  BY <1>1, WithType DEF WithNZ

-----------------------------------------------------------------------------
(* The arithmetic. *)

\* ADC and SBC return a byte and two truth values.
LEMMA AddSubTypes ==
  ASSUME NEW x \in Byte, NEW y \in Byte, NEW c \in {0, 1}
  PROVE  /\ AddWithCarry(x, y, c).byte \in Byte
         /\ SubWithCarry(x, y, c).byte \in Byte
<1>1. \A z \in Byte : AddWithCarry(x, z, c).byte \in Byte
  <2> SUFFICES ASSUME NEW z \in Byte
               PROVE  AddWithCarry(x, z, c).byte \in Byte
    OBVIOUS
  <2>1. x + z + c \in Int
    BY DEF Byte
  <2> QED  BY <2>1, CastTypes DEF AddWithCarry
<1>2. 255 - y \in Byte
  BY DEF Byte
<1> QED  BY <1>1, <1>2 DEF SubWithCarry

LEMMA CompareType ==
  ASSUME NEW x \in Byte, NEW y \in Byte
  PROVE  Compare(x, y).byte \in Byte
<1>1. x - y \in Int
  BY DEF Byte
<1> QED  BY <1>1, CastTypes DEF Compare

LEMMA ShiftType ==
  ASSUME NEW op, NEW x \in Byte, NEW c \in {0, 1}
  PROVE  Shift(op, x, c).byte \in Byte
<1>1. U8(2 * x) + c \in Byte /\ U8(2 * x) + 0 \in Byte
  BY DEF U8, Byte
<1>2. (x \div 2) + 128 * c \in Byte /\ (x \div 2) + 0 \in Byte
  BY DEF Byte
<1> QED  BY <1>1, <1>2 DEF Shift

LEMMA LogicType ==
  ASSUME NEW x \in Byte, NEW y \in Byte, NEW op \in {"AND", "ORA", "EOR"}
  PROVE  Logic(op, x, y) \in Byte
BY LogicTypes DEF Logic

-----------------------------------------------------------------------------
(* Induction, over the members of a set. *)

LEMMA NatSetInduction ==
  ASSUME NEW S, 0 \in S, \A n \in Nat : n \in S => n + 1 \in S
  PROVE  Nat \subseteq S
<1> DEFINE T == Nat \ S
           R == {p \in Nat \X Nat : p[1] < p[2]}
<1>1. IsWellFoundedOn(R, Nat)
  BY NatLessThanWellFounded DEF OpToRel
<1>2. ASSUME NEW x \in Nat, NEW y \in Nat, y < x  PROVE <<y, x>> \in R
  BY <1>2
<1>3. SUFFICES ASSUME T # {} PROVE FALSE
  OBVIOUS
<1> HIDE DEF R
<1>4. PICK x \in T : \A y \in T : ~ (<<y, x>> \in R)
  BY <1>1, <1>3, WFMin
<1>5. x # 0 /\ x - 1 \in Nat /\ x - 1 < x
  OBVIOUS
<1>6. x - 1 \in S
  BY <1>2, <1>4, <1>5
<1> QED
  BY <1>4, <1>5, <1>6

Solutions(V, v, N, F) ==
  {g \in [0 .. N -> V] : g[0] = v /\ \A i \in 1 .. N : g[i] = F[i][g[i - 1]]}

\* A recursion over 0 .. N that stays inside a set has a solution there.
LEMMA RecursionInto ==
  ASSUME NEW V, NEW v \in V, NEW N \in Nat, NEW F \in [1 .. N -> [V -> V]]
  PROVE  \E g : g \in Solutions(V, v, N, F)
<1> DEFINE Solves(n, g) == /\ g \in [0 .. n -> V] /\ g[0] = v
                           /\ \A i \in 1 .. n : g[i] = F[i][g[i - 1]]
           S == {n \in Nat : n <= N => \E g : Solves(n, g)}
<1>1. 0 \in S
  <2>1. Solves(0, [i \in 0 .. 0 |-> v])
    OBVIOUS
  <2> QED
    BY <2>1
<1>2. ASSUME NEW n \in Nat, n \in S PROVE n + 1 \in S
  <2> SUFFICES ASSUME n + 1 <= N PROVE \E g : Solves(n + 1, g)
    OBVIOUS
  <2>1. PICK g : Solves(n, g)
    BY <1>2
  <2>2. n + 1 \in 1 .. N /\ g[n] \in V
    BY <2>1
  <2>3. F[n + 1][g[n]] \in V
    BY <2>2
  <2> DEFINE h == [i \in 0 .. n + 1 |-> IF i <= n THEN g[i] ELSE F[n + 1][g[n]]]
  <2>4. Solves(n + 1, h)
    BY <2>1, <2>3
  <2> HIDE DEF h, Solves
  <2> QED
    BY <2>4
<1> HIDE DEF S
<1>3. Nat \subseteq S
  BY <1>1, <1>2, NatSetInduction
<1>4. PICK g : Solves(N, g)
  BY <1>3 DEF S
<1>5. g \in Solutions(V, v, N, F)
  BY <1>4 DEF Solutions
<1> QED
  BY <1>5

\* Two functions that start alike and step alike are alike.
LEMMA SameRecursion ==
  ASSUME NEW N \in Nat, NEW f, NEW g, f[0] = g[0],
         \A i \in 1 .. N : f[i - 1] = g[i - 1] => f[i] = g[i]
  PROVE  \A i \in 0 .. N : f[i] = g[i]
<1> DEFINE S == {i \in Nat : i <= N => f[i] = g[i]}
<1>1. 0 \in S
  OBVIOUS
<1>2. ASSUME NEW i \in Nat, i \in S  PROVE i + 1 \in S
  <2> SUFFICES ASSUME i + 1 <= N  PROVE f[i + 1] = g[i + 1]
    OBVIOUS
  <2>1. i + 1 \in 1 .. N /\ (i + 1) - 1 = i /\ f[i] = g[i]
    BY <1>2
  <2> QED  BY <2>1
<1> HIDE DEF S
<1>3. Nat \subseteq S
  BY <1>1, <1>2, NatSetInduction
<1> QED  BY <1>3 DEF S
=============================================================================
