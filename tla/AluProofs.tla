----------------------------- MODULE AluProofs -----------------------------
(***************************************************************************)
(* The arithmetic instructions compute with numbers: the properties of the *)
(* sweep in AluSweep, whose type invariant is all the induction they need. *)
(***************************************************************************)
EXTENDS AluSweep, ByteLemmas

\* The operands of the sweep are bytes and its carry is a bit.
Operands == a \in Byte /\ value \in Byte /\ carry \in {0, 1}

\* The sweep only ever applies the instructions to bytes and a carry bit.
LEMMA OperandsInvariant == Spec => []Operands
<1>1. Init => Operands
  BY DEF Init, Operands, Byte
<1>2. Operands /\ [Sweep]_vars => Operands'
  <2> SUFFICES ASSUME Operands, [Sweep]_vars  PROVE Operands'
    OBVIOUS
  <2>1. CASE Sweep
    BY <2>1, CastTypes DEF Sweep, Operands, Byte
  <2>2. CASE UNCHANGED vars
    BY <2>2 DEF vars, Operands
  <2> QED  BY <2>1, <2>2
<1> QED  BY <1>1, <1>2, PTL DEF Spec

\* The overflow rule both instructions use: with bytes x and y, the signed
\* sum leaves -128..127 exactly when x and y agree in bit 7 and the result
\* does not.
LEMMA OverflowRule ==
  ASSUME NEW x \in Byte, NEW y \in Byte, NEW c \in {0, 1}
  PROVE  LET s == x + y + c
         IN  /\ U8(s) + 256 * Truth(s > 255) = s
             /\ (Negative(x) = Negative(y) /\ Negative(x) # Negative(U8(s)))
                  <=> Signed(x) + Signed(y) + c \notin -128 .. 127
<1> DEFINE s == x + y + c
<1>1. s \in 0 .. 511
  BY DEF Byte
<1>2. CASE s <= 255
  <2>1. U8(s) = s
    BY <1>1, <1>2 DEF U8
  <2>2. Truth(s > 255) = 0
    BY <1>1, <1>2 DEF Truth
  <2>3. (Negative(x) = Negative(y) /\ Negative(x) # Negative(s))
          <=> Signed(x) + Signed(y) + c \notin -128 .. 127
    BY <1>2 DEF Negative, Signed, Byte
  <2> HIDE DEF s
  <2>4. U8(s) + 256 * Truth(s > 255) = s
    BY <1>1, <2>1, <2>2
  <2> QED  BY <2>1, <2>3, <2>4 DEF s
<1>3. CASE s > 255
  <2>1. U8(s) = s - 256
    BY <1>1, <1>3 DEF U8
  <2>2. Truth(s > 255) = 1
    BY <1>1, <1>3 DEF Truth
  <2>3. (Negative(x) = Negative(y) /\ Negative(x) # Negative(s - 256))
          <=> Signed(x) + Signed(y) + c \notin -128 .. 127
    BY <1>3 DEF Negative, Signed, Byte
  <2> HIDE DEF s
  <2>4. U8(s) + 256 * Truth(s > 255) = s
    BY <1>1, <2>1, <2>2
  <2> QED  BY <2>1, <2>3, <2>4 DEF s
<1> QED  BY <1>1, <1>2, <1>3

\* ADC is the addition of unsigned bytes in byte and C and of signed bytes
\* in V, for all operands.
THEOREM AdcCorrect == Spec => []AdcIsAddition
<1>1. Operands => AdcIsAddition
  BY OverflowRule DEF Operands, AdcIsAddition, AddWithCarry
<1> QED  BY <1>1, OperandsInvariant, PTL

\* CMP, CPX and CPY agree with SBC, so a branch after them compares numbers.
LEMMA CompareAgrees == Operands => ComparesAlike
<1> SUFFICES ASSUME Operands  PROVE ComparesAlike
  OBVIOUS
<1>1. a + (255 - value) + 1 = (a - value) + 256
  BY DEF Operands, Byte
<1>2. U8((a - value) + 256) = U8(a - value)
  BY DEF Operands, U8, Byte
<1>3. (a - value) + 256 > 255 <=> a >= value
  BY DEF Operands, Byte
<1> QED  BY <1>1, <1>2, <1>3 DEF ComparesAlike, Compare, SubWithCarry, AddWithCarry

\* SBC is the subtraction with borrow of the same two kinds, and so are the
\* comparisons.
THEOREM SbcCorrect == Spec => []SbcIsSubtraction
<1>1. Operands => SbcIsSubtraction
  <2> SUFFICES ASSUME Operands  PROVE SbcIsSubtraction
    OBVIOUS
  <2> DEFINE y == 255 - value
             s == a + y + carry
             d == a - value - (1 - carry)
  <2>1. y \in Byte /\ Signed(y) = -1 - Signed(value)
    BY DEF Operands, Signed, Byte
  <2>2. s = d + 256 /\ d \in -256 .. 255
    BY DEF Operands, Byte
  <2>4. U8(s) = U8(d)
    BY <2>2 DEF U8
  <2>5. s > 255 <=> d >= 0
    BY <2>2
  <2>6. Signed(a) + Signed(y) + carry = Signed(a) - Signed(value) - (1 - carry)
    BY <2>1 DEF Operands, Signed, Byte
  <2>7. (Negative(a) = Negative(y) /\ Negative(a) # Negative(U8(s)))
          <=> Signed(a) + Signed(y) + carry \notin -128 .. 127
    BY <2>1, OverflowRule DEF Operands
  <2> DEFINE R == SubWithCarry(a, value, carry)
  <2>8. R.byte = U8(s)
    BY DEF SubWithCarry, AddWithCarry
  <2>9. R.C <=> s > 255
    BY DEF SubWithCarry, AddWithCarry
  <2>10. R.V <=> Negative(a) = Negative(y) /\ Negative(a) # Negative(U8(s))
    BY DEF SubWithCarry, AddWithCarry
  <2> HIDE DEF y, s, d, R
  <2>11. R.byte = U8(d)
    BY <2>4, <2>8
  <2>12. R.C <=> d >= 0
    BY <2>5, <2>9
  <2>13. R.V <=> Signed(a) - Signed(value) - (1 - carry) \notin -128 .. 127
    BY <2>6, <2>7, <2>10
  <2> QED  BY <2>11, <2>12, <2>13, CompareAgrees DEF SbcIsSubtraction, R, d
<1> QED  BY <1>1, OperandsInvariant, PTL

\* ROL and ROR undo each other for all bytes and carries.
THEOREM RotationsCorrect == Spec => []RotationsInvert
<1>1. \A x \in Byte : /\ Bit(x, 7) = x \div 128
                        /\ Bit(x, 0) = x % 2
  BY DEF Bit, Weight, Byte
<1>2. Operands => RotationsInvert
  <2> SUFFICES ASSUME Operands  PROVE RotationsInvert
    OBVIOUS
  <2> DEFINE l == Shift("ROL", a, carry)
             r == Shift("ROR", a, carry)
  <2>1. l.byte = U8(2 * a) + carry /\ (l.C <=> Bit(a, 7) = 1)
    BY DEF Shift
  <2>2. r.byte = (a \div 2) + 128 * carry /\ (r.C <=> Bit(a, 0) = 1)
    BY DEF Shift
  <2>3. l.byte \in Byte /\ r.byte \in Byte
    BY ShiftType DEF Operands
  <2> HIDE DEF l, r
  <2>4. Shift("ROR", l.byte, Truth(l.C)) = [byte |-> a, C |-> carry = 1]
    <3>1. (l.byte \div 2) + 128 * Truth(l.C) = a
      <4>1. CASE a < 128
        <5>1. l.byte = 2 * a + carry /\ ~l.C
          BY <1>1, <2>1, <4>1 DEF Operands, U8, Byte
        <5> QED  BY <5>1, <4>1 DEF Operands, Truth, Byte
      <4>2. CASE a >= 128
        <5>1. l.byte = 2 * a - 256 + carry /\ l.C
          BY <1>1, <2>1, <4>2 DEF Operands, U8, Byte
        <5> QED  BY <5>1, <4>2 DEF Operands, Truth, Byte
      <4> QED  BY <4>1, <4>2 DEF Operands, Byte
    <3>2. Bit(l.byte, 0) = carry
      BY <1>1, <2>1, <2>3 DEF Operands, U8, Byte
    <3> QED  BY <3>1, <3>2 DEF Shift
  <2>5. Shift("ROL", r.byte, Truth(r.C)) = [byte |-> a, C |-> carry = 1]
    <3>1. U8(2 * r.byte) + Truth(r.C) = a
      <4>1. U8(2 * r.byte) = 2 * (a \div 2)
        BY <2>2 DEF Operands, U8, Byte
      <4>2. Truth(r.C) = a % 2
        BY <1>1, <2>2 DEF Operands, Truth, Byte
      <4> QED  BY <4>1, <4>2 DEF Operands, Byte
    <3>2. Bit(r.byte, 7) = carry
      BY <1>1, <2>2, <2>3 DEF Operands, Byte
    <3> QED  BY <3>1, <3>2 DEF Shift
  <2> QED  BY <2>4, <2>5 DEF RotationsInvert, l, r
<1> QED  BY <1>2, OperandsInvariant, PTL
=============================================================================
