----------------------------- MODULE AluSweep -----------------------------
(***************************************************************************)
(* Every pair of operand bytes with both values of the carry, checked      *)
(* against arithmetic on the numbers the bytes stand for.                  *)
(***************************************************************************)
EXTENDS Alu

VARIABLES a, value, carry

vars == <<a, value, carry>>

Init == a = 0 /\ value \in Byte /\ carry \in {0, 1}

\* The accumulator runs through all its values and wraps, as INX does.
Sweep == a' = U8(a + 1) /\ UNCHANGED <<value, carry>>

Spec == Init /\ [][Sweep]_vars

Truth(b) == IF b THEN 1 ELSE 0

(***************************************************************************)
(* ADC returns the low byte of the unsigned sum with C its ninth bit, and  *)
(* sets V exactly when the signed sum leaves -128..127: multi-byte         *)
(* additions chained through C and signed branches through V depend on it. *)
(***************************************************************************)
AdcIsAddition ==
  LET r == AddWithCarry(a, value, carry)
  IN  /\ r.byte + 256 * Truth(r.C) = a + value + carry
      /\ r.V <=> Signed(a) + Signed(value) + carry \notin -128 .. 127

\* CMP, CPX and CPY set C and the byte of Z and N as SBC with carry set.
ComparesAlike ==
  LET r == Compare(a, value)
      s == SubWithCarry(a, value, 1)
  IN  r.byte = s.byte /\ r.C = s.C

(***************************************************************************)
(* SBC subtracts the operand and the borrow (1 - C); C is set when no      *)
(* borrow is needed and V when the signed difference leaves -128..127.     *)
(* The comparisons agree with it, so BCC/BCS after CMP is an unsigned      *)
(* comparison and BEQ an equality.                                         *)
(***************************************************************************)
SbcIsSubtraction ==
  LET r == SubWithCarry(a, value, carry)
      d == a - value - (1 - carry)
  IN  /\ r.byte = U8(d)
      /\ r.C <=> d >= 0
      /\ r.V <=> Signed(a) - Signed(value) - (1 - carry) \notin -128 .. 127
      /\ ComparesAlike

(***************************************************************************)
(* ROL and ROR are inverse rotations of the nine bits made of the carry    *)
(* and the byte: rotating back restores both.                              *)
(***************************************************************************)
RotationsInvert ==
  LET l == Shift("ROL", a, carry)
      r == Shift("ROR", a, carry)
  IN  /\ Shift("ROR", l.byte, Truth(l.C)) = [byte |-> a, C |-> carry = 1]
      /\ Shift("ROL", r.byte, Truth(r.C)) = [byte |-> a, C |-> carry = 1]
=============================================================================
