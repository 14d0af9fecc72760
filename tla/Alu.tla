-------------------------------- MODULE Alu --------------------------------
(***************************************************************************)
(* The data part of the instructions: what an operation makes of its       *)
(* operands, the carry and the overflow flag.  Each operator returns a     *)
(* record with the result byte and the flags the code computes beside it;  *)
(* N and Z are always those of the result byte (WithNZ).                   *)
(***************************************************************************)
EXTENDS Bytes

\* ADC: the sum is an int, C is its ninth bit, and V is bit 7 of
\* ~(A ^ value) & (A ^ result): both operands have the same sign and the
\* result has the other one.  The D flag plays no part.
AddWithCarry_CarryAt255(a, value, carry) ==
  LET result == a + value + carry
      byte   == U8(result)
  IN  [byte |-> byte,
       C    |-> result >= 255,
       V    |-> Negative(a) = Negative(value) /\ Negative(a) # Negative(byte)]
AddWithCarry(a, value, carry) ==
  LET result == a + value + carry
      byte   == U8(result)
  IN  [byte |-> byte,
       C    |-> result > 255,
       V    |-> /\ Negative(a) = Negative(value)
                /\ Negative(a) # Negative(byte)]

\* SBC adds the complement of the operand.
SubWithCarry_NoComplementInV(a, value, carry) ==
  LET r == AddWithCarry(a, 255 - value, carry)
  IN  [r EXCEPT !.V = /\ Negative(a) = Negative(value)
                      /\ Negative(a) # Negative(r.byte)]
SubWithCarry(a, value, carry) == AddWithCarry(a, 255 - value, carry)

\* CMP, CPX, CPY: nothing is stored; N and Z are those of the difference.
Compare(r, value) == [byte |-> U8(r - value), C |-> r >= value]

\* ASL, LSR, ROL, ROR: the bit shifted out is the new carry.  The rotations
\* shift in the carry from before the instruction, ASL and LSR shift in 0.
Shift_CarryFirst(op, value, carry) ==
  IF op \in {"ASL", "ROL"}
    THEN [byte |-> U8(2 * value) + (IF op = "ROL" THEN Bit(value, 7) ELSE 0),
          C    |-> Bit(value, 7) = 1]
    ELSE [byte |-> (value \div 2) + (IF op = "ROR" THEN 128 * Bit(value, 0) ELSE 0),
          C    |-> Bit(value, 0) = 1]
Shift(op, value, carry) ==
  IF op \in {"ASL", "ROL"}
    THEN [byte |-> U8(2 * value) + (IF op = "ROL" THEN carry ELSE 0),
          C    |-> Bit(value, 7) = 1]
    ELSE [byte |-> (value \div 2) + (IF op = "ROR" THEN 128 * carry ELSE 0),
          C    |-> Bit(value, 0) = 1]

\* AND, ORA, EOR
Logic(op, a, value) ==
  CASE op = "AND" -> BitAnd(a, value)
    [] op = "ORA" -> BitOr(a, value)
    [] op = "EOR" -> BitXor(a, value)
=============================================================================
