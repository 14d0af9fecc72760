-------------------------- MODULE OpcodeStructure --------------------------
(***************************************************************************)
(* The regular structure of the NMOS 6502 encoding, aaabbbcc: cc selects a *)
(* group of eight operations, aaa the operation and bbb its addressing     *)
(* mode.  The reference decoder::table is compared with.                   *)
(***************************************************************************)
EXTENDS Decoder, Sequences

Accumulators == <<"ORA", "AND", "EOR", "ADC", "STA", "LDA", "CMP", "SBC">>
Modifiers    == <<"ASL", "ROL", "LSR", "ROR", "STX", "LDX", "DEC", "INC">>
Indexes      == <<"", "BIT", "JMP", "JMP", "STY", "LDY", "CPY", "CPX">>

\* The columns bbb = 0, 2, 4 and 6 of group 0 hold one-of-a-kind operations.
Stack0  == <<"BRK", "JSR", "RTI", "RTS">>
Single2 == <<"PHP", "PLP", "PHA", "PLA", "DEY", "TAY", "INY", "INX">>
Branch4 == <<"BPL", "BMI", "BVC", "BVS", "BCC", "BCS", "BNE", "BEQ">>
Flag6   == <<"CLC", "SEC", "CLI", "SEI", "TYA", "CLV", "CLD", "SED">>
\* ... and those of group 2.
Single10 == <<"", "", "", "", "TXA", "TAX", "DEX", "NOP">>
Single26 == <<"", "", "", "", "TXS", "TSX", "", "">>

Entry(op, mode) == [op |-> op, mode |-> mode]

Group1(aaa, bbb) ==
  IF aaa = 5 /\ bbb = 3 THEN Unknown      \* there is no STA #
  ELSE Entry(Accumulators[aaa],
             <<"IndexedIndirect", "ZeroPage", "Immediate", "Absolute",
               "IndirectIndexed", "ZeroPageX", "AbsoluteY", "AbsoluteX">>[bbb])

Group2(aaa, bbb) ==
  LET op == Modifiers[aaa]
      indexedByY == op \in {"STX", "LDX"}
  IN  CASE bbb = 1 /\ op = "LDX" -> Entry(op, "Immediate")
        [] bbb = 2 -> Entry(op, "ZeroPage")
        [] bbb = 3 /\ aaa <= 4 -> Entry(op, "Accumulator")
        [] bbb = 3 /\ aaa > 4  -> Entry(Single10[aaa], "Implied")
        [] bbb = 4 -> Entry(op, "Absolute")
        [] bbb = 6 -> Entry(op, IF indexedByY THEN "ZeroPageY" ELSE "ZeroPageX")
        [] bbb = 7 /\ aaa \in {5, 6} -> Entry(Single26[aaa], "Implied")
        [] bbb = 8 /\ op # "STX" ->
             Entry(op, IF indexedByY THEN "AbsoluteY" ELSE "AbsoluteX")
        [] OTHER -> Unknown

Group0(aaa, bbb) ==
  LET op == Indexes[aaa]
  IN  CASE bbb = 1 /\ aaa = 2 -> Entry("JSR", "Absolute")
        [] bbb = 1 /\ aaa \in {1, 3, 4} -> Entry(Stack0[aaa], "Implied")
        [] bbb = 1 /\ op \in {"LDY", "CPY", "CPX"} -> Entry(op, "Immediate")
        [] bbb = 2 /\ op \notin {"", "JMP"} -> Entry(op, "ZeroPage")
        [] bbb = 3 -> Entry(Single2[aaa], "Implied")
        [] bbb = 4 /\ op # "" -> Entry(op, IF aaa = 4 THEN "Indirect" ELSE "Absolute")
        [] bbb = 5 -> Entry(Branch4[aaa], "Relative")
        [] bbb = 6 /\ op \in {"STY", "LDY"} -> Entry(op, "ZeroPageX")
        [] bbb = 7 -> Entry(Flag6[aaa], "Implied")
        [] bbb = 8 /\ op = "LDY" -> Entry(op, "AbsoluteX")
        [] OTHER -> Unknown

Regular(byte) ==
  LET aaa == (byte \div 32) + 1
      bbb == ((byte \div 4) % 8) + 1
  IN  CASE byte % 4 = 0 -> Group0(aaa, bbb)
        [] byte % 4 = 1 -> Group1(aaa, bbb)
        [] byte % 4 = 2 -> Group2(aaa, bbb)
        [] byte % 4 = 3 -> Unknown
=============================================================================
