------------------------------ MODULE Decoder ------------------------------
(***************************************************************************)
(* decoder::table: which of the 256 opcode bytes is which operation in     *)
(* which addressing mode.  Bytes without an entry (the 65C02 extensions    *)
(* and the undocumented NMOS opcodes) decode to UNKNOWN, on which the      *)
(* processor halts.  The table's cycle counts are used nowhere and left    *)
(* out; its lengths depend on the mode alone.                              *)
(***************************************************************************)
EXTENDS Bytes

\* The entries of the table, by mode and then by operation.
Encoding ==
  [Implied |->
     [BRK |-> \h00, PHP |-> \h08, CLC |-> \h18, PLP |-> \h28, SEC |-> \h38,
      RTI |-> \h40, PHA |-> \h48, CLI |-> \h58, RTS |-> \h60, PLA |-> \h68,
      SEI |-> \h78, DEY |-> \h88, TXA |-> \h8A, TYA |-> \h98, TXS |-> \h9A,
      TAY |-> \hA8, TAX |-> \hAA, CLV |-> \hB8, TSX |-> \hBA, INY |-> \hC8,
      DEX |-> \hCA, CLD |-> \hD8, INX |-> \hE8, NOP |-> \hEA, SED |-> \hF8],
   Accumulator |->
     [ASL |-> \h0A, ROL |-> \h2A, LSR |-> \h4A, ROR |-> \h6A],
   Immediate |->
     [ORA |-> \h09, AND |-> \h29, EOR |-> \h49, ADC |-> \h69, LDY |-> \hA0,
      LDX |-> \hA2, LDA |-> \hA9, CPY |-> \hC0, CMP |-> \hC9, CPX |-> \hE0,
      SBC |-> \hE9],
   Relative |->
     [BPL |-> \h10, BMI |-> \h30, BVC |-> \h50, BVS |-> \h70, BCC |-> \h90,
      BCS |-> \hB0, BNE |-> \hD0, BEQ |-> \hF0],
   ZeroPage |->
     [ORA |-> \h05, ASL |-> \h06, BIT |-> \h24, AND |-> \h25, ROL |-> \h26,
      EOR |-> \h45, LSR |-> \h46, ADC |-> \h65, ROR |-> \h66, STY |-> \h84,
      STA |-> \h85, STX |-> \h86, LDY |-> \hA4, LDA |-> \hA5, LDX |-> \hA6,
      CPY |-> \hC4, CMP |-> \hC5, DEC |-> \hC6, CPX |-> \hE4, SBC |-> \hE5,
      INC |-> \hE6],
   ZeroPageX |->
     [ORA |-> \h15, ASL |-> \h16, AND |-> \h35, ROL |-> \h36, EOR |-> \h55,
      LSR |-> \h56, ADC |-> \h75, ROR |-> \h76, STY |-> \h94, STA |-> \h95,
      LDY |-> \hB4, LDA |-> \hB5, CMP |-> \hD5, DEC |-> \hD6, SBC |-> \hF5,
      INC |-> \hF6],
   ZeroPageY |->
     [STX |-> \h96, LDX |-> \hB6],
   Absolute |->
     [ORA |-> \h0D, ASL |-> \h0E, JSR |-> \h20, BIT |-> \h2C, AND |-> \h2D,
      ROL |-> \h2E, JMP |-> \h4C, EOR |-> \h4D, LSR |-> \h4E, ADC |-> \h6D,
      ROR |-> \h6E, STY |-> \h8C, STA |-> \h8D, STX |-> \h8E, LDY |-> \hAC,
      LDA |-> \hAD, LDX |-> \hAE, CPY |-> \hCC, CMP |-> \hCD, DEC |-> \hCE,
      CPX |-> \hEC, SBC |-> \hED, INC |-> \hEE],
   AbsoluteX |->
     [ORA |-> \h1D, ASL |-> \h1E, AND |-> \h3D, ROL |-> \h3E, EOR |-> \h5D,
      LSR |-> \h5E, ADC |-> \h7D, ROR |-> \h7E, STA |-> \h9D, LDY |-> \hBC,
      LDA |-> \hBD, CMP |-> \hDD, DEC |-> \hDE, SBC |-> \hFD, INC |-> \hFE],
   AbsoluteY |->
     [ORA |-> \h19, AND |-> \h39, EOR |-> \h59, ADC |-> \h79, STA |-> \h99,
      LDA |-> \hB9, LDX |-> \hBE, CMP |-> \hD9, SBC |-> \hF9],
   Indirect |->
     [JMP |-> \h6C],
   IndexedIndirect |->
     [ORA |-> \h01, AND |-> \h21, EOR |-> \h41, ADC |-> \h61, STA |-> \h81,
      LDA |-> \hA1, CMP |-> \hC1, SBC |-> \hE1],
   IndirectIndexed |->
     [ORA |-> \h11, AND |-> \h31, EOR |-> \h51, ADC |-> \h71, STA |-> \h91,
      LDA |-> \hB1, CMP |-> \hD1, SBC |-> \hF1]]

Modes == DOMAIN Encoding

Instructions ==
  UNION {{[op |-> o, mode |-> m] : o \in DOMAIN Encoding[m]} : m \in Modes}

Code(i) == Encoding[i.mode][i.op]

Unknown == [op |-> "UNKNOWN", mode |-> "UNKNOWN"]

\* An entry left at its default, CMP ($nn),Y.
Table_MissingEntry ==
  [b \in Byte |-> IF b # \hD1 /\ \E i \in Instructions : Code(i) = b
                    THEN CHOOSE i \in Instructions : Code(i) = b
                    ELSE Unknown]
Table ==
  [b \in Byte |-> IF \E i \in Instructions : Code(i) = b
                    THEN CHOOSE i \in Instructions : Code(i) = b
                    ELSE Unknown]

\* decode(opcode)
Decode(b) == Table[b]

\* The table's third column, in bytes with the opcode.
InstructionBytes(mode) ==
  CASE mode \in {"Implied", "Accumulator"} -> 1
    [] mode \in {"Absolute", "AbsoluteX", "AbsoluteY", "Indirect"} -> 3
    [] mode = "UNKNOWN" -> 0
    [] OTHER -> 2
=============================================================================
