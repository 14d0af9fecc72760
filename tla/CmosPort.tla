------------------------------ MODULE CmosPort ------------------------------
(***************************************************************************)
(* Tali Forth 2 and Acorn MOS are written for the 65C02; build_emu6502.sh  *)
(* translates them to the NMOS instructions of this processor, line by     *)
(* line, with a look ahead for whether the flags may still be read.        *)
(***************************************************************************)
EXTENDS Cpu, Programs
LOCAL INSTANCE SequencesExt
LOCAL INSTANCE FiniteSetsExt

\* A line of the source.  Its modes are those of Decoder and, of the 65C02
\* alone, "Indirect" in page zero for loads and "IndexedIndirect" for JMP.
Line(op, mode, a) == [op |-> op, mode |-> mode, a |-> a]
Bare(op)          == Line(op, "Implied", 0)
Value(op, v)      == Line(op, "Immediate", v)
Scratch(op)       == Line(op, "Absolute", \hF002)
Scratch2(op)      == Line(op, "Absolute", \hF003)

-----------------------------------------------------------------------------
(* flag_live *)

NZWriters ==
  {"LDA", "LDX", "LDY", "TAX", "TAY", "TXA", "TYA", "TSX", "DEX", "DEY", "INX",
   "INY", "ADC", "SBC", "AND", "ORA", "EOR", "CMP", "CPX", "CPY", "BIT", "ASL",
   "LSR", "ROL", "ROR", "INC", "DEC", "PLA", "PLP", "RTI"}
NReaders  == {"BPL", "BMI"}
NZReaders == NReaders \cup {"BEQ", "BNE"}
Control   == {"JMP", "RTS", "RTI", "BRK"}      \* JSR is looked past

\* The first of the next lines that decides: does it read the flags?
flag_live(rest, readers, stop_at, window) ==
  LET reads    == Control \cup {"PHP"} \cup readers
      deciding == {i \in 1 .. Len(rest) :
                     i <= window /\ rest[i].op \in stop_at \cup reads \cup NZWriters}
  IN  deciding # {} /\ rest[Min(deciding)].op \in reads \ stop_at

-----------------------------------------------------------------------------
(* translate: the lines that stand for one.                                *)

translate(line, rest) ==
  LET op           == line.op
      on(o)        == [line EXCEPT !.op = o]
      live(window) == flag_live(rest, NZReaders, {}, window)
  IN
  CASE op = "BRA" -> <<on("JMP")>>
    [] op \in {"PHX", "PHY"} ->
         LET move == Bare(IF op = "PHX" THEN "TXA" ELSE "TYA")
             pull == IF op = "PHX" THEN "PLX" ELSE "PLY"
         IN  IF flag_live(rest, NZReaders, {pull}, 24)
               THEN <<Scratch("STA"), Bare("PHP"), Bare("PLA"), Scratch2("STA"),
                      move, Bare("PHA"), Scratch2("LDA"), Bare("PHA"),
                      Scratch("LDA"), Bare("PLP")>>
               ELSE <<Scratch("STA"), move, Bare("PHA"), Scratch("LDA")>>
    [] op = "PLX" -> <<Bare("PLA"), Bare("TAX")>>
    [] op = "PLY" -> <<Bare("PLA"), Bare("TAY")>>
    [] op = "STZ" ->
         IF live(12)
           THEN <<Scratch("STA"), Bare("PHP"), Value("LDA", 0), on("STA"),
                  Scratch("LDA"), Bare("PLP")>>
           ELSE <<Bare("PHA"), Value("LDA", 0), on("STA"), Bare("PLA")>>
    [] op \in {"TRB", "TSB"} ->
         LET change == IF op = "TRB" THEN <<Value("EOR", \hFF), on("AND")>>
                                     ELSE <<on("ORA")>>
         IN  IF live(8)
               THEN <<Scratch("STA"), on("AND"), Bare("PHP"), Scratch("LDA")>>
                    \o change \o <<on("STA"), Scratch("LDA"), Bare("PLP")>>
               ELSE <<Bare("PHA")>> \o change \o <<on("STA"), Bare("PLA")>>
    [] op = "BIT" /\ line.mode = "Immediate" ->
         IF flag_live(rest, NReaders, {}, 24)
           THEN <<Scratch("STA"), Bare("PHP"), on("AND"), Bare("PHP"), Bare("PLA"),
                  Value("AND", \h02), Scratch2("STA"), Bare("PLA"),
                  Value("AND", \hFD), Scratch2("ORA"), Bare("PHA"),
                  Scratch("LDA"), Bare("PLP")>>
           ELSE <<Scratch("STA"), on("AND"), Bare("PHP"), Scratch("LDA"), Bare("PLP")>>
    [] op = "BIT" /\ line.mode \in {"ZeroPageX", "AbsoluteX"} ->
         <<Scratch("STA"), on("LDA"), Scratch2("STA"), Scratch("LDA"),
           Scratch2("BIT")>>
    [] op \in {"INC", "DEC"} /\ line.mode = "Accumulator" ->
         <<Scratch("STA"), Scratch(op), Scratch("LDA")>>
    [] op # "JMP" /\ line.mode = "Indirect" ->
         <<Scratch("STY"), Value("LDY", 0), Line(op, "IndirectIndexed", line.a)>>
         \o (IF live(24) THEN <<Bare("PHP"), Scratch("LDY"), Bare("PLP")>>
                         ELSE <<Scratch("LDY")>>)
    [] op = "JMP" /\ line.mode = "IndexedIndirect" ->
         <<Bare("PHP"), Bare("PHA"), Line("LDA", "AbsoluteX", line.a + 1),
           Scratch2("STA"), Line("LDA", "AbsoluteX", line.a), Scratch("STA"),
           Bare("PLA"), Bare("PLP"), Line("JMP", "Indirect", \hF002)>>
    [] OTHER -> <<line>>

\* The translated lines, assembled.
Translated(lines) ==
  LET of(i) == translate(lines[i], SubSeq(lines, i + 1, Len(lines)))
      bytes(new) == FlattenSeq([j \in DOMAIN new |->
                                  Asm(new[j].op, new[j].mode, new[j].a)])
  IN  FlattenSeq([i \in DOMAIN lines |-> bytes(of(i))])

-----------------------------------------------------------------------------
(* Every line that is translated, in a program that shows what it did.     *)

Operands == \h40         \* the cell the line works on
Pointer  == \h42
JumpTable == \h44         \* of a jump, indexed by X

\* What a 65C02 makes of the line, from registers, flags, the cell and the
\* bytes that the program has pushed.
Effect(line, m) ==
  LET nz(b)    == WithNZ(m.P, b)
      zero(b)  == With(m.P, "Z", b = 0)
      masked   == BitAnd(m.A, m.cell)
      top      == Last(m.pushed)
      add      == AddWithCarry(m.A, m.cell, IF "C" \in m.P THEN 1 ELSE 0)
      compared == Compare(m.A, m.cell)
      inA(b)   == [m EXCEPT !.A = b, !.P = nz(b)]
  IN
  CASE line.op = "PHX" -> [m EXCEPT !.pushed = Append(@, m.X)]
    [] line.op = "PHY" -> [m EXCEPT !.pushed = Append(@, m.Y)]
    [] line.op = "PLX" -> [m EXCEPT !.pushed = Front(@), !.X = top, !.P = nz(top)]
    [] line.op = "PLY" -> [m EXCEPT !.pushed = Front(@), !.Y = top, !.P = nz(top)]
    [] line.op = "STZ" -> [m EXCEPT !.cell = 0]
    [] line.op = "TRB" -> [m EXCEPT !.cell = @ - masked, !.P = zero(masked)]
    [] line.op = "TSB" -> [m EXCEPT !.cell = @ + m.A - masked, !.P = zero(masked)]
    [] line.op = "BIT" /\ line.mode = "Immediate" ->
         [m EXCEPT !.P = zero(BitAnd(m.A, line.a))]
    [] line.op = "BIT" /\ line.mode # "Immediate" ->
         [m EXCEPT !.P = With(With(zero(masked), "N", Bit(m.cell, 7) = 1),
                              "V", Bit(m.cell, 6) = 1)]
    [] line.op = "INC" -> inA(U8(m.A + 1))
    [] line.op = "DEC" -> inA(U8(m.A - 1))
    [] line.op = "LDA" -> inA(m.cell)
    [] line.op = "STA" -> [m EXCEPT !.cell = m.A]
    [] line.op = "ADC" -> [m EXCEPT !.A = add.byte,
                             !.P = WithNZ(With(With(@, "C", add.C), "V", add.V), add.byte)]
    [] line.op = "CMP" -> [m EXCEPT !.P = WithNZ(With(@, "C", compared.C), compared.byte)]
    [] line.op = "JMP" -> m

(***************************************************************************)
(* The flags the translation keeps as the 65C02 leaves them: all four if   *)
(* they may be read, C and V otherwise.  TRB and TSB set N where a 65C02   *)
(* keeps it, STA (zp) sets both N and Z.                                   *)
(***************************************************************************)
Kept(line, live) ==
  {"C", "V"} \cup (CASE ~live -> {}
                     [] line.op \in {"TRB", "TSB"} -> {"Z"}
                     [] line.op = "STA" -> {}
                     [] OTHER -> {"N", "Z"})

\* Start, then the state m; two bytes are pushed, the second stays.
Arrange(s, m) ==
  <<Value("LDX", s), Bare("TXS"), Bare("CLI")>>
  \o FlattenSeq([i \in DOMAIN m.pushed |->
                   <<Value("LDA", m.pushed[i]), Bare("PHA")>>])
  \o <<Value("LDA", PackFlags(m.P)), Bare("PHA"),
       Value("LDA", m.A), Value("LDX", m.X), Value("LDY", m.Y), Bare("PLP")>>

\* Stores what the line left: the flags first if they are wanted.
Show(keep, live) ==
  LET stores == <<Line("STA", "ZeroPage", \h12), Line("STX", "ZeroPage", \h13),
                  Line("STY", "ZeroPage", \h14)>>
      masks  == <<Bare("PLA"), Value("AND", PackFlags(keep)),
                  Line("STA", "ZeroPage", \h15)>>
  IN  (IF live THEN <<Bare("PHP")>> \o stores \o masks
               ELSE stores \o <<Value("LDA", 0), Bare("PHP")>> \o masks)
      \o <<Bare("TSX"), Line("STX", "ZeroPage", \h16), Bare("PLA"),
           Line("STA", "ZeroPage", \h17), Bare("BRK")>>

(***************************************************************************)
(* A program around one line, and the cells it must leave.  PLX and PLY    *)
(* leave the pulled byte in A too, where a 65C02 keeps A.                  *)
(***************************************************************************)
CmosProgram(line, s, m, live) ==
  LET keep   == Kept(line, live)
      end    == Show(keep, live)
      before == Arrange(s, m) \o <<line>> \o
                (IF line.op = "JMP" THEN <<Bare("BRK")>> ELSE <<>>)
      code   == Translated(before \o end)
      after  == Effect(line, m)
      cells  == \h13 :> after.X @@ \h14 :> after.Y
                @@ \h15 :> PackFlags(after.P \cap keep)
                @@ \h16 :> U8(s - Len(after.pushed)) @@ \h17 :> Last(after.pushed)
                @@ Operands :> after.cell
                @@ (IF line.op \in {"PLX", "PLY"} THEN <<>> ELSE \h12 :> after.A)
      there  == Main + Len(code) - Len(Translated(end))
  IN  At(Main, <<code>>)
      @@ Operands :> m.cell @@ Word16(Pointer, Operands)
      @@ Word16(JumpTable + m.X, there)
      @@ [a \in {\h8000 + c : c \in DOMAIN cells} |-> cells[a - \h8000]]
      @@ BlinkHandler @@ Vectors(Main, Handler)
-----------------------------------------------------------------------------
(* The word RECURSE of native_words.asm, which compiles a call of the word *)
(* that is being defined.                                                  *)

cp       == \h60         \* where the next code goes
tmp1     == \h62
workword == \h64
status   == \h66
Compiled == \h0700

ZeroPage(op, a) == Line(op, "ZeroPage", a)

\* sta (cp),y and iny
Compile(lines) == lines \o <<Line("STA", "IndirectIndexed", cp), Bare("INY")>>

\* After :NONAME the token is workword; the jump goes to _update_cp.
Unnamed(update_cp) ==
  Compile(<<ZeroPage("LDA", workword)>>) \o Compile(<<ZeroPage("LDA", workword + 1)>>)
  \o <<Line("BRA", "Absolute", update_cp)>>

\* After : it is in the header workword points to.
Named ==
  <<ZeroPage("LDA", workword), Bare("CLC"), Value("ADC", 4), ZeroPage("STA", tmp1),
    ZeroPage("LDA", workword + 1), Value("ADC", 0), ZeroPage("STA", tmp1 + 1),
    Line("LDA", "Indirect", tmp1), Line("STA", "IndirectIndexed", cp), Bare("PHY"),
    Value("LDY", 1), Line("LDA", "IndirectIndexed", tmp1), Bare("PLY"), Bare("INY"),
    Line("STA", "IndirectIndexed", cp), Bare("INY")>>

xt_recurse ==
  LET jsr       == Compile(<<Value("LDY", 0), Value("LDA", \h20)>>)
                   \o <<ZeroPage("BIT", status)>>
      skip      == Len(Translated(Unnamed(0)))
      update_cp == Routine + Len(Translated(jsr)) + 2 + skip + Len(Translated(Named))
  IN  jsr \o <<Line("BVS", "Relative", skip)>> \o Unnamed(update_cp) \o Named
      \o <<Bare("TYA"), Bare("CLC"), ZeroPage("ADC", cp), ZeroPage("STA", cp),
           Line("BCC", "Relative", 2), ZeroPage("INC", cp + 1), Bare("RTS")>>

\* A word whose token is xt; its header is at $0600.
Header == \h0600

RecurseProgram(named, xt) ==
  At(Main, << Start(\hFF), Abs("JSR", Routine), One("BRK") >>)
  @@ At(Routine, <<Translated(xt_recurse)>>)
  @@ Word16(cp, Compiled) @@ Word16(Header + 4, xt)
  @@ Word16(workword, IF named THEN Header ELSE xt)
  @@ status :> (IF named THEN 64 ELSE 0)
  @@ Vectors(Main, Handler)

(***************************************************************************)
(* A word that calls itself calls itself, whether ":" began it or :NONAME: *)
(* RECURSE compiles JSR and the word's token, since the translation "keeps *)
(* A and Y".                                                               *)
(***************************************************************************)
RecurseCallsItself ==
  halted => /\ Cell(Compiled) = \h20
            /\ Vector(Compiled + 1) = (IF Cell(status) = 0 THEN Vector(workword)
                                       ELSE Vector(Vector(workword) + 4))
            /\ Vector(cp) = Compiled + 3

-----------------------------------------------------------------------------
(* Errors of Acorn MOS.  BRK would halt this processor, so a call of       *)
(* emuBrk, or a jump to emuDoError, builds the stack BRK would have left.  *)

TEMPA  == \hFC
errPtr == \hFD
SEIWKA == \h68
irqEntryPoint == \h0340

PushFrame ==
  <<Bare("PHA"), ZeroPage("LDA", TEMPA), Bare("PHA"), Bare("PHP"), Bare("SEI"),
    Line("JMP", "Absolute", irqEntryPoint)>>

emuBrk ==
  <<Bare("PLA"), Bare("CLC"), Value("ADC", 2), ZeroPage("STA", TEMPA), Bare("PLA"),
    Value("ADC", 0)>> \o PushFrame

emuDoError ==
  <<Bare("CLC"), ZeroPage("LDA", SEIWKA), Value("ADC", 1), ZeroPage("STA", TEMPA),
    ZeroPage("LDA", SEIWKA + 1), Value("ADC", 0)>> \o PushFrame

\* irqEntryPoint of mos.s65 up to where the error number is looked up.
FindError ==
  <<ZeroPage("STA", TEMPA), Bare("PLA"), Bare("PHA"), Value("AND", \h10),
    Line("BNE", "Relative", 3), Line("JMP", "Indirect", \hFFFE),
    Bare("PHX"), Bare("TSX"), Line("LDA", "AbsoluteX", \h0103), Bare("CLD"),
    Bare("SEC"), Value("SBC", 1), ZeroPage("STA", errPtr),
    Line("LDA", "AbsoluteX", \h0104), Value("SBC", 0), ZeroPage("STA", errPtr + 1),
    Bare("PLX"), ZeroPage("LDA", TEMPA), Bare("BRK")>>

\* The program meets the error whose number is at an address.
ErrorProgram(called, number) ==
  At(Main, <<Start(\hFF), Abs("JMP", IF called THEN number - 3 ELSE Routine)>>)
  @@ At(number - 3, <<Abs("JSR", Routine)>>)
  @@ At(Routine, <<Translated(IF called THEN emuBrk ELSE emuDoError)>>)
  @@ At(irqEntryPoint, <<Translated(FindError)>>)
  @@ Word16(SEIWKA, number)
  @@ Expected(errPtr, Low(number)) @@ Expected(errPtr + 1, High(number))
  @@ BlinkHandler @@ Vectors(Main, Handler)
=============================================================================
