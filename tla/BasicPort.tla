------------------------------ MODULE BasicPort ------------------------------
(***************************************************************************)
(* What the port of the Open ROMs adds to their BASIC: integers of 16 bits *)
(* in place of the floating point that is missing there, and FOR and NEXT  *)
(* on frames below the return address of the interpreter.  The reader of   *)
(* the program text, the interpreter's loop and the evaluation of an       *)
(* expression around one literal or one operator are reduced to what the   *)
(* code here needs of them.                                                *)
(***************************************************************************)
EXTENDS Cpu, Programs
LOCAL INSTANCE SequencesExt

-----------------------------------------------------------------------------
(* Routines, each with labels of its own. *)

Ins(op, mode, a) == [op |-> op, mode |-> mode, a |-> a, to |-> ""]
I(op)            == Ins(op, "Implied", 0)
N(op, v)         == Ins(op, "Immediate", v)
Z(op, a)         == Ins(op, "ZeroPage", a)
ZX(op, a)        == Ins(op, "ZeroPageX", a)
J(op, a)         == Ins(op, "Absolute", a)
Go(op, label)    == [Ins(op, IF op = "JMP" THEN "Absolute" ELSE "Relative", 0)
                       EXCEPT !.to = label]
Label(name)      == [Ins("label", "", 0) EXCEPT !.to = name]
Skip             == Ins("skip", "", 0)      \* skip_2_bytes_trash_nvz

Link(base, code) ==
  LET bytes(l, a) == CASE l.op = "label" -> <<>>
                       [] l.op = "skip"  -> <<\h2C>>
                       [] OTHER          -> Asm(l.op, l.mode, a)
      place == FoldLeft(LAMBDA s, l : Append(s, Last(s) + Len(bytes(l, 0))),
                        <<base>>, code)
      address(name) == place[CHOOSE i \in DOMAIN code : code[i] = Label(name)]
      operand(i) == LET l == code[i]
                    IN  IF l.to = "" \/ l.op = "label" THEN l.a
                        ELSE IF l.op = "JMP" THEN address(l.to)
                        ELSE U8(address(l.to) - place[i] - 2)
  IN  At(base, [i \in DOMAIN code |-> bytes(code[i], operand(i))])

PushCells(cells) == FlattenSeq([i \in DOMAIN cells |-> <<Z("LDA", cells[i]), I("PHA")>>])
PopCells(cells)  == FlattenSeq([i \in DOMAIN cells |-> <<I("PLA"), Z("STA", cells[i])>>])
SetCells(cells)  == [i \in DOMAIN cells |-> Z("STA", cells[i])]

emu_fetch_float       == \h0300
emu_pop_fac2          == \h0350
fac1_to_int16         == \h0378
fac2_to_int16         == \h037B
int16_to_fac1         == \h03B0
emu_store_fac1_var    == \h03E0
emu_load_fac1_var     == \h03F0
emu_push_for_frame    == \h0400
oper_add              == \h0438
oper_mul              == \h0460
cmd_for               == \h04C0
cmd_next              == \h0510
fetch_character       == \h0590
unconsume_character   == \h05A0
fetch_variable_name   == \h05B0
fetch_variable_find_addr == \h05B8
injest_assign         == \h05C4
is_end_of_statement   == \h05D0
FRMEVL_got_value_float == \h05E4
FRMEVL_continue       == \h05F0
failed                == \h0600
execute               == \h0610
operation             == \h0640

-----------------------------------------------------------------------------
(* Numbers: emu6502_intmath.s.  A number in FAC is an exponent, a mantissa *)
(* of four bytes, the highest first, and a sign.                           *)

VALTYP == \h0D
CURLIN == \h39
OLDTXT == \h3D
VARNAM == \h45
VARPNT == \h47
OPPTR  == \h4B
FAC1   == \h61
FAC2   == \h69
TXTPTR == \h7A

ShiftLeft(low, bytes)  ==
  <<Z("ASL", low)>> \o [i \in 1 .. bytes - 1 |-> Z("ROL", low - i)]

\* to += from, of four bytes, the lowest at the cell given.
AddTo(to, from) ==
  <<I("CLC")>> \o FlattenSeq([i \in 1 .. 4 |->
    <<Z("LDA", to + 1 - i), Z("ADC", from + 1 - i), Z("STA", to + 1 - i)>>])

FetchFloat == Link(emu_fetch_float,
  <<N("LDA", 0), Z("STA", FAC1 + 1), Z("STA", FAC1 + 2),
    Label("loop"), J("JSR", fetch_character), I("SEC"), N("SBC", \h30),
    Go("BCC", "done"), N("CMP", 10), Go("BCS", "done"), I("PHA"),
    Z("LDA", FAC1 + 2), Ins("ASL", "Accumulator", 0), Z("STA", FAC1 + 3),
    Z("LDA", FAC1 + 1), Ins("ROL", "Accumulator", 0), Z("STA", FAC1 + 4)>>
  \o ShiftLeft(FAC1 + 2, 2) \o ShiftLeft(FAC1 + 2, 2) \o ShiftLeft(FAC1 + 2, 2)
  \o <<Z("LDA", FAC1 + 2), I("CLC"), Z("ADC", FAC1 + 3), Z("STA", FAC1 + 2),
       Z("LDA", FAC1 + 1), Z("ADC", FAC1 + 4), Z("STA", FAC1 + 1),
       I("PLA"), I("CLC"), Z("ADC", FAC1 + 2), Z("STA", FAC1 + 2),
       Go("BCC", "loop"), Z("INC", FAC1 + 1), Go("JMP", "loop"),
       Label("done"), J("JSR", unconsume_character),
       Z("LDX", FAC1 + 1), Z("LDA", FAC1 + 2), J("JSR", int16_to_fac1),
       J("JMP", FRMEVL_got_value_float)>>)

PopFac2 == Link(emu_pop_fac2,
  PopCells(<<FAC1 + 5, FAC2 + 5>>)
  \o <<I("PLA"), Go("BEQ", "float"), J("JMP", failed), Label("float")>>
  \o PopCells([i \in 1 .. 5 |-> FAC2 + 5 - i])
  \o PushCells(<<FAC2 + 5, FAC1 + 5>>) \o <<I("RTS")>>)

ToInt16 == Link(fac1_to_int16,
  <<N("LDX", 0), Skip, N("LDX", 8),
    ZX("LDA", FAC1), Go("BEQ", "zero"), N("CMP", \h90), Go("BCC", "small"),
    Go("BNE", "bad"), Label("small"),
    N("LDA", \hA0), I("SEC"), ZX("SBC", FAC1), I("TAY"), Label("shift"),
    ZX("LSR", FAC1 + 1), ZX("ROR", FAC1 + 2), ZX("ROR", FAC1 + 3), ZX("ROR", FAC1 + 4),
    Go("BCS", "bad"), I("DEY"), Go("BNE", "shift"),
    ZX("LDA", FAC1 + 1), ZX("ORA", FAC1 + 2), Go("BNE", "bad"),
    ZX("LDA", FAC1 + 4), I("PHA"), ZX("LDA", FAC1 + 3), I("TAX"), I("PLA"),
    I("CLC"), I("RTS"),
    Label("zero"), N("LDX", 0), I("TXA"), I("CLC"), I("RTS"),
    Label("bad"), I("SEC"), I("RTS")>>)

ToFac1 == Link(int16_to_fac1,
  <<Z("STX", FAC1 + 1), Z("STA", FAC1 + 2), N("LDA", 0)>>
  \o SetCells(<<FAC1 + 3, FAC1 + 4, FAC1 + 5>>)
  \o <<N("LDA", \h90), Z("STA", FAC1), Z("LDA", FAC1 + 1), Z("ORA", FAC1 + 2),
       Go("BNE", "norm"), Z("STA", FAC1), I("RTS"),
       Label("norm"), Z("LDA", FAC1 + 1), Go("BMI", "done")>>
  \o ShiftLeft(FAC1 + 4, 4)
  \o <<Z("DEC", FAC1), Go("BNE", "norm"), Label("done"), I("RTS")>>)

Plus == Link(oper_add,
  <<J("JSR", emu_pop_fac2), J("JSR", fac2_to_int16), Go("BCS", "bad"),
    Z("STX", FAC2 + 3), Z("STA", FAC2 + 4), J("JSR", fac1_to_int16), Go("BCS", "bad"),
    I("CLC"), Z("ADC", FAC2 + 4), I("PHA"), I("TXA"), Z("ADC", FAC2 + 3), I("TAX"),
    I("PLA"), J("JSR", int16_to_fac1), J("JMP", FRMEVL_continue),
    Label("bad"), J("JMP", failed)>>)

Times == Link(oper_mul,
  <<J("JSR", emu_pop_fac2), J("JSR", fac2_to_int16), Go("BCS", "bad"),
    Z("STX", FAC2 + 5), Z("STA", FAC1 + 5), J("JSR", fac1_to_int16), Go("BCS", "bad"),
    Z("STX", FAC2 + 3), Z("STA", FAC2 + 4), N("LDA", 0)>>
  \o SetCells(<<FAC2 + 1, FAC2 + 2, FAC1 + 1, FAC1 + 2, FAC1 + 3, FAC1 + 4>>)
  \o <<N("LDY", 16), Label("loop"), Z("LSR", FAC2 + 5), Z("ROR", FAC1 + 5),
       Go("BCC", "no_add")>>
  \o AddTo(FAC1 + 4, FAC2 + 4) \o <<Label("no_add")>> \o ShiftLeft(FAC2 + 4, 4)
  \o <<I("DEY"), Go("BNE", "loop"), Z("LDX", FAC1 + 3), Z("LDA", FAC1 + 4),
       J("JSR", int16_to_fac1), J("JMP", FRMEVL_continue),
       Label("bad"), J("JMP", failed)>>)

-----------------------------------------------------------------------------
(* Loops: cmd_for_next.s, and what it uses of emu6502_intmath.s.           *)

StoreVariable == Link(emu_store_fac1_var,
  <<N("LDY", 0), Label("1"), Ins("LDA", "AbsoluteY", FAC1),
    Ins("STA", "IndirectIndexed", VARPNT),
    I("INY"), N("CPY", 5), Go("BNE", "1"), I("RTS")>>)

LoadVariable == Link(emu_load_fac1_var,
  <<N("LDY", 0), Label("1"), Ins("LDA", "IndirectIndexed", VARPNT),
    Ins("STA", "AbsoluteY", FAC1),
    I("INY"), N("CPY", 5), Go("BNE", "1"), I("RTS")>>)

\* The expressions of FOR are literals here, so FRMEVL is emu_fetch_float.

\* From the top: step, limit, variable, $81, line, statement, text.
Frame ==
  PushCells(<<TXTPTR + 1, TXTPTR, OLDTXT + 1, OLDTXT, CURLIN + 1, CURLIN>>)
  \o <<N("LDA", \h81), I("PHA")>>
  \o PushCells(<<VARPNT + 1, VARPNT, FAC2 + 1, FAC2, FAC2 + 3, FAC2 + 2>>)

\* The frame above the return address.
PushFrame_OnTop == Link(emu_push_for_frame, Frame \o <<I("RTS")>>)
PushFrame == Link(emu_push_for_frame,
  PopCells(<<\hFD, \hFE>>) \o Frame \o PushCells(<<\hFE, \hFD>>) \o <<I("RTS")>>)

ForStatement == Link(cmd_for,
  PopCells(<<\hFB, \hFC>>)
  \o <<J("JSR", fetch_variable_name), Go("BCS", "error"), J("JSR", injest_assign)>>
  \o PushCells(<<VARNAM + 1, VARNAM>>) \o <<J("JSR", emu_fetch_float)>>
  \o PopCells(<<VARNAM, VARNAM + 1>>)
  \o <<J("JSR", fetch_variable_find_addr), J("JSR", emu_store_fac1_var),
       J("JSR", fetch_character), N("CMP", \hA4), Go("BNE", "error"),
       J("JSR", emu_fetch_float), J("JSR", fac1_to_int16), Go("BCS", "error"),
       Z("STA", FAC2), Z("STX", FAC2 + 1),
       N("LDA", 1), Z("STA", FAC2 + 2), N("LDA", 0), Z("STA", FAC2 + 3),
       J("JSR", emu_push_for_frame)>>
  \o PushCells(<<\hFC, \hFB>>) \o <<I("RTS"), Label("error"), J("JMP", failed)>>)

NextStatement == Link(cmd_next,
  <<J("JSR", is_end_of_statement), Go("BCS", "1"), J("JSR", fetch_variable_name),
    Label("1"), I("TSX"), Ins("LDA", "AbsoluteX", \h0109), N("CMP", \h81),
    Go("BNE", "error")>>
  \o PopCells(<<\hFB, \hFC, FAC2 + 2, FAC2 + 3, FAC2, FAC2 + 1, VARPNT, VARPNT + 1>>)
  \o <<I("PLA"), J("JSR", emu_load_fac1_var), J("JSR", fac1_to_int16),
       Go("BCS", "error"), Z("STA", \hFD), Z("STX", \hFE),
       Z("LDA", \hFD), I("CLC"), Z("ADC", FAC2 + 2), Z("STA", \hFD),
       Z("LDA", \hFE), Z("ADC", FAC2 + 3), Z("STA", \hFE),
       Z("LDX", \hFE), Z("LDA", \hFD), J("JSR", int16_to_fac1),
       J("JSR", emu_store_fac1_var),
       Z("LDA", FAC2), I("SEC"), Z("SBC", \hFD), Z("LDA", FAC2 + 1), Z("SBC", \hFE),
       Go("BCC", "done")>>
  \o PopCells(<<CURLIN, CURLIN + 1, OLDTXT, OLDTXT + 1, TXTPTR, TXTPTR + 1>>)
  \o <<J("JSR", emu_push_for_frame), Label("finish")>>
  \o PushCells(<<\hFC, \hFB>>) \o <<I("RTS"), Label("done")>>
  \o [i \in 1 .. 6 |-> I("PLA")]
  \o <<Go("JMP", "finish"), Label("error"), J("JMP", failed)>>)

-----------------------------------------------------------------------------
(* Around it, ours. *)

Reader ==
  Link(fetch_character,
       <<N("LDY", 0), Ins("LDA", "IndirectIndexed", TXTPTR),
         Z("INC", TXTPTR), Go("BNE", "1"), Z("INC", TXTPTR + 1), Label("1"), I("RTS")>>)
  @@ Link(unconsume_character,
       <<Z("LDA", TXTPTR), I("SEC"), N("SBC", 1), Z("STA", TXTPTR),
         Z("LDA", TXTPTR + 1), N("SBC", 0), Z("STA", TXTPTR + 1), I("RTS")>>)
  @@ Link(fetch_variable_name,
       <<J("JSR", fetch_character), Z("STA", VARNAM), I("CLC"), I("RTS")>>)
  @@ Link(fetch_variable_find_addr,
       <<Z("LDA", VARNAM), Z("STA", VARPNT), N("LDA", 7), Z("STA", VARPNT + 1), I("RTS")>>)
  @@ Link(injest_assign,
       <<J("JSR", fetch_character), N("CMP", \hB2), Go("BEQ", "1"), J("JMP", failed),
         Label("1"), I("RTS")>>)
  @@ Link(is_end_of_statement,
       <<J("JSR", fetch_character), N("CMP", 0), Go("BEQ", "1"),
         J("JSR", unconsume_character), I("CLC"), I("RTS"),
         Label("1"), J("JSR", unconsume_character), I("SEC"), I("RTS")>>)

\* What FRMEVL does with a literal, and what follows an operator: show FAC1.
Results ==
  Link(FRMEVL_got_value_float, <<N("LDA", 0), Z("STA", VALTYP), I("RTS")>>)
  @@ Link(FRMEVL_continue,
       <<J("JSR", fac1_to_int16), Z("STA", \h12), Z("STX", \h15),
         I("TSX"), Z("STX", \h13), I("BRK")>>)
  @@ Link(failed, <<N("LDA", 1), Z("STA", \h14), I("BRK")>>)

\* The loop over the statements; $99 counts in $12.
Interpreter ==
  Link(execute,
       <<Label("loop"), J("JSR", fetch_character),
         N("CMP", \h80), Go("BEQ", "end"), N("CMP", \h99), Go("BEQ", "count"),
         N("CMP", \h81), Go("BNE", "1"), J("JSR", cmd_for), Go("JMP", "loop"),
         Label("1"), N("CMP", \h82), Go("BNE", "loop"), J("JSR", cmd_next),
         Go("JMP", "loop"),
         Label("count"), Z("INC", \h12), Go("JMP", "loop"),
         Label("end"), I("TSX"), Z("STX", \h13), I("BRK")>>)

\* FRMEVL around an operator: the value is pushed with its type.
Operation(operator) ==
  Link(operation,
       <<J("JSR", emu_fetch_float), J("JSR", fetch_character)>>
       \o PushCells([i \in 1 .. 5 |-> FAC1 + i - 1])
       \o <<Z("LDX", VALTYP), I("TXA"), I("PHA"), J("JSR", emu_fetch_float),
            J("JMP", operator)>>)

BasicText == \h06FC      \* across a page

Basic(entry, text) ==
  At(Main, <<Start(\hFF), Abs("JMP", entry)>>)
  @@ At(BasicText, <<text>>) @@ Word16(TXTPTR, BasicText)
  @@ FetchFloat @@ PopFac2 @@ ToInt16 @@ ToFac1 @@ Plus @@ Times
  @@ StoreVariable @@ LoadVariable @@ PushFrame @@ ForStatement @@ NextStatement
  @@ Reader @@ Results
  @@ Expected(\h13, \hFF) @@ Expected(\h14, 0) @@ \h14 :> 0
  @@ BlinkHandler @@ Vectors(Main, Handler)

Decimal(n) ==
  LET d == CHOOSE k \in 1 .. 5 : n < 10 ^ k /\ (k = 1 \/ n >= 10 ^ (k - 1))
  IN  [i \in 1 .. d |-> \h30 + ((n \div 10 ^ (d - i)) % 10)]

\* A number as int16_to_fac1 leaves it.
Float(n) ==
  IF n = 0 THEN <<0, 0, 0, 0, 0>>
  ELSE LET b == CHOOSE k \in 1 .. 16 : n \in 2 ^ (k - 1) .. 2 ^ k - 1
           m == n * 2 ^ (16 - b)
       IN  <<128 + b, High(m), Low(m), 0, 0>>

\* FOR A = i TO j : FOR Q = k TO l : count : NEXT Q : NEXT.  A loop is run
\* once before its limit is looked at.
ForNextProgram(i, j, k, l) ==
  LET Statement(v, x, y) ==
        <<\h81, v, \hB2>> \o Decimal(x) \o <<\hA4>> \o Decimal(y) \o <<0>>
      Turns(x, y) == IF x > y THEN 1 ELSE y - x + 1
      Variable(v, n) == [a \in \h8700 + v .. \h8704 + v |-> Float(n)[a - \h86FF - v]]
  IN  Basic(execute, Statement(\h41, i, j) \o Statement(\h51, k, l)
                     \o <<\h99, 0, \h82, \h51, 0, \h82, 0, \h80>>)
      @@ Interpreter
      @@ Expected(\h12, Turns(i, j) * Turns(k, l))
      @@ Variable(\h41, i + Turns(i, j)) @@ Variable(\h51, k + Turns(k, l))

\* The sum or the product of two literals, modulo 2^16.
ArithmeticProgram(operator, a, b) ==
  LET result == U16(IF operator = oper_add THEN a + b ELSE a * b)
  IN  Basic(operation, Decimal(a) \o <<43>> \o Decimal(b) \o <<0>>)
      @@ Operation(operator)
      @@ Expected(\h12, Low(result)) @@ Expected(\h15, High(result))

\* Of a number in FAC1 the integer, or the carry if it is none of 16 bits.
ConversionProgram(fac, integral, n) ==
  Basic(operation, <<>>)
  @@ Link(operation,
       <<J("JSR", fac1_to_int16), Z("STA", \h12), Z("STX", \h15), N("LDA", 0),
         Ins("ROL", "Accumulator", 0), Z("STA", \h16), I("TSX"), Z("STX", \h13), I("BRK")>>)
  @@ [a \in FAC1 .. FAC1 + 4 |-> fac[a - FAC1 + 1]]
  @@ Expected(\h16, IF integral THEN 0 ELSE 1)
  @@ (IF integral THEN Expected(\h12, Low(n)) @@ Expected(\h15, High(n)) ELSE <<>>)

(***************************************************************************)
(* The BASIC of the port counts right: nested loops run as often as their  *)
(* limits say and leave their variables one past them, sums and products   *)
(* of literals are right modulo 2^16, a number that is no integer of 16    *)
(* bits is refused - and the stack is as it was.                           *)
(***************************************************************************)
BasicCounts ==
  halted /\ cmd_for \in DOMAIN data =>
    \A a \in DOMAIN data \cap (\h8000 .. \h8FFF) : Cell(a - \h8000) = data[a]
=============================================================================
