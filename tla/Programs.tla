------------------------------ MODULE Programs ------------------------------
(***************************************************************************)
(* A small assembler for the guest programs the model-checking modules     *)
(* load, and the programs themselves.                                      *)
(***************************************************************************)
EXTENDS Decoder, TLC
LOCAL INSTANCE SequencesExt

\* An instruction and its operand, as bytes.
Asm(op, mode, a) ==
  <<Encoding[mode][op]>>
  \o (CASE mode \in {"Implied", "Accumulator"} -> <<>>
        [] mode \in {"Absolute", "AbsoluteX", "AbsoluteY", "Indirect"} ->
             <<Low(a), High(a)>>
        [] OTHER -> <<Low(a)>>)

One(op)     == Asm(op, "Implied", 0)
Acc(op)     == Asm(op, "Accumulator", 0)
Imm(op, v)  == Asm(op, "Immediate", v)
Zp(op, a)   == Asm(op, "ZeroPage", a)
AbsY(op, a) == Asm(op, "AbsoluteY", a)
IndY(op, a) == Asm(op, "IndirectIndexed", a)
Abs(op, a)  == Asm(op, "Absolute", a)
Rel(op, d)  == Asm(op, "Relative", d)

\* Machine code, as the cells from an address on.
At(base, code) ==
  LET bytes == FlattenSeq(code)
  IN  [a \in base .. base + Len(bytes) - 1 |-> bytes[a - base + 1]]

Word16(address, w) == address :> Low(w) @@ (address + 1) :> High(w)

Vectors(reset, handler) == Word16(\hFFFC, reset) @@ Word16(\hFFFE, handler)

\* What a program is to leave in a cell, kept $8000 above the cell.
Expected(address, b) == (\h8000 + address) :> b

\* What it is to print, the length first.
Printed(bytes) ==
  \h9000 :> Len(bytes)
  @@ [a \in \h9001 .. \h9000 + Len(bytes) |-> bytes[a - \h9000]]

-----------------------------------------------------------------------------
Main    == \h0200
Routine == \h0240
Handler == \h0280

\* An interrupt handler that saves what it uses and blinks $20: twelve
\* instructions, thirteen calls of step() with its entry.
BlinkHandler ==
  At(Handler, << One("PHA"), One("TXA"), One("PHA"),
                 Zp("LDA", \h20), Imm("EOR", \h80), Zp("STA", \h20),
                 Imm("LDX", \h7F), Imm("CMP", \hFF),
                 One("PLA"), One("TAX"), One("PLA"), One("RTI") >>)

Start(s) == Imm("LDX", s) \o One("TXS") \o One("CLI")

\* $10 * $11 by shift and add, as a subroutine; the product ends in $12,$10.
Multiply(a, b, s) ==
  At(Main, << Start(s), Abs("JSR", Routine), Zp("STA", \h12), One("BRK") >>)
  @@ At(Routine, << Imm("LDA", 0), Imm("LDX", 8), Zp("LSR", \h10),
                    Rel("BCC", 3), One("CLC"), Zp("ADC", \h11),
                    Acc("ROR"), Zp("ROR", \h10), One("DEX"), Rel("BNE", -11),
                    One("RTS") >>)
  @@ \h10 :> a @@ \h11 :> b
  @@ Expected(\h10, Low(a * b)) @@ Expected(\h12, High(a * b))
  @@ BlinkHandler @@ Vectors(Main, Handler)

\* The sum 1 + .. + n by recursion: each level keeps n on the stack.
SumTo(n, s) ==
  At(Main, << Start(s), Imm("LDA", n), Abs("JSR", Routine), Zp("STA", \h12),
              One("BRK") >>)
  @@ At(Routine, << Imm("CMP", 0), Rel("BEQ", 13), One("PHA"), One("TAX"),
                    One("DEX"), One("TXA"), Abs("JSR", Routine),
                    Zp("STA", \h13), One("PLA"), One("CLC"), Zp("ADC", \h13),
                    One("RTS") >>)
  @@ Expected(\h12, (n * (n + 1)) \div 2)
  @@ BlinkHandler @@ Vectors(Main, Handler)

\* Copies n bytes through the pointers at $FF,$00 and $16,$17, whose targets
\* cross a page.
Copy(n, s) ==
  At(Main, << Start(s), Imm("LDY", n),
              One("DEY"), IndY("LDA", \hFF), IndY("STA", \h16),
              One("TYA"), Rel("BNE", -8), One("BRK") >>)
  @@ [a \in \h03FE .. \h03FE + n - 1 |-> U8(a * 3)]
  @@ [a \in \h85FD .. \h85FD + n - 1 |-> U8((a - \h85FD + \h03FE) * 3)]
  @@ \hFF :> \hFE @@ \h00 :> \h03 @@ Word16(\h16, \h05FD)
  @@ BlinkHandler @@ Vectors(Main, Handler)

-----------------------------------------------------------------------------
\* Reads characters by spinning on the status register and echoes them.
PollingEcho ==
  At(Main, << One("SEI"), Abs("LDA", \hF000), Rel("BEQ", -5),
              Abs("LDA", \hF001), Abs("STA", \hF001), Abs("JMP", Main + 1) >>)
  @@ Vectors(Main, Handler)

\* Idles; the timer's handler drains the receiver.
InterruptEcho ==
  At(Main, << Start(\hFF), Abs("JMP", Main + 4) >>)
  @@ At(Handler, << Abs("LDA", \hF000), Rel("BEQ", 9),
                    Abs("LDA", \hF001), Abs("STA", \hF001),
                    Abs("JMP", Handler), One("RTI") >>)
  @@ Vectors(Main, Handler)

\* The addresses of the two STA $F001.
EchoStore    == Main + 9
HandlerStore == Handler + 8
=============================================================================
