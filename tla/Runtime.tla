------------------------------- MODULE Runtime -------------------------------
(***************************************************************************)
(* What src/link puts under a C program on this machine: the start-up code *)
(* of cc65 and of llvm-mos and the call write(), as machine code run by    *)
(* the processor of module Cpu.                                            *)
(***************************************************************************)
EXTENDS Cpu, Programs

\* Of zeropage.inc: the pointer of the C stack, and scratch.
StackPtr == \h00
Ptr1     == \h08
Ptr2     == \h0A

WriteCode == \h0300
Arguments == \h0380      \* buf, fd and count, as _write finds them

\* write of write.c, what both platforms promise to a C program.
write(fd, buf, count) ==
  IF fd # 1 THEN [bytes |-> <<>>, result |-> \hFFFF]
  ELSE [bytes |-> [i \in 1 .. count |-> Cell(U16(buf + i - 1))], result |-> count]

-----------------------------------------------------------------------------
(* _write of uart.s. *)

Parameter(i, to) == Imm("LDY", i + 1) \o IndY("LDA", StackPtr) \o Zp("STA", to + 1)
                    \o One("DEY") \o IndY("LDA", StackPtr) \o Zp("STA", to)

\* fd must be 1; the branches go to WriteReturn's last three instructions.
WriteHead ==
  << Imm("LDY", 3), IndY("LDA", StackPtr), Rel("BNE", 76),
     One("DEY"), IndY("LDA", StackPtr), Imm("CMP", 1), Rel("BNE", 69),
     Parameter(0, Ptr1), Parameter(4, Ptr2),
     Zp("LDA", Ptr2 + 1), Rel("BNE", 7), Zp("LDA", Ptr2), Rel("BNE", 3),
     Abs("JMP", WriteCode + 75) >>

WriteLoop_OnePage ==
  << Imm("LDY", 0), IndY("LDA", Ptr1), Abs("STA", DataAddress),
     Zp("INC", Ptr1), Rel("BNE", 2), Zp("LDA", Ptr1 + 1),
     Zp("LDA", Ptr2), Rel("BNE", 2), Zp("DEC", Ptr2 + 1), Zp("DEC", Ptr2),
     Zp("LDA", Ptr2 + 1), Rel("BNE", -23), Zp("LDA", Ptr2), Rel("BNE", -27) >>
WriteLoop ==
  << Imm("LDY", 0), IndY("LDA", Ptr1), Abs("STA", DataAddress),
     Zp("INC", Ptr1), Rel("BNE", 2), Zp("INC", Ptr1 + 1),
     Zp("LDA", Ptr2), Rel("BNE", 2), Zp("DEC", Ptr2 + 1), Zp("DEC", Ptr2),
     Zp("LDA", Ptr2 + 1), Rel("BNE", -23), Zp("LDA", Ptr2), Rel("BNE", -27) >>

WriteReturn ==
  << Imm("LDY", 5), One("TAX"), One("DEY"), IndY("LDA", StackPtr), One("RTS"),
     Imm("LDX", \hFF), Imm("LDA", \hFF), One("RTS") >>

_write == At(WriteCode, WriteHead \o WriteLoop \o WriteReturn)

\* The text a C program writes, across a page.
Text == \h06FE

Call(fd, count) ==
  _write @@ Word16(Arguments, Text) @@ Word16(Arguments + 2, fd)
  @@ Word16(Arguments + 4, count)
  @@ [a \in Text .. Text + count - 1 |-> U8(a + 7)]

\* A caller with interrupts on, whose C stack is the arguments: they stay.
WriteCall(fd, count, s) ==
  At(Main, << Start(s), Abs("JSR", WriteCode), Zp("STA", \h12), Zp("STX", \h13),
              One("BRK") >>)
  @@ Word16(StackPtr, Arguments) @@ Call(fd, count)
  @@ [a \in {\h8000 + b : b \in {StackPtr, StackPtr + 1}
                                 \cup (Arguments .. Arguments + 5)} |->
        (Word16(StackPtr, Arguments) @@ Call(fd, count))[a - \h8000]]
  @@ BlinkHandler @@ Vectors(Main, Handler)

\* startup of cc65's crt0.s; its library routines return at once.
Startup(zerobss, initlib, callmain, donelib) ==
  << One("CLD"), Imm("LDX", \hFF), One("TXS"), Imm("LDA", \hFF),
     Zp("STA", StackPtr), Zp("STA", StackPtr + 1), Abs("JSR", zerobss),
     Abs("JSR", initlib), Abs("JSR", callmain), Abs("JSR", donelib), One("BRK") >>

\* A main that pushes the arguments, calls _write and pops them.  The C stack
\* begins at $FFFF and so covers the interrupt vector.
Cc65Program(fd, count) ==
  At(Main, Startup(Routine + 40, Routine + 40, Routine, Routine + 40))
  @@ At(Routine, << One("SEC"), Zp("LDA", StackPtr), Imm("SBC", 6),
                    Zp("STA", StackPtr), Imm("LDY", 5),
                    AbsY("LDA", Arguments), IndY("STA", StackPtr), One("DEY"),
                    Rel("BPL", -8), Abs("JSR", WriteCode),
                    Zp("STA", \h12), Zp("STX", \h13),
                    Imm("LDA", \hFF), Zp("STA", StackPtr), One("RTS") >>)
  @@ At(Routine + 40, <<One("RTS")>>)
  @@ Call(fd, count) @@ Vectors(Main, 0)

(***************************************************************************)
(* write() reaches the terminal: at the end of the program exactly the     *)
(* buffer has been printed, in order and across pages, and for fewer than  *)
(* 256 bytes A/X is their number; a file that is not 1 gets $FFFF and      *)
(* prints nothing.                                                         *)
(***************************************************************************)
WriteIsFaithful ==
  halted /\ WriteCode \in DOMAIN data =>
    LET count    == Vector(Arguments + 4)
        promised == write(Vector(Arguments + 2), Vector(Arguments), count)
    IN  /\ output = promised.bytes
        /\ count < 256 => Vector(\h12) = promised.result

(***************************************************************************)
(* "A/X = the number of bytes written, or $FFFF", for any number.          *)
(***************************************************************************)
CountIsReturned ==
  halted => Vector(\h12) = write(Vector(Arguments + 2), Vector(Arguments),
                                 Vector(Arguments + 4)).result

-----------------------------------------------------------------------------
(* crt0.S of llvm-mos. *)

Bss  == \h0600           \* __bss_start
Exit == \h02F0           \* _Exit

InitStack(stack) ==
  << Imm("LDX", Low(stack)), One("TXS"), Imm("LDA", Low(stack)), Zp("STA", \h00),
     Imm("LDA", High(stack)), Zp("STA", \h01) >>

ZeroBss(size) ==
  << Imm("LDA", 0), One("TAY"), Imm("LDX", High(size)), Rel("BEQ", 14),
     AbsY("STA", Bss), One("INY"), Rel("BNE", -6),
     Abs("INC", Bss + 1), One("DEX"), Rel("BNE", -12), Imm("LDY", 0),
     Imm("LDX", Low(size)), Rel("BEQ", 7),
     AbsY("STA", Bss), One("INY"), One("DEX"), Rel("BNE", -7) >>

\* A program with so much BSS, where the image has other bytes, and with a
\* handler for interrupts, which may come before S is set.
MosProgram(size, filler) ==
  At(Main, InitStack(\hD000) \o ZeroBss(size)
           \o << Abs("JSR", Routine), Abs("JMP", Exit) >>)
  @@ At(Routine, << Imm("LDA", 1), Zp("STA", \h12), One("RTS") >>)
  @@ At(Exit, << One("BRK") >>)
  @@ [a \in Bss - 1 .. Bss + size |-> filler]
  @@ [a \in \h8000 + Bss - 1 .. \h8000 + Bss + size |->
        IF a - \h8000 \in Bss .. Bss + size - 1 THEN 0 ELSE filler]
  @@ Expected(\h12, 1) @@ BlinkHandler @@ Vectors(Main, Handler)
=============================================================================
