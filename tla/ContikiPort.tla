----------------------------- MODULE ContikiPort -----------------------------
(***************************************************************************)
(* What the Contiki port puts in place of the C64's KERNAL: the interrupt  *)
(* handler that keeps the clock, the call that reads it, and character     *)
(* output and input.  The stubs are machine code of the image that         *)
(* build_emu6502.sh writes; the programs that call them are ours.          *)
(***************************************************************************)
EXTENDS Cpu, Programs
LOCAL INSTANCE SequencesExt

JiffyIrq == \hFF00
RDTIM    == \hFFDE
CHROUT   == \hFFD2
CHRIN    == \hFFCF
Rdtim    == \hF226
Chrout   == \hF200
Chrin    == \hFFEB
Turn     == \hFF0B       \* the counter of CHRIN

-----------------------------------------------------------------------------
(* The stubs. *)

JiffyHandler ==
  At(JiffyIrq, << Zp("INC", \hA2), Rel("BNE", 6), Zp("INC", \hA1),
                  Rel("BNE", 2), Zp("INC", \hA0), One("RTI") >>)

ReadClock_NoSei ==
  At(RDTIM, <<Abs("JMP", Rdtim)>>)
  @@ At(Rdtim, << One("NOP"), Zp("LDA", \hA2), Zp("LDX", \hA1), Zp("LDY", \hA0),
                  One("CLI"), One("RTS") >>)
ReadClock ==
  At(RDTIM, <<Abs("JMP", Rdtim)>>)
  @@ At(Rdtim, << One("SEI"), Zp("LDA", \hA2), Zp("LDX", \hA1), Zp("LDY", \hA0),
                  One("CLI"), One("RTS") >>)

\* From PETSCII to ASCII: two codes are dropped, letters change places.
PrintCharacter ==
  At(CHROUT, <<Abs("JMP", Chrout)>>)
  @@ At(Chrout,
        << One("PHA"),
           Imm("CMP", \h0E), Rel("BEQ", 31), Imm("CMP", \h8E), Rel("BEQ", 27),
           Imm("CMP", \h41), Rel("BCC", 20), Imm("CMP", \h5B), Rel("BCC", 13),
           Imm("CMP", \hC1), Rel("BCC", 12), Imm("CMP", \hDB), Rel("BCS", 8),
           One("SEC"), Imm("SBC", \h80), Rel("BNE", 3),
           One("CLC"), Imm("ADC", \h20),
           Abs("STA", DataAddress), One("PLA"), One("RTS") >>)

ReadCharacter ==
  At(CHRIN, <<Abs("JMP", Chrin)>>)
  @@ At(Chrin, << Abs("LDA", Turn), Rel("BEQ", 5), Abs("DEC", Turn),
                  Imm("LDA", \h20), One("RTS"), Imm("LDA", \h0D), One("RTS") >>)
  @@ Turn :> 1

-----------------------------------------------------------------------------
(* Programs over the stubs. *)

\* Reads the clock, which starts at some value, after so many instructions.
ClockProgram(start, delay) ==
  At(Main, << Start(\hFF) >> \o [i \in 1 .. delay |-> One("NOP")]
           \o << Abs("JSR", RDTIM), Zp("STA", \h12), One("BRK") >>)
  @@ \hA2 :> start % 256 @@ \hA1 :> (start \div 256) % 256
  @@ \hA0 :> start \div 65536
  @@ ReadClock @@ JiffyHandler @@ Vectors(Main, JiffyIrq)

Ascii(c) ==
  IF c \in {\h0E, \h8E} THEN <<>>
  ELSE IF c \in \h41 .. \h5A THEN <<c + 32>>
  ELSE IF c \in \hC1 .. \hDA THEN <<c - 128>> ELSE <<c>>

\* Prints the characters of a string, the last one first, comparing A after
\* each call: Y counts down to 0 only if every A came back.
PrintProgram(text) ==
  At(Main, << Start(\hFF), Imm("LDY", Len(text)),
              AbsY("LDA", Routine - 1), Abs("JSR", CHROUT),
              AbsY("CMP", Routine - 1), Rel("BNE", 3),
              One("DEY"), Rel("BNE", -14), Zp("STY", \h12), One("BRK") >>)
  @@ [a \in Routine .. Routine + Len(text) - 1 |-> text[a - Routine + 1]]
  @@ Expected(\h12, 0)
  @@ Printed(FlattenSeq([i \in 1 .. Len(text) |-> Ascii(text[Len(text) + 1 - i])]))
  @@ PrintCharacter @@ JiffyHandler @@ Vectors(Main, JiffyIrq)

\* Calls CHRIN twice: a space, then 0, since the branch for the second call
\* goes to the RTS before the load of the newline.
ReadProgram ==
  At(Main, << Start(\hFF), Abs("JSR", CHRIN), Zp("STA", \h12),
              Abs("JSR", CHRIN), Zp("STA", \h13), One("BRK") >>)
  @@ Expected(\h12, \h20) @@ Expected(\h13, 0)
  @@ ReadCharacter @@ JiffyHandler @@ Vectors(Main, JiffyIrq)

-----------------------------------------------------------------------------
(* The clock, and what it is while a carry is still to be added. *)

ClockModulus == 256 * 65536

Jiffies == Cell(\hA2) + 256 * Cell(\hA1) + 65536 * Cell(\hA0)

CarryToCome ==
  CASE RegisterPC = JiffyIrq + 2 /\ "Z" \in P -> 256
    [] RegisterPC = JiffyIrq + 4 -> 256
    [] RegisterPC = JiffyIrq + 6 /\ "Z" \in P -> 65536
    [] RegisterPC = JiffyIrq + 8 -> 65536
    [] OTHER -> 0

\* RDTIM has loaded its three registers and is to unmask interrupts.
Reading ==
  IF RegisterPC # Rdtim + 7 THEN ClockModulus
  ELSE Registers["A"] + 256 * Registers["X"] + 65536 * Registers["Y"]

(***************************************************************************)
(* The handler at $FF00 and RDTIM keep the promise of GuestClock: with     *)
(* interrupts at any instruction, carries through all three bytes and a    *)
(* reading at any moment, no interrupt is counted twice or not at all and  *)
(* no reading mixes bytes of two counts.                                   *)
(***************************************************************************)
Clock == INSTANCE GuestClock WITH
           Modulus  <- ClockModulus,
           NoAnswer <- ClockModulus,
           time     <- (Jiffies + CarryToCome) % ClockModulus,
           due      <- RegisterPC = JiffyIrq /\ ~halted,
           answer   <- Reading

ImplementsClock == Clock!ClockSpec
=============================================================================
