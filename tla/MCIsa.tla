------------------------------- MODULE MCIsa -------------------------------
(***************************************************************************)
(* Every opcode byte with three operands, at the ends of the stack and of  *)
(* page zero, on the UART's registers and with the timer off and on.  The  *)
(* cells after the probed instruction are 0, so BRK ends each program.     *)
(* And, as longer programs, the BASIC of the Open ROMs.                    *)
(***************************************************************************)
EXTENDS BasicPort

MCScript == <<65>>

MCIrqIntervals == {0, 7, 31}

\* $FE,X and $FF,X wrap to the pointer at $00, which is the data register.
Probe(opcode, operand) ==
  At(Main, << Imm("LDX", 0), One("TXS"), Imm("LDX", 2), Imm("LDY", 3),
              Imm("LDA", \hC1), <<opcode>>, operand >>)
  @@ Word16(0, \hF001) @@ Word16(\hFE, \hFFFE)
  @@ Vectors(Main, Handler)

Operands == {<<\hFE, \h00>>, <<\h01, \hF0>>, <<\hFE, \hFF>>}

MCBasic ==
  {ForNextProgram(65533, 65534, 255, 256), ForNextProgram(5, 4, 7, 6)}
  \cup {ArithmeticProgram(oper_add, 40000, b) : b \in {7, 25536}}
  \cup {ArithmeticProgram(oper_mul, 300, 257)}
  \cup {ConversionProgram(Float(n), TRUE, n) : n \in {0, 1, 65535}}
  \cup {ConversionProgram(fac, FALSE, 0) :
          fac \in {<<\h80, \h80, 0, 0, 0>>, <<\h82, \hC9, \h0F, \hDA, \hA2>>,
                  <<\h91, \h80, 0, 0, 0>>}}

MCImages == {Probe(b, operand) : b \in Byte, operand \in Operands} \cup MCBasic

\* BASIC with an interval longer than its interrupt handler.
InitIsa == Init /\ (IrqInterval = 31 <=> cmd_for \in DOMAIN data)

SpecIsa == InitIsa /\ [][Next]_vars
=============================================================================
