------------------------------- MODULE MCIrq -------------------------------
(***************************************************************************)
(* Guest programs under timer interrupts: computations whose results are   *)
(* known, run with no timer and with intervals shorter than, equal to and  *)
(* longer than the handler, on stacks that wrap and that do not.           *)
(***************************************************************************)
EXTENDS CpuHistory, Runtime, ContikiPort, CmosPort

MCScript == <<>>

MCIrqIntervals == {0, 1, 13, 14, 17}

Stacks == {\hFF, \h04}

\* One line of each kind that is translated, on two states of the machine.
MCLines ==
  {Bare(op) : op \in {"PHX", "PHY", "PLX", "PLY"}}
  \cup {Line(op, "ZeroPage", Operands) : op \in {"STZ", "TRB", "TSB"}}
  \cup {Line(op, "Accumulator", 0) : op \in {"INC", "DEC"}}
  \cup {Line(op, "Indirect", Pointer) : op \in {"LDA", "STA", "ADC", "CMP"}}
  \cup {Value("BIT", \h24), Line("BIT", "ZeroPageX", Operands - 2),
        Line("JMP", "IndexedIndirect", JumpTable)}

MCStates ==
  { [A |-> \h5A, X |-> 2, Y |-> \h81, P |-> {}, pushed |-> <<9, \hC0>>,
     cell |-> \hA5],
    [A |-> \hFF, X |-> 2, Y |-> 0, P |-> {"N", "V", "Z", "C"},
     pushed |-> <<9, 0>>, cell |-> \h37] }

MCImages ==
  {Multiply(a, b, s) : a \in {13, 255}, b \in {255}, s \in Stacks}
  \cup {SumTo(n, s) : n \in {0, 4}, s \in Stacks}
  \cup {Copy(n, s) : n \in {1, 7}, s \in Stacks}
  \cup {WriteCall(1, count, s) : count \in {0, 3}, s \in Stacks}
  \cup {WriteCall(fd, 2, \hFF) : fd \in {0, 257}}
  \cup {MosProgram(size, 238) : size \in {0, 1, 5}}
  \cup {ClockProgram(c, d) : c \in {\h0000FE, \h00FFFE, \hFFFFFE}, d \in 0 .. 13}
  \cup {PrintProgram(<<\h0E, \h8E, \h40, \h41, \h5A, \h5B,
                      \hC0, \hC1, \hDA, \hDB>>), ReadProgram}
  \cup {CmosProgram(l, \h01, m, live) : l \in MCLines, m \in MCStates,
                                        live \in BOOLEAN}
  \cup {ErrorProgram(called, n) : called \in BOOLEAN, n \in {\h02FF, \h0300}}

\* A clock that is interrupted at every call goes through its 2^24 counts
\* and the program never gets on.
Finite == IrqInterval = 1 => JiffyIrq \notin DOMAIN data

\* One interrupt per instruction is what a translated line is run with.
CmosInterval == JumpTable + 2 \in DOMAIN data => IrqInterval \in {0, 14}

InitIrq == InitH /\ Finite /\ CmosInterval

SpecIrq == InitIrq /\ [][NextH]_varsH /\ WF_varsH(StepH)

(***************************************************************************)
(* A program that halts has computed its result and printed its text, with *)
(* interrupts at every phase of the timer as without them.                 *)
(***************************************************************************)
ResultsAreRight ==
  halted =>
    /\ \A a \in DOMAIN data \cap (\h8000 .. \h8FFF) : Cell(a - \h8000) = data[a]
    /\ \h9000 \in DOMAIN data =>
         output = [i \in 1 .. data[\h9000] |-> data[\h9000 + i]]

(***************************************************************************)
(* A pulled line is served: once the interrupts that are masked by an      *)
(* earlier one have returned, the handler is entered and the line released *)
(* - unless the program ends first.  Only that step() keeps being called   *)
(* is assumed.                                                             *)
(***************************************************************************)
IrqIsServed == IrqLine ~> (~IrqLine \/ halted)

(***************************************************************************)
(* The program ends when the timer leaves it an instruction between        *)
(* interrupts: the interval must exceed the thirteen calls of step() that   *)
(* the handler takes with its entry.                                       *)
(***************************************************************************)
MakesProgress == (IrqInterval = 0 \/ IrqInterval > 13) ~> halted
=============================================================================
