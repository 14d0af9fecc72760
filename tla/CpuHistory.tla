----------------------------- MODULE CpuHistory -----------------------------
(***************************************************************************)
(* The processor with a history of the calls and interrupts that have not  *)
(* returned, and what the guest may rely on across them.                   *)
(***************************************************************************)
EXTENDS Cpu

VARIABLE frames          \* what each JSR and each interrupt left behind

varsH == <<vars, frames>>

Top == frames[Len(frames)]

CallFrame ==
  [kind |-> "call", pc |-> FetchOperand.next, registers |-> Registers, P |-> P]
IrqFrame ==
  [kind |-> "irq", pc |-> RegisterPC, registers |-> Registers, P |-> P]

Popped == IF frames = <<>> THEN <<>> ELSE SubSeq(frames, 1, Len(frames) - 1)

\* The next call of step() executes an instruction of this operation.
About(op) == ~halted /\ ~Interrupted /\ Instr.op = op

\* PLA takes the return address of the innermost call off the stack, for the
\* program's own use: there will be no return.
GivenUp ==
  /\ About("PLA")
  /\ frames # <<>>
  /\ Top.kind = "call"
  /\ Registers["S"] = U8(Top.registers["S"] - 2)

InitH == Init /\ frames = <<>>

StepH ==
  /\ Step
  /\ frames' = IF Interrupted THEN Append(frames, IrqFrame)
               ELSE IF About("JSR") THEN Append(frames, CallFrame)
               ELSE IF About("RTS") \/ About("RTI") \/ GivenUp THEN Popped
               ELSE frames

NextH == StepH \/ (Stdin /\ UNCHANGED frames)

SpecH == InitH /\ [][NextH]_varsH /\ WF_varsH(StepH)

-----------------------------------------------------------------------------
(* What a program has to do for its part. *)

\* The cells with the way back from a call or an interrupt.
Size(f) == IF f.kind = "call" THEN 2 ELSE 3

Occupied(f) == { StackAt(f.registers["S"] - k) : k \in 0 .. Size(f) - 1 }

Held == UNION { Occupied(frames[i]) : i \in DOMAIN frames }

\* n bytes can be pushed.
Room(n) == { StackAt(Registers["S"] - k) : k \in 0 .. n - 1 } \cap Held = {}

\* The stack is where the innermost frame, of this kind, has left it.
Balanced(kind) ==
  /\ frames # <<>>
  /\ Top.kind = kind
  /\ Registers["S"] = U8(Top.registers["S"] - Size(Top))

Handling == \E i \in DOMAIN frames : frames[i].kind = "irq"

(***************************************************************************)
(* A handler does not let the next interrupt in before it returns.         *)
(***************************************************************************)
MaskIsKept ==
  ~halted /\ ~Interrupted /\ Handling =>
    /\ Instr.op # "CLI"
    /\ Instr.op = "PLP" => "I" \in UnpackFlags(Pop(1))
    /\ Instr.op = "RTI" => Top.kind = "irq"

(***************************************************************************)
(* The program keeps its stack in order: there is room for what the next   *)
(* call of step() pushes, no store hits a way back, a return finds the     *)
(* stack where the call or the interrupt has left it, and a handler brings *)
(* A, X and Y back.  Nothing is said of what the bytes on the stack are.   *)
(***************************************************************************)
StackIsKept ==
  /\ MaskIsKept
  /\ ~halted /\ Interrupted => Room(3)
  /\ ~halted /\ ~Interrupted =>
       /\ Instr.op \in {"PHA", "PHP"} => Room(1)
       /\ Instr.op = "JSR" => Room(2)
       /\ Instr.op \in Storing => FetchOperand.value \notin Held
       /\ Instr.op = "RTS" => Balanced("call")
       /\ Instr.op = "RTI" =>
            /\ Balanced("irq")
            /\ \A r \in {"A", "X", "Y"} : Registers[r] = Top.registers[r]

-----------------------------------------------------------------------------
(***************************************************************************)
(* A program that keeps its stack in order returns where it called from:   *)
(* every RTS ends the innermost call, at the instruction after its JSR and *)
(* with the stack pointer of before it, across page wrap, recursion and    *)
(* interrupts at any instruction.                                          *)
(***************************************************************************)
CallsReturn ==
  [][Step /\ About("RTS") =>
       /\ frames # <<>>
       /\ Top.kind = "call"
       /\ RegisterPC' = Top.pc
       /\ Registers'["S"] = Top.registers["S"]]_varsH

(***************************************************************************)
(* An interrupt is invisible to the code it interrupts: when the handler,  *)
(* which saves A and X, executes RTI, the PC, every register and every     *)
(* flag but B are what they were when step() called HandleIrq.             *)
(***************************************************************************)
InterruptsAreTransparent ==
  [][Step /\ About("RTI") =>
       /\ frames # <<>>
       /\ Top.kind = "irq"
       /\ RegisterPC' = Top.pc
       /\ Registers' = Top.registers
       /\ P' \ {"B"} = Top.P \ {"B"}]_varsH

(***************************************************************************)
(* A handler that leaves I alone is not itself interrupted, however short  *)
(* the interval: the I set on entry holds until RTI restores the old one.  *)
(***************************************************************************)
NoNestedInterrupts ==
  \A i, j \in DOMAIN frames :
    frames[i].kind = "irq" /\ frames[j].kind = "irq" => i = j
=============================================================================
