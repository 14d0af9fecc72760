-------------------------------- MODULE Cpu --------------------------------
(***************************************************************************)
(* class CentralProcessingUnit in the loop of main: one step of the        *)
(* specification is one call of step(), which either enters the interrupt  *)
(* sequence or executes one instruction.  Instructions that share their    *)
(* shape share an action.  The guest program is the image in memory: every *)
(* run of every program over the interface of step() is a behaviour.       *)
(***************************************************************************)
EXTENDS Alu, Decoder, Memory

CONSTANTS
  Images,                \* the programs: functions from addresses to bytes
  IrqIntervals           \* the values of IRQ_INTERVAL; 0 when it is not set

ASSUME ImagesAssumption ==
  \A image \in Images : DOMAIN image \subseteq Word
                        /\ image \in [DOMAIN image -> Byte]
ASSUME IrqIntervalsAssumption == IrqIntervals \subseteq Nat

VARIABLES
  Registers,             \* A, X, Y and S
  P,                     \* Registers[P], as the set of the flags that are 1
  RegisterPC,
  halted,
  IrqLine, IrqCounter, IrqInterval

irq  == <<IrqLine, IrqCounter, IrqInterval>>
core == <<Registers, P, RegisterPC, halted>>
vars == <<core, irq, memoryVars>>

RegisterIndex == {"A", "X", "Y", "S"}

StackBase == 256         \* CONFIG_STACK_BASE
ResetPC   == 65532       \* CONFIG_RESET_PC
IrqVector == 65534

Carry == IF "C" \in P THEN 1 ELSE 0

\* The little-endian word at an address, read outside the UART.
Vector(address) == Make16(Cell(address), Cell(U16(address + 1)))

-----------------------------------------------------------------------------
(* Fetching and addressing.  Each operator is an expression over the       *)
(* current state; .bus is the cursor after the reads made so far.          *)

\* Decoder.decode(Memory.read(RegisterPC))
Instr == Decode(Read(RegisterPC, Idle))

\* The operand bytes that follow the opcode.
OperandByte ==
  LET c == After(RegisterPC, Idle)
      a == U16(RegisterPC + 1)
  IN  [value |-> Read(a, c), bus |-> After(a, c)]

OperandWord ==
  LET low == OperandByte
      a   == U16(RegisterPC + 2)
  IN  [value |-> Make16(low.value, Read(a, low.bus)), bus |-> After(a, low.bus)]

\* The word a pointer points to.
Deref(low, high, c) ==
  LET c2 == After(low, c)
  IN  [value |-> Make16(Read(low, c), Read(high, c2)), bus |-> After(high, c2)]

\* ResolveAddress(Mode, Operand): indexing wraps in page zero for the zero
\* page modes, at 2^16 for the others; so do the second bytes of pointers.
ResolveAddress(mode, raw) ==
  LET v == raw.value
      X == Registers["X"]
      Y == Registers["Y"]
  IN  CASE mode = "ZeroPageX" -> [raw EXCEPT !.value = U8(v + X)]
        [] mode = "ZeroPageY" -> [raw EXCEPT !.value = U8(v + Y)]
        [] mode = "AbsoluteX" -> [raw EXCEPT !.value = U16(v + X)]
        [] mode = "AbsoluteY" -> [raw EXCEPT !.value = U16(v + Y)]
        [] mode = "Indirect"  -> Deref(v, U16(v + 1), raw.bus)
        [] mode = "IndexedIndirect" ->
             Deref(U8(v + X), U8(v + X + 1), raw.bus)
        [] mode = "IndirectIndexed" ->
             LET base == Deref(v, U8(v + 1), raw.bus)
             IN  [base EXCEPT !.value = U16(base.value + Y)]
        [] OTHER -> raw      \* ZeroPage, Absolute, Relative

\* FetchOperand(Instruction): next is RegisterPC afterwards.
Operand(kind, v, next) ==
  [kind |-> kind, value |-> v.value, bus |-> v.bus, next |-> U16(RegisterPC + next)]

NoValue == [value |-> 0, bus |-> After(RegisterPC, Idle)]

FetchOperand_WordCountsOnce ==
  IF Instr.mode \in {"Absolute", "AbsoluteX", "AbsoluteY"}
    THEN Operand("Address", ResolveAddress(Instr.mode, OperandWord), 2)
    ELSE Operand("Immediate", OperandByte, 2)
FetchOperand ==
  LET mode == Instr.mode
  IN  CASE mode = "Immediate" -> Operand("Immediate", OperandByte, 2)
        [] mode \in {"Implied", "Accumulator"} -> Operand("None", NoValue, 1)
        [] mode \in {"ZeroPage", "ZeroPageX", "ZeroPageY", "IndexedIndirect",
                     "IndirectIndexed", "Relative"} ->
             Operand("Address", ResolveAddress(mode, OperandByte), 2)
        [] mode \in {"Absolute", "AbsoluteX", "AbsoluteY", "Indirect"} ->
             Operand("Address", ResolveAddress(mode, OperandWord), 3)
        [] OTHER -> Operand("UNKNOWN", NoValue, 1)

\* read_value(): the operand's value and the cursor after reading it.
ReadValue(o) ==
  CASE o.kind = "Immediate" -> [value |-> o.value, bus |-> o.bus]
    [] o.kind = "Address"   -> [value |-> Read(o.value, o.bus),
                                bus   |-> After(o.value, o.bus)]
    [] OTHER                -> [value |-> Registers["A"], bus |-> o.bus]

-----------------------------------------------------------------------------
(* The stack: push stores and decrements, pop increments and loads, both   *)
(* modulo 256.                                                              *)

StackAt_NoWrap(s) == StackBase + s
StackAt(s) == StackBase + U8(s)

Push1(s, b)          == Store(data, StackAt(s), b)
Push2(s, b1, b2)     == Store(Push1(s, b1), StackAt(s - 1), b2)
Push3(s, b1, b2, b3) == Store(Push2(s, b1, b2), StackAt(s - 2), b3)

Pop(n) == Cell(StackAt(Registers["S"] + n))

SMinus_NoWrap(n) == [Registers EXCEPT !["S"] = @ - n]
SMinus(n) == [Registers EXCEPT !["S"] = U8(@ - n)]
SPlus_NoWrap(n) == [Registers EXCEPT !["S"] = @ + n]
SPlus(n)  == [Registers EXCEPT !["S"] = U8(@ + n)]

-----------------------------------------------------------------------------
(* The interrupt timer and the line it pulls, at the head of step().       *)

TimerFires_OneLate == IrqInterval > 0 /\ IrqCounter > IrqInterval
TimerFires_OneEarly == IrqInterval > 0 /\ IrqCounter + 2 >= IrqInterval
TimerFires == IrqInterval > 0 /\ IrqCounter + 1 >= IrqInterval

\* IrqLine once the timer has run: SetIrqLine has no caller.
LineNow == IrqLine \/ TimerFires

Interrupted_Unmasked == LineNow
Interrupted == LineNow /\ "I" \notin P

Tick ==
  /\ IrqCounter' = IF IrqInterval = 0 THEN IrqCounter
                   ELSE IF TimerFires THEN 0 ELSE IrqCounter + 1
  /\ UNCHANGED IrqInterval

\* HandleIrq: B is cleared in the pushed copy; the line is acknowledged.
HandleIrq_KeepsLine ==
  /\ ~halted
  /\ Interrupted
  /\ Tick
  /\ data' = Push3(Registers["S"], High(RegisterPC), Low(RegisterPC),
                   PackFlags(P \ {"B"}))
  /\ Registers' = SMinus(3)
  /\ P' = P \cup {"I"}
  /\ RegisterPC' = Vector(IrqVector)
  /\ IrqLine' = LineNow
  /\ UNCHANGED <<halted, output, uart, host>>
HandleIrq ==
  /\ ~halted
  /\ Interrupted
  /\ Tick
  /\ data' = Push3(Registers["S"], High(RegisterPC), Low(RegisterPC),
                   PackFlags(P \ {"B"}))
  /\ Registers' = SMinus(3)
  /\ P' = P \cup {"I"}
  /\ RegisterPC' = Vector(IrqVector)
  /\ IrqLine' = FALSE
  /\ UNCHANGED <<halted, output, uart, host>>

-----------------------------------------------------------------------------
(* The instructions. *)

\* The part of step() up to the switch, taken when no interrupt is.
Executes(ops) ==
  /\ ~halted
  /\ ~Interrupted
  /\ Instr.op \in ops
  /\ Tick
  /\ IrqLine' = LineNow
  /\ UNCHANGED host

\* What an instruction leaves in the processor, and its last bus cursor.
Retire(registers, flags, pc, c) ==
  /\ Registers' = registers
  /\ P' = flags
  /\ RegisterPC' = pc
  /\ Commit(c)

LoadTarget == [LDA |-> "A", LDX |-> "X", LDY |-> "Y"]

LoadRegister ==
  LET o == FetchOperand
      v == ReadValue(o)
  IN  /\ Executes(DOMAIN LoadTarget)
      /\ Retire([Registers EXCEPT ![LoadTarget[Instr.op]] = v.value],
                WithNZ(P, v.value), o.next, v.bus)
      /\ UNCHANGED <<data, output, halted>>

StoreSource == [STA |-> "A", STX |-> "X", STY |-> "Y"]

StoreRegister ==
  LET o == FetchOperand
  IN  /\ Executes(DOMAIN StoreSource)
      /\ Write(o.value, Registers[StoreSource[Instr.op]])
      /\ Retire(Registers, P, o.next, o.bus)
      /\ UNCHANGED halted

AddSub ==
  LET o == FetchOperand
      v == ReadValue(o)
      r == IF Instr.op = "ADC"
             THEN AddWithCarry(Registers["A"], v.value, Carry)
             ELSE SubWithCarry(Registers["A"], v.value, Carry)
  IN  /\ Executes({"ADC", "SBC"})
      /\ Retire([Registers EXCEPT !["A"] = r.byte],
                WithNZ(With(With(P, "C", r.C), "V", r.V), r.byte),
                o.next, v.bus)
      /\ UNCHANGED <<data, output, halted>>

Logical ==
  LET o == FetchOperand
      v == ReadValue(o)
      b == Logic(Instr.op, Registers["A"], v.value)
  IN  /\ Executes({"AND", "ORA", "EOR"})
      /\ Retire([Registers EXCEPT !["A"] = b], WithNZ(P, b), o.next, v.bus)
      /\ UNCHANGED <<data, output, halted>>

CompareSource == [CMP |-> "A", CPX |-> "X", CPY |-> "Y"]

CompareRegister ==
  LET o == FetchOperand
      v == ReadValue(o)
      r == Compare(Registers[CompareSource[Instr.op]], v.value)
  IN  /\ Executes(DOMAIN CompareSource)
      /\ Retire(Registers, WithNZ(With(P, "C", r.C), r.byte), o.next, v.bus)
      /\ UNCHANGED <<data, output, halted>>

BitTest ==
  LET o == FetchOperand
      v == ReadValue(o)
      p == With(With(P, "N", Negative(v.value)), "V", Bit(v.value, 6) = 1)
  IN  /\ Executes({"BIT"})
      /\ Retire(Registers,
                With(p, "Z", BitAnd(Registers["A"], v.value) = 0),
                o.next, v.bus)
      /\ UNCHANGED <<data, output, halted>>

\* INC, DEC: a read and a write of the same address.
IncDecMemory ==
  LET o == FetchOperand
      v == ReadValue(o)
      b == U8(IF Instr.op = "INC" THEN v.value + 1 ELSE v.value - 1)
  IN  /\ Executes({"INC", "DEC"})
      /\ Write(o.value, b)
      /\ Retire(Registers, WithNZ(P, b), o.next, v.bus)
      /\ UNCHANGED halted

IncDecTarget == [INX |-> "X", INY |-> "Y", DEX |-> "X", DEY |-> "Y"]

IncDecRegister ==
  LET o == FetchOperand
      r == IncDecTarget[Instr.op]
      b == U8(IF Instr.op \in {"INX", "INY"} THEN Registers[r] + 1
                                              ELSE Registers[r] - 1)
  IN  /\ Executes(DOMAIN IncDecTarget)
      /\ Retire([Registers EXCEPT ![r] = b], WithNZ(P, b), o.next, o.bus)
      /\ UNCHANGED <<data, output, halted>>

\* ASL, LSR, ROL, ROR on memory, or on A in the accumulator mode.
ShiftRotate ==
  LET o == FetchOperand
      v == ReadValue(o)
      r == Shift(Instr.op, v.value, Carry)
      inMemory == o.kind = "Address"
  IN  /\ Executes({"ASL", "LSR", "ROL", "ROR"})
      /\ IF inMemory THEN Write(o.value, r.byte) ELSE UNCHANGED <<data, output>>
      /\ Retire(IF inMemory THEN Registers
                            ELSE [Registers EXCEPT !["A"] = r.byte],
                WithNZ(With(P, "C", r.C), r.byte), o.next, v.bus)
      /\ UNCHANGED halted

JMP ==
  /\ Executes({"JMP"})
  /\ Retire(Registers, P, FetchOperand.value, FetchOperand.bus)
  /\ UNCHANGED <<data, output, halted>>

\* The address pushed is that of the last byte of the JSR.
JSR_PushesNext ==
  LET o == FetchOperand
  IN  /\ Executes({"JSR"})
      /\ data' = Push2(Registers["S"], High(o.next), Low(o.next))
      /\ Retire(SMinus(2), P, o.value, o.bus)
      /\ UNCHANGED <<output, halted>>
JSR ==
  LET o   == FetchOperand
      ret == U16(o.next - 1)
  IN  /\ Executes({"JSR"})
      /\ data' = Push2(Registers["S"], High(ret), Low(ret))
      /\ Retire(SMinus(2), P, o.value, o.bus)
      /\ UNCHANGED <<output, halted>>

RTS ==
  /\ Executes({"RTS"})
  /\ Retire(SPlus(2), P, U16(Make16(Pop(1), Pop(2)) + 1), FetchOperand.bus)
  /\ UNCHANGED <<data, output, halted>>

\* The byte after BRK is not skipped, and the interrupt sequence done, halt.
BRK ==
  LET o == FetchOperand
  IN  /\ Executes({"BRK"})
      /\ data' = Push3(Registers["S"], High(o.next), Low(o.next),
                       PackFlags(P \cup {"B"}))
      /\ Retire(SMinus(3), P \cup {"I"}, Vector(IrqVector), o.bus)
      /\ halted' = TRUE
      /\ UNCHANGED output

RTI_PcFirst ==
  /\ Executes({"RTI"})
  /\ Retire(SPlus(3), UnpackFlags(Pop(3)), Make16(Pop(1), Pop(2)),
            FetchOperand.bus)
  /\ UNCHANGED <<data, output, halted>>
RTI_KeepsFlags ==
  /\ Executes({"RTI"})
  /\ Retire(SPlus(3), P, Make16(Pop(2), Pop(3)), FetchOperand.bus)
  /\ UNCHANGED <<data, output, halted>>
RTI ==
  /\ Executes({"RTI"})
  /\ Retire(SPlus(3), UnpackFlags(Pop(1)), Make16(Pop(2), Pop(3)),
            FetchOperand.bus)
  /\ UNCHANGED <<data, output, halted>>

\* Which flag a branch tests, and the value on which it is taken.
BranchOn ==
  [BCC |-> <<"C", FALSE>>, BCS |-> <<"C", TRUE>>,
   BNE |-> <<"Z", FALSE>>, BEQ |-> <<"Z", TRUE>>,
   BPL |-> <<"N", FALSE>>, BMI |-> <<"N", TRUE>>,
   BVC |-> <<"V", FALSE>>, BVS |-> <<"V", TRUE>>]

Branch ==
  LET o     == FetchOperand
      taken == (BranchOn[Instr.op][1] \in P) = BranchOn[Instr.op][2]
  IN  /\ Executes(DOMAIN BranchOn)
      /\ Retire(Registers, P,
                IF taken THEN U16(o.next + Signed(Low(o.value))) ELSE o.next,
                o.bus)
      /\ UNCHANGED <<data, output, halted>>

FlagOp ==
  [CLC |-> <<"C", FALSE>>, SEC |-> <<"C", TRUE>>, CLI |-> <<"I", FALSE>>,
   SEI |-> <<"I", TRUE>>, CLD |-> <<"D", FALSE>>, SED |-> <<"D", TRUE>>,
   CLV |-> <<"V", FALSE>>]

SetClearFlag ==
  /\ Executes(DOMAIN FlagOp)
  /\ Retire(Registers, With(P, FlagOp[Instr.op][1], FlagOp[Instr.op][2]),
            FetchOperand.next, FetchOperand.bus)
  /\ UNCHANGED <<data, output, halted>>

NOP ==
  /\ Executes({"NOP"})
  /\ Retire(Registers, P, FetchOperand.next, FetchOperand.bus)
  /\ UNCHANGED <<data, output, halted>>

TransferOf ==
  [TAX |-> <<"A", "X">>, TAY |-> <<"A", "Y">>, TXA |-> <<"X", "A">>,
   TYA |-> <<"Y", "A">>, TSX |-> <<"S", "X">>, TXS |-> <<"X", "S">>]

\* TXS is the one transfer that leaves the flags alone.
Transfer ==
  LET o == FetchOperand
      b == Registers[TransferOf[Instr.op][1]]
  IN  /\ Executes(DOMAIN TransferOf)
      /\ Retire([Registers EXCEPT ![TransferOf[Instr.op][2]] = b],
                IF Instr.op = "TXS" THEN P ELSE WithNZ(P, b), o.next, o.bus)
      /\ UNCHANGED <<data, output, halted>>

\* PHA, PHP
Push ==
  LET b == IF Instr.op = "PHA" THEN Registers["A"] ELSE PackFlags(P \cup {"B"})
  IN  /\ Executes({"PHA", "PHP"})
      /\ data' = Push1(Registers["S"], b)
      /\ Retire(SMinus(1), P, FetchOperand.next, FetchOperand.bus)
      /\ UNCHANGED <<output, halted>>

PLA ==
  /\ Executes({"PLA"})
  /\ Retire([SPlus(1) EXCEPT !["A"] = Pop(1)], WithNZ(P, Pop(1)),
            FetchOperand.next, FetchOperand.bus)
  /\ UNCHANGED <<data, output, halted>>

PLP ==
  /\ Executes({"PLP"})
  /\ Retire(SPlus(1), UnpackFlags(Pop(1)), FetchOperand.next, FetchOperand.bus)
  /\ UNCHANGED <<data, output, halted>>

UnknownOpcode ==
  /\ Executes({"UNKNOWN"})
  /\ Retire(Registers, P, FetchOperand.next, FetchOperand.bus)
  /\ halted' = TRUE
  /\ UNCHANGED <<data, output>>

-----------------------------------------------------------------------------
(* main: the constructor, the image, reset(), SetIrqInterval, the loop.    *)

Init ==
  /\ \E image \in Images : MemoryInit(image)
  /\ Registers = [A |-> 0, X |-> 0, Y |-> 0, S |-> 253]
  /\ P = {"U"}
  /\ RegisterPC = Vector(ResetPC)
  /\ halted = FALSE
  /\ IrqLine = FALSE /\ IrqCounter = 0
  /\ IrqInterval \in IrqIntervals

Instruction ==
  \/ LoadRegister \/ StoreRegister \/ AddSub \/ Logical \/ CompareRegister
  \/ BitTest \/ IncDecMemory \/ IncDecRegister \/ ShiftRotate
  \/ JMP \/ JSR \/ RTS \/ BRK \/ RTI \/ Branch
  \/ SetClearFlag \/ NOP \/ Transfer \/ Push \/ PLA \/ PLP
  \/ UnknownOpcode

Step == HandleIrq \/ Instruction

Stdin == (StdinArrives \/ StdinCloses) /\ UNCHANGED <<core, irq>>

Next == Step \/ Stdin

\* The loop of main calls step() until the processor halts.  Nothing makes
\* the other side of stdin send or close.
Fairness == WF_vars(Step)

Spec == Init /\ [][Next]_vars /\ Fairness

TypeOK ==
  /\ MemoryTypeOK
  /\ Registers \in [RegisterIndex -> Byte]
  /\ P \subseteq Flags
  /\ RegisterPC \in Word
  /\ halted \in BOOLEAN
  /\ IrqLine \in BOOLEAN
  /\ IrqInterval \in IrqIntervals
  /\ IrqCounter \in Nat

(***************************************************************************)
(* The array never holds a byte at the UART's addresses: neither an image, *)
(* a store, a read-modify-write nor a push reaches the cells they hide.    *)
(***************************************************************************)
IoCellsBlank == DOMAIN data \cap InRange = {}

-----------------------------------------------------------------------------
(***************************************************************************)
(* step() implements the promise of IrqTimer for every program, the I flag *)
(* being the mask: no instruction, halt or UART access disturbs it.        *)
(***************************************************************************)
Timer == INSTANCE IrqTimer WITH
           Intervals <- IrqIntervals,
           interval  <- IrqInterval,
           elapsed   <- IrqCounter,
           pending   <- IrqLine,
           masked    <- "I" \in P,
           stopped   <- halted

ImplementsTimer == Timer!TimerSafety

(***************************************************************************)
(* One call of step() changes the array only where its instruction says:   *)
(* an interrupt and the pushing instructions in $0100-$01FF, wherever S    *)
(* points and wraps; a store or read-modify-write in its operand's cell;   *)
(* every other instruction nowhere.                                        *)
(***************************************************************************)
StackPage == StackBase .. StackBase + 255

Pushing == {"JSR", "BRK", "PHA", "PHP"}
Storing == {"STA", "STX", "STY", "INC", "DEC", "ASL", "LSR", "ROL", "ROR"}

MayChange ==
  IF Interrupted \/ Instr.op \in Pushing THEN StackPage
  ELSE IF Instr.op \in Storing THEN {FetchOperand.value} ELSE {}

StoresStayInPlace ==
  [][Step => \A a \in DOMAIN data' \ MayChange :
               a \in DOMAIN data /\ data'[a] = data[a]]_vars

(***************************************************************************)
(* An instruction that does not jump leaves the PC behind its last byte,   *)
(* as many bytes on as the table says, modulo 2^16, whatever mode the      *)
(* operand took and whatever reading it did to the UART.                   *)
(***************************************************************************)
Jumping == {"JMP", "JSR", "RTS", "RTI", "BRK", "UNKNOWN"} \cup DOMAIN BranchOn

PcAdvances ==
  [][Step /\ ~Interrupted /\ Instr.op \notin Jumping =>
       RegisterPC' = U16(RegisterPC + InstructionBytes(Instr.mode))]_vars
=============================================================================
