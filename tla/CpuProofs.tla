----------------------------- MODULE CpuProofs -----------------------------
(***************************************************************************)
(* Theorems about Cpu and CpuHistory for every guest program, every input  *)
(* script and every interval of the timer.                                 *)
(***************************************************************************)
EXTENDS CpuHistory, ByteLemmas

-----------------------------------------------------------------------------
(* Memory. *)

LEMMA PolledType ==
  ASSUME MemoryTypeOK
  PROVE  Polled \in Seq(Byte)
BY DEF MemoryTypeOK, Polled

LEMMA CellType ==
  ASSUME MemoryTypeOK, NEW address
  PROVE  Cell(address) \in Byte
BY DEF MemoryTypeOK, Cells, Cell, Byte

\* Whatever it is read from, a read returns a byte and leaves a cursor.
LEMMA ReadType ==
  ASSUME MemoryTypeOK, NEW address, NEW c \in Cursor
  PROVE  Read(address, c) \in Byte /\ After(address, c) \in Cursor
<1>1. Ready(c) => Polled[c.taken + 1] \in Byte
  BY PolledType DEF Ready, Cursor
<1>2. Cell(address) \in Byte
  BY CellType
<1>3. 0 \in Byte /\ 1 \in Byte
  BY DEF Byte
<1>4. Read(address, c) \in Byte
  BY <1>1, <1>2, <1>3 DEF Read
<1>5. After(address, c) \in Cursor
  BY DEF After, Cursor
<1> QED  BY <1>4, <1>5

LEMMA IdleType == Idle \in Cursor
BY DEF Idle, Cursor

\* The receiver keeps its type whatever an instruction has read.
LEMMA CommitType ==
  ASSUME MemoryTypeOK, NEW c \in Cursor, Commit(c)
  PROVE  RxQueue' \in Seq(Byte) /\ RxEof' \in BOOLEAN /\ stdin' \in Seq(Byte)
<1>1. CASE ~c.polled
  BY <1>1 DEF Commit, uart, MemoryTypeOK
<1>2. CASE c.polled
  <2>1. c.taken + 1 \in Nat /\ c.taken + 1 >= 1
    BY DEF Cursor
  <2>2. SubSeq(Polled, c.taken + 1, Len(Polled)) \in Seq(Byte)
    BY <2>1, PolledType
  <2>3. RxQueue' \in Seq(Byte)
    BY <1>2, <2>2 DEF Commit
  <2>4. RxEof' \in BOOLEAN
    BY <1>2 DEF Commit
  <2>5. stdin' \in Seq(Byte)
    <3>1. stdin \in Seq(Byte) /\ <<>> \in Seq(Byte)
      BY DEF MemoryTypeOK
    <3>2. stdin' = stdin \/ stdin' = <<>>
      BY <1>2 DEF Commit
    <3> QED  BY <3>1, <3>2
  <2> QED  BY <2>3, <2>4, <2>5
<1> QED  BY <1>1, <1>2

LEMMA StoreType ==
  ASSUME NEW cells, Cells(cells), NEW address \in Word, NEW b \in Byte
  PROVE  Cells(Store(cells, address, b))
BY DEF Cells, Store

LEMMA WriteType ==
  ASSUME MemoryTypeOK, NEW address \in Word, NEW b \in Byte, Write(address, b)
  PROVE  Cells(data') /\ output' \in Seq(Byte)
BY StoreType DEF Write, MemoryTypeOK

-----------------------------------------------------------------------------
(* Operands. *)

Fetched == [value : Word, bus : Cursor]

LEMMA IntTypes ==
  /\ \A b \in Byte : b \in Int
  /\ \A w \in Word : w \in Int
  /\ \A m, n \in Int : m + n \in Int /\ m - n \in Int
BY WordBounds DEF Byte

LEMMA OperandBytesType ==
  ASSUME TypeOK
  PROVE  OperandByte \in [value : Byte, bus : Cursor] /\ OperandWord \in Fetched
<1>1. MemoryTypeOK
  BY DEF TypeOK
<1>2. After(RegisterPC, Idle) \in Cursor
  BY <1>1, IdleType, ReadType
<1>3. OperandByte \in [value : Byte, bus : Cursor]
  BY <1>1, <1>2, ReadType DEF OperandByte
<1>4. OperandWord \in Fetched
  <2> DEFINE x == U16(RegisterPC + 2)
  <2>1. Read(x, OperandByte.bus) \in Byte /\ After(x, OperandByte.bus) \in Cursor
    BY <1>1, <1>3, ReadType
  <2>2. Make16(OperandByte.value, Read(x, OperandByte.bus)) \in Word
    BY <1>3, <2>1, Make16Type
  <2> QED  BY <2>1, <2>2 DEF OperandWord, Fetched
<1> QED  BY <1>3, <1>4

LEMMA DerefType ==
  ASSUME TypeOK, NEW low, NEW high, NEW c \in Cursor
  PROVE  Deref(low, high, c) \in Fetched
<1>1. MemoryTypeOK
  BY DEF TypeOK
<1>2. Read(low, c) \in Byte /\ After(low, c) \in Cursor
  BY <1>1, ReadType
<1>3. /\ Read(high, After(low, c)) \in Byte
      /\ After(high, After(low, c)) \in Cursor
  BY <1>1, <1>2, ReadType
<1>4. Make16(Read(low, c), Read(high, After(low, c))) \in Word
  BY <1>2, <1>3, Make16Type
<1> QED  BY <1>3, <1>4 DEF Deref, Fetched

\* Every addressing mode yields an address.
LEMMA ResolveAddressType ==
  ASSUME TypeOK, NEW mode, NEW raw \in Fetched
  PROVE  ResolveAddress(mode, raw) \in Fetched
<1>1. /\ Registers["X"] \in Byte /\ Registers["Y"] \in Byte
      /\ raw.value \in Word /\ raw.bus \in Cursor
  BY DEF TypeOK, RegisterIndex, Fetched
<1>2. \A n \in Int : U8(n) \in Word /\ U16(n) \in Word
  BY CastTypes, ByteIsWord
<1>3. \A w \in Word : [raw EXCEPT !.value = w] \in Fetched
  BY DEF Fetched
<1>4. /\ raw.value + Registers["X"] \in Int
      /\ raw.value + Registers["Y"] \in Int
  BY <1>1, IntTypes
<1>5. \A low, high : Deref(low, high, raw.bus) \in Fetched
  BY <1>1, DerefType
<1>6. LET base == Deref(raw.value, U8(raw.value + 1), raw.bus)
      IN  [base EXCEPT !.value = U16(base.value + Registers["Y"])] \in Fetched
  <2> DEFINE base == Deref(raw.value, U8(raw.value + 1), raw.bus)
  <2>1. base \in Fetched
    BY <1>5
  <2> HIDE DEF base
  <2>2. base.value + Registers["Y"] \in Int
    <3>1. base.value \in Word
      BY <2>1 DEF Fetched
    <3> QED  BY <3>1, <1>1, IntTypes
  <2>3. U16(base.value + Registers["Y"]) \in Word
    BY <2>2, CastTypes
  <2>4. [base EXCEPT !.value = U16(base.value + Registers["Y"])] \in Fetched
    BY <2>1, <2>3 DEF Fetched
  <2> QED  BY <2>4 DEF base
<1>7. /\ [raw EXCEPT !.value = U8(raw.value + Registers["X"])] \in Fetched
      /\ [raw EXCEPT !.value = U8(raw.value + Registers["Y"])] \in Fetched
      /\ [raw EXCEPT !.value = U16(raw.value + Registers["X"])] \in Fetched
      /\ [raw EXCEPT !.value = U16(raw.value + Registers["Y"])] \in Fetched
  BY <1>2, <1>3, <1>4
<1> QED  BY <1>5, <1>6, <1>7 DEF ResolveAddress

Kinds == {"Immediate", "None", "Address", "UNKNOWN"}

Operands == [kind : Kinds, value : Word, bus : Cursor, next : Word]

LEMMA FetchOperandType ==
  ASSUME TypeOK
  PROVE  /\ FetchOperand \in Operands
         /\ FetchOperand.kind = "Immediate" => FetchOperand.value \in Byte
<1>1. ASSUME NEW kind \in Kinds, NEW v \in Fetched, NEW n \in Nat
      PROVE  Operand(kind, v, n) \in Operands
  <2>1. RegisterPC + n \in Int
    BY WordBounds DEF TypeOK
  <2>2. U16(RegisterPC + n) \in Word
    BY <2>1, CastTypes
  <2> QED  BY <2>2 DEF Operand, Operands, Fetched
<1>2. OperandByte \in Fetched /\ OperandWord \in Fetched
  BY OperandBytesType, ByteIsWord DEF Fetched
<1>3. NoValue \in Fetched
  <2>1. After(RegisterPC, Idle) \in Cursor
    BY IdleType, ReadType DEF TypeOK
  <2>2. 0 \in Word
    BY ByteIsWord DEF Byte
  <2> QED  BY <2>1, <2>2 DEF NoValue, Fetched
<1>4. /\ ResolveAddress(Instr.mode, OperandByte) \in Fetched
      /\ ResolveAddress(Instr.mode, OperandWord) \in Fetched
  BY <1>2, ResolveAddressType
<1> /\ "Immediate" \in Kinds /\ "None" \in Kinds
    /\ "Address" \in Kinds /\ "UNKNOWN" \in Kinds
    /\ 1 \in Nat /\ 2 \in Nat /\ 3 \in Nat
  BY DEF Kinds
<1>5. Operand("Immediate", OperandByte, 2) \in Operands
  BY <1>1, <1>2
<1>6. /\ Operand("None", NoValue, 1) \in Operands
      /\ Operand("UNKNOWN", NoValue, 1) \in Operands
  BY <1>1, <1>3
<1>7. Operand("Address", ResolveAddress(Instr.mode, OperandByte), 2) \in Operands
  BY <1>1, <1>4
<1>8. Operand("Address", ResolveAddress(Instr.mode, OperandWord), 3) \in Operands
  BY <1>1, <1>4
<1>9. FetchOperand \in Operands
  BY <1>5, <1>6, <1>7, <1>8 DEF FetchOperand
<1>10. FetchOperand.kind = "Immediate" => FetchOperand.value \in Byte
  BY OperandBytesType DEF FetchOperand, Operand
<1> QED  BY <1>9, <1>10

\* What the instructions compute with is a byte.
LEMMA ReadValueType ==
  ASSUME TypeOK
  PROVE  ReadValue(FetchOperand) \in [value : Byte, bus : Cursor]
<1> DEFINE o == FetchOperand
<1>1. MemoryTypeOK /\ Registers["A"] \in Byte
  BY DEF TypeOK, RegisterIndex
<1>2. o.bus \in Cursor /\ (o.kind = "Immediate" => o.value \in Byte)
  BY FetchOperandType DEF Operands
<1>3. Read(o.value, o.bus) \in Byte /\ After(o.value, o.bus) \in Cursor
  BY <1>1, <1>2, ReadType
<1> HIDE DEF o
<1>4. ReadValue(o) \in [value : Byte, bus : Cursor]
  BY <1>1, <1>2, <1>3 DEF ReadValue
<1> QED  BY <1>4 DEF o

-----------------------------------------------------------------------------
(* The stack and the registers. *)

LEMMA RegisterTypes ==
  ASSUME TypeOK
  PROVE  /\ \A r \in RegisterIndex : Registers[r] \in Byte
         /\ \A r \in RegisterIndex, b \in Byte :
              [Registers EXCEPT ![r] = b] \in [RegisterIndex -> Byte]
BY DEF TypeOK

LEMMA StackTypes ==
  ASSUME TypeOK, NEW n \in Nat
  PROVE  /\ SMinus(n) \in [RegisterIndex -> Byte]
         /\ SPlus(n) \in [RegisterIndex -> Byte]
         /\ Pop(n) \in Byte
<1>1. "S" \in RegisterIndex
  BY DEF RegisterIndex
<1>2. Registers["S"] \in Byte
  BY <1>1, RegisterTypes
<1>3. Registers["S"] - n \in Int /\ Registers["S"] + n \in Int
  BY <1>2, IntTypes
<1>4. U8(Registers["S"] - n) \in Byte /\ U8(Registers["S"] + n) \in Byte
  BY <1>3, CastTypes
<1>5. SMinus(n) \in [RegisterIndex -> Byte] /\ SPlus(n) \in [RegisterIndex -> Byte]
  BY <1>1, <1>4, RegisterTypes DEF SMinus, SPlus
<1>6. Pop(n) \in Byte
  BY CellType DEF Pop, TypeOK
<1> QED  BY <1>5, <1>6

LEMMA StackAtType ==
  ASSUME NEW s \in Int
  PROVE  StackAt(s) \in StackPage /\ StackAt(s) \in Word
<1>1. PICK m \in 0 .. 255 : U8(s) = m
  BY CastTypes DEF Byte
<1>2. StackAt(s) = 256 + m
  BY <1>1 DEF StackAt, StackBase
<1>3. StackAt(s) \in 256 .. 256 + 255
  BY <1>2
<1>4. StackAt(s) \in StackPage
  BY <1>3 DEF StackPage, StackBase
<1>5. StackAt(s) \in Word
  <2>1. StackAt(s) \in Int /\ 0 <= StackAt(s) /\ StackAt(s) <= 511
    BY <1>3
  <2>2. StackAt(s) <= MaxWord
    BY <2>1 DEF MaxWord
  <2> QED  BY <2>1, <2>2, WordBounds
<1> QED  BY <1>4, <1>5

\* What the pushes make of the array is an array.
LEMMA PushTypes ==
  ASSUME TypeOK, NEW s \in Byte, NEW b1 \in Byte
  PROVE  /\ Cells(Push1(s, b1))
         /\ \A b2 \in Byte : Cells(Push2(s, b1, b2))
         /\ \A b2, b3 \in Byte : Cells(Push3(s, b1, b2, b3))
<1>1. Cells(data)
  BY DEF TypeOK, MemoryTypeOK
<1>2. s \in Int /\ s - 1 \in Int /\ s - 2 \in Int
  BY IntTypes
<1>3. StackAt(s) \in Word /\ StackAt(s - 1) \in Word /\ StackAt(s - 2) \in Word
  BY <1>2, StackAtType
<1>4. Cells(Push1(s, b1))
  BY <1>1, <1>3, StoreType DEF Push1
<1>5. ASSUME NEW b2 \in Byte  PROVE Cells(Push2(s, b1, b2))
  BY <1>3, <1>4, StoreType DEF Push2
<1>6. ASSUME NEW b2 \in Byte, NEW b3 \in Byte  PROVE Cells(Push3(s, b1, b2, b3))
  BY <1>3, <1>5, StoreType DEF Push3
<1> QED  BY <1>4, <1>5, <1>6

LEMMA VectorType ==
  ASSUME MemoryTypeOK, NEW address
  PROVE  Vector(address) \in Word
BY CellType, Make16Type DEF Vector

LEMMA CarryType == Carry \in {0, 1}
BY DEF Carry

-----------------------------------------------------------------------------
(* The type invariant in four parts, by who writes them: the head of       *)
(* step(), Retire, the stores, and the other side of stdin.                *)

IrqTypeOK ==
  IrqLine \in BOOLEAN /\ IrqInterval \in IrqIntervals /\ IrqCounter \in Nat

RetiredTypeOK ==
  /\ Registers \in [RegisterIndex -> Byte]
  /\ P \in SUBSET Flags
  /\ RegisterPC \in Word
  /\ RxQueue \in Seq(Byte) /\ RxEof \in BOOLEAN /\ stdin \in Seq(Byte)

StoredTypeOK == Cells(data) /\ output \in Seq(Byte) /\ halted \in BOOLEAN

HostTypeOK == closed \in BOOLEAN /\ unsent \in Seq(Byte)

LEMMA TypeOKParts ==
  TypeOK <=> IrqTypeOK /\ RetiredTypeOK /\ StoredTypeOK /\ HostTypeOK
BY DEF TypeOK, MemoryTypeOK, IrqTypeOK, RetiredTypeOK, StoredTypeOK, HostTypeOK

LEMMA TickType ==
  ASSUME IrqTypeOK, Tick
  PROVE  IrqCounter' \in Nat /\ IrqInterval' \in IrqIntervals
BY DEF IrqTypeOK, Tick

\* The line is a truth value: it is the old one or the timer's.
LEMMA LineNowType ==
  ASSUME IrqTypeOK
  PROVE  LineNow \in BOOLEAN
BY DEF IrqTypeOK, LineNow, TimerFires

LEMMA ExecutesType ==
  ASSUME TypeOK, NEW ops, Executes(ops)
  PROVE  IrqTypeOK' /\ HostTypeOK'
<1>1. IrqTypeOK /\ HostTypeOK
  BY TypeOKParts
<1>2. Tick /\ IrqLine' = LineNow /\ UNCHANGED host
  BY DEF Executes
<1>3. IrqTypeOK'
  BY <1>1, <1>2, TickType, LineNowType DEF IrqTypeOK
<1>4. HostTypeOK'
  BY <1>1, <1>2 DEF HostTypeOK, host
<1> QED  BY <1>3, <1>4

LEMMA RetireType ==
  ASSUME TypeOK, NEW r \in [RegisterIndex -> Byte], NEW p \in SUBSET Flags,
         NEW pc \in Word, NEW c \in Cursor, Retire(r, p, pc, c)
  PROVE  RetiredTypeOK'
<1>1. MemoryTypeOK /\ Commit(c)
  BY DEF TypeOK, Retire
<1>2. RxQueue' \in Seq(Byte) /\ RxEof' \in BOOLEAN /\ stdin' \in Seq(Byte)
  BY <1>1, CommitType
<1> QED  BY <1>2 DEF RetiredTypeOK, Retire

\* An instruction whose results and stores have their types keeps TypeOK.
LEMMA InstructionType ==
  ASSUME TypeOK, NEW ops, Executes(ops),
         NEW r \in [RegisterIndex -> Byte], NEW p \in SUBSET Flags,
         NEW pc \in Word, NEW c \in Cursor, Retire(r, p, pc, c),
         StoredTypeOK'
  PROVE  TypeOK'
<1>1. IrqTypeOK' /\ HostTypeOK'
  BY ExecutesType
<1>2. RetiredTypeOK'
  BY RetireType
<1> QED  BY <1>1, <1>2, TypeOKParts, PTL

\* Stores nothing and does not halt.
LEMMA NoStoreType ==
  ASSUME TypeOK, UNCHANGED <<data, output, halted>>
  PROVE  StoredTypeOK'
BY TypeOKParts DEF StoredTypeOK

LEMMA WriteStoredType ==
  ASSUME TypeOK, NEW address \in Word, NEW b \in Byte, Write(address, b),
         UNCHANGED halted
  PROVE  StoredTypeOK'
<1>1. MemoryTypeOK
  BY DEF TypeOK
<1>2. Cells(data') /\ output' \in Seq(Byte)
  BY <1>1, WriteType
<1>3. halted' \in BOOLEAN
  BY TypeOKParts DEF StoredTypeOK
<1> QED  BY <1>2, <1>3 DEF StoredTypeOK, Cells

\* The values of an instruction's operand and of what it reads.
LEMMA OperandFacts ==
  ASSUME TypeOK
  PROVE  /\ FetchOperand.value \in Word
         /\ FetchOperand.next \in Word
         /\ FetchOperand.bus \in Cursor
         /\ ReadValue(FetchOperand).value \in Byte
         /\ ReadValue(FetchOperand).bus \in Cursor
BY FetchOperandType, ReadValueType DEF Operands

LEMMA FlagsFacts ==
  ASSUME TypeOK
  PROVE  /\ P \in SUBSET Flags
         /\ PackFlags(P \cup {"B"}) \in Byte
         /\ PackFlags(P \ {"B"}) \in Byte
         /\ P \cup {"I"} \in SUBSET Flags
         /\ \A b : WithNZ(P, b) \in SUBSET Flags
         /\ \A c, b : WithNZ(With(P, "C", c), b) \in SUBSET Flags
         /\ \A c, v, b : WithNZ(With(With(P, "C", c), "V", v), b) \in SUBSET Flags
<1>1. P \in SUBSET Flags
  BY DEF TypeOK
<1>2. "B" \in Flags /\ "I" \in Flags /\ "C" \in Flags /\ "V" \in Flags
  BY DEF Flags
<1>3. /\ P \cup {"B"} \in SUBSET Flags
      /\ P \ {"B"} \in SUBSET Flags
      /\ P \cup {"I"} \in SUBSET Flags
  BY <1>1, <1>2
<1>4. \A b : WithNZ(P, b) \in SUBSET Flags
  BY <1>1, WithNZType
<1>5. \A c : With(P, "C", c) \in SUBSET Flags
  BY <1>1, <1>2, WithType
<1>6. \A c, v : With(With(P, "C", c), "V", v) \in SUBSET Flags
  BY <1>2, <1>5, WithType
<1>7. \A c, b : WithNZ(With(P, "C", c), b) \in SUBSET Flags
  BY <1>5, WithNZType
<1>8. \A c, v, b : WithNZ(With(With(P, "C", c), "V", v), b) \in SUBSET Flags
  BY <1>6, WithNZType
<1> QED  BY <1>1, <1>3, <1>4, <1>7, <1>8, FlagTypes

-----------------------------------------------------------------------------
(* The invariant is preserved: one step per action. *)

LEMMA HandleIrqType ==
  ASSUME TypeOK, HandleIrq
  PROVE  TypeOK'
<1>1. IrqTypeOK'
  <2>1. IrqTypeOK
    BY TypeOKParts
  <2>2. Tick /\ IrqLine' = FALSE
    BY DEF HandleIrq
  <2> QED  BY <2>1, <2>2, TickType DEF IrqTypeOK
<1>2. RetiredTypeOK'
  <2>1. Registers' \in [RegisterIndex -> Byte]
    BY StackTypes DEF HandleIrq
  <2>2. P' \in SUBSET Flags
    BY FlagsFacts DEF HandleIrq
  <2>3. RegisterPC' \in Word
    BY VectorType DEF HandleIrq, TypeOK
  <2>4. RxQueue' \in Seq(Byte) /\ RxEof' \in BOOLEAN /\ stdin' \in Seq(Byte)
    BY DEF HandleIrq, uart, TypeOK, MemoryTypeOK
  <2> QED  BY <2>1, <2>2, <2>3, <2>4 DEF RetiredTypeOK
<1>3. StoredTypeOK'
  <2>1. High(RegisterPC) \in Byte /\ Low(RegisterPC) \in Byte
    BY SplitType DEF TypeOK
  <2>2. PackFlags(P \ {"B"}) \in Byte
    BY FlagsFacts
  <2>3. Registers["S"] \in Byte
    BY RegisterTypes DEF RegisterIndex
  <2>4. Cells(data')
    BY <2>1, <2>2, <2>3, PushTypes DEF HandleIrq
  <2>5. output' \in Seq(Byte) /\ halted' \in BOOLEAN
    BY TypeOKParts DEF HandleIrq, StoredTypeOK
  <2> QED  BY <2>4, <2>5 DEF StoredTypeOK, Cells
<1>4. HostTypeOK'
  BY TypeOKParts DEF HandleIrq, host, HostTypeOK
<1> QED  BY <1>1, <1>2, <1>3, <1>4, TypeOKParts, PTL

\* The instructions that only compute.
LEMMA ComputeTypes ==
  ASSUME TypeOK
  PROVE  /\ LoadRegister => TypeOK'
         /\ AddSub => TypeOK'
         /\ Logical => TypeOK'
         /\ CompareRegister => TypeOK'
         /\ BitTest => TypeOK'
         /\ IncDecRegister => TypeOK'
         /\ SetClearFlag => TypeOK'
         /\ NOP => TypeOK'
         /\ Transfer => TypeOK'
<1> DEFINE o == FetchOperand
           v == ReadValue(o)
<1>1. /\ o.next \in Word /\ o.bus \in Cursor
      /\ v.value \in Byte /\ v.bus \in Cursor
  BY OperandFacts
<1>2. /\ \A r \in RegisterIndex : Registers[r] \in Byte
      /\ \A r \in RegisterIndex, b \in Byte :
           [Registers EXCEPT ![r] = b] \in [RegisterIndex -> Byte]
      /\ Registers \in [RegisterIndex -> Byte]
  BY RegisterTypes DEF TypeOK
<1>3. "A" \in RegisterIndex /\ Carry \in {0, 1}
  BY CarryType DEF RegisterIndex
<1> HIDE DEF o, v
<1>4. LoadRegister => TypeOK'
  <2> SUFFICES ASSUME LoadRegister  PROVE TypeOK'
    OBVIOUS
  <2> DEFINE r == LoadTarget[Instr.op]
  <2>1. Executes(DOMAIN LoadTarget) /\ StoredTypeOK'
    BY NoStoreType DEF LoadRegister
  <2>2. r \in RegisterIndex
    BY <2>1 DEF Executes, LoadTarget, RegisterIndex
  <2>3. Retire([Registers EXCEPT ![r] = v.value], WithNZ(P, v.value), o.next, v.bus)
    BY DEF LoadRegister, o, v
  <2> QED  BY <1>1, <1>2, <2>1, <2>2, <2>3, FlagsFacts, InstructionType
<1>5. AddSub => TypeOK'
  <2> SUFFICES ASSUME AddSub  PROVE TypeOK'
    OBVIOUS
  <2> DEFINE s == IF Instr.op = "ADC"
                    THEN AddWithCarry(Registers["A"], v.value, Carry)
                    ELSE SubWithCarry(Registers["A"], v.value, Carry)
  <2>1. Executes({"ADC", "SBC"}) /\ StoredTypeOK'
    BY NoStoreType DEF AddSub
  <2>2. s.byte \in Byte
    BY <1>1, <1>2, <1>3, AddSubTypes
  <2>3. Retire([Registers EXCEPT !["A"] = s.byte],
               WithNZ(With(With(P, "C", s.C), "V", s.V), s.byte), o.next, v.bus)
    BY DEF AddSub, o, v
  <2> HIDE DEF s
  <2> QED  BY <1>1, <1>2, <1>3, <2>1, <2>2, <2>3, FlagsFacts, InstructionType
<1>6. Logical => TypeOK'
  <2> SUFFICES ASSUME Logical  PROVE TypeOK'
    OBVIOUS
  <2> DEFINE b == Logic(Instr.op, Registers["A"], v.value)
  <2>1. Executes({"AND", "ORA", "EOR"}) /\ StoredTypeOK'
    BY NoStoreType DEF Logical
  <2>2. b \in Byte
    BY <1>1, <1>2, <1>3, <2>1, LogicType DEF Executes
  <2>3. Retire([Registers EXCEPT !["A"] = b], WithNZ(P, b), o.next, v.bus)
    BY DEF Logical, o, v
  <2> HIDE DEF b
  <2> QED  BY <1>1, <1>2, <1>3, <2>1, <2>2, <2>3, FlagsFacts, InstructionType
<1>7. CompareRegister => TypeOK'
  <2> SUFFICES ASSUME CompareRegister  PROVE TypeOK'
    OBVIOUS
  <2> DEFINE s == Compare(Registers[CompareSource[Instr.op]], v.value)
  <2>1. Executes(DOMAIN CompareSource) /\ StoredTypeOK'
    BY NoStoreType DEF CompareRegister
  <2>2. Retire(Registers, WithNZ(With(P, "C", s.C), s.byte), o.next, v.bus)
    BY DEF CompareRegister, o, v
  <2> HIDE DEF s
  <2> QED  BY <1>1, <1>2, <2>1, <2>2, FlagsFacts, InstructionType
<1>8. BitTest => TypeOK'
  <2> SUFFICES ASSUME BitTest  PROVE TypeOK'
    OBVIOUS
  <2> DEFINE p == With(With(P, "N", Negative(v.value)), "V", Bit(v.value, 6) = 1)
             z == BitAnd(Registers["A"], v.value) = 0
  <2>1. Executes({"BIT"}) /\ StoredTypeOK'
    BY NoStoreType DEF BitTest
  <2>2. Retire(Registers, With(p, "Z", z), o.next, v.bus)
    BY DEF BitTest, o, v
  <2>3. "N" \in Flags /\ "V" \in Flags /\ "Z" \in Flags
    BY DEF Flags
  <2>4. With(P, "N", Negative(v.value)) \in SUBSET Flags
    BY <2>3, FlagsFacts, WithType
  <2>5. p \in SUBSET Flags
    BY <2>3, <2>4, WithType
  <2>6. With(p, "Z", z) \in SUBSET Flags
    BY <2>3, <2>5, WithType
  <2> HIDE DEF p, z
  <2> QED  BY <1>1, <1>2, <2>1, <2>2, <2>6, InstructionType
<1>9. IncDecRegister => TypeOK'
  <2> SUFFICES ASSUME IncDecRegister  PROVE TypeOK'
    OBVIOUS
  <2> DEFINE r == IncDecTarget[Instr.op]
             b == U8(IF Instr.op \in {"INX", "INY"} THEN Registers[r] + 1
                                                     ELSE Registers[r] - 1)
  <2>1. Executes(DOMAIN IncDecTarget) /\ StoredTypeOK'
    BY NoStoreType DEF IncDecRegister
  <2>2. r \in RegisterIndex
    BY <2>1 DEF Executes, IncDecTarget, RegisterIndex
  <2>3. Registers[r] + 1 \in Int /\ Registers[r] - 1 \in Int
    BY <1>2, <2>2, IntTypes
  <2>4. b \in Byte
    BY <2>3, CastTypes
  <2>5. Retire([Registers EXCEPT ![r] = b], WithNZ(P, b), o.next, o.bus)
    BY DEF IncDecRegister, o
  <2> HIDE DEF r, b
  <2> QED  BY <1>1, <1>2, <2>1, <2>2, <2>4, <2>5, FlagsFacts, InstructionType
<1>10. SetClearFlag => TypeOK'
  <2> SUFFICES ASSUME SetClearFlag  PROVE TypeOK'
    OBVIOUS
  <2> DEFINE p == With(P, FlagOp[Instr.op][1], FlagOp[Instr.op][2])
  <2>1. Executes(DOMAIN FlagOp) /\ StoredTypeOK'
    BY NoStoreType DEF SetClearFlag
  <2>2. FlagOp[Instr.op][1] \in Flags
    BY <2>1 DEF Executes, FlagOp, Flags
  <2>3. p \in SUBSET Flags
    BY <2>2, FlagsFacts, WithType
  <2>4. Retire(Registers, p, o.next, o.bus)
    BY DEF SetClearFlag, o
  <2> HIDE DEF p
  <2> QED  BY <1>1, <1>2, <2>1, <2>3, <2>4, InstructionType
<1>11. NOP => TypeOK'
  <2> SUFFICES ASSUME NOP  PROVE TypeOK'
    OBVIOUS
  <2>1. Executes({"NOP"}) /\ StoredTypeOK'
    BY NoStoreType DEF NOP
  <2>2. Retire(Registers, P, o.next, o.bus)
    BY DEF NOP, o
  <2> QED  BY <1>1, <1>2, <2>1, <2>2, FlagsFacts, InstructionType
<1>12. Transfer => TypeOK'
  <2> SUFFICES ASSUME Transfer  PROVE TypeOK'
    OBVIOUS
  <2> DEFINE t == TransferOf[Instr.op]
             b == Registers[t[1]]
             p == IF Instr.op = "TXS" THEN P ELSE WithNZ(P, b)
  <2>1. Executes(DOMAIN TransferOf) /\ StoredTypeOK'
    BY NoStoreType DEF Transfer
  <2>2. t[1] \in RegisterIndex /\ t[2] \in RegisterIndex
    BY <2>1 DEF Executes, TransferOf, RegisterIndex
  <2>3. b \in Byte
    BY <1>2, <2>2
  <2>4. p \in SUBSET Flags
    BY FlagsFacts
  <2>5. Retire([Registers EXCEPT ![t[2]] = b], p, o.next, o.bus)
    BY DEF Transfer, o
  <2> HIDE DEF t, b, p
  <2> QED  BY <1>1, <1>2, <2>1, <2>2, <2>3, <2>4, <2>5, InstructionType
<1> QED  BY <1>4, <1>5, <1>6, <1>7, <1>8, <1>9, <1>10, <1>11, <1>12

\* The instructions that store.
LEMMA StoringTypes ==
  ASSUME TypeOK
  PROVE  /\ StoreRegister => TypeOK'
         /\ IncDecMemory => TypeOK'
         /\ ShiftRotate => TypeOK'
<1> DEFINE o == FetchOperand
           v == ReadValue(o)
<1>1. /\ o.next \in Word /\ o.bus \in Cursor /\ o.value \in Word
      /\ v.value \in Byte /\ v.bus \in Cursor
  BY OperandFacts
<1>2. /\ \A r \in RegisterIndex : Registers[r] \in Byte
      /\ \A r \in RegisterIndex, b \in Byte :
           [Registers EXCEPT ![r] = b] \in [RegisterIndex -> Byte]
      /\ Registers \in [RegisterIndex -> Byte]
  BY RegisterTypes DEF TypeOK
<1> HIDE DEF o, v
<1>3. StoreRegister => TypeOK'
  <2> SUFFICES ASSUME StoreRegister  PROVE TypeOK'
    OBVIOUS
  <2> DEFINE b == Registers[StoreSource[Instr.op]]
  <2>1. Executes(DOMAIN StoreSource) /\ Write(o.value, b) /\ UNCHANGED halted
    BY DEF StoreRegister, o
  <2>2. StoreSource[Instr.op] \in RegisterIndex
    BY <2>1 DEF Executes, StoreSource, RegisterIndex
  <2>3. b \in Byte
    BY <1>2, <2>2
  <2>4. Retire(Registers, P, o.next, o.bus)
    BY DEF StoreRegister, o
  <2> HIDE DEF b
  <2>5. StoredTypeOK'
    BY <1>1, <2>1, <2>3, WriteStoredType
  <2> QED  BY <1>1, <1>2, <2>1, <2>4, <2>5, FlagsFacts, InstructionType
<1>4. IncDecMemory => TypeOK'
  <2> SUFFICES ASSUME IncDecMemory  PROVE TypeOK'
    OBVIOUS
  <2> DEFINE b == U8(IF Instr.op = "INC" THEN v.value + 1 ELSE v.value - 1)
  <2>1. Executes({"INC", "DEC"}) /\ Write(o.value, b) /\ UNCHANGED halted
    BY DEF IncDecMemory, o, v
  <2>2. v.value + 1 \in Int /\ v.value - 1 \in Int
    BY <1>1, IntTypes
  <2>3. b \in Byte
    BY <2>2, CastTypes
  <2>4. Retire(Registers, WithNZ(P, b), o.next, v.bus)
    BY DEF IncDecMemory, o, v
  <2> HIDE DEF b
  <2>5. StoredTypeOK'
    BY <1>1, <2>1, <2>3, WriteStoredType
  <2> QED  BY <1>1, <1>2, <2>1, <2>4, <2>5, FlagsFacts, InstructionType
<1>5. ShiftRotate => TypeOK'
  <2> SUFFICES ASSUME ShiftRotate  PROVE TypeOK'
    OBVIOUS
  <2> DEFINE s == Shift(Instr.op, v.value, Carry)
             inMemory == o.kind = "Address"
             r == IF inMemory THEN Registers ELSE [Registers EXCEPT !["A"] = s.byte]
             p == WithNZ(With(P, "C", s.C), s.byte)
  <2>1. /\ Executes({"ASL", "LSR", "ROL", "ROR"})
        /\ IF inMemory THEN Write(o.value, s.byte) ELSE UNCHANGED <<data, output>>
        /\ UNCHANGED halted
    BY DEF ShiftRotate, o, v
  <2>2. s.byte \in Byte
    BY <1>1, CarryType, ShiftType
  <2>3. Retire(r, p, o.next, v.bus)
    BY DEF ShiftRotate, o, v
  <2>4. p \in SUBSET Flags
    BY FlagsFacts
  <2>5. r \in [RegisterIndex -> Byte]
    BY <1>2, <2>2 DEF RegisterIndex
  <2> HIDE DEF s, inMemory, r, p
  <2>6. StoredTypeOK'
    <3>1. CASE inMemory
      BY <1>1, <2>1, <2>2, <3>1, WriteStoredType
    <3>2. CASE ~inMemory
      BY <2>1, <3>2, NoStoreType
    <3> QED  BY <3>1, <3>2
  <2> QED  BY <1>1, <2>1, <2>3, <2>4, <2>5, <2>6, InstructionType
<1> QED  BY <1>3, <1>4, <1>5

\* The instructions that use the stack, jump or halt.
LEMMA ControlTypes ==
  ASSUME TypeOK
  PROVE  /\ JMP => TypeOK'
         /\ JSR => TypeOK'
         /\ RTS => TypeOK'
         /\ BRK => TypeOK'
         /\ RTI => TypeOK'
         /\ Branch => TypeOK'
         /\ Push => TypeOK'
         /\ PLA => TypeOK'
         /\ PLP => TypeOK'
         /\ UnknownOpcode => TypeOK'
<1> DEFINE o == FetchOperand
           S == Registers["S"]
<1>1. o.next \in Word /\ o.bus \in Cursor /\ o.value \in Word
  BY OperandFacts
<1>2. /\ Registers \in [RegisterIndex -> Byte]
      /\ Registers["A"] \in Byte /\ S \in Byte
      /\ P \in SUBSET Flags
  BY RegisterTypes, FlagsFacts DEF TypeOK, RegisterIndex
<1>3. \A n \in Nat : /\ SMinus(n) \in [RegisterIndex -> Byte]
                     /\ SPlus(n) \in [RegisterIndex -> Byte]
                     /\ Pop(n) \in Byte
  BY StackTypes
<1>4. \A w \in Word : Low(w) \in Byte /\ High(w) \in Byte
  BY SplitType
<1>5. \A l, h \in Byte : Make16(l, h) \in Word
  BY Make16Type
<1>6. output \in Seq(Byte) /\ halted \in BOOLEAN /\ Cells(data)
  BY TypeOKParts DEF StoredTypeOK
<1> HIDE DEF o, S
<1>7. JMP => TypeOK'
  <2> SUFFICES ASSUME JMP  PROVE TypeOK'
    OBVIOUS
  <2>1. Executes({"JMP"}) /\ StoredTypeOK'
    BY NoStoreType DEF JMP
  <2>2. Retire(Registers, P, o.value, o.bus)
    BY DEF JMP, o
  <2> QED  BY <1>1, <1>2, <2>1, <2>2, InstructionType
<1>8. JSR => TypeOK'
  <2> SUFFICES ASSUME JSR  PROVE TypeOK'
    OBVIOUS
  <2> DEFINE ret == U16(o.next - 1)
  <2>1. /\ Executes({"JSR"})
        /\ data' = Push2(S, High(ret), Low(ret))
        /\ UNCHANGED <<output, halted>>
        /\ Retire(SMinus(2), P, o.value, o.bus)
    BY DEF JSR, o, S
  <2>2. ret \in Word
    BY <1>1, IntTypes, CastTypes
  <2> HIDE DEF ret
  <2>3. Cells(data')
    BY <1>2, <1>4, <2>1, <2>2, PushTypes
  <2>4. StoredTypeOK'
    BY <1>6, <2>1, <2>3 DEF StoredTypeOK, Cells
  <2> QED  BY <1>1, <1>2, <1>3, <2>1, <2>4, InstructionType
<1>9. RTS => TypeOK'
  <2> SUFFICES ASSUME RTS  PROVE TypeOK'
    OBVIOUS
  <2> DEFINE pc == U16(Make16(Pop(1), Pop(2)) + 1)
  <2>1. Executes({"RTS"}) /\ StoredTypeOK'
    BY NoStoreType DEF RTS
  <2>2. Retire(SPlus(2), P, pc, o.bus)
    BY DEF RTS, o
  <2>3. pc \in Word
    BY <1>3, <1>5, IntTypes, CastTypes
  <2> HIDE DEF pc
  <2> QED  BY <1>1, <1>2, <1>3, <2>1, <2>2, <2>3, InstructionType
<1>10. BRK => TypeOK'
  <2> SUFFICES ASSUME BRK  PROVE TypeOK'
    OBVIOUS
  <2>1. /\ Executes({"BRK"})
        /\ data' = Push3(S, High(o.next), Low(o.next), PackFlags(P \cup {"B"}))
        /\ halted' = TRUE
        /\ UNCHANGED output
        /\ Retire(SMinus(3), P \cup {"I"}, Vector(IrqVector), o.bus)
    BY DEF BRK, o, S
  <2>2. Cells(data')
    BY <1>1, <1>2, <1>4, <2>1, FlagsFacts, PushTypes
  <2>3. StoredTypeOK'
    BY <1>6, <2>1, <2>2 DEF StoredTypeOK, Cells
  <2>4. Vector(IrqVector) \in Word
    BY VectorType DEF TypeOK
  <2> QED  BY <1>1, <1>3, <2>1, <2>3, <2>4, FlagsFacts, InstructionType
<1>11. RTI => TypeOK'
  <2> SUFFICES ASSUME RTI  PROVE TypeOK'
    OBVIOUS
  <2>1. Executes({"RTI"}) /\ StoredTypeOK'
    BY NoStoreType DEF RTI
  <2>2. Retire(SPlus(3), UnpackFlags(Pop(1)), Make16(Pop(2), Pop(3)), o.bus)
    BY DEF RTI, o
  <2>3. UnpackFlags(Pop(1)) \in SUBSET Flags /\ Make16(Pop(2), Pop(3)) \in Word
    BY <1>3, <1>5, FlagTypes
  <2> QED  BY <1>1, <1>3, <2>1, <2>2, <2>3, InstructionType
<1>12. Branch => TypeOK'
  <2> SUFFICES ASSUME Branch  PROVE TypeOK'
    OBVIOUS
  <2> DEFINE taken == (BranchOn[Instr.op][1] \in P) = BranchOn[Instr.op][2]
             target == U16(o.next + Signed(Low(o.value)))
             pc == IF taken THEN target ELSE o.next
  <2>1. Executes(DOMAIN BranchOn) /\ StoredTypeOK'
    BY NoStoreType DEF Branch
  <2>2. Retire(Registers, P, pc, o.bus)
    BY DEF Branch, o
  <2>3. Signed(Low(o.value)) \in Int
    BY <1>1, <1>4, IntTypes DEF Signed
  <2>4. target \in Word
    BY <1>1, <2>3, IntTypes, CastTypes
  <2> HIDE DEF taken, target
  <2>5. pc \in Word
    BY <1>1, <2>4
  <2> HIDE DEF pc
  <2> QED  BY <1>1, <1>2, <2>1, <2>2, <2>5, InstructionType
<1>13. Push => TypeOK'
  <2> SUFFICES ASSUME Push  PROVE TypeOK'
    OBVIOUS
  <2> DEFINE b == IF Instr.op = "PHA" THEN Registers["A"] ELSE PackFlags(P \cup {"B"})
  <2>1. /\ Executes({"PHA", "PHP"})
        /\ data' = Push1(S, b)
        /\ UNCHANGED <<output, halted>>
        /\ Retire(SMinus(1), P, o.next, o.bus)
    BY DEF Push, o, S
  <2>2. b \in Byte
    BY <1>2, FlagsFacts
  <2> HIDE DEF b
  <2>3. Cells(data')
    BY <1>2, <2>1, <2>2, PushTypes
  <2>4. StoredTypeOK'
    BY <1>6, <2>1, <2>3 DEF StoredTypeOK, Cells
  <2> QED  BY <1>1, <1>2, <1>3, <2>1, <2>4, InstructionType
<1>14. PLA => TypeOK'
  <2> SUFFICES ASSUME PLA  PROVE TypeOK'
    OBVIOUS
  <2> DEFINE r == [SPlus(1) EXCEPT !["A"] = Pop(1)]
  <2>1. Executes({"PLA"}) /\ StoredTypeOK'
    BY NoStoreType DEF PLA
  <2>2. Retire(r, WithNZ(P, Pop(1)), o.next, o.bus)
    BY DEF PLA, o
  <2>3. r \in [RegisterIndex -> Byte]
    BY <1>3
  <2> HIDE DEF r
  <2> QED  BY <1>1, <2>1, <2>2, <2>3, FlagsFacts, InstructionType
<1>15. PLP => TypeOK'
  <2> SUFFICES ASSUME PLP  PROVE TypeOK'
    OBVIOUS
  <2>1. Executes({"PLP"}) /\ StoredTypeOK'
    BY NoStoreType DEF PLP
  <2>2. Retire(SPlus(1), UnpackFlags(Pop(1)), o.next, o.bus)
    BY DEF PLP, o
  <2>3. UnpackFlags(Pop(1)) \in SUBSET Flags
    BY <1>3, FlagTypes
  <2> QED  BY <1>1, <1>3, <2>1, <2>2, <2>3, InstructionType
<1>16. UnknownOpcode => TypeOK'
  <2> SUFFICES ASSUME UnknownOpcode  PROVE TypeOK'
    OBVIOUS
  <2>1. /\ Executes({"UNKNOWN"})
        /\ Retire(Registers, P, o.next, o.bus)
        /\ halted' = TRUE
        /\ UNCHANGED <<data, output>>
    BY DEF UnknownOpcode, o
  <2>2. StoredTypeOK'
    BY <1>6, <2>1 DEF StoredTypeOK, Cells
  <2> QED  BY <1>1, <1>2, <2>1, <2>2, InstructionType
<1> QED  BY <1>7, <1>8, <1>9, <1>10, <1>11, <1>12, <1>13, <1>14, <1>15, <1>16

LEMMA StdinType ==
  ASSUME TypeOK, Stdin
  PROVE  TypeOK'
<1>1. MemoryTypeOK'
  <2>1. CASE StdinArrives
    <3>1. Head(unsent) \in Byte /\ Tail(unsent) \in Seq(Byte)
      BY <2>1 DEF StdinArrives, TypeOK, MemoryTypeOK
    <3> QED  BY <2>1, <3>1 DEF StdinArrives, TypeOK, MemoryTypeOK, Cells
  <2>2. CASE StdinCloses
    BY <2>2 DEF StdinCloses, uart, TypeOK, MemoryTypeOK, Cells
  <2> QED  BY <2>1, <2>2 DEF Stdin
<1> QED  BY <1>1 DEF Stdin, core, irq, TypeOK

LEMMA InitType == Init => TypeOK
<1> SUFFICES ASSUME Init  PROVE TypeOK
  OBVIOUS
<1>1. PICK image \in Images : MemoryInit(image)
  BY DEF Init
<1>2. Cells(data)
  BY <1>1, ImagesAssumption DEF MemoryInit, LoadImage, Cells
<1>3. MemoryTypeOK
  <2>1. RxQueue = <<>> /\ output = <<>> /\ stdin = <<>>
    BY <1>1 DEF MemoryInit
  <2>2. RxEof = FALSE /\ closed = FALSE /\ unsent = Script
    BY <1>1 DEF MemoryInit
  <2>3. RxQueue \in Seq(Byte) /\ output \in Seq(Byte) /\ stdin \in Seq(Byte)
    BY <2>1
  <2>4. RxEof \in BOOLEAN /\ closed \in BOOLEAN
    BY <2>2, Zenon
  <2>5. unsent \in Seq(Byte)
    BY <2>2, ScriptAssumption, Zenon
  <2> QED  BY <1>2, <2>3, <2>4, <2>5, Zenon DEF MemoryTypeOK
<1>4. RegisterPC \in Word
  BY <1>3, VectorType DEF Init
<1>5. Registers \in [RegisterIndex -> Byte]
  BY DEF Init, RegisterIndex, Byte
<1>6. P \subseteq Flags /\ halted \in BOOLEAN
  BY DEF Init, Flags
<1>7. IrqLine \in BOOLEAN /\ IrqInterval \in IrqIntervals /\ IrqCounter \in Nat
  BY DEF Init
<1> QED  BY <1>3, <1>4, <1>5, <1>6, <1>7 DEF TypeOK

LEMMA NextType ==
  ASSUME TypeOK, [Next]_vars
  PROVE  TypeOK'
<1>1. CASE HandleIrq    BY <1>1, HandleIrqType
<1>2. CASE Instruction
  BY <1>2, ComputeTypes, StoringTypes, ControlTypes DEF Instruction
<1>3. CASE Stdin        BY <1>3, StdinType
<1>4. CASE UNCHANGED vars
  BY <1>4 DEF vars, core, irq, memoryVars, uart, host, TypeOK, MemoryTypeOK, Cells
<1> QED  BY <1>1, <1>2, <1>3, <1>4 DEF Next, Step

\* Registers hold bytes, PC and every address words, P flags and the array
\* bytes, whatever program runs.
THEOREM TypeCorrect == Spec => []TypeOK
<1>1. Init => TypeOK
  BY InitType
<1>2. TypeOK /\ [Next]_vars => TypeOK'
  BY NextType
<1> QED  BY <1>1, <1>2, PTL DEF Spec

-----------------------------------------------------------------------------
(***************************************************************************)
(* What Cpu keeps beside its types: the timer's count and promise, and     *)
(* which cells a step may touch.  The frame of a step is proved first,     *)
(* once for all its actions.                                               *)
(***************************************************************************)

(***************************************************************************)
(* The counter never passes the interval: ++IrqCounter cannot overflow and *)
(* a firing is never skipped, whatever the interval.                       *)
(***************************************************************************)
CounterBelowInterval ==
  IF IrqInterval = 0 THEN IrqCounter = 0 ELSE IrqCounter < IrqInterval

\* What every call of step() does to the timer and the line.
LEMMA StepFrame ==
  ASSUME Step
  PROVE  /\ ~halted /\ Tick /\ UNCHANGED host
         /\ \/ HandleIrq
            \/ Instruction /\ ~Interrupted /\ IrqLine' = LineNow
<1>1. CASE HandleIrq
  BY <1>1 DEF HandleIrq
<1>2. CASE Instruction
  <2>1. \E ops : Executes(ops)
    BY <1>2 DEF Instruction, LoadRegister, StoreRegister, AddSub, Logical,
       CompareRegister, BitTest, IncDecMemory, IncDecRegister, ShiftRotate, JMP,
       JSR, RTS, BRK, RTI, Branch, SetClearFlag, NOP, Transfer, Push, PLA, PLP,
       UnknownOpcode
  <2> QED  BY <1>2, <2>1 DEF Executes
<1> QED  BY <1>1, <1>2 DEF Step

\* The timer's invariant: between two firings the count stays below.
LEMMA NextCounter ==
  ASSUME TypeOK, CounterBelowInterval, [Next]_vars
  PROVE  CounterBelowInterval'
<1>1. IrqInterval \in Nat /\ IrqCounter \in Nat
  BY IrqIntervalsAssumption DEF TypeOK
<1>2. CASE Step
  <2>1. Tick
    BY <1>2, StepFrame
  <2> QED  BY <1>1, <2>1 DEF Tick, TimerFires, CounterBelowInterval
<1>3. CASE UNCHANGED irq
  BY <1>3 DEF irq, CounterBelowInterval
<1> QED  BY <1>2, <1>3 DEF Next, Stdin, vars

\* The counter stays below the interval in every state, for every interval.
THEOREM CounterBounded == Spec => []CounterBelowInterval
<1>1. Init => CounterBelowInterval
  BY IrqIntervalsAssumption DEF Init, CounterBelowInterval
<1>2. TypeOK /\ CounterBelowInterval /\ [Next]_vars => CounterBelowInterval'
  BY NextCounter
<1> QED  BY <1>1, <1>2, TypeCorrect, PTL DEF Spec

-----------------------------------------------------------------------------
(* The refinement of the timer. *)

LEMMA TimerStarts == Init => Timer!TimerInit
BY DEF Init, Timer!TimerInit

\* Every step is one of the timer's, or none of its business.
LEMMA TimerSteps ==
  ASSUME TypeOK, CounterBelowInterval, [Next]_vars
  PROVE  [Timer!TimerNext]_(Timer!timerVars)
<1>1. IrqInterval \in Nat /\ IrqCounter \in Nat /\ IrqLine \in BOOLEAN
  BY IrqIntervalsAssumption DEF TypeOK
<1>2. Timer!Due <=> TimerFires
  BY DEF Timer!Due, TimerFires
<1>3. CASE Step
  <2>1. /\ ~halted /\ Tick
        /\ \/ HandleIrq
           \/ Instruction /\ ~Interrupted /\ IrqLine' = LineNow
    BY <1>3, StepFrame
  <2>2. Timer!Elapse
    BY <1>1, <1>2, <2>1 DEF Timer!Elapse, Tick, CounterBelowInterval
  <2>3. ASSUME HandleIrq  PROVE Timer!Take
    <3>1. /\ LineNow /\ "I" \notin P /\ IrqLine' = FALSE /\ P' = P \cup {"I"}
          /\ UNCHANGED halted
      BY <2>3 DEF HandleIrq, Interrupted
    <3> QED  BY <1>2, <2>1, <2>2, <3>1 DEF Timer!Take, LineNow
  <2>4. ASSUME Instruction, ~Interrupted, IrqLine' = LineNow
        PROVE  Timer!Execute
    <3>1. (IrqLine \/ Timer!Due) => "I" \in P
      BY <1>2, <2>4 DEF Interrupted, LineNow
    <3>2. IrqLine' = (IrqLine \/ Timer!Due)
      BY <1>2, <2>4 DEF LineNow
    <3>3. ("I" \in P)' \in BOOLEAN /\ halted' \in BOOLEAN
      <4>1. TypeOK'
        BY NextType
      <4> QED  BY <4>1 DEF TypeOK
    <3> QED  BY <2>1, <2>2, <3>1, <3>2, <3>3 DEF Timer!Execute
  <2> QED  BY <2>1, <2>3, <2>4 DEF Timer!TimerNext
<1>4. CASE UNCHANGED <<core, irq>>
  BY <1>4 DEF core, irq, Timer!timerVars
<1> QED  BY <1>3, <1>4 DEF Next, Stdin, vars

\* Every guest program, under every interval, sees the timer IrqTimer
\* promises: step() implements it.
THEOREM TimerImplemented == Spec => ImplementsTimer
<1>1. TypeOK /\ CounterBelowInterval /\ [Next]_vars
        => [Timer!TimerNext]_(Timer!timerVars)
  BY TimerSteps
<1> QED  BY <1>1, TimerStarts, TypeCorrect, CounterBounded, PTL
         DEF Spec, ImplementsTimer, Timer!TimerSafety
-----------------------------------------------------------------------------
(* Which cells a step may touch. *)

\* How an instruction may leave the array: as it was, with one store at its
\* operand, or with up to three pushes.
Untouched   == data' = data
OperandCell == \E b : data' = Store(data, FetchOperand.value, b)
Pushed ==
  LET s == Registers["S"]
  IN  \E b1, b2, b3 : data' \in {Push1(s, b1), Push2(s, b1, b2), Push3(s, b1, b2, b3)}

\* A store reaches one cell, and none of the UART's.
LEMMA StoreFrame ==
  ASSUME NEW cells, NEW address, NEW b
  PROVE  /\ DOMAIN Store(cells, address, b) \subseteq DOMAIN cells \cup {address}
         /\ \A a \in DOMAIN Store(cells, address, b) \ {address} :
              a \in DOMAIN cells /\ Store(cells, address, b)[a] = cells[a]
         /\ DOMAIN cells \cap InRange = {}
              => DOMAIN Store(cells, address, b) \cap InRange = {}
<1>1. CASE address \in InRange
  BY <1>1 DEF Store
<1>2. CASE address \notin InRange
  <2>1. Store(cells, address, b)
          = [a \in DOMAIN cells \cup {address} |-> IF a = address THEN b ELSE cells[a]]
    BY <1>2 DEF Store
  <2> QED  BY <1>2, <2>1
<1> QED  BY <1>1, <1>2

\* The array as it was but for the stack page, and still without I/O cells.
Framed(cells) ==
  /\ \A a \in DOMAIN cells \ StackPage : a \in DOMAIN data /\ cells[a] = data[a]
  /\ IoCellsBlank => DOMAIN cells \cap InRange = {}

\* The pushes stay in the stack page wherever S points.
LEMMA PushFrame ==
  ASSUME NEW s \in Byte, NEW b1, NEW b2, NEW b3
  PROVE  /\ Framed(Push1(s, b1))
         /\ Framed(Push2(s, b1, b2))
         /\ Framed(Push3(s, b1, b2, b3))
<1>1. \A n \in Int : StackAt(n) \in StackPage
  <2> TAKE n \in Int
  <2>1. U8(n) \in 0 .. 255
    BY CastTypes DEF Byte
  <2> QED  BY <2>1 DEF StackAt, StackBase, StackPage
<1>2. s \in Int /\ s - 1 \in Int /\ s - 2 \in Int
  BY DEF Byte
<1>3. StackAt(s) \in StackPage /\ StackAt(s - 1) \in StackPage /\ StackAt(s - 2) \in StackPage
  BY <1>1, <1>2
<1>4. ASSUME NEW cells, Framed(cells), NEW address \in StackPage, NEW b
      PROVE  Framed(Store(cells, address, b))
  <2> DEFINE c == Store(cells, address, b)
  <2>1. /\ \A a \in DOMAIN c \ {address} : a \in DOMAIN cells /\ c[a] = cells[a]
        /\ DOMAIN cells \cap InRange = {} => DOMAIN c \cap InRange = {}
    BY StoreFrame
  <2> HIDE DEF c
  <2> QED  BY <1>4, <2>1 DEF c, Framed
<1>5. Framed(data)
  BY DEF IoCellsBlank, Framed
<1>6. Framed(Push1(s, b1))
  BY <1>3, <1>4, <1>5 DEF Push1
<1>7. Framed(Push2(s, b1, b2))
  BY <1>3, <1>4, <1>6 DEF Push2
<1>8. Framed(Push3(s, b1, b2, b3))
  BY <1>3, <1>4, <1>7 DEF Push3
<1> QED  BY <1>6, <1>7, <1>8

\* Each step leaves the array in the way of its kind.
LEMMA StepStores ==
  ASSUME Step
  PROVE  \/ Untouched
         \/ (Interrupted \/ Instr.op \in Pushing) /\ Pushed
         \/ ~Interrupted /\ Instr.op \in Storing /\ OperandCell
<1>1. CASE HandleIrq
  BY <1>1 DEF HandleIrq, Pushed
<1>2. CASE LoadRegister \/ AddSub \/ Logical \/ CompareRegister \/ BitTest
           \/ IncDecRegister \/ JMP \/ RTS \/ RTI \/ Branch \/ SetClearFlag
           \/ NOP \/ Transfer \/ PLA \/ PLP \/ UnknownOpcode
  <2>1. UNCHANGED data
    BY <1>2 DEF LoadRegister, AddSub, Logical, CompareRegister, BitTest,
       IncDecRegister, JMP, RTS, RTI, Branch, SetClearFlag, NOP, Transfer, PLA,
       PLP, UnknownOpcode
  <2> QED  BY <2>1 DEF Untouched
<1>3. CASE StoreRegister \/ IncDecMemory \/ ShiftRotate
  <2>1. CASE StoreRegister
    <3>1. Executes(DOMAIN StoreSource) /\ OperandCell
      BY <2>1 DEF StoreRegister, Write, OperandCell
    <3> QED  BY <3>1 DEF Executes, StoreSource, Storing
  <2>2. CASE IncDecMemory
    <3>1. Executes({"INC", "DEC"}) /\ OperandCell
      BY <2>2 DEF IncDecMemory, Write, OperandCell
    <3> QED  BY <3>1 DEF Executes, Storing
  <2>3. CASE ShiftRotate
    <3>1. Executes({"ASL", "LSR", "ROL", "ROR"}) /\ (OperandCell \/ Untouched)
      BY <2>3 DEF ShiftRotate, Write, OperandCell, Untouched
    <3> QED  BY <3>1 DEF Executes, Storing
  <2> QED  BY <1>3, <2>1, <2>2, <2>3
<1>4. CASE JSR \/ BRK \/ Push
  <2>1. CASE JSR
    <3>1. Executes({"JSR"}) /\ Pushed
      BY <2>1 DEF JSR, Pushed
    <3> QED  BY <3>1 DEF Executes, Pushing
  <2>2. CASE BRK
    <3>1. Executes({"BRK"}) /\ Pushed
      BY <2>2 DEF BRK, Pushed
    <3> QED  BY <3>1 DEF Executes, Pushing
  <2>3. CASE Push
    <3>1. Executes({"PHA", "PHP"}) /\ Pushed
      BY <2>3 DEF Push, Pushed
    <3> QED  BY <3>1 DEF Executes, Pushing
  <2> QED  BY <1>4, <2>1, <2>2, <2>3
<1> QED  BY <1>1, <1>2, <1>3, <1>4 DEF Step, Instruction

LEMMA StepFrameOfArray ==
  ASSUME TypeOK, Step
  PROVE  /\ \A a \in DOMAIN data' \ MayChange :
              a \in DOMAIN data /\ data'[a] = data[a]
         /\ IoCellsBlank => IoCellsBlank'
<1>1. CASE Untouched
  BY <1>1 DEF Untouched, IoCellsBlank
<1>2. CASE (Interrupted \/ Instr.op \in Pushing) /\ Pushed
  <2>1. MayChange = StackPage
    BY <1>2 DEF MayChange
  <2>2. Registers["S"] \in Byte
    BY RegisterTypes DEF RegisterIndex
  <2>3. /\ \A a \in DOMAIN data' \ StackPage :
              a \in DOMAIN data /\ data'[a] = data[a]
        /\ IoCellsBlank => DOMAIN data' \cap InRange = {}
    <3>1. PICK b1, b2, b3 :
            data' \in {Push1(Registers["S"], b1), Push2(Registers["S"], b1, b2),
                       Push3(Registers["S"], b1, b2, b3)}
      BY <1>2 DEF Pushed
    <3>2. Framed(data')
      BY <2>2, <3>1, PushFrame
    <3> QED  BY <3>2 DEF Framed
  <2> QED  BY <2>1, <2>3 DEF IoCellsBlank
<1>3. CASE ~Interrupted /\ Instr.op \in Storing /\ OperandCell
  <2>1. MayChange = {FetchOperand.value}
    BY <1>3 DEF MayChange, Storing, Pushing
  <2>2. PICK b : data' = Store(data, FetchOperand.value, b)
    BY <1>3 DEF OperandCell
  <2> QED  BY <2>1, <2>2, StoreFrame DEF IoCellsBlank
<1> QED  BY <1>1, <1>2, <1>3, StepStores

\* No image, store, read-modify-write or push of any program ever puts a
\* byte into the cells behind the UART's addresses.
THEOREM IoNeverStored == Spec => []IoCellsBlank
<1>1. Init => IoCellsBlank
  <2> SUFFICES ASSUME Init  PROVE IoCellsBlank
    OBVIOUS
  <2>1. PICK image \in Images : data = LoadImage(image)
    BY DEF Init, MemoryInit
  <2>2. DOMAIN data = DOMAIN image \ InRange
    BY <2>1 DEF LoadImage
  <2> QED  BY <2>2 DEF IoCellsBlank
<1>2. TypeOK /\ IoCellsBlank /\ [Next]_vars => IoCellsBlank'
  <2> SUFFICES ASSUME TypeOK, IoCellsBlank, [Next]_vars  PROVE IoCellsBlank'
    OBVIOUS
  <2>1. CASE Step
    BY <2>1, StepFrameOfArray
  <2>2. CASE UNCHANGED data
    BY <2>2 DEF IoCellsBlank
  <2> QED  BY <2>1, <2>2
           DEF Next, Stdin, StdinArrives, StdinCloses, vars, memoryVars
<1> QED  BY <1>1, <1>2, TypeCorrect, PTL DEF Spec

\* No instruction of any program writes outside the cell its operand names
\* or, when it pushes, outside the stack page.
THEOREM StoresConfined == Spec => StoresStayInPlace
<1>1. TypeOK /\ [Next]_vars
        => [Step => \A a \in DOMAIN data' \ MayChange :
                      a \in DOMAIN data /\ data'[a] = data[a]]_vars
  BY StepFrameOfArray
<1> QED  BY <1>1, TypeCorrect, PTL DEF Spec, StoresStayInPlace

-----------------------------------------------------------------------------
(* The program counter. *)

\* FetchOperand moves on by the table's length, for every entry.
LEMMA NextIsBehind ==
  ASSUME Instr.mode \in Modes
  PROVE  FetchOperand.next = U16(RegisterPC + InstructionBytes(Instr.mode))
<1>1. Instr.mode \in {"Implied", "Accumulator", "Immediate", "Relative",
        "ZeroPage", "ZeroPageX", "ZeroPageY", "Absolute", "AbsoluteX",
        "AbsoluteY", "Indirect", "IndexedIndirect", "IndirectIndexed"}
  BY DEF Modes, Encoding
<1>2. CASE Instr.mode \in {"Implied", "Accumulator"}
  BY <1>2 DEF FetchOperand, Operand, InstructionBytes
<1>3. CASE Instr.mode = "Immediate"
  BY <1>3 DEF FetchOperand, Operand, InstructionBytes
<1>4. CASE Instr.mode \in {"ZeroPage", "ZeroPageX", "ZeroPageY",
                           "IndexedIndirect", "IndirectIndexed", "Relative"}
  BY <1>4 DEF FetchOperand, Operand, InstructionBytes
<1>5. CASE Instr.mode \in {"Absolute", "AbsoluteX", "AbsoluteY", "Indirect"}
  BY <1>5 DEF FetchOperand, Operand, InstructionBytes
<1> QED  BY <1>1, <1>2, <1>3, <1>4, <1>5

\* A byte with a name decodes to an entry of the table.
LEMMA NamedHasMode ==
  ASSUME TypeOK, Instr.op # "UNKNOWN"
  PROVE  Instr.mode \in Modes
<1>1. Read(RegisterPC, Idle) \in Byte
  BY IdleType, ReadType DEF TypeOK
<1>2. Instr = Unknown \/ Instr \in Instructions
  BY <1>1 DEF Instr, Decode, Table
<1>3. Instr # Unknown
  BY DEF Unknown
<1>4. \A i \in Instructions : i.mode \in Modes
  BY DEF Instructions
<1> QED  BY <1>2, <1>3, <1>4

\* Only the jumping instructions set the PC to anything else.
LEMMA NextPc ==
  ASSUME Instruction, Instr.op \notin Jumping
  PROVE  RegisterPC' = FetchOperand.next
<1>1. CASE JMP \/ JSR \/ RTS \/ BRK \/ RTI \/ Branch \/ UnknownOpcode
  BY <1>1 DEF JMP, JSR, RTS, BRK, RTI, Branch, UnknownOpcode, Executes, Jumping
<1>2. CASE LoadRegister \/ StoreRegister \/ AddSub \/ Logical
           \/ CompareRegister \/ BitTest \/ IncDecMemory \/ IncDecRegister
           \/ ShiftRotate
  BY <1>2 DEF LoadRegister, StoreRegister, AddSub, Logical, CompareRegister,
     BitTest, IncDecMemory, IncDecRegister, ShiftRotate, Retire
<1>3. CASE SetClearFlag \/ NOP \/ Transfer \/ Push \/ PLA \/ PLP
  BY <1>3 DEF SetClearFlag, NOP, Transfer, Push, PLA, PLP, Retire
<1> QED  BY <1>1, <1>2, <1>3 DEF Instruction

\* In no program does an instruction that does not jump run into its own
\* operand or skip a byte.
THEOREM PcMovesOn == Spec => PcAdvances
<1>1. TypeOK /\ [Next]_vars
        => [Step /\ ~Interrupted /\ Instr.op \notin Jumping =>
              RegisterPC' = U16(RegisterPC + InstructionBytes(Instr.mode))]_vars
  <2> SUFFICES ASSUME TypeOK, Step, ~Interrupted, Instr.op \notin Jumping
               PROVE  RegisterPC' = U16(RegisterPC + InstructionBytes(Instr.mode))
    OBVIOUS
  <2>1. Instruction
    BY DEF Step, HandleIrq
  <2>2. Instr.mode \in Modes
    BY NamedHasMode DEF Jumping
  <2> QED  BY <2>1, <2>2, NextPc, NextIsBehind
<1> QED  BY <1>1, TypeCorrect, PTL DEF Spec, PcAdvances

-----------------------------------------------------------------------------
(***************************************************************************)
(* What a guest may rely on across calls and interrupts.  The way back of  *)
(* every open frame stays where it was pushed, in a program that keeps its *)
(* stack in order, and what is pulled is what was pushed.                  *)
(***************************************************************************)

CellIn(cells, a) == IF a \in DOMAIN cells THEN cells[a] ELSE 0

LEMMA CellIsCellIn == \A a : Cell(a) = CellIn(data, a)
BY DEF Cell, CellIn

LEMMA StoreAt ==
  ASSUME NEW cells, NEW address, NEW b
  PROVE  /\ address \notin InRange => CellIn(Store(cells, address, b), address) = b
         /\ \A a : a # address => CellIn(Store(cells, address, b), a) = CellIn(cells, a)
<1>1. CASE address \in InRange
  BY <1>1 DEF Store
<1>2. CASE address \notin InRange
  <2>1. Store(cells, address, b)
          = [a \in DOMAIN cells \cup {address} |-> IF a = address THEN b ELSE cells[a]]
    BY <1>2 DEF Store
  <2> QED  BY <2>1 DEF CellIn
<1> QED  BY <1>1, <1>2

\* Three places of the stack, one below the other, are three cells outside
\* the UART's.
LEMMA StackCells ==
  ASSUME NEW s \in Byte
  PROVE  /\ StackAt(s) \notin InRange /\ StackAt(s - 1) \notin InRange
         /\ StackAt(s - 2) \notin InRange
         /\ StackAt(s) # StackAt(s - 1) /\ StackAt(s) # StackAt(s - 2)
         /\ StackAt(s - 1) # StackAt(s - 2)
<1>1. s \in Int /\ 0 <= s /\ s < 256
  BY DEF Byte
<1>2. \A n \in Int : 0 <= U8(n) /\ U8(n) < 256 /\ U8(n) \in Int
  BY DEF U8
<1>3. \A n \in Int : StackAt(n) \notin InRange
  BY <1>2 DEF StackAt, StackBase, InRange, StatusAddress, DataAddress
<1>4. U8(s) # U8(s - 1) /\ U8(s) # U8(s - 2) /\ U8(s - 1) # U8(s - 2)
  BY <1>1 DEF U8
<1>5. s - 1 \in Int /\ s - 2 \in Int
  BY <1>1
<1>6. StackAt(s) # StackAt(s - 1) /\ StackAt(s) # StackAt(s - 2) /\ StackAt(s - 1) # StackAt(s - 2)
  BY <1>1, <1>2, <1>4, <1>5 DEF StackAt, StackBase
<1> QED  BY <1>1, <1>3, <1>5, <1>6

\* What is pushed lies on the stack, and nothing else has changed.
LEMMA PushCells ==
  ASSUME NEW s \in Byte, NEW b1, NEW b2, NEW b3
  PROVE  /\ CellIn(Push2(s, b1, b2), StackAt(s)) = b1
         /\ CellIn(Push2(s, b1, b2), StackAt(s - 1)) = b2
         /\ CellIn(Push3(s, b1, b2, b3), StackAt(s)) = b1
         /\ CellIn(Push3(s, b1, b2, b3), StackAt(s - 1)) = b2
         /\ CellIn(Push3(s, b1, b2, b3), StackAt(s - 2)) = b3
<1>1. CellIn(Push1(s, b1), StackAt(s)) = b1
  BY StackCells, StoreAt DEF Push1
<1>2. /\ CellIn(Push2(s, b1, b2), StackAt(s - 1)) = b2
      /\ CellIn(Push2(s, b1, b2), StackAt(s)) = b1
  BY <1>1, StackCells, StoreAt DEF Push2
<1>3. /\ CellIn(Push3(s, b1, b2, b3), StackAt(s - 2)) = b3
      /\ CellIn(Push3(s, b1, b2, b3), StackAt(s - 1)) = b2
      /\ CellIn(Push3(s, b1, b2, b3), StackAt(s)) = b1
  BY <1>2, StackCells, StoreAt DEF Push3
<1> QED  BY <1>2, <1>3

LEMMA PushKeeps ==
  ASSUME NEW s, NEW b1, NEW b2, NEW b3, NEW a, a # StackAt(s)
  PROVE  /\ CellIn(Push1(s, b1), a) = CellIn(data, a)
         /\ a # StackAt(s - 1) => CellIn(Push2(s, b1, b2), a) = CellIn(data, a)
         /\ a # StackAt(s - 1) /\ a # StackAt(s - 2)
              => CellIn(Push3(s, b1, b2, b3), a) = CellIn(data, a)
<1>1. CellIn(Push1(s, b1), a) = CellIn(data, a)
  BY StoreAt DEF Push1
<1>2. a # StackAt(s - 1) => CellIn(Push2(s, b1, b2), a) = CellIn(data, a)
  BY <1>1, StoreAt DEF Push2
<1>3. a # StackAt(s - 1) /\ a # StackAt(s - 2)
        => CellIn(Push3(s, b1, b2, b3), a) = CellIn(data, a)
  BY <1>2, StoreAt DEF Push3
<1> QED  BY <1>1, <1>2, <1>3

\* Pulling the flags undoes pushing them.
LEMMA FlagsComeBack ==
  ASSUME NEW Q \in SUBSET Flags
  PROVE  UnpackFlags(PackFlags(Q)) = Q
<1> DEFINE c == IF "C" \in Q THEN 1 ELSE 0
           z == IF "Z" \in Q THEN 1 ELSE 0
           i == IF "I" \in Q THEN 1 ELSE 0
           d == IF "D" \in Q THEN 1 ELSE 0
           b == IF "B" \in Q THEN 1 ELSE 0
           u == IF "U" \in Q THEN 1 ELSE 0
           v == IF "V" \in Q THEN 1 ELSE 0
           n == IF "N" \in Q THEN 1 ELSE 0
           sum == PackFlags(Q)
<1>1. sum = c + 2 * z + 4 * i + 8 * d + 16 * b + 32 * u + 64 * v + 128 * n
  BY DEF PackFlags
<1>2. /\ c \in {0, 1} /\ z \in {0, 1} /\ i \in {0, 1} /\ d \in {0, 1}
      /\ b \in {0, 1} /\ u \in {0, 1} /\ v \in {0, 1} /\ n \in {0, 1}
  OBVIOUS
<1>3. /\ (c = 1) = ("C" \in Q) /\ (z = 1) = ("Z" \in Q) /\ (i = 1) = ("I" \in Q)
      /\ (d = 1) = ("D" \in Q) /\ (b = 1) = ("B" \in Q) /\ (u = 1) = ("U" \in Q)
      /\ (v = 1) = ("V" \in Q) /\ (n = 1) = ("N" \in Q)
  OBVIOUS
<1> HIDE DEF c, z, i, d, b, u, v, n, sum
<1>4. /\ (sum \div 1) % 2 = c /\ (sum \div 2) % 2 = z
      /\ (sum \div 4) % 2 = i /\ (sum \div 8) % 2 = d
      /\ (sum \div 16) % 2 = b /\ (sum \div 32) % 2 = u
      /\ (sum \div 64) % 2 = v /\ (sum \div 128) % 2 = n
  <2> DEFINE h6 == v + 2 * n
             h5 == u + 2 * h6
             h4 == b + 2 * h5
             h3 == d + 2 * h4
             h2 == i + 2 * h3
             h1 == z + 2 * h2
  <2>1. /\ n \in Int /\ h6 \in Int /\ h5 \in Int /\ h4 \in Int /\ h3 \in Int
        /\ h2 \in Int /\ h1 \in Int
    BY <1>2
  <2>2. /\ sum \div 1 = c + 2 * h1 /\ sum \div 2 = h1 /\ sum \div 4 = h2
        /\ sum \div 8 = h3 /\ sum \div 16 = h4 /\ sum \div 32 = h5
        /\ sum \div 64 = h6 /\ sum \div 128 = n
    BY <1>1, <1>2
  <2>3. \A x \in {0, 1}, h \in Int : (x + 2 * h) % 2 = x
    OBVIOUS
  <2>4. n % 2 = n
    BY <1>2
  <2> QED  BY <1>2, <2>1, <2>2, <2>3, <2>4
<1>5. /\ Bit(sum, 0) = c /\ Bit(sum, 1) = z /\ Bit(sum, 2) = i /\ Bit(sum, 3) = d
      /\ Bit(sum, 4) = b /\ Bit(sum, 5) = u /\ Bit(sum, 6) = v /\ Bit(sum, 7) = n
  BY <1>4 DEF Bit, Weight
<1>6. \A f \in Flags : (Bit(sum, FlagBit[f]) = 1) = (f \in Q)
  BY <1>3, <1>5 DEF Flags, FlagBit
<1>7. UnpackFlags(sum) = {f \in Flags : f \in Q}
  BY <1>6 DEF UnpackFlags
<1> QED  BY <1>7 DEF sum

-----------------------------------------------------------------------------
(* Frames. *)

Frame == [kind : {"call", "irq"}, pc : Word,
          registers : [RegisterIndex -> Byte], P : SUBSET Flags]

\* The address that a frame has on the stack: an RTS adds one to it.
Pushed16(f) == IF f.kind = "call" THEN U16(f.pc - 1) ELSE f.pc

Intact(cells, f) ==
  /\ CellIn(cells, StackAt(f.registers["S"])) = High(Pushed16(f))
  /\ CellIn(cells, StackAt(f.registers["S"] - 1)) = Low(Pushed16(f))
  /\ f.kind = "irq" =>
       CellIn(cells, StackAt(f.registers["S"] - 2)) = PackFlags(f.P \ {"B"})

FramesTyped == frames \in Seq(Frame)

FramesIntact == ~halted => \A i \in DOMAIN frames : Intact(data, frames[i])

LEMMA FrameTypes == TypeOK => IrqFrame \in Frame /\ CallFrame \in Frame
BY FetchOperandType DEF TypeOK, IrqFrame, CallFrame, Frame, Operands

\* The operation decides which instruction a step is.
LEMMA StepIs ==
  ASSUME Step, ~Interrupted
  PROVE  /\ Instr.op = "JSR" => JSR
         /\ Instr.op = "RTS" => RTS
         /\ Instr.op = "RTI" => RTI
         /\ Instr.op = "PLP" => PLP
<1>1. Instruction
  BY DEF Step, HandleIrq
<1>2. CASE JSR \/ RTS \/ RTI \/ PLP
  BY <1>2 DEF JSR, RTS, RTI, PLP, Executes
<1>3. CASE LoadRegister \/ StoreRegister \/ AddSub \/ Logical \/ CompareRegister
           \/ BitTest \/ IncDecMemory \/ IncDecRegister \/ ShiftRotate
  BY <1>3 DEF LoadRegister, StoreRegister, AddSub, Logical, CompareRegister, BitTest,
     IncDecMemory, IncDecRegister, ShiftRotate, Executes, LoadTarget, StoreSource,
     CompareSource, IncDecTarget
<1>4. CASE JMP \/ BRK \/ Branch \/ SetClearFlag \/ NOP \/ Transfer \/ Push \/ PLA
           \/ UnknownOpcode
  BY <1>4 DEF JMP, BRK, Branch, SetClearFlag, NOP, Transfer, Push, PLA,
     UnknownOpcode, Executes, BranchOn, FlagOp, TransferOf
<1> QED  BY <1>1, <1>2, <1>3, <1>4 DEF Instruction

\* Only CLI, PLP and RTI can clear I.
LEMMA MaskStays ==
  ASSUME Step, "I" \in P, ~Interrupted => Instr.op \notin {"CLI", "PLP", "RTI"}
  PROVE  "I" \in P'
<1>1. \A p, f, set : "I" \in p /\ f # "I" => "I" \in With(p, f, set)
  BY DEF With
<1>2. \A p, b : "I" \in p => "I" \in WithNZ(p, b)
  BY <1>1 DEF WithNZ
<1>3. Instruction /\ ~Interrupted
  BY StepFrame DEF HandleIrq, Interrupted
<1>4. CASE RTI \/ PLP
  BY <1>3, <1>4 DEF RTI, PLP, Executes
<1>5. CASE StoreRegister \/ JMP \/ JSR \/ RTS \/ BRK \/ Branch \/ NOP \/ Push \/ UnknownOpcode
  BY <1>5 DEF StoreRegister, JMP, JSR, RTS, BRK, Branch, NOP, Push, UnknownOpcode, Retire
<1>6. CASE LoadRegister \/ Logical \/ IncDecMemory \/ IncDecRegister \/ PLA \/ Transfer
  <2>1. P' = P \/ \E b : P' = WithNZ(P, b)
    BY <1>6 DEF LoadRegister, Logical, IncDecMemory, IncDecRegister, PLA, Transfer, Retire
  <2> QED  BY <1>2, <2>1
<1>7. CASE AddSub \/ CompareRegister \/ ShiftRotate
  <2>1. \E c, v, b : P' = WithNZ(With(With(P, "C", c), "V", v), b)
                     \/ P' = WithNZ(With(P, "C", c), b)
    BY <1>7 DEF AddSub, CompareRegister, ShiftRotate, Retire
  <2> QED  BY <1>1, <1>2, <2>1
<1>8. CASE BitTest
  <2>1. \E n, v, z : P' = With(With(With(P, "N", n), "V", v), "Z", z)
    BY <1>8 DEF BitTest, Retire
  <2> QED  BY <1>1, <2>1
<1>9. CASE SetClearFlag
  <2>1. /\ Instr.op \in DOMAIN FlagOp
        /\ P' = With(P, FlagOp[Instr.op][1], FlagOp[Instr.op][2])
    BY <1>9 DEF SetClearFlag, Executes, Retire
  <2>2. Instr.op # "CLI"
    BY <1>3
  <2>3. Instr.op \in {"CLC", "SEC", "SEI", "CLD", "SED", "CLV"}
    BY <2>1, <2>2 DEF FlagOp
  <2>4. FlagOp[Instr.op][1] # "I" \/ FlagOp[Instr.op][2]
    <3>1. Instr.op # "SEI" => FlagOp[Instr.op][1] # "I"
      BY <2>3 DEF FlagOp
    <3>2. Instr.op = "SEI" => FlagOp[Instr.op][2]
      BY DEF FlagOp
    <3> QED  BY <3>1, <3>2
  <2> QED  BY <2>1, <2>4 DEF With
<1> QED  BY <1>3, <1>4, <1>5, <1>6, <1>7, <1>8, <1>9 DEF Instruction

\* How the frames change.
LEMMA FramesNext ==
  ASSUME FramesTyped, TypeOK, StepH
  PROVE  /\ FramesTyped'
         /\ \A i \in DOMAIN frames' :
              \/ i \in DOMAIN frames /\ frames'[i] = frames[i]
              \/ Interrupted /\ frames'[i] = IrqFrame
              \/ About("JSR") /\ frames'[i] = CallFrame
<1>1. ASSUME NEW f \in Frame, frames' = Append(frames, f)
      PROVE  /\ FramesTyped'
             /\ \A i \in DOMAIN frames' :
                  (i \in DOMAIN frames /\ frames'[i] = frames[i]) \/ frames'[i] = f
  BY <1>1 DEF FramesTyped
<1>2. ASSUME frames' = Popped
      PROVE  /\ FramesTyped'
             /\ \A i \in DOMAIN frames' : i \in DOMAIN frames /\ frames'[i] = frames[i]
  <2>1. CASE frames = <<>>
    BY <1>2, <2>1 DEF FramesTyped, Popped
  <2>2. CASE frames # <<>>
    <3>1. Len(frames) \in Nat /\ Len(frames) >= 1
      BY <2>2 DEF FramesTyped
    <3>2. frames' = SubSeq(frames, 1, Len(frames) - 1)
      BY <1>2, <2>2 DEF Popped
    <3> QED  BY <3>1, <3>2 DEF FramesTyped
  <2> QED  BY <2>1, <2>2
<1>3. CASE Interrupted
  BY <1>1, <1>3, FrameTypes DEF StepH
<1>4. CASE ~Interrupted /\ About("JSR")
  BY <1>1, <1>4, FrameTypes DEF StepH
<1>5. CASE ~Interrupted /\ ~About("JSR")
  <2>1. frames' = Popped \/ frames' = frames
    BY <1>5 DEF StepH
  <2> QED  BY <1>2, <2>1 DEF FramesTyped
<1> QED  BY <1>3, <1>4, <1>5

\* No step of a program that keeps its stack touches a way back, unless it
\* is the last.
LEMMA HeldKept ==
  ASSUME TypeOK, StackIsKept, Step, ~halted', NEW a \in Held
  PROVE  CellIn(data', a) = CellIn(data, a)
<1> DEFINE s == Registers["S"]
<1>1. ~halted
  BY StepFrame
<1>2. s \in Int
  BY RegisterTypes, IntTypes DEF RegisterIndex
<1>3. ASSUME NEW n \in Nat, Room(n)
      PROVE  /\ n >= 1 => a # StackAt(s)
             /\ n >= 2 => a # StackAt(s - 1)
             /\ n >= 3 => a # StackAt(s - 2)
  <2>1. \A k \in 0 .. n - 1 : a # StackAt(s - k)
    BY <1>3 DEF Room
  <2>2. n >= 1 => 0 \in 0 .. n - 1
    OBVIOUS
  <2>3. n >= 2 => 1 \in 0 .. n - 1
    OBVIOUS
  <2>4. n >= 3 => 2 \in 0 .. n - 1
    OBVIOUS
  <2>5. s - 0 = s
    BY <1>2
  <2> QED  BY <2>1, <2>2, <2>3, <2>4, <2>5
<1>4. CASE HandleIrq
  <2>1. Interrupted /\ \E b1, b2, b3 : data' = Push3(s, b1, b2, b3)
    BY <1>4 DEF HandleIrq
  <2>2. Room(3)
    BY <1>1, <2>1 DEF StackIsKept
  <2>3. a # StackAt(s) /\ a # StackAt(s - 1) /\ a # StackAt(s - 2)
    BY <1>3, <2>2
  <2> HIDE DEF s
  <2> QED  BY <2>1, <2>3, PushKeeps
<1>5. CASE Instruction /\ ~Interrupted
  <2>1. CASE JSR
    <3>1. Instr.op = "JSR" /\ \E b1, b2 : data' = Push2(s, b1, b2)
      BY <2>1 DEF JSR, Executes
    <3>2. Room(2)
      BY <1>1, <1>5, <3>1 DEF StackIsKept
    <3>3. a # StackAt(s) /\ a # StackAt(s - 1)
      BY <1>3, <3>2
    <3> HIDE DEF s
    <3> QED  BY <3>1, <3>3, PushKeeps
  <2>2. CASE Push
    <3>1. Instr.op \in {"PHA", "PHP"} /\ \E b : data' = Push1(s, b)
      BY <2>2 DEF Push, Executes
    <3>2. Room(1)
      BY <1>1, <1>5, <3>1 DEF StackIsKept
    <3>3. a # StackAt(s)
      BY <1>3, <3>2
    <3> HIDE DEF s
    <3> QED  BY <3>1, <3>3, PushKeeps
  <2>3. CASE ~JSR /\ ~Push
    <3>1. ~BRK
      BY DEF BRK
    <3>2. Untouched \/ (Instr.op \in Storing /\ OperandCell)
      <4>1. CASE LoadRegister \/ AddSub \/ Logical \/ CompareRegister \/ BitTest
                 \/ IncDecRegister \/ JMP \/ RTS \/ RTI \/ Branch \/ SetClearFlag
                 \/ NOP \/ Transfer \/ PLA \/ PLP \/ UnknownOpcode
        BY <4>1 DEF Untouched, LoadRegister, AddSub, Logical, CompareRegister, BitTest,
           IncDecRegister, JMP, RTS, RTI, Branch, SetClearFlag, NOP, Transfer, PLA,
           PLP, UnknownOpcode
      <4>2. CASE StoreRegister \/ IncDecMemory \/ ShiftRotate
        <5>1. Instr.op \in Storing
          BY <4>2 DEF StoreRegister, IncDecMemory, ShiftRotate, Executes,
             StoreSource, Storing
        <5>2. Instr.op \notin Pushing
          BY <5>1 DEF Storing, Pushing
        <5> QED  BY <1>5, <5>1, <5>2, StepStores
      <4> QED  BY <1>5, <2>3, <3>1, <4>1, <4>2 DEF Instruction
    <3>3. CASE Untouched
      BY <3>3 DEF Untouched
    <3>4. CASE Instr.op \in Storing /\ OperandCell
      <4>1. FetchOperand.value \notin Held
        BY <1>1, <1>5, <3>4 DEF StackIsKept
      <4>2. PICK b : data' = Store(data, FetchOperand.value, b)
        BY <3>4 DEF OperandCell
      <4>3. a # FetchOperand.value
        BY <4>1
      <4> QED  BY <4>2, <4>3, StoreAt
    <3> QED  BY <3>2, <3>3, <3>4
  <2> QED  BY <2>1, <2>2, <2>3
<1> QED  BY <1>4, <1>5, StepFrame

\* A frame's cells are those of its way back.
LEMMA OccupiedCells ==
  ASSUME FramesTyped, NEW i \in DOMAIN frames
  PROVE  /\ StackAt(frames[i].registers["S"]) \in Held
         /\ StackAt(frames[i].registers["S"] - 1) \in Held
         /\ frames[i].kind = "irq" => StackAt(frames[i].registers["S"] - 2) \in Held
<1> DEFINE f == frames[i]
           s == f.registers["S"]
<1>1. f \in Frame
  BY DEF FramesTyped
<1>2. s \in Int
  BY <1>1 DEF Frame, RegisterIndex, Byte
<1>3. f.kind = "call" \/ f.kind = "irq"
  BY <1>1 DEF Frame
<1>4. /\ 0 \in 0 .. Size(f) - 1 /\ 1 \in 0 .. Size(f) - 1
      /\ f.kind = "irq" => 2 \in 0 .. Size(f) - 1
  BY <1>3 DEF Size
<1>5. s - 0 = s
  BY <1>2
<1> HIDE DEF s
<1>6. /\ StackAt(s) \in Occupied(f) /\ StackAt(s - 1) \in Occupied(f)
      /\ f.kind = "irq" => StackAt(s - 2) \in Occupied(f)
  BY <1>4, <1>5 DEF Occupied, s
<1> QED  BY <1>6 DEF Held, s

\* Each way back stays on the stack as it was pushed.
LEMMA IntactNext ==
  ASSUME TypeOK, FramesTyped, FramesIntact, StackIsKept, StepH
  PROVE  FramesIntact'
<1> SUFFICES ASSUME ~halted', NEW i \in DOMAIN frames'
             PROVE  Intact(data', frames'[i])
  BY DEF FramesIntact
<1>1. ~halted /\ Step
  BY StepFrame DEF StepH
<1>2. Registers["S"] \in Byte
  BY RegisterTypes DEF RegisterIndex
<1>3. CASE i \in DOMAIN frames /\ frames'[i] = frames[i]
  <2>1. Intact(data, frames[i])
    BY <1>1, <1>3 DEF FramesIntact
  <2>2. \A a \in Held : CellIn(data', a) = CellIn(data, a)
    BY <1>1, HeldKept
  <2>3. /\ StackAt(frames[i].registers["S"]) \in Held
        /\ StackAt(frames[i].registers["S"] - 1) \in Held
        /\ frames[i].kind = "irq" => StackAt(frames[i].registers["S"] - 2) \in Held
    BY <1>3, OccupiedCells
  <2> QED  BY <1>3, <2>1, <2>2, <2>3 DEF Intact
<1>4. CASE Interrupted /\ frames'[i] = IrqFrame
  <2>1. HandleIrq
    BY <1>1, <1>4, StepFrame
  <2>2. data' = Push3(Registers["S"], High(RegisterPC), Low(RegisterPC),
                      PackFlags(P \ {"B"}))
    BY <2>1 DEF HandleIrq
  <2> QED  BY <1>2, <1>4, <2>2, PushCells DEF Intact, IrqFrame, Pushed16
<1>5. CASE About("JSR") /\ frames'[i] = CallFrame
  <2>1. JSR
    BY <1>1, <1>5, StepIs DEF About
  <2>2. data' = Push2(Registers["S"], High(U16(FetchOperand.next - 1)),
                      Low(U16(FetchOperand.next - 1)))
    BY <2>1 DEF JSR
  <2> QED  BY <1>2, <1>5, <2>2, PushCells DEF Intact, CallFrame, Pushed16
<1> QED  BY <1>3, <1>4, <1>5, FramesNext

LEMMA HistoryStep == [NextH]_varsH => [Next]_vars
BY DEF NextH, varsH, StepH, Next

LEMMA HistoryTyped == SpecH => []TypeOK
<1>1. InitH => TypeOK
  BY InitType DEF InitH
<1>2. TypeOK /\ [NextH]_varsH => TypeOK'
  BY HistoryStep, NextType
<1> QED  BY <1>1, <1>2, PTL DEF SpecH

\* What is neither a call of step() leaves the frames and the array alone.
LEMMA OtherwiseStill ==
  ASSUME [NextH]_varsH, ~StepH
  PROVE  UNCHANGED <<frames, data, P, halted>>
BY DEF NextH, Stdin, StdinArrives, StdinCloses, varsH, vars, core, memoryVars

LEMMA FramesKept == SpecH /\ []StackIsKept => [](FramesTyped /\ FramesIntact)
<1>1. InitH => FramesTyped /\ FramesIntact
  BY DEF InitH, FramesTyped, FramesIntact
<1>2. /\ TypeOK /\ StackIsKept /\ FramesTyped /\ FramesIntact
      /\ [NextH]_varsH
      => (FramesTyped /\ FramesIntact)'
  <2> SUFFICES ASSUME TypeOK, StackIsKept, FramesTyped, FramesIntact, [NextH]_varsH
               PROVE  FramesTyped' /\ FramesIntact'
    OBVIOUS
  <2>1. CASE StepH
    BY <2>1, FramesNext, IntactNext
  <2>2. CASE ~StepH
    BY <2>2, OtherwiseStill DEF FramesTyped, FramesIntact
  <2> QED  BY <2>1, <2>2
<1> QED  BY <1>1, <1>2, HistoryTyped, PTL DEF SpecH

\* Pulls meet the cells that pushes have filled, across the wrap of S.
LEMMA PullsMeetPushes ==
  ASSUME NEW t \in Byte
  PROVE  /\ StackAt(U8(t - 2) + 1) = StackAt(t - 1) /\ StackAt(U8(t - 2) + 2) = StackAt(t)
         /\ StackAt(U8(t - 3) + 1) = StackAt(t - 2) /\ StackAt(U8(t - 3) + 2) = StackAt(t - 1)
         /\ StackAt(U8(t - 3) + 3) = StackAt(t)
         /\ U8(U8(t - 2) + 2) = t /\ U8(U8(t - 3) + 3) = t
<1>1. t \in Int /\ 0 <= t /\ t < 256
  BY DEF Byte
<1>2. /\ U8(U8(t - 2) + 1) = U8(t - 1) /\ U8(U8(t - 2) + 2) = U8(t)
      /\ U8(U8(t - 3) + 1) = U8(t - 2) /\ U8(U8(t - 3) + 2) = U8(t - 1)
      /\ U8(U8(t - 3) + 3) = U8(t) /\ U8(t) = t
  BY <1>1 DEF U8
<1> QED  BY <1>2 DEF StackAt

\* The innermost frame when its return comes.
LEMMA TopFrame ==
  ASSUME FramesTyped, FramesIntact, ~halted, frames # <<>>
  PROVE  Top \in Frame /\ Intact(data, Top)
<1>1. Len(frames) \in DOMAIN frames
  BY DEF FramesTyped
<1> QED  BY <1>1 DEF FramesTyped, FramesIntact, Top

LEMMA ReturnFromCall ==
  ASSUME TypeOK, FramesTyped, FramesIntact, StackIsKept, Step, About("RTS")
  PROVE  /\ frames # <<>>
         /\ Top.kind = "call"
         /\ RegisterPC' = Top.pc
         /\ Registers'["S"] = Top.registers["S"]
<1>1. ~halted /\ ~Interrupted /\ Instr.op = "RTS" /\ Balanced("call")
  BY DEF About, StackIsKept
<1>2. frames # <<>> /\ Top.kind = "call" /\ Top \in Frame /\ Intact(data, Top)
  BY <1>1, TopFrame DEF Balanced
<1> DEFINE t == Top.registers["S"]
           way == U16(Top.pc - 1)
<1>3. t \in Byte /\ Top.pc \in Word
  BY <1>2 DEF Frame, RegisterIndex
<1>4. Registers["S"] = U8(t - 2)
  BY <1>1, <1>2 DEF Balanced, Size
<1>5. RTS
  BY <1>1, StepIs
<1>6. /\ Registers' = SPlus(2)
      /\ RegisterPC' = U16(Make16(Pop(1), Pop(2)) + 1)
  BY <1>5 DEF RTS, Retire
<1>7. Registers'["S"] = t
  BY <1>3, <1>4, <1>6, PullsMeetPushes DEF SPlus, TypeOK, RegisterIndex
<1>8. Pop(1) = Low(way) /\ Pop(2) = High(way)
  <2>1. CellIn(data, StackAt(t)) = High(way) /\ CellIn(data, StackAt(t - 1)) = Low(way)
    BY <1>2 DEF Intact, Pushed16
  <2> QED  BY <1>3, <1>4, <2>1, PullsMeetPushes, CellIsCellIn DEF Pop
<1>9. RegisterPC' = Top.pc
  <2>1. \A w \in Word : U16(w - 1) \in Word /\ U16(U16(w - 1) + 1) = w
    <3> TAKE w \in Word
    <3>1. w \in Int /\ 0 <= w /\ w < 65536
      BY WordBounds DEF MaxWord
    <3>2. w - 1 \in Int
      BY <3>1
    <3>3. U16(U16(w - 1) + 1) = w
      BY <3>1 DEF U16
    <3> QED  BY <3>2, <3>3, CastTypes
  <2> QED  BY <1>3, <1>6, <1>8, <2>1, SplitType
<1> QED  BY <1>2, <1>7, <1>9

LEMMA ReturnFromInterrupt ==
  ASSUME TypeOK, FramesTyped, FramesIntact, StackIsKept, Step, About("RTI")
  PROVE  /\ frames # <<>>
         /\ Top.kind = "irq"
         /\ RegisterPC' = Top.pc
         /\ Registers' = Top.registers
         /\ P' \ {"B"} = Top.P \ {"B"}
<1>1. /\ ~halted /\ ~Interrupted /\ Instr.op = "RTI" /\ Balanced("irq")
      /\ \A r \in {"A", "X", "Y"} : Registers[r] = Top.registers[r]
  BY DEF About, StackIsKept
<1>2. frames # <<>> /\ Top.kind = "irq" /\ Top \in Frame /\ Intact(data, Top)
  BY <1>1, TopFrame DEF Balanced
<1> DEFINE t == Top.registers["S"]
<1>3. t \in Byte /\ Top.pc \in Word /\ Top.P \ {"B"} \in SUBSET Flags
      /\ Top.registers \in [RegisterIndex -> Byte]
  BY <1>2 DEF Frame, RegisterIndex
<1>4. Registers["S"] = U8(t - 3)
  BY <1>1, <1>2 DEF Balanced, Size
<1>5. RTI
  BY <1>1, StepIs
<1>6. /\ Registers' = SPlus(3)
      /\ P' = UnpackFlags(Pop(1))
      /\ RegisterPC' = Make16(Pop(2), Pop(3))
  BY <1>5 DEF RTI, Retire
<1>7. Registers' = Top.registers
  <2>1. Registers' = [Registers EXCEPT !["S"] = t]
    BY <1>3, <1>4, <1>6, PullsMeetPushes DEF SPlus, TypeOK, RegisterIndex
  <2>2. Registers \in [RegisterIndex -> Byte]
    BY DEF TypeOK
  <2> HIDE DEF t
  <2>3. \A r \in RegisterIndex : [Registers EXCEPT !["S"] = t][r] = Top.registers[r]
    BY <1>1, <2>2 DEF RegisterIndex, t
  <2> QED  BY <1>3, <2>1, <2>2, <2>3
<1>8. /\ Pop(1) = PackFlags(Top.P \ {"B"})
      /\ Pop(2) = Low(Top.pc) /\ Pop(3) = High(Top.pc)
  <2>1. /\ CellIn(data, StackAt(t)) = High(Top.pc)
        /\ CellIn(data, StackAt(t - 1)) = Low(Top.pc)
        /\ CellIn(data, StackAt(t - 2)) = PackFlags(Top.P \ {"B"})
    BY <1>2 DEF Intact, Pushed16
  <2> QED  BY <1>3, <1>4, <2>1, PullsMeetPushes, CellIsCellIn DEF Pop
<1>9. RegisterPC' = Top.pc
  BY <1>3, <1>6, <1>8, SplitType
<1>10. P' = Top.P \ {"B"}
  BY <1>3, <1>6, <1>8, FlagsComeBack
<1> QED  BY <1>2, <1>7, <1>9, <1>10

\* A program that keeps its stack in order returns to where it called from,
\* with the stack pointer of before: wherever the stack lies and wraps,
\* whatever the calls in between have done, however often it is interrupted.
THEOREM CallsComeBack == SpecH /\ []StackIsKept => CallsReturn
<1>1. /\ TypeOK /\ StackIsKept /\ FramesTyped /\ FramesIntact
      /\ [NextH]_varsH
      => [Step /\ About("RTS") =>
            /\ frames # <<>>
            /\ Top.kind = "call"
            /\ RegisterPC' = Top.pc
            /\ Registers'["S"] = Top.registers["S"]]_varsH
  BY ReturnFromCall
<1> QED  BY <1>1, HistoryTyped, FramesKept, PTL DEF SpecH, CallsReturn

\* An interrupt at any instruction of such a program leaves no trace but B.
THEOREM InterruptsLeaveNoTrace == SpecH /\ []StackIsKept => InterruptsAreTransparent
<1>1. /\ TypeOK /\ StackIsKept /\ FramesTyped /\ FramesIntact
      /\ [NextH]_varsH
      => [Step /\ About("RTI") =>
            /\ frames # <<>>
            /\ Top.kind = "irq"
            /\ RegisterPC' = Top.pc
            /\ Registers' = Top.registers
            /\ P' \ {"B"} = Top.P \ {"B"}]_varsH
  BY ReturnFromInterrupt
<1> QED  BY <1>1, HistoryTyped, FramesKept, PTL DEF SpecH, InterruptsAreTransparent

-----------------------------------------------------------------------------
(* Interrupts within interrupts. *)

MaskGuards == Handling => "I" \in P

LEMMA MaskNext ==
  ASSUME TypeOK, FramesTyped, MaskIsKept, NoNestedInterrupts, MaskGuards, StepH
  PROVE  NoNestedInterrupts' /\ MaskGuards'
<1>1. ~halted /\ Step
  BY StepFrame DEF StepH
<1>2. CASE Interrupted
  <2>1. ~Handling
    BY <1>2 DEF Interrupted, MaskGuards
  <2>2. frames' = Append(frames, IrqFrame)
    BY <1>2 DEF StepH
  <2>3. \A i \in DOMAIN frames' : frames'[i].kind = "irq" => i = Len(frames) + 1
    BY <2>1, <2>2 DEF FramesTyped, Handling
  <2>4. "I" \in P'
    BY <1>1, <1>2, StepFrame DEF HandleIrq
  <2> QED  BY <2>3, <2>4 DEF NoNestedInterrupts, MaskGuards
<1>3. CASE ~Interrupted
  <2>1. \A i \in DOMAIN frames' :
          frames'[i].kind = "irq" => i \in DOMAIN frames /\ frames[i].kind = "irq"
    BY <1>3, FramesNext DEF CallFrame
  <2>2. NoNestedInterrupts'
    BY <2>1 DEF NoNestedInterrupts
  <2>3. ASSUME Handling'  PROVE "I" \in P'
    <3>1. Handling /\ "I" \in P
      BY <2>1, <2>3 DEF Handling, MaskGuards
    <3>2. /\ Instr.op # "CLI"
          /\ Instr.op = "PLP" => "I" \in UnpackFlags(Pop(1))
          /\ Instr.op = "RTI" => Top.kind = "irq"
      BY <1>1, <1>3, <3>1 DEF MaskIsKept
    <3>3. CASE Instr.op = "PLP"
      <4>1. PLP
        BY <1>1, <1>3, <3>3, StepIs
      <4> QED  BY <3>2, <3>3, <4>1 DEF PLP, Retire
    <3>4. Instr.op # "RTI"
      <4> SUFFICES ASSUME Instr.op = "RTI"  PROVE FALSE
        OBVIOUS
      <4>1. About("RTI") /\ ~About("JSR")
        BY <1>1, <1>3 DEF About
      <4>2. frames' = Popped
        BY <1>3, <4>1 DEF StepH
      <4>3. PICK i \in DOMAIN frames' : frames'[i].kind = "irq"
        BY <2>3 DEF Handling
      <4>4. frames # <<>>
        BY <3>1 DEF Handling
      <4>5. i \in 1 .. Len(frames) - 1
        BY <4>2, <4>3, <4>4 DEF Popped, FramesTyped
      <4>6. Len(frames) \in DOMAIN frames /\ frames[Len(frames)].kind = "irq"
        BY <3>2, <4>4 DEF Top, FramesTyped
      <4>7. i = Len(frames)
        BY <2>1, <4>3, <4>6 DEF NoNestedInterrupts
      <4> QED  BY <4>5, <4>7 DEF FramesTyped
    <3> QED  BY <1>1, <3>1, <3>2, <3>3, <3>4, MaskStays
  <2> QED  BY <2>2, <2>3 DEF MaskGuards
<1> QED  BY <1>2, <1>3

\* A handler that leaves I alone runs to its end: however short the interval,
\* however long the handler and whatever it calls.
THEOREM HandlersRunAlone == SpecH /\ []MaskIsKept => []NoNestedInterrupts
<1>1. InitH => FramesTyped /\ NoNestedInterrupts /\ MaskGuards
  BY DEF InitH, FramesTyped, NoNestedInterrupts, MaskGuards, Handling
<1>2. /\ TypeOK /\ MaskIsKept /\ FramesTyped /\ NoNestedInterrupts /\ MaskGuards
      /\ [NextH]_varsH
      => (FramesTyped /\ NoNestedInterrupts /\ MaskGuards)'
  <2> SUFFICES ASSUME TypeOK, MaskIsKept, FramesTyped, NoNestedInterrupts, MaskGuards,
                      [NextH]_varsH
               PROVE  FramesTyped' /\ NoNestedInterrupts' /\ MaskGuards'
    OBVIOUS
  <2>1. CASE StepH
    BY <2>1, FramesNext, MaskNext
  <2>2. CASE ~StepH
    BY <2>2, OtherwiseStill DEF FramesTyped, NoNestedInterrupts, MaskGuards, Handling
  <2> QED  BY <2>1, <2>2
<1> QED  BY <1>1, <1>2, HistoryTyped, PTL DEF SpecH
=============================================================================
