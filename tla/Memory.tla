------------------------------- MODULE Memory -------------------------------
(***************************************************************************)
(* class memory and the UART mapped into it, as the processor sees them.   *)
(*                                                                         *)
(* data is sparse: a cell outside its domain holds the 0 the array is      *)
(* initialised with.  A read of either UART register first polls stdin,    *)
(* so a read changes state; one instruction may read several addresses, so *)
(* reads thread a cursor through the instruction (has it polled, how many  *)
(* bytes has it taken) and Commit turns the last cursor into the next      *)
(* values of the receiver.  The poll is one step here; module Uart has its *)
(* system calls one by one.                                                *)
(***************************************************************************)
EXTENDS AddressSpace

CONSTANT Script          \* the bytes the host side of stdin has to send

ASSUME ScriptAssumption == Script \in Seq(Byte)

VARIABLES
  data,                  \* std::array data, where it has been written
  RxQueue, RxEof,        \* the receiver of class uart
  output,                \* the bytes std::putchar has been given
  stdin, closed,         \* delivered to the process and unread; writer gone
  unsent                 \* what the host has not written yet

uart == <<RxQueue, RxEof, stdin>>
host == <<closed, unsent>>
memoryVars == <<data, output, uart, host>>

-----------------------------------------------------------------------------
(* Reading. *)

Cursor == [polled : BOOLEAN, taken : Nat]
Idle   == [polled |-> FALSE, taken |-> 0]

\* What PollStdin leaves in RxQueue: it empties the kernel's buffer.
Polled == IF RxEof THEN RxQueue ELSE RxQueue \o stdin

Ready_LastStays(c) == c.taken + 1 < Len(Polled)
Ready(c) == c.taken < Len(Polled)

Cell(address) == IF address \in DOMAIN data THEN data[address] ELSE 0

Read(address, c) ==
  CASE address = StatusAddress -> IF Ready(c) THEN 1 ELSE 0
    [] address = DataAddress   -> IF Ready(c) THEN Polled[c.taken + 1] ELSE 0
    [] OTHER                   -> Cell(address)

After(address, c) ==
  IF address \notin InRange THEN c
  ELSE [polled |-> TRUE,
        taken  |-> IF address = DataAddress /\ Ready(c)
                     THEN c.taken + 1 ELSE c.taken]

Commit_NoPop(c) ==
  IF ~c.polled THEN UNCHANGED uart
  ELSE /\ RxQueue' = Polled
       /\ RxEof' = (RxEof \/ closed)
       /\ stdin' = IF RxEof THEN stdin ELSE <<>>
Commit(c) ==
  IF ~c.polled THEN UNCHANGED uart
  ELSE /\ RxQueue' = SubSeq(Polled, c.taken + 1, Len(Polled))
       /\ RxEof' = (RxEof \/ closed)
       /\ stdin' = IF RxEof THEN stdin ELSE <<>>

-----------------------------------------------------------------------------
(* Writing.  The status register ignores writes; the data register's go to *)
(* stdout; the array keeps the rest.                                        *)

Store_NoInRange(cells, address, value) ==
  [a \in DOMAIN cells \cup {address} |-> IF a = address THEN value ELSE cells[a]]
Store(cells, address, value) ==
  IF address \in InRange THEN cells
  ELSE [a \in DOMAIN cells \cup {address} |->
          IF a = address THEN value ELSE cells[a]]

Write(address, value) ==
  /\ data' = Store(data, address, value)
  /\ output' = IF address = DataAddress THEN Append(output, value) ELSE output

-----------------------------------------------------------------------------
(* The other end of stdin: a pipe or a terminal somebody types into. *)

StdinArrives ==
  /\ ~closed
  /\ unsent # <<>>
  /\ stdin' = Append(stdin, Head(unsent))
  /\ unsent' = Tail(unsent)
  /\ UNCHANGED <<data, output, RxQueue, RxEof, closed>>

StdinCloses ==
  /\ ~closed
  /\ closed' = TRUE
  /\ UNCHANGED <<data, output, uart, unsent>>

MemoryInit(image) ==
  /\ data = LoadImage(image)
  /\ RxQueue = <<>> /\ RxEof = FALSE
  /\ output = <<>>
  /\ stdin = <<>> /\ closed = FALSE
  /\ unsent = Script

Cells(cells) == DOMAIN cells \subseteq Word /\ cells \in [DOMAIN cells -> Byte]

MemoryTypeOK ==
  /\ Cells(data)
  /\ RxQueue \in Seq(Byte) /\ RxEof \in BOOLEAN
  /\ output \in Seq(Byte)
  /\ stdin \in Seq(Byte) /\ closed \in BOOLEAN
  /\ unsent \in Seq(Byte)
=============================================================================
