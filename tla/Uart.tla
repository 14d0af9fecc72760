-------------------------------- MODULE Uart --------------------------------
(***************************************************************************)
(* class uart, one system call at a time.  A read of either register calls *)
(* PollStdin, a loop of select and read that moves what has arrived on     *)
(* stdin to RxQueue, and then answers from RxQueue; the host writes,       *)
(* closes and suspends between any two of those steps.  Module Memory uses *)
(* the same read as one step.                                              *)
(***************************************************************************)
EXTENDS Integers, Sequences

CONSTANTS
  Byte,                  \* the bytes the host sends; 0 also stands for "none"
  Script,                \* the sequence it sends
  BufferSize,            \* sizeof(Buffer), 64 in the code
  Kinds                  \* may stdin be a pipe (FALSE), a terminal (TRUE)?

ASSUME UartAssumption ==
  /\ 0 \in Byte
  /\ Script \in Seq(Byte)
  /\ BufferSize \in Nat \ {0}
  /\ Kinds \subseteq BOOLEAN

VARIABLES
  tty,                   \* stdin is a terminal with VMIN = VTIME = 0
  RxQueue, RxEof,
  pc,                    \* where uart::read is: idle, select, read, answer
  address,               \* the register it reads
  result,                \* what the last call returned
  stdin, closed, unsent, \* the host's side, as in Memory
  \* History:
  taken,                 \* bytes the data register has handed out
  waiting,               \* a byte had arrived when the call began
  failed,                \* a select of this call was interrupted
  promised               \* the status register has said 1 since the last take

device  == <<RxQueue, RxEof>>
host    == <<stdin, closed, unsent>>
history == <<taken, waiting, failed, promised>>
vars    == <<tty, device, pc, address, result, host, history>>

Registers == {"Status", "Data"}

Init ==
  /\ tty \in Kinds
  /\ RxQueue = <<>> /\ RxEof = FALSE
  /\ pc = "idle" /\ address = "Status" /\ result = 0
  /\ stdin = <<>> /\ closed = FALSE /\ unsent = Script
  /\ taken = <<>> /\ waiting = FALSE /\ failed = FALSE /\ promised = FALSE

\* uart::read(address) enters PollStdin: while (!RxEof).
Call(a) ==
  /\ pc = "idle"
  /\ address' = a
  /\ pc' = IF RxEof THEN "answer" ELSE "select"
  /\ waiting' = (RxQueue \o stdin # <<>>)
  /\ failed' = FALSE
  /\ UNCHANGED <<tty, device, result, host, taken, promised>>

Readable == stdin # <<>> \/ closed

\* select() with a zero timeout.
Select ==
  /\ pc = "select"
  /\ pc' = IF Readable THEN "read" ELSE "answer"
  /\ UNCHANGED <<tty, device, address, result, host, history>>

\* select() fails: the process was stopped and continued meanwhile.
SelectFails ==
  /\ pc = "select"
  /\ pc' = "answer"
  /\ failed' = TRUE
  /\ UNCHANGED <<tty, device, address, result, host, taken, waiting, promised>>

Count == IF Len(stdin) < BufferSize THEN Len(stdin) ELSE BufferSize

\* read(): a count of 0 is taken for the end of the file.  An empty pipe
\* whose writer lives would block, an empty terminal returns 0.
ReadStdin_DropsRest ==
  /\ pc = "read"
  /\ Count > 0 \/ closed \/ tty
  /\ RxQueue' = RxQueue \o SubSeq(stdin, 1, Count)
  /\ stdin' = <<>>
  /\ RxEof' = (Count = 0)
  /\ pc' = IF Count = 0 THEN "answer" ELSE "select"
  /\ UNCHANGED <<tty, address, result, closed, unsent, history>>
ReadStdin_ShortIsEof ==
  /\ pc = "read"
  /\ Count > 0 \/ closed \/ tty
  /\ RxQueue' = RxQueue \o SubSeq(stdin, 1, Count)
  /\ stdin' = SubSeq(stdin, Count + 1, Len(stdin))
  /\ RxEof' = (Count < BufferSize)
  /\ pc' = IF Count < BufferSize THEN "answer" ELSE "select"
  /\ UNCHANGED <<tty, address, result, closed, unsent, history>>
ReadStdin_IgnoresEof ==
  /\ pc = "read"
  /\ Count > 0 \/ closed \/ tty
  /\ RxQueue' = RxQueue \o SubSeq(stdin, 1, Count)
  /\ stdin' = SubSeq(stdin, Count + 1, Len(stdin))
  /\ pc' = "select"
  /\ UNCHANGED <<tty, RxEof, address, result, closed, unsent, history>>
ReadStdin ==
  /\ pc = "read"
  /\ Count > 0 \/ closed \/ tty
  /\ RxQueue' = RxQueue \o SubSeq(stdin, 1, Count)
  /\ stdin' = SubSeq(stdin, Count + 1, Len(stdin))
  /\ RxEof' = (Count = 0)
  /\ pc' = IF Count = 0 THEN "answer" ELSE "select"
  /\ UNCHANGED <<tty, address, result, closed, unsent, history>>

\* The rest of uart::read.
AnswerStatus_FromStdin ==
  /\ pc = "answer" /\ address = "Status"
  /\ result' = IF RxQueue = <<>> /\ ~Readable THEN 0 ELSE 1
  /\ promised' = (promised \/ result' = 1)
  /\ pc' = "idle"
  /\ UNCHANGED <<tty, device, address, host, taken, waiting, failed>>
AnswerStatus ==
  /\ pc = "answer" /\ address = "Status"
  /\ result' = IF RxQueue = <<>> THEN 0 ELSE 1
  /\ promised' = (promised \/ RxQueue # <<>>)
  /\ pc' = "idle"
  /\ UNCHANGED <<tty, device, address, host, taken, waiting, failed>>

AnswerData_NoPop ==
  /\ pc = "answer" /\ address = "Data"
  /\ IF RxQueue = <<>>
       THEN result' = 0 /\ UNCHANGED taken
       ELSE result' = Head(RxQueue) /\ taken' = Append(taken, Head(RxQueue))
  /\ promised' = FALSE
  /\ pc' = "idle"
  /\ UNCHANGED <<tty, device, address, host, waiting, failed>>
AnswerData ==
  /\ pc = "answer" /\ address = "Data"
  /\ IF RxQueue = <<>>
       THEN result' = 0 /\ UNCHANGED <<RxQueue, taken>>
       ELSE /\ result' = Head(RxQueue)
            /\ RxQueue' = Tail(RxQueue)
            /\ taken' = Append(taken, Head(RxQueue))
  /\ promised' = FALSE
  /\ pc' = "idle"
  /\ UNCHANGED <<tty, RxEof, address, host, waiting, failed>>

StdinArrives ==
  /\ ~closed
  /\ unsent # <<>>
  /\ stdin' = Append(stdin, Head(unsent))
  /\ unsent' = Tail(unsent)
  /\ UNCHANGED <<tty, device, pc, address, result, closed, history>>

StdinCloses ==
  /\ ~closed
  /\ closed' = TRUE
  /\ UNCHANGED <<tty, device, pc, address, result, stdin, unsent, history>>

\* A suspend character makes the terminal discard its input.
TtyFlush ==
  /\ tty
  /\ ~closed
  /\ stdin # <<>>
  /\ stdin' = <<>>
  /\ UNCHANGED <<tty, device, pc, address, result, closed, unsent, history>>

Guest == \E a \in Registers : Call(a)
Poll  == Select \/ SelectFails \/ ReadStdin
Reply == AnswerStatus \/ AnswerData
Host  == StdinArrives \/ StdinCloses \/ TtyFlush

Next == Guest \/ Poll \/ Reply \/ Host

\* The process runs: the call proceeds, is not stopped in each and every
\* select, and the guest's loop calls again.
Fairness ==
  /\ WF_vars(Poll \/ Reply)
  /\ SF_vars(Select)
  /\ \A a \in Registers : SF_vars(Call(a))

Spec == Init /\ [][Next]_vars /\ Fairness

-----------------------------------------------------------------------------
TypeOK ==
  /\ tty \in BOOLEAN
  /\ RxQueue \in Seq(Byte) /\ RxEof \in BOOLEAN
  /\ pc \in {"idle", "select", "read", "answer"}
  /\ address \in Registers
  /\ result \in Byte \cup {1}
  /\ stdin \in Seq(Byte) /\ closed \in BOOLEAN /\ unsent \in Seq(Byte)
  /\ taken \in Seq(Byte)
  /\ waiting \in BOOLEAN /\ failed \in BOOLEAN /\ promised \in BOOLEAN

(***************************************************************************)
(* The status register keeps its word: after it has said 1, the data       *)
(* register returns a byte that was received, the oldest one, and never    *)
(* the 0 that stands for an empty queue - whatever happens on stdin        *)
(* between the two reads.                                                  *)
(***************************************************************************)
PromiseIsKept == promised => RxQueue # <<>>

(***************************************************************************)
(* A status of 0 is not stale: no byte had arrived when the call began,    *)
(* unless a select of this very call was interrupted.                      *)
(***************************************************************************)
StatusIsFresh ==
  [][AnswerStatus /\ waiting /\ ~failed /\ ~tty => result' = 1]_vars

(***************************************************************************)
(* "No longer polls after the pipe is closed": the receiver gives up on    *)
(* stdin only when the writer is gone and everything it wrote is in        *)
(* RxQueue.                                                                *)
(***************************************************************************)
EofMeansClosed == RxEof => closed /\ stdin = <<>>

\* On a pipe the receiver keeps to that: a short or interrupted read, or one
\* that races the writer, never ends the polling early.
PipeEofMeansClosed == ~tty => EofMeansClosed

(***************************************************************************)
(* No call blocks the processor: each call is answered.                    *)
(***************************************************************************)
CallsReturn == pc # "idle" ~> pc = "idle"

(***************************************************************************)
(* On a pipe, every byte written is handed out in the end.                 *)
(***************************************************************************)
EverythingIsTaken ==
  \A n \in 1 .. Len(Script) :
    ~tty /\ Len(Script) - Len(unsent) >= n ~> Len(taken) >= n

(***************************************************************************)
(* RxQueue and the kernel's buffer implement one FIFO channel, of which a  *)
(* terminal's flush can only cut the end off.                              *)
(***************************************************************************)
Channel == INSTANCE ByteChannel WITH
             Bytes   <- Byte,
             lossy   <- tty,
             channel <- RxQueue \o stdin,
             taken   <- taken,
             ended   <- closed

ImplementsChannel == Channel!ChannelSpec
=============================================================================
