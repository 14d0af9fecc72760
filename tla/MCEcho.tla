------------------------------- MODULE MCEcho -------------------------------
(***************************************************************************)
(* Characters through the whole machine: the host delivers a script byte   *)
(* by byte at any moment and may close at any moment; the guest echoes by  *)
(* polling, or from the timer's handler.                                   *)
(***************************************************************************)
EXTENDS Cpu, Programs

MCScript == <<0, 200, 0, 65>>

MCIrqIntervals == {3, 7}

MCImages == {PollingEcho, InterruptEcho}

Arrived == SubSeq(Script, 1, Len(Script) - Len(unsent))

\* The byte between its LDA $F001 and its STA $F001.
InFlight ==
  IF RegisterPC \in {EchoStore, HandlerStore} THEN <<Registers["A"]>> ELSE <<>>

(***************************************************************************)
(* No byte is lost, duplicated, reordered or invented on its way from      *)
(* stdin through the kernel, RxQueue and the accumulator to stdout, a zero *)
(* byte included.                                                          *)
(***************************************************************************)
EchoIsFaithful == output \o InFlight \o RxQueue \o stdin = Arrived

(***************************************************************************)
(* Every byte that has arrived is echoed, also those that arrive together  *)
(* and those still queued when the pipe closes.                            *)
(***************************************************************************)
EchoIsComplete ==
  \A n \in 1 .. Len(Script) : Len(Arrived) >= n ~> Len(output) >= n
=============================================================================
