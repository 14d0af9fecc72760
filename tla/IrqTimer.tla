------------------------------ MODULE IrqTimer ------------------------------
(***************************************************************************)
(* What the periodic timer and the interrupt line promise a guest, without *)
(* the instructions, the registers and the memory: calls of step() are     *)
(* counted; every interval-th call raises a request; a request waits while *)
(* interrupts are masked, one at a time; and an unmasked one is taken      *)
(* before anything else is executed.                                       *)
(***************************************************************************)
EXTENDS Naturals

CONSTANT Intervals         \* a set of natural numbers

VARIABLES
  interval,              \* 0: no timer
  elapsed,               \* calls since the last request
  pending,               \* a request nobody has taken yet
  masked,                \* the program is not to be interrupted
  stopped

timerVars == <<interval, elapsed, pending, masked, stopped>>

TimerInit ==
  /\ interval \in Intervals
  /\ elapsed = 0
  /\ pending = FALSE
  /\ masked = FALSE
  /\ stopped = FALSE

Due == interval > 0 /\ elapsed + 1 >= interval

Elapse ==
  /\ elapsed' = IF interval = 0 \/ Due THEN 0 ELSE elapsed + 1
  /\ UNCHANGED interval

\* The request is taken; the handler starts masked.
Take ==
  /\ ~stopped
  /\ pending \/ Due
  /\ ~masked
  /\ Elapse
  /\ pending' = FALSE
  /\ masked' = TRUE
  /\ UNCHANGED stopped

\* The program executes: it may mask or unmask interrupts, or stop.
Execute ==
  /\ ~stopped
  /\ pending \/ Due => masked
  /\ Elapse
  /\ pending' = (pending \/ Due)
  /\ masked' \in BOOLEAN
  /\ stopped' \in BOOLEAN

TimerNext == Take \/ Execute

TimerSafety == TimerInit /\ [][TimerNext]_timerVars
=============================================================================
