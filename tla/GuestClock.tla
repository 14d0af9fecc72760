----------------------------- MODULE GuestClock -----------------------------
(***************************************************************************)
(* What a clock driven by interrupts promises the program that reads it:   *)
(* every interrupt taken is counted once before another is taken, whatever *)
(* bytes the count is kept in, and a reading is the count of one moment.   *)
(***************************************************************************)
EXTENDS Naturals

CONSTANTS
  Modulus,               \* the clock starts again after so many ticks
  NoAnswer               \* not a time

VARIABLES
  time,
  due,                   \* an interrupt was taken and is not counted yet
  answer                 \* what a reading found, while it holds the clock

clockVars == <<time, due, answer>>

ClockInit == time \in 0 .. Modulus - 1 /\ due = FALSE /\ answer = NoAnswer

Interrupt ==
  /\ ~due
  /\ answer = NoAnswer
  /\ due' = TRUE
  /\ UNCHANGED <<time, answer>>

Count ==
  /\ due
  /\ due' = FALSE
  /\ time' = (time + 1) % Modulus
  /\ UNCHANGED answer

Answer ==
  /\ ~due
  /\ answer = NoAnswer
  /\ answer' = time
  /\ UNCHANGED <<time, due>>

Release ==
  /\ answer # NoAnswer
  /\ answer' = NoAnswer
  /\ UNCHANGED <<time, due>>

ClockNext == Interrupt \/ Count \/ Answer \/ Release

ClockSpec == ClockInit /\ [][ClockNext]_clockVars
=============================================================================
