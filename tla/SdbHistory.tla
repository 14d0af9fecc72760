----------------------------- MODULE SdbHistory -----------------------------
(***************************************************************************)
(* The debugger's session with what its user could have noted down: how    *)
(* many steps the command asked for and made, and whether the last of them *)
(* changed a watched value.                                                *)
(***************************************************************************)
EXTENDS Sdb

VARIABLES asked, done, changed

varsN == <<varsS, asked, done, changed>>

\* The watched values that can be read without touching the UART.
Watched ==
  [NO \in {n \in NOs : watchpoints[n].enabled} |->
     Evaluate(watchpoints[NO].expression, Idle)]

Differs(before, after) ==
  \E NO \in DOMAIN before :
    /\ before[NO].ok /\ ~before[NO].bus.polled
    /\ after[NO].ok /\ ~after[NO].bus.polled
    /\ before[NO].value # after[NO].value

InitN == SdbInit /\ asked = 0 /\ done = 0 /\ changed = FALSE

Given ==
  /\ RunCommand
  /\ asked' = left' /\ done' = 0 /\ changed' = FALSE

Stepped ==
  /\ RunStep
  /\ done' = IF asked = Forever THEN 0 ELSE done + 1
  /\ changed' = Differs(Watched, Watched')
  /\ UNCHANGED asked

Checked == CheckAll /\ UNCHANGED <<asked, done, changed>>

NextN ==
  \/ Given \/ Stepped \/ Checked
  \/ /\ OtherCommand \/ (Stdin /\ UNCHANGED <<pool, session>>)
     /\ UNCHANGED <<asked, done, changed>>

SpecN == InitN /\ [][NextN]_varsN

(***************************************************************************)
(* The guest never runs past a change: once a step has changed a watched   *)
(* value, no further step is made by that command, wherever in the pool    *)
(* the watchpoint is and whatever else triggered or failed.                *)
(***************************************************************************)
NoChangeIsMissed == mode = "step" => ~changed

(***************************************************************************)
(* si N makes N steps, never more, and fewer only if the guest halts or a  *)
(* watchpoint triggers; c stops for those two reasons only.                *)
(***************************************************************************)
StepsAsAsked ==
  /\ asked # Forever => done <= asked
  /\ mode = "prompt" /\ asked # 0 /\ ~halted /\ ~triggered => done = asked

-----------------------------------------------------------------------------
\* The tree of  guard && dividend / guard
Guarded(guard, dividend) ==
  [node |-> "BinaryOp", op |-> "&&", left |-> guard,
   right |-> [node |-> "BinaryOp", op |-> "/", left |-> dividend, right |-> guard]]

GuardedTree == { Guarded(guard, dividend) : guard, dividend \in Expression } \cap Tree

(***************************************************************************)
(* && protects its right side: while the guard is 0 nothing on the right   *)
(* is read or fails, and a division by its guard never does, although the  *)
(* guard is evaluated a second time for it, behind the dividend's reads;   *)
(* except for a guard that reads the UART, which may be 0 by then.         *)
(***************************************************************************)
GuardsProtect ==
  mode = "prompt" =>
    \A e \in GuardedTree :
      LET first == Evaluate(e.left, Idle)
          whole == Evaluate(e, Idle)
      IN  /\ ~first.ok \/ first.value = 0 => whole = first
          /\ /\ first.ok /\ ~first.bus.polled
             /\ Evaluate(e.right.left, Idle).ok
             => whole.ok
=============================================================================
