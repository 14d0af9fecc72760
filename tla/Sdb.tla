--------------------------------- MODULE Sdb ---------------------------------
(***************************************************************************)
(* The debugger's session: SDB::MainLoop and its commands over the         *)
(* processor, the watchpoint pool and the expressions, CONFIG_WATCHPOINT   *)
(* set.  si and c call step() and after each call the rounds of CheckAll,  *)
(* one step each here: the host may send between any two.  main enters the *)
(* debugger before it reads IRQ_INTERVAL, so IrqIntervals is {0}.          *)
(***************************************************************************)
EXTENDS Expressions, WatchpointPool

CONSTANTS
  Counts,                \* the N of si N
  Lengths                \* the N of x N EXPR

ASSUME ExpressionAssumption == Expression \subseteq Tree
ASSUME CountsAssumption == Counts \cup Lengths \subseteq Nat \ {0}

VARIABLES
  mode,                  \* prompt, step, check or quit
  left,                  \* steps the command still has to make, or Forever
  checked,               \* watchpoints CheckAll has looked at
  triggered              \* the result CheckAll has so far

session == <<mode, left, checked, triggered>>
varsS   == <<vars, pool, session>>

Forever == -1            \* cCommand does not count

SdbInit ==
  /\ Init
  /\ PoolInit
  /\ mode = "prompt" /\ left = 0 /\ checked = 0 /\ triggered = FALSE

-----------------------------------------------------------------------------
(* Commands that run the guest. *)

\* siCommand and cCommand do nothing to a processor that has halted.
Run(steps) ==
  /\ mode = "prompt"
  /\ ~halted
  /\ mode' = "step" /\ left' = steps
  /\ UNCHANGED <<vars, pool, checked, triggered>>

SiCommand == \E N \in Counts : Run(N)
CCommand  == Run(Forever)

RunStep ==
  /\ mode = "step"
  /\ Step
  /\ mode' = "check" /\ checked' = 0 /\ triggered' = FALSE
  /\ left' = IF left = Forever THEN Forever ELSE left - 1
  /\ UNCHANGED pool

\* What the next watchpoint's expression evaluates to.
CheckedValue == Evaluate(watchpoints[UsedWatchpointIndices[checked + 1]].expression, Idle)

CheckOne_LastResult ==
  /\ mode = "check" /\ checked < Len(UsedWatchpointIndices)
  /\ LET v == CheckedValue
     IN  /\ CheckWatchpoint(checked + 1, v, RegisterPC)
         /\ triggered' = Triggers(checked + 1, v)
         /\ Commit(v.bus)
  /\ checked' = checked + 1
  /\ UNCHANGED <<core, irq, data, output, host, mode, left>>
CheckOne ==
  /\ mode = "check" /\ checked < Len(UsedWatchpointIndices)
  /\ LET v == CheckedValue
     IN  /\ CheckWatchpoint(checked + 1, v, RegisterPC)
         /\ triggered' = (triggered \/ Triggers(checked + 1, v))
         /\ Commit(v.bus)
  /\ checked' = checked + 1
  /\ UNCHANGED <<core, irq, data, output, host, mode, left>>

\* break, or the loop's condition.
CheckDone_OneShort ==
  /\ mode = "check" /\ checked = Len(UsedWatchpointIndices)
  /\ mode' = IF triggered \/ halted \/ left \in {0, 1} THEN "prompt" ELSE "step"
  /\ UNCHANGED <<vars, pool, left, checked, triggered>>
CheckDone ==
  /\ mode = "check" /\ checked = Len(UsedWatchpointIndices)
  /\ mode' = IF triggered \/ halted \/ left = 0 THEN "prompt" ELSE "step"
  /\ UNCHANGED <<vars, pool, left, checked, triggered>>

-----------------------------------------------------------------------------
(* Commands that only look, or change the pool.  help, info r and an       *)
(* unknown or ill-formed command change nothing.                           *)

\* The reads of a command, up to the last cursor.
Looks(bus) ==
  /\ mode = "prompt"
  /\ Commit(bus)
  /\ UNCHANGED <<core, irq, data, output, host, session>>

PCommand ==
  \E e \in Expression : Looks(Evaluate(e, Idle).bus) /\ UNCHANGED pool

\* x N EXPR: N bytes from the value on.
CursorBehind(start, N) ==
  LET cursor[i \in 0 .. N] ==
        IF i = 0 THEN start.bus ELSE After(U16(start.value + i - 1), cursor[i - 1])
  IN  cursor[N]

XCommand ==
  \E e \in Expression, N \in Lengths :
    LET start == Evaluate(e, Idle)
    IN  /\ Looks(IF start.ok THEN CursorBehind(start, N) ELSE start.bus)
        /\ UNCHANGED pool

\* info w evaluates every enabled watchpoint, by number.
CursorBehindAll ==
  LET cursor[i \in 0 .. MaxWatchpoints] ==
        CASE i = 0 -> Idle
          [] i > 0 /\ watchpoints[i - 1].enabled ->
               Evaluate(watchpoints[i - 1].expression, cursor[i - 1]).bus
          [] OTHER -> cursor[i - 1]
  IN  cursor[MaxWatchpoints]

InfoWatchpoints == Looks(CursorBehindAll) /\ UNCHANGED pool

\* The expression is evaluated before the pool is asked for room.
WCommand_StartsAtZero ==
  \E e \in Expression :
    LET v == Evaluate(e, Idle)
    IN  /\ Looks(v.bus)
        /\ IF v.ok /\ ~Full THEN CreateWatchpoint(e, 0) ELSE UNCHANGED pool
WCommand ==
  \E e \in Expression :
    LET v == Evaluate(e, Idle)
    IN  /\ Looks(v.bus)
        /\ IF v.ok /\ ~Full THEN CreateWatchpoint(e, v.value) ELSE UNCHANGED pool

DCommand ==
  /\ mode = "prompt"
  /\ \E NO \in NOs : DeleteWatchpoint(NO)
  /\ UNCHANGED <<vars, session>>

\* q, or the end of the input of linenoise.
QCommand ==
  /\ mode = "prompt"
  /\ mode' = "quit"
  /\ UNCHANGED <<vars, pool, left, checked, triggered>>

RunCommand == SiCommand \/ CCommand

OtherCommand ==
  PCommand \/ XCommand \/ InfoWatchpoints \/ WCommand \/ DCommand \/ QCommand

CheckAll == CheckOne \/ CheckDone

Running == RunStep \/ CheckAll

SdbNext ==
  \/ RunCommand \/ OtherCommand
  \/ Running
  \/ Stdin /\ UNCHANGED <<pool, session>>

-----------------------------------------------------------------------------
(***************************************************************************)
(* A watchpoint compares with the present: outside CheckAll, the old value *)
(* of every watchpoint that does not read the UART is what its expression  *)
(* evaluates to now, also for those behind one that triggered.             *)
(***************************************************************************)
WatchesAreCurrent ==
  mode # "check" =>
    \A NO \in NOs :
      LET now == Evaluate(watchpoints[NO].expression, Idle)
      IN  watchpoints[NO].enabled /\ now.ok /\ ~now.bus.polled
            => watchpoints[NO].OldValue = now.value
=============================================================================
