--------------------------- MODULE WatchpointPool ---------------------------
(***************************************************************************)
(* class WatchpointPool: a fixed array of watchpoints, a stack of the      *)
(* numbers that are free and a list of those in use, in order of creation. *)
(* What an expression evaluates to is given by the caller: a record with   *)
(* ok, FALSE for a failure, and value.                                     *)
(***************************************************************************)
EXTENDS Integers, SequencesExt

CONSTANTS
  MaxWatchpoints,        \* 32 in GetGlobalWatchpointPool
  Expression,            \* what may be watched
  NoExpression           \* the empty string

ASSUME MaxAssumption == MaxWatchpoints \in Nat \ {0}

VARIABLES watchpoints, FreeWatchpointIndices, UsedWatchpointIndices

pool == <<watchpoints, FreeWatchpointIndices, UsedWatchpointIndices>>

NOs == 0 .. MaxWatchpoints - 1

Blank == [enabled |-> FALSE, expression |-> NoExpression, OldValue |-> 0,
          PC |-> 0, HasPC |-> FALSE]

\* Numbers are handed out from the back: 0 first.
PoolInit ==
  /\ watchpoints = [NO \in NOs |-> Blank]
  /\ FreeWatchpointIndices = [i \in 1 .. MaxWatchpoints |-> MaxWatchpoints - i]
  /\ UsedWatchpointIndices = <<>>

Full == FreeWatchpointIndices = <<>>

\* CreateWatchpoint(expression, InitialValue) when there is room; otherwise
\* it returns nullptr and changes nothing.
CreateWatchpoint_NoPop(expression, value) ==
  /\ ~Full
  /\ LET NO == Last(FreeWatchpointIndices)
     IN  /\ watchpoints' = [watchpoints EXCEPT ![NO] =
              [Blank EXCEPT !.enabled = TRUE, !.expression = expression,
                            !.OldValue = value]]
         /\ UsedWatchpointIndices' = Append(UsedWatchpointIndices, NO)
         /\ UNCHANGED FreeWatchpointIndices
CreateWatchpoint(expression, value) ==
  /\ ~Full
  /\ LET NO == Last(FreeWatchpointIndices)
     IN  /\ watchpoints' = [watchpoints EXCEPT ![NO] =
              [Blank EXCEPT !.enabled = TRUE, !.expression = expression,
                            !.OldValue = value]]
         /\ UsedWatchpointIndices' = Append(UsedWatchpointIndices, NO)
         /\ FreeWatchpointIndices' = Front(FreeWatchpointIndices)

\* DeleteWatchpoint(NO) of a number in use; otherwise it returns false.
DeleteWatchpoint_Disabled(NO) ==
  /\ NO \in NOs
  /\ watchpoints' = [watchpoints EXCEPT ![NO] = Blank]
  /\ UsedWatchpointIndices' = RemoveFirst(UsedWatchpointIndices, NO)
  /\ FreeWatchpointIndices' = Append(FreeWatchpointIndices, NO)
DeleteWatchpoint(NO) ==
  /\ NO \in NOs
  /\ watchpoints[NO].enabled
  /\ watchpoints' = [watchpoints EXCEPT ![NO] = Blank]
  /\ UsedWatchpointIndices' = RemoveFirst(UsedWatchpointIndices, NO)
  /\ FreeWatchpointIndices' = Append(FreeWatchpointIndices, NO)

\* One round of the loop of CheckAll: the i-th watchpoint in use, whose
\* expression has this outcome now.  A failure is reported and skipped.
Triggers(i, outcome) ==
  LET wp == watchpoints[UsedWatchpointIndices[i]]
  IN  wp.enabled /\ outcome.ok /\ outcome.value # wp.OldValue

CheckWatchpoint_KeepsOld(i, outcome, pc) ==
  /\ watchpoints' =
       IF Triggers(i, outcome)
         THEN [watchpoints EXCEPT ![UsedWatchpointIndices[i]].PC = pc,
                                  ![UsedWatchpointIndices[i]].HasPC = TRUE]
         ELSE watchpoints
  /\ UNCHANGED <<FreeWatchpointIndices, UsedWatchpointIndices>>
CheckWatchpoint(i, outcome, pc) ==
  /\ watchpoints' =
       IF Triggers(i, outcome)
         THEN [watchpoints EXCEPT ![UsedWatchpointIndices[i]].OldValue = outcome.value,
                                  ![UsedWatchpointIndices[i]].PC = pc,
                                  ![UsedWatchpointIndices[i]].HasPC = TRUE]
         ELSE watchpoints
  /\ UNCHANGED <<FreeWatchpointIndices, UsedWatchpointIndices>>

-----------------------------------------------------------------------------
(***************************************************************************)
(* No sequence of creations and deletions, of good and of bad numbers,     *)
(* leaks a slot or hands one out twice: each number is either free or in   *)
(* use, once, and in use exactly when its watchpoint is enabled.  So the   *)
(* pool refuses only when MaxWatchpoints watchpoints exist.                *)
(***************************************************************************)
NoDuplicates(s) == \A i, j \in DOMAIN s : s[i] = s[j] => i = j

In(s, e) == \E i \in DOMAIN s : s[i] = e

PoolIsPartitioned ==
  /\ NoDuplicates(FreeWatchpointIndices)
  /\ NoDuplicates(UsedWatchpointIndices)
  /\ \A NO \in NOs :
       /\ watchpoints[NO].enabled <=> In(UsedWatchpointIndices, NO)
       /\ ~watchpoints[NO].enabled <=> In(FreeWatchpointIndices, NO)

(***************************************************************************)
(* A number stands for one watchpoint from its creation to its deletion:   *)
(* creating another one never takes it over, and checking one never        *)
(* touches another.                                                        *)
(***************************************************************************)
NumbersStay ==
  [][\A NO \in NOs :
       watchpoints[NO].enabled /\ watchpoints'[NO].enabled
         => watchpoints'[NO].expression = watchpoints[NO].expression]_pool
=============================================================================
