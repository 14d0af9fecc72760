----------------------------- MODULE PoolClient -----------------------------
(***************************************************************************)
(* The watchpoint pool under any caller: expressions, numbers good and     *)
(* bad, and rounds of CheckAll in any order, with any outcome of the       *)
(* evaluations.                                                            *)
(***************************************************************************)
EXTENDS WatchpointPool

\* MaxWatchpoints stands for every number that is out of range.
PoolNext ==
  \/ \E expression \in Expression, value \in Nat :
       CreateWatchpoint(expression, value)
  \/ \E NO \in 0 .. MaxWatchpoints : DeleteWatchpoint(NO)
  \/ \E i \in DOMAIN UsedWatchpointIndices, ok \in BOOLEAN, value \in Nat,
       pc \in Nat : CheckWatchpoint(i, [ok |-> ok, value |-> value], pc)

PoolSpec == PoolInit /\ [][PoolNext]_pool

-----------------------------------------------------------------------------
\* A watchpoint that is enabled watches something; the others are blank.
Watchpoint ==
  {Blank} \cup [enabled : {TRUE}, expression : Expression, OldValue : Nat,
                PC : Nat, HasPC : BOOLEAN]

PoolTypeOK ==
  /\ watchpoints \in [NOs -> Watchpoint]
  /\ FreeWatchpointIndices \in Seq(NOs)
  /\ UsedWatchpointIndices \in Seq(NOs)
=============================================================================
