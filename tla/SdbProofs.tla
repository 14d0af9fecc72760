------------------------------ MODULE SdbProofs ------------------------------
(***************************************************************************)
(* Theorems about the debugger's session for every guest program, every    *)
(* set of expressions of every height, every size of the pool and every    *)
(* command, and about the pool of its watchpoints for every caller.        *)
(***************************************************************************)
EXTENDS SdbHistory, PoolClient, SequenceTheorems, CpuProofs

-----------------------------------------------------------------------------
(* The pool keeps its numbers apart.  The invariant is inductive together  *)
(* with the types: a number moves from one list to the other in each step, *)
(* and the list it joins did not hold it because the two are complementary.*)

\* Erasing the one occurrence of an element closes the gap and changes
\* nothing else.
LEMMA EraseIsSubSeq ==
  ASSUME NEW S, NEW s \in Seq(S), NoDuplicates(s), NEW k \in 1 .. Len(s)
  PROVE  RemoveFirst(s, s[k]) = SubSeq(s, 1, k - 1) \o SubSeq(s, k + 1, Len(s))
<1> DEFINE I == {i \in 1 .. Len(s) : s[i] = s[k]}
<1>1. I = {k}
  BY DEF NoDuplicates
<1>2. Min(I) = k
  BY <1>1 DEF Min
<1>3. SelectInSeq(s, LAMBDA v : v = s[k]) = k
  BY <1>1, <1>2 DEF SelectInSeq
<1> QED
  BY <1>3 DEF RemoveFirst, RemoveAt

LEMMA Erase ==
  ASSUME NEW S, NEW s \in Seq(S), NoDuplicates(s), NEW k \in 1 .. Len(s)
  PROVE  LET r == RemoveFirst(s, s[k])
         IN  /\ r \in Seq(S)
             /\ NoDuplicates(r)
             /\ \A e : In(r, e) <=> In(s, e) /\ e # s[k]
<1> DEFINE a == SubSeq(s, 1, k - 1)
           b == SubSeq(s, k + 1, Len(s))
           r == a \o b
<1>1. /\ a \in Seq(S) /\ Len(a) = k - 1
      /\ \A i \in 1 .. k - 1 : a[i] = s[i]
  OBVIOUS
<1>2. /\ b \in Seq(S) /\ Len(b) = Len(s) - k
      /\ \A i \in 1 .. Len(s) - k : b[i] = s[i + k]
  OBVIOUS
<1> HIDE DEF a, b
<1>3. /\ r \in Seq(S) /\ Len(r) = Len(s) - 1
      /\ \A i \in 1 .. Len(s) - 1 : r[i] = IF i < k THEN s[i] ELSE s[i + 1]
  <2>1. r \in Seq(S) /\ Len(r) = Len(s) - 1
    <3>1. r \in Seq(S)
      BY <1>1, <1>2, ConcatProperties
    <3>2. Len(r) = Len(a) + Len(b)
      BY <1>1, <1>2, ConcatProperties
    <3>3. Len(a) + Len(b) = Len(s) - 1
      BY <1>1, <1>2
    <3> QED
      BY <3>1, <3>2, <3>3
  <2>2. ASSUME NEW i \in 1 .. Len(s) - 1
        PROVE  r[i] = IF i < k THEN s[i] ELSE s[i + 1]
    <3>1. r[i] = IF i <= k - 1 THEN a[i] ELSE b[i - (k - 1)]
      BY <1>1, <1>2, ConcatProperties
    <3>2. CASE i < k
      BY <1>1, <3>1, <3>2
    <3>3. CASE ~(i < k)
      <4>1. i - (k - 1) \in 1 .. Len(s) - k /\ i - (k - 1) + k = i + 1
        BY <3>3
      <4> QED
        BY <1>2, <3>1, <3>3, <4>1
    <3> QED
      BY <3>2, <3>3
  <2> QED
    BY <2>1, <2>2
<1> HIDE DEF r
<1>4. NoDuplicates(r)
  <2> SUFFICES ASSUME NEW i \in 1 .. Len(r), NEW j \in 1 .. Len(r), r[i] = r[j]
               PROVE  i = j
    BY <1>3 DEF NoDuplicates
  <2> DEFINE at(n) == IF n < k THEN n ELSE n + 1
  <2>1. /\ at(i) \in DOMAIN s /\ at(j) \in DOMAIN s
        /\ s[at(i)] = s[at(j)]
    BY <1>3
  <2>2. at(i) = at(j)
    BY <2>1 DEF NoDuplicates
  <2> QED
    BY <1>3, <2>2
<1>5. ASSUME NEW e PROVE In(r, e) <=> In(s, e) /\ e # s[k]
  <2>1. ASSUME NEW i \in 1 .. Len(r), r[i] = e
        PROVE  In(s, e) /\ e # s[k]
    <3> DEFINE n == IF i < k THEN i ELSE i + 1
    <3>1. n \in 1 .. Len(s) /\ n # k /\ s[n] = e
      BY <1>3, <2>1
    <3> HIDE DEF n
    <3>2. DOMAIN s = 1 .. Len(s)
      OBVIOUS
    <3>3. In(s, e)
      BY <3>1, <3>2 DEF In
    <3>4. e # s[k]
      BY <3>1, <3>2 DEF NoDuplicates
    <3> QED
      BY <3>3, <3>4
  <2>2. ASSUME NEW j \in 1 .. Len(s), s[j] = e, e # s[k]
        PROVE  In(r, e)
    <3>1. CASE j < k
      BY <1>3, <2>2, <3>1 DEF In
    <3>2. CASE j > k
      <4>1. j - 1 \in 1 .. Len(r) /\ r[j - 1] = e
        BY <1>3, <2>2, <3>2
      <4> QED
        BY <4>1, <1>3 DEF In
    <3> QED
      BY <2>2, <3>1, <3>2
  <2> QED
    BY <1>3, <2>1, <2>2 DEF In
<1>6. RemoveFirst(s, s[k]) = r
  BY EraseIsSubSeq DEF a, b, r
<1> QED
  BY <1>3, <1>4, <1>5, <1>6

-----------------------------------------------------------------------------
\* Dropping the last element loses that element and nothing else.
LEMMA DropLast ==
  ASSUME NEW S, NEW s \in Seq(S), s # <<>>, NoDuplicates(s)
  PROVE  /\ Last(s) \in S /\ Front(s) \in Seq(S)
         /\ In(s, Last(s))
         /\ NoDuplicates(Front(s))
         /\ \A e : In(Front(s), e) <=> In(s, e) /\ e # Last(s)
<1>1. Len(s) \in Nat /\ Len(s) # 0
  BY EmptySeq
<1>2. /\ Front(s) \in Seq(S) /\ Len(Front(s)) = Len(s) - 1
      /\ \A i \in 1 .. Len(s) - 1 : Front(s)[i] = s[i]
  <2>1. \A i \in 1 .. Len(s) - 1 : i \in 1 .. Len(s) /\ s[i] \in S
    BY <1>1
  <2> DEFINE f == SubSeq(s, 1, Len(s) - 1)
  <2>2. f = [i \in 1 .. Len(s) - 1 |-> s[i]]
    BY <1>1
  <2> HIDE DEF f
  <2>3. f \in Seq(S) /\ Len(f) = Len(s) - 1
    BY <1>1, <2>1, <2>2, IsASeq
  <2> QED
    BY <2>2, <2>3 DEF f, Front
<1>3. Last(s) \in S /\ In(s, Last(s))
  BY <1>1 DEF Last, In
<1>4. NoDuplicates(Front(s))
  BY <1>2 DEF NoDuplicates
<1>5. ASSUME NEW e PROVE In(Front(s), e) <=> In(s, e) /\ e # Last(s)
  <2>1. ASSUME NEW i \in 1 .. Len(s) - 1, Front(s)[i] = e
        PROVE  In(s, e) /\ e # Last(s)
    BY <1>1, <1>2, <2>1 DEF In, NoDuplicates, Last
  <2>2. ASSUME NEW j \in 1 .. Len(s), s[j] = e, e # Last(s)
        PROVE  In(Front(s), e)
    BY <1>1, <1>2, <2>2 DEF In, Last
  <2> QED
    BY <1>2, <2>1, <2>2 DEF In
<1> QED
  BY <1>2, <1>3, <1>4, <1>5

\* Appending an element that is not there yet.
LEMMA AppendNew ==
  ASSUME NEW S, NEW s \in Seq(S), NEW x \in S, NoDuplicates(s), ~In(s, x)
  PROVE  /\ Append(s, x) \in Seq(S)
         /\ NoDuplicates(Append(s, x))
         /\ \A e : In(Append(s, x), e) <=> In(s, e) \/ e = x
<1> DEFINE t == Append(s, x)
<1>1. /\ t \in Seq(S) /\ Len(t) = Len(s) + 1
      /\ \A i \in 1 .. Len(s) : t[i] = s[i]
      /\ t[Len(s) + 1] = x
  OBVIOUS
<1> HIDE DEF t
<1>2. NoDuplicates(t)
  BY <1>1 DEF NoDuplicates, In
<1>3. ASSUME NEW e PROVE In(t, e) <=> In(s, e) \/ e = x
  <2>1. DOMAIN t = 1 .. Len(s) + 1 /\ DOMAIN s = 1 .. Len(s)
    BY <1>1
  <2>2. In(t, e) => In(s, e) \/ e = x
    BY <1>1, <2>1 DEF In
  <2>3. In(s, e) \/ e = x => In(t, e)
    BY <1>1, <2>1 DEF In
  <2> QED
    BY <2>2, <2>3
<1> QED
  BY <1>1, <1>2, <1>3 DEF t

-----------------------------------------------------------------------------
PoolInv == PoolTypeOK /\ PoolIsPartitioned

LEMMA InitPool == PoolInit => PoolInv
<1> SUFFICES ASSUME PoolInit PROVE PoolInv
  OBVIOUS
<1> USE MaxAssumption
<1>1. /\ FreeWatchpointIndices \in Seq(NOs)
      /\ Len(FreeWatchpointIndices) = MaxWatchpoints
      /\ \A i \in 1 .. MaxWatchpoints :
           FreeWatchpointIndices[i] = MaxWatchpoints - i
  BY IsASeq DEF PoolInit, NOs
<1>2. PoolTypeOK
  BY <1>1 DEF PoolInit, PoolTypeOK, Watchpoint, Blank
<1>3. NoDuplicates(FreeWatchpointIndices) /\ NoDuplicates(UsedWatchpointIndices)
  BY <1>1 DEF PoolInit, NoDuplicates
<1>4. ASSUME NEW NO \in NOs
      PROVE  /\ ~watchpoints[NO].enabled
             /\ ~In(UsedWatchpointIndices, NO)
             /\ In(FreeWatchpointIndices, NO)
  <2>1. ~watchpoints[NO].enabled
    BY DEF PoolInit, Blank
  <2>2. ~In(UsedWatchpointIndices, NO)
    BY DEF PoolInit, In
  <2>3. /\ MaxWatchpoints - NO \in DOMAIN FreeWatchpointIndices
        /\ FreeWatchpointIndices[MaxWatchpoints - NO] = NO
    BY <1>1 DEF NOs
  <2> QED
    BY <2>1, <2>2, <2>3 DEF In
<1> QED
  BY <1>2, <1>3, <1>4 DEF PoolInv, PoolIsPartitioned

LEMMA CreatePool ==
  ASSUME PoolInv, NEW expression \in Expression, NEW value \in Nat,
         CreateWatchpoint(expression, value)
  PROVE  PoolInv'
<1> DEFINE NO == Last(FreeWatchpointIndices)
           wp == [Blank EXCEPT !.enabled = TRUE, !.expression = expression,
                               !.OldValue = value]
<1>1. /\ FreeWatchpointIndices # <<>>
      /\ watchpoints' = [watchpoints EXCEPT ![NO] = wp]
      /\ UsedWatchpointIndices' = Append(UsedWatchpointIndices, NO)
      /\ FreeWatchpointIndices' = Front(FreeWatchpointIndices)
  BY DEF CreateWatchpoint, Full
<1>2. wp \in Watchpoint /\ wp.enabled
  BY DEF Watchpoint, Blank
<1> HIDE DEF wp
<1>3. /\ NO \in NOs /\ In(FreeWatchpointIndices, NO)
      /\ Front(FreeWatchpointIndices) \in Seq(NOs)
      /\ NoDuplicates(Front(FreeWatchpointIndices))
      /\ \A e : In(Front(FreeWatchpointIndices), e)
                  <=> In(FreeWatchpointIndices, e) /\ e # NO
  BY <1>1, DropLast DEF PoolInv, PoolTypeOK, PoolIsPartitioned
<1> HIDE DEF NO
<1>4. ~In(UsedWatchpointIndices, NO)
  BY <1>3 DEF PoolInv, PoolIsPartitioned
<1>5. /\ Append(UsedWatchpointIndices, NO) \in Seq(NOs)
      /\ NoDuplicates(Append(UsedWatchpointIndices, NO))
      /\ \A e : In(Append(UsedWatchpointIndices, NO), e)
                  <=> In(UsedWatchpointIndices, e) \/ e = NO
  BY <1>3, <1>4, AppendNew DEF PoolInv, PoolTypeOK, PoolIsPartitioned
<1>6. PoolTypeOK'
  BY <1>1, <1>2, <1>3, <1>5 DEF PoolInv, PoolTypeOK
<1>7. NoDuplicates(FreeWatchpointIndices)' /\ NoDuplicates(UsedWatchpointIndices)'
  BY <1>1, <1>3, <1>5 DEF NoDuplicates
<1>8. ASSUME NEW n \in NOs
      PROVE  /\ watchpoints'[n].enabled <=> In(UsedWatchpointIndices', n)
             /\ ~watchpoints'[n].enabled <=> In(FreeWatchpointIndices', n)
  <2>1. CASE n = NO
    <3>1. watchpoints'[n].enabled
      BY <1>1, <1>2, <1>3, <2>1 DEF PoolInv, PoolTypeOK
    <3>2. In(UsedWatchpointIndices', n) /\ ~In(FreeWatchpointIndices', n)
      BY <1>1, <1>3, <1>5, <2>1
    <3> QED
      BY <3>1, <3>2
  <2>2. CASE n # NO
    <3>1. watchpoints'[n] = watchpoints[n]
      BY <1>1, <2>2 DEF PoolInv, PoolTypeOK
    <3>2. /\ In(UsedWatchpointIndices', n) <=> In(UsedWatchpointIndices, n)
          /\ In(FreeWatchpointIndices', n) <=> In(FreeWatchpointIndices, n)
      BY <1>1, <1>3, <1>5, <2>2
    <3> QED
      BY <3>1, <3>2 DEF PoolInv, PoolIsPartitioned
  <2> QED
    BY <2>1, <2>2
<1> QED
  BY <1>6, <1>7, <1>8 DEF PoolInv, PoolIsPartitioned, In

LEMMA DeletePool ==
  ASSUME PoolInv, NEW NO \in 0 .. MaxWatchpoints, DeleteWatchpoint(NO)
  PROVE  PoolInv'
<1>1. /\ NO \in NOs /\ watchpoints[NO].enabled
      /\ watchpoints' = [watchpoints EXCEPT ![NO] = Blank]
      /\ UsedWatchpointIndices' = RemoveFirst(UsedWatchpointIndices, NO)
      /\ FreeWatchpointIndices' = Append(FreeWatchpointIndices, NO)
  BY DEF DeleteWatchpoint
<1>2. Blank \in Watchpoint /\ ~Blank.enabled
  BY DEF Watchpoint, Blank
<1>3. PICK k \in 1 .. Len(UsedWatchpointIndices) : UsedWatchpointIndices[k] = NO
  BY <1>1 DEF PoolInv, PoolTypeOK, PoolIsPartitioned, In
<1>4. /\ UsedWatchpointIndices' \in Seq(NOs)
      /\ NoDuplicates(UsedWatchpointIndices')
      /\ \A e : In(UsedWatchpointIndices', e)
                  <=> In(UsedWatchpointIndices, e) /\ e # NO
  BY <1>1, <1>3, Erase DEF PoolInv, PoolTypeOK, PoolIsPartitioned
<1>5. ~In(FreeWatchpointIndices, NO)
  BY <1>1 DEF PoolInv, PoolIsPartitioned
<1>6. /\ FreeWatchpointIndices' \in Seq(NOs)
      /\ NoDuplicates(FreeWatchpointIndices')
      /\ \A e : In(FreeWatchpointIndices', e)
                  <=> In(FreeWatchpointIndices, e) \/ e = NO
  BY <1>1, <1>5, AppendNew DEF PoolInv, PoolTypeOK, PoolIsPartitioned
<1>7. PoolTypeOK'
  BY <1>1, <1>2, <1>4, <1>6 DEF PoolInv, PoolTypeOK
<1>8. ASSUME NEW n \in NOs
      PROVE  /\ watchpoints'[n].enabled <=> In(UsedWatchpointIndices', n)
             /\ ~watchpoints'[n].enabled <=> In(FreeWatchpointIndices', n)
  <2>1. CASE n = NO
    <3>1. ~watchpoints'[n].enabled
      BY <1>1, <1>2, <2>1 DEF PoolInv, PoolTypeOK
    <3> QED
      BY <1>4, <1>6, <2>1, <3>1
  <2>2. CASE n # NO
    <3>1. watchpoints'[n] = watchpoints[n]
      BY <1>1, <2>2 DEF PoolInv, PoolTypeOK
    <3> QED
      BY <1>4, <1>6, <2>2, <3>1 DEF PoolInv, PoolIsPartitioned
  <2> QED
    BY <2>1, <2>2
<1> QED
  BY <1>4, <1>6, <1>7, <1>8 DEF PoolInv, PoolIsPartitioned, NoDuplicates, In

LEMMA CheckPool ==
  ASSUME PoolInv, NEW i \in DOMAIN UsedWatchpointIndices,
         NEW outcome, outcome.ok => outcome.value \in Nat, NEW pc \in Nat,
         CheckWatchpoint(i, outcome, pc)
  PROVE  PoolInv'
<1> DEFINE NO == UsedWatchpointIndices[i]
<1>1. NO \in NOs
  BY DEF PoolInv, PoolTypeOK
<1>2. watchpoints' \in [NOs -> Watchpoint]
      /\ \A n \in NOs : watchpoints'[n].enabled = watchpoints[n].enabled
  <2>1. CASE Triggers(i, outcome)
    <3>1. /\ outcome.value \in Nat /\ watchpoints[NO].enabled
          /\ watchpoints[NO] \in Watchpoint
      BY <1>1, <2>1 DEF Triggers, PoolInv, PoolTypeOK
    <3> DEFINE wp == [watchpoints[NO] EXCEPT !.OldValue = outcome.value,
                                             !.PC = pc, !.HasPC = TRUE]
    <3>2. watchpoints[NO] \in [enabled : {TRUE}, expression : Expression,
                               OldValue : Nat, PC : Nat, HasPC : BOOLEAN]
      <4>1. Blank.enabled = FALSE
        BY DEF Blank
      <4>2. watchpoints[NO] # Blank
        BY <3>1, <4>1
      <4> QED
        BY <3>1, <4>2 DEF Watchpoint
    <3>3. wp \in Watchpoint /\ wp.enabled = watchpoints[NO].enabled
      BY <3>1, <3>2 DEF Watchpoint
    <3>4. watchpoints' = [watchpoints EXCEPT ![NO] = wp]
      BY <1>1, <2>1, <3>2 DEF CheckWatchpoint, PoolInv, PoolTypeOK
    <3> HIDE DEF wp
    <3> QED
      BY <1>1, <3>3, <3>4 DEF PoolInv, PoolTypeOK
  <2>2. CASE ~Triggers(i, outcome)
    BY <2>2 DEF CheckWatchpoint, PoolInv, PoolTypeOK
  <2> QED
    BY <2>1, <2>2
<1>3. UNCHANGED <<FreeWatchpointIndices, UsedWatchpointIndices>>
  BY DEF CheckWatchpoint
<1> QED
  BY <1>2, <1>3 DEF PoolInv, PoolTypeOK, PoolIsPartitioned, NoDuplicates, In

\* The invariant is kept by every step of any caller.
LEMMA NextPool == PoolInv /\ [PoolNext]_pool => PoolInv'
<1> SUFFICES ASSUME PoolInv, [PoolNext]_pool PROVE PoolInv'
  OBVIOUS
<1>1. CASE PoolNext
  BY <1>1, CreatePool, DeletePool, CheckPool DEF PoolNext
<1>2. CASE UNCHANGED pool
  BY <1>2 DEF pool, PoolInv, PoolTypeOK, PoolIsPartitioned, NoDuplicates, In
<1> QED
  BY <1>1, <1>2

\* No use of the pool leaks a number or hands one out twice, whatever the
\* pool's size and whatever the expressions evaluate to.
THEOREM PoolPartitioned == PoolSpec => []PoolIsPartitioned
<1>1. PoolInv => PoolIsPartitioned
  BY DEF PoolInv
<1> QED
  BY InitPool, NextPool, <1>1, PTL DEF PoolSpec

\* A number keeps its watchpoint until it is deleted: the number a creation
\* takes is a free one, so no enabled watchpoint is overwritten.
THEOREM NumbersKept == PoolSpec => NumbersStay
<1> DEFINE Stay ==
      \A NO \in NOs :
        watchpoints[NO].enabled /\ watchpoints'[NO].enabled
          => watchpoints'[NO].expression = watchpoints[NO].expression
<1>1. PoolInv /\ PoolNext => Stay
  <2> SUFFICES ASSUME PoolInv, PoolNext, NEW NO \in NOs,
                      watchpoints[NO].enabled, watchpoints'[NO].enabled
               PROVE  watchpoints'[NO].expression = watchpoints[NO].expression
    OBVIOUS
  <2>1. ASSUME NEW expression \in Expression, NEW value \in Nat,
               CreateWatchpoint(expression, value)
        PROVE  watchpoints'[NO].expression = watchpoints[NO].expression
    <3>1. /\ FreeWatchpointIndices # <<>>
          /\ watchpoints' = [watchpoints EXCEPT ![Last(FreeWatchpointIndices)] =
               [Blank EXCEPT !.enabled = TRUE, !.expression = expression,
                             !.OldValue = value]]
      BY <2>1 DEF CreateWatchpoint, Full
    <3>2. /\ Last(FreeWatchpointIndices) \in NOs
          /\ In(FreeWatchpointIndices, Last(FreeWatchpointIndices))
      BY <3>1, DropLast DEF PoolInv, PoolTypeOK, PoolIsPartitioned
    <3>3. Last(FreeWatchpointIndices) # NO
      BY <3>2 DEF PoolInv, PoolIsPartitioned
    <3> QED
      BY <3>1, <3>3 DEF PoolInv, PoolTypeOK
  <2>2. ASSUME NEW n \in 0 .. MaxWatchpoints, DeleteWatchpoint(n)
        PROVE  watchpoints'[NO].expression = watchpoints[NO].expression
    <3>1. watchpoints' = [watchpoints EXCEPT ![n] = Blank] /\ n \in NOs
      BY <2>2 DEF DeleteWatchpoint
    <3>2. n # NO
      BY <3>1 DEF PoolInv, PoolTypeOK, Blank
    <3> QED
      BY <3>1, <3>2 DEF PoolInv, PoolTypeOK
  <2>3. ASSUME NEW i \in DOMAIN UsedWatchpointIndices,
               NEW outcome, outcome.ok => outcome.value \in Nat, NEW pc \in Nat,
               CheckWatchpoint(i, outcome, pc)
        PROVE  watchpoints'[NO].expression = watchpoints[NO].expression
    <3>1. UsedWatchpointIndices[i] \in NOs
      BY DEF PoolInv, PoolTypeOK
    <3> QED
      BY <2>3, <3>1 DEF CheckWatchpoint, PoolInv, PoolTypeOK, Watchpoint
  <2> QED
    BY <2>1, <2>2, <2>3 DEF PoolNext
<1>2. PoolInv /\ [PoolNext]_pool => [Stay]_pool
  BY <1>1
<1> QED
  BY InitPool, NextPool, <1>2, PTL DEF PoolSpec, NumbersStay

-----------------------------------------------------------------------------
(* Recursion.  TreesTo, EvaluateTo and the cursors of x and info w are     *)
(* recursive functions; that such a function satisfies its own equation is *)
(* a fact to prove: finite chains that satisfy it exist, any two agree     *)
(* where both are defined, and their ends form the function.               *)

LEMMA TreesToUnfolds ==
  \A n \in Nat : TreesTo[n] = IF n = 0 THEN Leaf ELSE Leaf \cup Inner(TreesTo[n - 1])
<1> DEFINE L(n, t)     == IF n = 0 THEN Leaf ELSE Leaf \cup Inner(t)
           Chain(m, h) == \A n \in 0 .. m : h[n] = L(n, h[n - 1])
<1>1. \A s, t : L(0, s) = L(0, t)
  OBVIOUS
<1> HIDE DEF L
<1>2. \A m \in Nat : \E h : Chain(m, h)
  <2> DEFINE S == {m \in Nat : \E h : Chain(m, h)}
  <2>1. 0 \in S
    <3> DEFINE h == [n \in 0 .. 0 |-> L(0, Leaf)]
    <3>1. Chain(0, h)
      BY <1>1
    <3> QED
      BY <3>1
  <2>2. ASSUME NEW m \in Nat, m \in S PROVE m + 1 \in S
    <3>1. PICK g : Chain(m, g)
      BY <2>2
    <3> DEFINE h == [n \in 0 .. m + 1 |->
                       IF n <= m THEN g[n] ELSE L(m + 1, g[m])]
    <3>2. ASSUME NEW n \in 0 .. m + 1 PROVE h[n] = L(n, h[n - 1])
      <4>1. CASE n = 0
        BY <1>1, <3>1, <4>1
      <4>2. CASE n \in 1 .. m
        BY <3>1, <4>2
      <4>3. CASE n = m + 1
        BY <4>3
      <4> QED
        BY <4>1, <4>2, <4>3
    <3> HIDE DEF h
    <3>3. \E g2 : Chain(m + 1, g2)
      BY <3>2
    <3> QED
      BY <3>3
  <2> HIDE DEF S
  <2>3. Nat \subseteq S
    BY <2>1, <2>2, NatSetInduction
  <2> QED
    BY <2>3 DEF S
<1>3. ASSUME NEW m \in Nat, NEW k \in Nat, m <= k, NEW g, NEW h,
             Chain(m, g), Chain(k, h)
      PROVE  g[m] = h[m]
  <2> DEFINE S == {n \in Nat : n <= m => g[n] = h[n]}
  <2>1. 0 \in S
    BY <1>1, <1>3
  <2>2. ASSUME NEW n \in Nat, n \in S PROVE n + 1 \in S
    BY <1>3, <2>2
  <2> HIDE DEF S
  <2>3. Nat \subseteq S
    BY <2>1, <2>2, NatSetInduction
  <2> QED
    BY <2>3 DEF S
<1> DEFINE H(m) == CHOOSE h : Chain(m, h)
           G    == [m \in Nat |-> H(m)[m]]
<1>4. \A m \in Nat : Chain(m, H(m))
  BY <1>2
<1>5. ASSUME NEW m \in Nat PROVE G[m] = L(m, G[m - 1])
  <2>1. G[m] = L(m, H(m)[m - 1])
    BY <1>4
  <2>2. CASE m = 0
    BY <1>1, <2>1, <2>2
  <2>3. CASE m # 0
    <3>1. m - 1 \in Nat /\ m - 1 <= m
      BY <2>3
    <3>2. Chain(m - 1, H(m - 1)) /\ Chain(m, H(m))
      BY <1>4, <3>1
    <3> HIDE DEF H, Chain
    <3>3. H(m)[m - 1] = H(m - 1)[m - 1]
      BY <1>3, <3>1, <3>2
    <3> QED
      BY <2>1, <3>1, <3>3
  <2> QED
    BY <2>2, <2>3
<1>6. G = [m \in Nat |-> L(m, G[m - 1])]
  <2> HIDE DEF H
  <2> QED
    BY <1>5
<1> HIDE DEF G
<1>7. TreesTo = [m \in Nat |-> L(m, TreesTo[m - 1])]
  BY <1>6 DEF TreesTo, L
<1> QED
  BY <1>7 DEF L

\* In every state.
LEMMA EvaluateToUnfolds ==
  \A n \in Nat : EvaluateTo[n] = EvaluateLevel(n, EvaluateTo[n - 1])
<1> DEFINE L(n, t)     == EvaluateLevel(n, t)
           Chain(m, h) == \A n \in 0 .. m : h[n] = L(n, h[n - 1])
<1>1. \A s, t : L(0, s) = L(0, t)
  BY TreesToUnfolds DEF EvaluateLevel
<1> HIDE DEF L
<1>2. \A m \in Nat : \E h : Chain(m, h)
  <2> DEFINE S == {m \in Nat : \E h : Chain(m, h)}
  <2>1. 0 \in S
    <3> DEFINE h == [n \in 0 .. 0 |-> L(0, 0)]
    <3>1. Chain(0, h)
      BY <1>1
    <3> QED
      BY <3>1
  <2>2. ASSUME NEW m \in Nat, m \in S PROVE m + 1 \in S
    <3>1. PICK g : Chain(m, g)
      BY <2>2
    <3> DEFINE h == [n \in 0 .. m + 1 |->
                       IF n <= m THEN g[n] ELSE L(m + 1, g[m])]
    <3>2. ASSUME NEW n \in 0 .. m + 1 PROVE h[n] = L(n, h[n - 1])
      <4>1. CASE n = 0
        BY <1>1, <3>1, <4>1
      <4>2. CASE n \in 1 .. m
        BY <3>1, <4>2
      <4>3. CASE n = m + 1
        BY <4>3
      <4> QED
        BY <4>1, <4>2, <4>3
    <3> HIDE DEF h
    <3>3. \E g2 : Chain(m + 1, g2)
      BY <3>2
    <3> QED
      BY <3>3
  <2> HIDE DEF S
  <2>3. Nat \subseteq S
    BY <2>1, <2>2, NatSetInduction
  <2> QED
    BY <2>3 DEF S
<1>3. ASSUME NEW m \in Nat, NEW k \in Nat, m <= k, NEW g, NEW h,
             Chain(m, g), Chain(k, h)
      PROVE  g[m] = h[m]
  <2> DEFINE S == {n \in Nat : n <= m => g[n] = h[n]}
  <2>1. 0 \in S
    BY <1>1, <1>3
  <2>2. ASSUME NEW n \in Nat, n \in S PROVE n + 1 \in S
    BY <1>3, <2>2
  <2> HIDE DEF S
  <2>3. Nat \subseteq S
    BY <2>1, <2>2, NatSetInduction
  <2> QED
    BY <2>3 DEF S
<1> DEFINE H(m) == CHOOSE h : Chain(m, h)
           G    == [m \in Nat |-> H(m)[m]]
<1>4. \A m \in Nat : Chain(m, H(m))
  BY <1>2
<1>5. ASSUME NEW m \in Nat PROVE G[m] = L(m, G[m - 1])
  <2>1. G[m] = L(m, H(m)[m - 1])
    BY <1>4
  <2>2. CASE m = 0
    BY <1>1, <2>1, <2>2
  <2>3. CASE m # 0
    <3>1. m - 1 \in Nat /\ m - 1 <= m
      BY <2>3
    <3>2. Chain(m - 1, H(m - 1)) /\ Chain(m, H(m))
      BY <1>4, <3>1
    <3> HIDE DEF H, Chain
    <3>3. H(m)[m - 1] = H(m - 1)[m - 1]
      BY <1>3, <3>1, <3>2
    <3> QED
      BY <2>1, <3>1, <3>3
  <2> QED
    BY <2>2, <2>3
<1>6. G = [m \in Nat |-> L(m, G[m - 1])]
  <2> HIDE DEF H
  <2> QED
    BY <1>5
<1> HIDE DEF G
<1>7. EvaluateTo = [m \in Nat |-> L(m, EvaluateTo[m - 1])]
  BY <1>6 DEF EvaluateTo, L
<1> QED
  BY <1>7 DEF L

\* One level of the recursion, and where the children of a node are.
Unfolded ==
  \A n \in Nat : \A e \in TreesTo[n], c \in Cursor :
    /\ e \in Leaf => EvaluateTo[n][<<e, c>>] = EvaluateLeaf(e, c)
    /\ e \notin Leaf =>
         /\ n - 1 \in Nat /\ e \in Inner(TreesTo[n - 1])
         /\ EvaluateTo[n][<<e, c>>] = EvaluateInner(e, c, EvaluateTo[n - 1])

LEMMA EvaluateUnfolds == Unfolded
<1> SUFFICES ASSUME NEW n \in Nat, NEW e \in TreesTo[n], NEW c \in Cursor
             PROVE  /\ e \in Leaf => EvaluateTo[n][<<e, c>>] = EvaluateLeaf(e, c)
                    /\ e \notin Leaf =>
                         /\ n - 1 \in Nat /\ e \in Inner(TreesTo[n - 1])
                         /\ EvaluateTo[n][<<e, c>>] =
                              EvaluateInner(e, c, EvaluateTo[n - 1])
  BY DEF Unfolded
<1>1. EvaluateTo[n] = EvaluateLevel(n, EvaluateTo[n - 1])
  BY EvaluateToUnfolds
<1>2. EvaluateTo[n][<<e, c>>] =
        IF e \in Leaf THEN EvaluateLeaf(e, c)
                      ELSE EvaluateInner(e, c, EvaluateTo[n - 1])
  BY <1>1 DEF EvaluateLevel
<1>3. e \notin Leaf => n # 0 /\ e \in Inner(TreesTo[n - 1])
  BY TreesToUnfolds
<1> QED
  BY <1>2, <1>3

LEMMA EvaluateUnfoldsNext == Unfolded'
BY EvaluateUnfolds, PTL

-----------------------------------------------------------------------------
(* What an evaluation returns. *)

Outcome == [ok : BOOLEAN, value : Nat, bus : Cursor]

\* An outcome behind the cursor it started from.
Behind(c) == {o \in Outcome : c.polled => o.bus.polled}

LEMMA ApplyType ==
  ASSUME NEW op \in Operators, NEW l \in Nat, NEW r \in Nat, op = "/" => r # 0
  PROVE  Apply(op, l, r) \in Nat
<1>1. \A n \in Int : Uint(n) \in Nat
  BY UintAssumption DEF Uint
<1>2. l + r \in Int /\ l - r \in Int /\ l * r \in Int
  OBVIOUS
<1>3. r # 0 => l \div r \in Nat
  OBVIOUS
<1> QED
  BY <1>1, <1>2, <1>3 DEF Apply, Operators

LEMMA LeafType ==
  ASSUME TypeOK, NEW e \in Leaf, NEW c \in Cursor
  PROVE  EvaluateLeaf(e, c) \in Behind(c)
<1>1. \A n \in Nat : Result(n, c) \in Behind(c)
  BY DEF Result, Behind, Outcome
<1>2. Throw(c) \in Behind(c)
  BY DEF Throw, Behind, Outcome
<1>3. \A name : ReadRegister(name, c) \in Behind(c)
  <2>1. /\ Registers["A"] \in Nat /\ Registers["X"] \in Nat
        /\ Registers["Y"] \in Nat /\ Registers["S"] \in Nat
    BY DEF TypeOK, RegisterIndex, Byte
  <2>2. RegisterPC \in Nat
    BY WordBounds DEF TypeOK
  <2>3. PackFlags(P) \in Nat
    BY FlagTypes DEF TypeOK, Byte
  <2> QED
    BY <1>1, <1>2, <2>1, <2>2, <2>3 DEF ReadRegister
<1>4. CASE e \in [node : {"Number"}, value : 0 .. UintRange - 1]
  BY <1>1, <1>4 DEF EvaluateLeaf
<1>5. CASE e \in [node : {"Register"}, name : STRING]
  BY <1>3, <1>5 DEF EvaluateLeaf
<1>6. CASE e \in [node : {"SyntaxError"}]
  BY <1>2, <1>6 DEF EvaluateLeaf
<1> QED
  BY <1>4, <1>5, <1>6 DEF Leaf

LEMMA CombineType ==
  ASSUME NEW op \in Operators, NEW c \in Cursor,
         NEW l \in Behind(c), NEW r \in Behind(l.bus)
  PROVE  Combine(op, l, r) \in Behind(c)
<1>1. l \in Outcome /\ r \in Outcome /\ r \in Behind(c)
  BY DEF Behind
<1>2. Throw(r.bus) \in Behind(c)
  BY <1>1 DEF Throw, Behind, Outcome
<1>3. \A n \in Nat : Result(n, r.bus) \in Behind(c)
  BY <1>1 DEF Result, Behind, Outcome
<1>4. (op = "/" => r.value # 0) => Apply(op, l.value, r.value) \in Nat
  BY <1>1, ApplyType DEF Outcome
<1> QED
  BY <1>1, <1>2, <1>3, <1>4 DEF Combine

\* A node whose children evaluate to outcomes evaluates to one.
LEMMA InnerType ==
  ASSUME TypeOK, NEW trees, NEW below,
         \A e \in trees, c \in Cursor : below[<<e, c>>] \in Behind(c),
         NEW e \in Inner(trees), NEW c \in Cursor
  PROVE  EvaluateInner(e, c, below) \in Behind(c)
<1>1. CASE e \in [node : {"Dereference"}, address : trees]
  <2> DEFINE a == below[<<e.address, c>>]
             w == U16(a.value)
  <2>1. a \in Behind(c)
    BY <1>1
  <2> HIDE DEF a
  <2>2. EvaluateInner(e, c, below) =
          IF a.ok THEN Result(Read(w, a.bus), After(w, a.bus)) ELSE a
    BY <1>1 DEF EvaluateInner, a
  <2>3. Read(w, a.bus) \in Nat /\ After(w, a.bus) \in Cursor
    BY <2>1, ReadType DEF TypeOK, Behind, Outcome, Byte
  <2>4. a.bus.polled => After(w, a.bus).polled
    BY DEF After
  <2> QED
    BY <2>1, <2>2, <2>3, <2>4 DEF Result, Behind, Outcome
<1>2. CASE e \in [node : {"UnaryMinus"}, child : trees]
  <2> DEFINE v == below[<<e.child, c>>]
  <2>1. v \in Behind(c)
    BY <1>2
  <2> HIDE DEF v
  <2>2. EvaluateInner(e, c, below) =
          IF v.ok THEN Result(Uint(-v.value), v.bus) ELSE v
    BY <1>2 DEF EvaluateInner, v
  <2>3. Uint(-v.value) \in Nat
    BY <2>1, UintAssumption DEF Uint, Behind, Outcome
  <2> QED
    BY <2>1, <2>2, <2>3 DEF Result, Behind, Outcome
<1>3. CASE e \in [node : {"BinaryOp"}, op : Operators, left : trees, right : trees]
  <2> DEFINE l == below[<<e.left, c>>]
             r == below[<<e.right, l.bus>>]
  <2>1. l \in Behind(c) /\ l.bus \in Cursor
    BY <1>3 DEF Behind, Outcome
  <2>2. r \in Behind(l.bus)
    BY <1>3, <2>1
  <2>3. EvaluateInner(e, c, below) = Combine(e.op, l, r)
    BY <1>3 DEF EvaluateInner
  <2> HIDE DEF l, r
  <2> QED
    BY <1>3, <2>1, <2>2, <2>3, CombineType
<1> QED
  BY <1>1, <1>2, <1>3 DEF Inner

OutcomesTyped ==
  \A n \in Nat : \A e \in TreesTo[n], c \in Cursor :
    EvaluateTo[n][<<e, c>>] \in Behind(c)

LEMMA EvaluateToType == TypeOK => OutcomesTyped
<1> SUFFICES ASSUME TypeOK PROVE OutcomesTyped
  OBVIOUS
<1> DEFINE S == {n \in Nat : \A e \in TreesTo[n], c \in Cursor :
                   EvaluateTo[n][<<e, c>>] \in Behind(c)}
<1>1. ASSUME NEW n \in Nat, n - 1 \in Nat => n - 1 \in S
      PROVE  n \in S
  <2> SUFFICES ASSUME NEW e \in TreesTo[n], NEW c \in Cursor
               PROVE  EvaluateTo[n][<<e, c>>] \in Behind(c)
    OBVIOUS
  <2>1. CASE e \in Leaf
    BY <2>1, EvaluateUnfolds, LeafType DEF Unfolded
  <2>2. CASE e \notin Leaf
    <3>1. /\ n - 1 \in Nat /\ e \in Inner(TreesTo[n - 1])
          /\ EvaluateTo[n][<<e, c>>] = EvaluateInner(e, c, EvaluateTo[n - 1])
      BY <2>2, EvaluateUnfolds DEF Unfolded
    <3>2. \A t \in TreesTo[n - 1], d \in Cursor :
            EvaluateTo[n - 1][<<t, d>>] \in Behind(d)
      BY <1>1, <3>1
    <3> QED
      BY <3>1, <3>2, InnerType
  <2> QED
    BY <2>1, <2>2
<1> HIDE DEF S
<1>2. 0 \in S
  BY <1>1
<1>3. ASSUME NEW n \in Nat, n \in S PROVE n + 1 \in S
  <2>1. n + 1 \in Nat /\ (n + 1) - 1 = n
    OBVIOUS
  <2> QED
    BY <1>1, <1>3, <2>1
<1>4. Nat \subseteq S
  BY <1>2, <1>3, NatSetInduction
<1> QED
  BY <1>4 DEF S, OutcomesTyped

LEMMA EvaluateToTypeNext == (TypeOK => OutcomesTyped)'
BY EvaluateToType, PTL

LEMMA EvaluateType ==
  ASSUME TypeOK, NEW e \in Tree, NEW c \in Cursor
  PROVE  Evaluate(e, c) \in Outcome /\ Evaluate(e, c) \in Behind(c)
BY EvaluateToType, MaxHeightAssumption DEF Evaluate, Tree, Behind, OutcomesTyped

-----------------------------------------------------------------------------
(* What only looks cannot change an evaluation that does not look: when    *)
(* neither the processor nor the array changes, an outcome that touches no *)
(* UART register, before or after, is the same before and after.           *)

\* Outcomes of the same expression in two states.
Agree(before, after) ==
  ~before.bus.polled \/ ~after.bus.polled => before = after

\* What an evaluation reads besides the receiver.
Quiet == UNCHANGED <<data, Registers, P, RegisterPC>>

LEMMA LeafStable ==
  ASSUME Quiet, NEW e, NEW c
  PROVE  EvaluateLeaf(e, c)' = EvaluateLeaf(e, c)
BY DEF Quiet, EvaluateLeaf, Throw, Result, ReadRegister

LEMMA ReadStable ==
  ASSUME Quiet, NEW w, w \notin InRange, NEW c
  PROVE  /\ Read(w, c)' = Read(w, c) /\ After(w, c) = c
         /\ After(w, c)' = c
<1>1. w # StatusAddress /\ w # DataAddress
  BY DEF InRange
<1> QED
  BY <1>1 DEF Quiet, Read, After, Cell

\* A node whose children agree agrees.
LEMMA InnerStable ==
  ASSUME Quiet, NEW trees, NEW below, NEW above,
         \A e \in trees, c \in Cursor :
           /\ below[<<e, c>>] \in Behind(c) /\ above[<<e, c>>] \in Behind(c)
           /\ Agree(below[<<e, c>>], above[<<e, c>>]),
         NEW e \in Inner(trees), NEW c \in Cursor
  PROVE  Agree(EvaluateInner(e, c, below), EvaluateInner(e, c, above)')
<1>1. CASE e \in [node : {"Dereference"}, address : trees]
  <2> DEFINE a == below[<<e.address, c>>]
             b == above[<<e.address, c>>]
  <2>1. a \in Behind(c) /\ b \in Behind(c) /\ Agree(a, b)
    BY <1>1
  <2> HIDE DEF a, b
  <2> DEFINE x(o) == IF o.ok THEN Result(Read(U16(o.value), o.bus),
                                         After(U16(o.value), o.bus)) ELSE o
  <2>2. EvaluateInner(e, c, below) = x(a)
    BY <1>1 DEF EvaluateInner, a
  <2>3. EvaluateInner(e, c, above)' = x(b)'
    BY <1>1 DEF EvaluateInner, b
  <2>4. a = b => Agree(x(a), x(b)')
    <3> SUFFICES ASSUME a = b, a.ok, U16(a.value) \in InRange
                 PROVE  Agree(x(a), x(b)')
      <4>1. ASSUME a = b, ~a.ok PROVE x(a) = x(b)'
        BY <4>1
      <4>2. ASSUME a = b, a.ok, U16(a.value) \notin InRange
            PROVE  x(a) = x(b)'
        BY <4>2, ReadStable DEF Result
      <4> QED
        BY <4>1, <4>2 DEF Agree
    <3>1. After(U16(a.value), a.bus).polled /\ After(U16(a.value), a.bus)'.polled
      BY DEF After
    <3> QED
      BY <3>1 DEF Agree, Result
  <2>5. a # b => x(a).bus.polled /\ x(b)'.bus.polled
    BY <2>1 DEF Agree, Result, After
  <2> HIDE DEF x
  <2> QED
    BY <2>2, <2>3, <2>4, <2>5 DEF Agree
<1>2. CASE e \in [node : {"UnaryMinus"}, child : trees]
  <2> DEFINE a == below[<<e.child, c>>]
             b == above[<<e.child, c>>]
  <2>1. Agree(a, b)
    BY <1>2
  <2> HIDE DEF a, b
  <2>2. EvaluateInner(e, c, below) = IF a.ok THEN Result(Uint(-a.value), a.bus) ELSE a
    BY <1>2 DEF EvaluateInner, a
  <2>3. EvaluateInner(e, c, above)' = IF b.ok THEN Result(Uint(-b.value), b.bus) ELSE b
    BY <1>2 DEF EvaluateInner, b, Result, Uint
  <2> DEFINE x(o) == IF o.ok THEN Result(Uint(-o.value), o.bus) ELSE o
  <2>4. \A o : x(o).bus = o.bus
    BY DEF Result
  <2>5. EvaluateInner(e, c, below) = x(a) /\ EvaluateInner(e, c, above)' = x(b)
    BY <2>2, <2>3
  <2>6. a = b => x(a) = x(b)
    OBVIOUS
  <2> HIDE DEF x
  <2> QED
    BY <2>1, <2>4, <2>5, <2>6 DEF Agree
<1>3. CASE e \in [node : {"BinaryOp"}, op : Operators, left : trees, right : trees]
  <2> DEFINE l == below[<<e.left, c>>]
             m == above[<<e.left, c>>]
             r == below[<<e.right, l.bus>>]
             s == above[<<e.right, m.bus>>]
  <2>1. /\ l \in Behind(c) /\ m \in Behind(c) /\ Agree(l, m)
        /\ l.bus \in Cursor /\ m.bus \in Cursor
    BY <1>3 DEF Behind, Outcome
  <2>2. /\ r \in Behind(l.bus) /\ s \in Behind(m.bus)
        /\ l = m => Agree(r, s)
    BY <1>3, <2>1
  <2>3. EvaluateInner(e, c, below) = Combine(e.op, l, r)
    BY <1>3 DEF EvaluateInner
  <2>4. EvaluateInner(e, c, above)' = Combine(e.op, m, s)
    BY <1>3 DEF EvaluateInner, Combine, Throw, Result, Apply, Uint
  <2> HIDE DEF l, m, r, s
  <2> DEFINE x == Combine(e.op, l, r)
             y == Combine(e.op, m, s)
  <2>5. x = l \/ x.bus = r.bus
    BY DEF Combine, Throw, Result
  <2>6. y = m \/ y.bus = s.bus
    BY DEF Combine, Throw, Result
  <2>7. l # m => x.bus.polled /\ y.bus.polled
    BY <2>1, <2>2, <2>5, <2>6 DEF Agree, Behind
  <2>8. l = m /\ r # s => Agree(x, y)
    <3>1. l = m /\ r # s => r.bus.polled /\ s.bus.polled
      BY <2>2 DEF Agree
    <3>2. (x = l /\ y = l) \/ (x.bus = r.bus /\ y.bus = s.bus) \/ l # m
      BY DEF Combine, Throw, Result
    <3> QED
      BY <3>1, <3>2 DEF Agree
  <2>9. l = m /\ r = s => x = y
    OBVIOUS
  <2> HIDE DEF x, y
  <2> QED
    BY <2>3, <2>4, <2>7, <2>8, <2>9 DEF Agree, x, y
<1> QED
  BY <1>1, <1>2, <1>3 DEF Inner

LEMMA EvaluateToStable ==
  ASSUME TypeOK, TypeOK', Quiet
  PROVE  \A n \in Nat : \A e \in TreesTo[n], c \in Cursor :
           Agree(EvaluateTo[n][<<e, c>>], EvaluateTo[n][<<e, c>>]')
<1> DEFINE S == {n \in Nat : \A e \in TreesTo[n], c \in Cursor :
                   Agree(EvaluateTo[n][<<e, c>>], EvaluateTo[n][<<e, c>>]')}
<1>1. \A n \in Nat : \A e \in TreesTo[n], c \in Cursor :
        /\ EvaluateTo[n][<<e, c>>] \in Behind(c)
        /\ EvaluateTo[n][<<e, c>>]' \in Behind(c)
  BY EvaluateToType, EvaluateToTypeNext DEF OutcomesTyped
<1>2. ASSUME NEW n \in Nat, n - 1 \in Nat => n - 1 \in S
      PROVE  n \in S
  <2> SUFFICES ASSUME NEW e \in TreesTo[n], NEW c \in Cursor
               PROVE  Agree(EvaluateTo[n][<<e, c>>], EvaluateTo[n][<<e, c>>]')
    OBVIOUS
  <2>1. CASE e \in Leaf
    <3>1. EvaluateTo[n][<<e, c>>] = EvaluateLeaf(e, c)
      BY <2>1, EvaluateUnfolds DEF Unfolded
    <3>2. EvaluateTo[n][<<e, c>>]' = EvaluateLeaf(e, c)'
      BY <2>1, EvaluateUnfoldsNext DEF Unfolded
    <3> QED
      BY <3>1, <3>2, LeafStable DEF Agree
  <2>2. CASE e \notin Leaf
    <3>1. /\ n - 1 \in Nat /\ e \in Inner(TreesTo[n - 1])
          /\ EvaluateTo[n][<<e, c>>] = EvaluateInner(e, c, EvaluateTo[n - 1])
      BY <2>2, EvaluateUnfolds DEF Unfolded
    <3>2. EvaluateTo[n][<<e, c>>]' = EvaluateInner(e, c, EvaluateTo[n - 1])'
      BY <2>2, EvaluateUnfoldsNext DEF Unfolded
    <3>3. PICK above : above = EvaluateTo[n - 1]'
      OBVIOUS
    <3>4. EvaluateInner(e, c, EvaluateTo[n - 1])' = EvaluateInner(e, c, above)'
      BY <3>3 DEF EvaluateInner
    <3>5. \A t \in TreesTo[n - 1], d \in Cursor :
            /\ EvaluateTo[n - 1][<<t, d>>] \in Behind(d)
            /\ above[<<t, d>>] \in Behind(d)
            /\ Agree(EvaluateTo[n - 1][<<t, d>>], above[<<t, d>>])
      BY <1>1, <1>2, <3>1, <3>3
    <3>6. Agree(EvaluateInner(e, c, EvaluateTo[n - 1]), EvaluateInner(e, c, above)')
      BY <3>1, <3>5, InnerStable
    <3> QED
      BY <3>1, <3>2, <3>4, <3>6
  <2> QED
    BY <2>1, <2>2
<1> HIDE DEF S
<1>3. 0 \in S
  BY <1>2
<1>4. ASSUME NEW n \in Nat, n \in S PROVE n + 1 \in S
  <2>1. n + 1 \in Nat /\ (n + 1) - 1 = n
    OBVIOUS
  <2> QED
    BY <1>2, <1>4, <2>1
<1>5. Nat \subseteq S
  BY <1>3, <1>4, NatSetInduction
<1> QED
  BY <1>5 DEF S

LEMMA EvaluateStable ==
  ASSUME TypeOK, TypeOK', Quiet, NEW e \in Tree
  PROVE  Agree(Evaluate(e, Idle), Evaluate(e, Idle)')
<1>1. Idle \in Cursor
  BY IdleType
<1>2. Agree(EvaluateTo[MaxHeight][<<e, Idle>>], EvaluateTo[MaxHeight][<<e, Idle>>]')
  BY <1>1, EvaluateToStable, MaxHeightAssumption DEF Tree
<1> QED
  BY <1>2 DEF Evaluate, Idle

-----------------------------------------------------------------------------
(* A part of an expression is evaluated as if it were typed alone, and, if *)
(* it does not look at the UART, whatever was read before it.              *)

LEMMA TreesNest ==
  \A n, m \in Nat : n <= m => TreesTo[n] \subseteq TreesTo[m]
<1> DEFINE S == {n \in Nat : \A m \in Nat : n <= m => TreesTo[n] \subseteq TreesTo[m]}
<1>1. 0 \in S
  BY TreesToUnfolds
<1>2. ASSUME NEW n \in Nat, n \in S PROVE n + 1 \in S
  <2> SUFFICES ASSUME NEW m \in Nat, n + 1 <= m
               PROVE  TreesTo[n + 1] \subseteq TreesTo[m]
    OBVIOUS
  <2>1. m - 1 \in Nat /\ m # 0 /\ n <= m - 1 /\ (n + 1) - 1 = n /\ n + 1 # 0 /\ n + 1 \in Nat
    OBVIOUS
  <2>2. TreesTo[n] \subseteq TreesTo[m - 1]
    BY <1>2, <2>1
  <2>3. \A s, t : s \subseteq t => Inner(s) \subseteq Inner(t)
    BY DEF Inner
  <2>4. TreesTo[n + 1] = Leaf \cup Inner(TreesTo[n])
    BY <2>1, TreesToUnfolds
  <2>5. TreesTo[m] = Leaf \cup Inner(TreesTo[m - 1])
    BY <2>1, TreesToUnfolds
  <2> QED
    BY <2>2, <2>3, <2>4, <2>5
<1> HIDE DEF S
<1>3. Nat \subseteq S
  BY <1>1, <1>2, NatSetInduction
<1> QED
  BY <1>3 DEF S

SameBelow(trees, below, above) ==
  \A e \in trees, c \in Cursor :
    /\ below[<<e, c>>] \in Behind(c)
    /\ above[<<e, c>>] = below[<<e, c>>]

\* A node depends on what its children evaluate to.
LEMMA InnerAgree ==
  ASSUME NEW trees, NEW below, NEW above, SameBelow(trees, below, above),
         NEW e \in Inner(trees), NEW c \in Cursor
  PROVE  EvaluateInner(e, c, above) = EvaluateInner(e, c, below)
<1> USE DEF SameBelow
<1>1. CASE e \in [node : {"Dereference"}, address : trees]
  BY <1>1 DEF EvaluateInner
<1>2. CASE e \in [node : {"UnaryMinus"}, child : trees]
  BY <1>2 DEF EvaluateInner
<1>3. CASE e \in [node : {"BinaryOp"}, op : Operators, left : trees, right : trees]
  <2>1. /\ above[<<e.left, c>>] = below[<<e.left, c>>]
        /\ below[<<e.left, c>>].bus \in Cursor
    BY <1>3 DEF Behind, Outcome
  <2>2. above[<<e.right, below[<<e.left, c>>].bus>>] =
          below[<<e.right, below[<<e.left, c>>].bus>>]
    BY <1>3, <2>1
  <2> QED
    BY <1>3, <2>1, <2>2 DEF EvaluateInner
<1> QED
  BY <1>1, <1>2, <1>3 DEF Inner

LEMMA HeightsAgree ==
  ASSUME TypeOK
  PROVE  \A n, m \in Nat : n <= m =>
           \A e \in TreesTo[n], c \in Cursor :
             EvaluateTo[m][<<e, c>>] = EvaluateTo[n][<<e, c>>]
<1> DEFINE S == {n \in Nat : \A m \in Nat : n <= m =>
                   \A e \in TreesTo[n], c \in Cursor :
                     EvaluateTo[m][<<e, c>>] = EvaluateTo[n][<<e, c>>]}
<1>1. ASSUME NEW n \in Nat, n - 1 \in Nat => n - 1 \in S
      PROVE  n \in S
  <2> SUFFICES ASSUME NEW m \in Nat, n <= m, NEW e \in TreesTo[n], NEW c \in Cursor
               PROVE  EvaluateTo[m][<<e, c>>] = EvaluateTo[n][<<e, c>>]
    OBVIOUS
  <2>1. e \in TreesTo[m]
    BY TreesNest
  <2>2. CASE e \in Leaf
    BY <2>1, <2>2, EvaluateUnfolds DEF Unfolded
  <2>3. CASE e \notin Leaf
    <3>1. /\ n - 1 \in Nat /\ e \in Inner(TreesTo[n - 1])
          /\ EvaluateTo[n][<<e, c>>] = EvaluateInner(e, c, EvaluateTo[n - 1])
      BY <2>3, EvaluateUnfolds DEF Unfolded
    <3>2. /\ m - 1 \in Nat
          /\ EvaluateTo[m][<<e, c>>] = EvaluateInner(e, c, EvaluateTo[m - 1])
      BY <2>1, <2>3, EvaluateUnfolds DEF Unfolded
    <3>3. n - 1 <= m - 1
      BY <3>1, <3>2
    <3>4. SameBelow(TreesTo[n - 1], EvaluateTo[n - 1], EvaluateTo[m - 1])
      BY <1>1, <3>1, <3>2, <3>3, EvaluateToType DEF OutcomesTyped, SameBelow
    <3> QED
      BY <3>1, <3>2, <3>4, InnerAgree
  <2> QED
    BY <2>2, <2>3
<1> HIDE DEF S
<1>2. 0 \in S
  BY <1>1
<1>3. ASSUME NEW n \in Nat, n \in S PROVE n + 1 \in S
  <2>1. n + 1 \in Nat /\ (n + 1) - 1 = n
    OBVIOUS
  <2> QED
    BY <1>1, <1>3, <2>1
<1>4. Nat \subseteq S
  BY <1>2, <1>3, NatSetInduction
<1> QED
  BY <1>4 DEF S

BinaryNode(op, l, r) == [node |-> "BinaryOp", op |-> op, left |-> l, right |-> r]

LEMMA EvaluateBinary ==
  ASSUME TypeOK, NEW op, NEW l, NEW r, BinaryNode(op, l, r) \in Tree, NEW c \in Cursor
  PROVE  /\ l \in Tree /\ r \in Tree
         /\ Evaluate(BinaryNode(op, l, r), c) =
              Combine(op, Evaluate(l, c), Evaluate(r, Evaluate(l, c).bus))
<1> DEFINE e == BinaryNode(op, l, r)
           n == MaxHeight - 1
<1>1. e.node = "BinaryOp" /\ e.op = op /\ e.left = l /\ e.right = r
  BY DEF BinaryNode
<1>2. e \notin Leaf
  BY <1>1 DEF Leaf
<1>3. e \in TreesTo[MaxHeight]
  BY DEF Tree
<1> HIDE DEF e
<1>4. /\ n \in Nat /\ e \in Inner(TreesTo[n])
      /\ EvaluateTo[MaxHeight][<<e, c>>] = EvaluateInner(e, c, EvaluateTo[n])
  BY <1>2, <1>3, EvaluateUnfolds, MaxHeightAssumption DEF Unfolded
<1>5. n <= MaxHeight
  BY MaxHeightAssumption
<1> HIDE DEF n
<1>6. l \in TreesTo[n] /\ r \in TreesTo[n]
  BY <1>1, <1>4 DEF Inner
<1>7. \A t \in TreesTo[n], d \in Cursor :
        t \in Tree /\ EvaluateTo[n][<<t, d>>] = Evaluate(t, d)
  BY <1>4, <1>5, HeightsAgree, TreesNest, MaxHeightAssumption DEF Tree, Evaluate
<1>8. Evaluate(l, c).bus \in Cursor
  BY <1>6, <1>7, EvaluateType DEF Outcome
<1>9. EvaluateInner(e, c, EvaluateTo[n]) =
        Combine(op, EvaluateTo[n][<<l, c>>], EvaluateTo[n][<<r, EvaluateTo[n][<<l, c>>].bus>>])
  BY <1>1 DEF EvaluateInner
<1>10. Evaluate(e, c) = Combine(op, Evaluate(l, c), Evaluate(r, Evaluate(l, c).bus))
  BY <1>4, <1>6, <1>7, <1>8, <1>9 DEF Evaluate
<1> QED
  BY <1>6, <1>7, <1>10 DEF e

\* An outcome behind another cursor.
Moved(o, d) == [ok |-> o.ok, value |-> o.value, bus |-> d]

\* o, behind c, looked at nothing, and is the same behind d.
Blind(o, p, c, d) == o.bus.polled \/ (o.bus = c /\ p = Moved(o, d))

LEMMA LeafBlind ==
  ASSUME NEW e \in Leaf, NEW c, NEW d
  PROVE  Blind(EvaluateLeaf(e, c), EvaluateLeaf(e, d), c, d)
<1>1. \A n : Blind(Result(n, c), Result(n, d), c, d)
  BY DEF Result, Blind, Moved
<1>2. Blind(Throw(c), Throw(d), c, d)
  BY DEF Throw, Blind, Moved
<1>3. \A name : Blind(ReadRegister(name, c), ReadRegister(name, d), c, d)
  BY <1>1, <1>2 DEF ReadRegister
<1>4. CASE e \in [node : {"Number"}, value : 0 .. UintRange - 1]
  BY <1>1, <1>4 DEF EvaluateLeaf
<1>5. CASE e \in [node : {"Register"}, name : STRING]
  BY <1>3, <1>5 DEF EvaluateLeaf
<1>6. CASE e \in [node : {"SyntaxError"}]
  BY <1>2, <1>6 DEF EvaluateLeaf
<1> QED
  BY <1>4, <1>5, <1>6 DEF Leaf

LEMMA InnerBlind ==
  ASSUME NEW trees, NEW below,
         \A e \in trees, c, d \in Cursor :
           /\ below[<<e, c>>] \in Behind(c)
           /\ Blind(below[<<e, c>>], below[<<e, d>>], c, d),
         NEW e \in Inner(trees), NEW c \in Cursor, NEW d \in Cursor
  PROVE  Blind(EvaluateInner(e, c, below), EvaluateInner(e, d, below), c, d)
<1>1. CASE e \in [node : {"Dereference"}, address : trees]
  <2> DEFINE a == below[<<e.address, c>>]
             b == below[<<e.address, d>>]
  <2>1. a \in Behind(c) /\ Blind(a, b, c, d)
    BY <1>1
  <2> DEFINE x(o) == IF o.ok THEN Result(Read(U16(o.value), o.bus),
                                         After(U16(o.value), o.bus)) ELSE o
  <2>2. EvaluateInner(e, c, below) = x(a) /\ EvaluateInner(e, d, below) = x(b)
    BY <1>1 DEF EvaluateInner
  <2> HIDE DEF a, b
  <2>3. a.bus.polled => x(a).bus.polled
    BY <2>1 DEF Result, After
  <2>4. a.ok /\ U16(a.value) \in InRange => x(a).bus.polled
    BY DEF Result, After
  <2>5. ASSUME ~a.bus.polled, ~a.ok PROVE Blind(x(a), x(b), c, d)
    BY <2>1, <2>5 DEF Blind, Moved
  <2>6. ASSUME ~a.bus.polled, a.ok, U16(a.value) \notin InRange
        PROVE  Blind(x(a), x(b), c, d)
    <3> DEFINE w == U16(a.value)
    <3>1. b.ok /\ b.value = a.value /\ b.bus = d /\ a.bus = c
      BY <2>1, <2>6 DEF Blind, Moved
    <3>2. w # StatusAddress /\ w # DataAddress
      BY <2>6 DEF InRange
    <3>3. \A z : Read(w, z) = Cell(w) /\ After(w, z) = z
      BY <2>6, <3>2 DEF Read, After
    <3> HIDE DEF w
    <3>4. x(a) = Result(Cell(w), c) /\ x(b) = Result(Cell(w), d)
      BY <2>6, <3>1, <3>3 DEF w
    <3> HIDE DEF x
    <3> QED
      BY <3>4 DEF Blind, Moved, Result
  <2> HIDE DEF x
  <2> QED
    BY <2>2, <2>3, <2>4, <2>5, <2>6 DEF Blind
<1>2. CASE e \in [node : {"UnaryMinus"}, child : trees]
  <2> DEFINE a == below[<<e.child, c>>]
             b == below[<<e.child, d>>]
             x(o) == IF o.ok THEN Result(Uint(-o.value), o.bus) ELSE o
  <2>1. Blind(a, b, c, d)
    BY <1>2
  <2>2. EvaluateInner(e, c, below) = x(a) /\ EvaluateInner(e, d, below) = x(b)
    BY <1>2 DEF EvaluateInner
  <2> HIDE DEF a, b
  <2>3. x(a).bus = a.bus
    BY DEF Result
  <2>4. ASSUME ~a.bus.polled
        PROVE  a.bus = c /\ b.ok = a.ok /\ b.value = a.value /\ b.bus = d /\ b = Moved(a, d)
    BY <2>1, <2>4 DEF Blind, Moved
  <2>5. ASSUME ~a.bus.polled, a.ok PROVE x(b) = Moved(x(a), d)
    BY <2>4, <2>5 DEF Moved, Result
  <2>6. ASSUME ~a.bus.polled, ~a.ok PROVE x(b) = Moved(x(a), d)
    BY <2>4, <2>6 DEF Moved
  <2> HIDE DEF x
  <2>7. Blind(x(a), x(b), c, d)
    BY <2>3, <2>4, <2>5, <2>6 DEF Blind
  <2> QED
    BY <2>2, <2>7
<1>3. CASE e \in [node : {"BinaryOp"}, op : Operators, left : trees, right : trees]
  <2> DEFINE l == below[<<e.left, c>>]
             m == below[<<e.left, d>>]
             r == below[<<e.right, l.bus>>]
             s == below[<<e.right, m.bus>>]
  <2>1. /\ Blind(l, m, c, d) /\ l.bus \in Cursor /\ m.bus \in Cursor
    BY <1>3 DEF Behind, Outcome
  <2>2. r \in Behind(l.bus) /\ Blind(r, s, l.bus, m.bus)
    BY <1>3, <2>1
  <2>3. /\ EvaluateInner(e, c, below) = Combine(e.op, l, r)
        /\ EvaluateInner(e, d, below) = Combine(e.op, m, s)
    BY <1>3 DEF EvaluateInner
  <2> HIDE DEF l, m, r, s
  <2> DEFINE x == Combine(e.op, l, r)
             y == Combine(e.op, m, s)
  <2>4. x = l \/ x.bus = r.bus
    BY DEF Combine, Throw, Result
  <2>5. l.bus.polled => x.bus.polled
    BY <2>2, <2>4 DEF Behind
  <2>6. ASSUME ~l.bus.polled PROVE m = Moved(l, d) /\ l.bus = c /\ m.bus = d
    BY <2>1, <2>6 DEF Blind, Moved
  <2>7. ASSUME ~l.bus.polled, x = l, ~l.ok \/ (e.op = "&&" /\ l.value = 0)
        PROVE  Blind(x, y, c, d)
    <3>1. y = m
      BY <2>6, <2>7 DEF Combine, Moved
    <3> QED
      BY <2>6, <2>7, <3>1 DEF Blind
  <2>8. ASSUME ~l.bus.polled, ~(~l.ok \/ (e.op = "&&" /\ l.value = 0))
        PROVE  Blind(x, y, c, d)
    <3>1. ~(~m.ok \/ (e.op = "&&" /\ m.value = 0)) /\ m.value = l.value
      BY <2>6, <2>8 DEF Moved
    <3>2. x.bus = r.bus
      BY <2>8 DEF Combine, Throw, Result
    <3>3. CASE r.bus.polled
      BY <3>2, <3>3 DEF Blind
    <3>4. CASE ~r.bus.polled
      <4>1. r.bus = c /\ s.ok = r.ok /\ s.value = r.value /\ s.bus = d /\ s = Moved(r, d)
        BY <2>2, <2>6, <2>8, <3>4 DEF Blind, Moved
      <4> QED
        BY <2>8, <3>1, <4>1 DEF Combine, Throw, Result, Blind, Moved
    <3> QED
      BY <3>3, <3>4
  <2>9. ~l.ok \/ (e.op = "&&" /\ l.value = 0) => x = l
    BY DEF Combine
  <2> HIDE DEF x, y
  <2>10. Blind(x, y, c, d)
    BY <2>5, <2>7, <2>8, <2>9 DEF Blind
  <2> QED
    BY <2>3, <2>10 DEF x, y
<1> QED
  BY <1>1, <1>2, <1>3 DEF Inner

LEMMA EvaluateBlind ==
  ASSUME TypeOK, NEW e \in Tree, NEW c \in Cursor, NEW d \in Cursor
  PROVE  Blind(Evaluate(e, c), Evaluate(e, d), c, d)
<1> DEFINE S == {n \in Nat : \A t \in TreesTo[n], p, q \in Cursor :
                   Blind(EvaluateTo[n][<<t, p>>], EvaluateTo[n][<<t, q>>], p, q)}
<1>1. ASSUME NEW n \in Nat, n - 1 \in Nat => n - 1 \in S
      PROVE  n \in S
  <2> SUFFICES ASSUME NEW t \in TreesTo[n], NEW p \in Cursor, NEW q \in Cursor
               PROVE  Blind(EvaluateTo[n][<<t, p>>], EvaluateTo[n][<<t, q>>], p, q)
    OBVIOUS
  <2>1. CASE t \in Leaf
    BY <2>1, EvaluateUnfolds, LeafBlind DEF Unfolded
  <2>2. CASE t \notin Leaf
    <3>1. /\ n - 1 \in Nat /\ t \in Inner(TreesTo[n - 1])
          /\ EvaluateTo[n][<<t, p>>] = EvaluateInner(t, p, EvaluateTo[n - 1])
          /\ EvaluateTo[n][<<t, q>>] = EvaluateInner(t, q, EvaluateTo[n - 1])
      BY <2>2, EvaluateUnfolds DEF Unfolded
    <3>2. \A u \in TreesTo[n - 1], v, w \in Cursor :
            /\ EvaluateTo[n - 1][<<u, v>>] \in Behind(v)
            /\ Blind(EvaluateTo[n - 1][<<u, v>>], EvaluateTo[n - 1][<<u, w>>], v, w)
      BY <1>1, <3>1, EvaluateToType DEF OutcomesTyped
    <3> QED
      BY <3>1, <3>2, InnerBlind
  <2> QED
    BY <2>1, <2>2
<1> HIDE DEF S
<1>2. 0 \in S
  BY <1>1
<1>3. ASSUME NEW n \in Nat, n \in S PROVE n + 1 \in S
  <2>1. n + 1 \in Nat /\ (n + 1) - 1 = n
    OBVIOUS
  <2> QED
    BY <1>1, <1>3, <2>1
<1>4. Nat \subseteq S
  BY <1>2, <1>3, NatSetInduction
<1> QED
  BY <1>4, MaxHeightAssumption DEF S, Tree, Evaluate

LEMMA GuardsHold ==
  ASSUME TypeOK, NEW guard, NEW dividend, Guarded(guard, dividend) \in Tree
  PROVE  LET first == Evaluate(guard, Idle)
             whole == Evaluate(Guarded(guard, dividend), Idle)
         IN  /\ ~first.ok \/ first.value = 0 => whole = first
             /\ /\ first.ok /\ ~first.bus.polled
                /\ Evaluate(dividend, Idle).ok
                => whole.ok
<1> DEFINE quotient == BinaryNode("/", dividend, guard)
           first    == Evaluate(guard, Idle)
           second   == Evaluate(quotient, first.bus)
           whole    == Evaluate(Guarded(guard, dividend), Idle)
<1>1. Guarded(guard, dividend) = BinaryNode("&&", guard, quotient)
  BY DEF Guarded, BinaryNode
<1>2. Idle \in Cursor
  BY IdleType
<1>3. guard \in Tree /\ quotient \in Tree /\ whole = Combine("&&", first, second)
  BY <1>1, <1>2, EvaluateBinary
<1>4. first \in Outcome
  BY <1>2, <1>3, EvaluateType
<1>5. ~first.ok \/ first.value = 0 => whole = first
  BY <1>3 DEF Combine
<1>6. ASSUME first.ok, ~first.bus.polled, Evaluate(dividend, Idle).ok, first.value # 0
      PROVE  whole.ok
  <2> DEFINE d == Evaluate(dividend, Idle)
             g == Evaluate(guard, d.bus)
  <2>1. first.bus = Idle
    BY <1>2, <1>3, <1>6, EvaluateBlind DEF Blind
  <2>2. dividend \in Tree /\ second = Combine("/", d, g)
    BY <1>2, <1>3, <2>1, EvaluateBinary
  <2>3. d.bus \in Cursor
    BY <1>2, <2>2, EvaluateType DEF Outcome
  <2>4. g = Moved(first, d.bus)
    BY <1>2, <1>3, <1>6, <2>3, EvaluateBlind DEF Blind
  <2>5. g.ok /\ g.value # 0
    BY <1>6, <2>4 DEF Moved
  <2> HIDE DEF d, g, first, second, whole
  <2>6. second.ok
    BY <1>6, <2>2, <2>5 DEF Combine, Result, d
  <2> QED
    BY <1>3, <1>6, <2>6 DEF Combine, Result
<1> QED
  BY <1>5, <1>6

-----------------------------------------------------------------------------
(* The cursors of the commands that evaluate several things. *)

\* What x reads leaves a cursor.
LEMMA CursorBehindType ==
  ASSUME TypeOK, NEW start \in Outcome, NEW N \in Nat
  PROVE  CursorBehind(start, N) \in Cursor
<1> DEFINE cursor == CHOOSE f :
             f = [i \in 0 .. N |->
                   IF i = 0 THEN start.bus
                   ELSE After(U16(start.value + i - 1), f[i - 1])]
           F == [i \in 1 .. N |-> [c \in Cursor |-> After(U16(start.value + i - 1), c)]]
<1>1. start.bus \in Cursor
  BY DEF Outcome
<1>2. F \in [1 .. N -> [Cursor -> Cursor]]
  BY ReadType DEF TypeOK
<1>3. PICK g : g \in Solutions(Cursor, start.bus, N, F)
  <2> HIDE DEF F, cursor
  <2> QED
    BY <1>1, <1>2, RecursionInto
<1>4. ASSUME NEW i \in 1 .. N
      PROVE  g[i] = After(U16(start.value + i - 1), g[i - 1])
  <2>1. g[i - 1] \in Cursor /\ g[i] = F[i][g[i - 1]]
    BY <1>3 DEF Solutions
  <2> QED
    BY <2>1
<1>5. g = [i \in 0 .. N |->
             IF i = 0 THEN start.bus
             ELSE After(U16(start.value + i - 1), g[i - 1])]
  BY <1>3, <1>4 DEF Solutions
<1>6. cursor = [i \in 0 .. N |->
                  IF i = 0 THEN start.bus
                  ELSE After(U16(start.value + i - 1), cursor[i - 1])]
  BY <1>5
<1>7. CursorBehind(start, N) = cursor[N]
  BY DEF CursorBehind
<1> HIDE DEF cursor
<1> DEFINE S == {i \in Nat : i <= N => cursor[i] \in Cursor}
<1>8. 0 \in S
  BY <1>1, <1>6
<1>9. ASSUME NEW i \in Nat, i \in S PROVE i + 1 \in S
  <2> SUFFICES ASSUME i + 1 <= N PROVE cursor[i + 1] \in Cursor
    OBVIOUS
  <2>1. cursor[i + 1] = After(U16(start.value + (i + 1) - 1), cursor[i])
    BY <1>6
  <2> QED
    BY <1>9, <2>1, ReadType DEF TypeOK
<1> HIDE DEF S
<1>10. Nat \subseteq S
  BY <1>8, <1>9, NatSetInduction
<1> QED
  BY <1>7, <1>10 DEF S

\* What info w reads leaves a cursor.
LEMMA CursorBehindAllType ==
  ASSUME TypeOK, PoolTypeOK
  PROVE  CursorBehindAll \in Cursor
<1> DEFINE Behind1(i, c) ==
             CASE i = 0 -> Idle
               [] i > 0 /\ watchpoints[i - 1].enabled ->
                    Evaluate(watchpoints[i - 1].expression, c).bus
               [] OTHER -> c
           cursor == CHOOSE f :
             f = [i \in 0 .. MaxWatchpoints |-> Behind1(i, f[i - 1])]
           F == [i \in 1 .. MaxWatchpoints |-> [c \in Cursor |-> Behind1(i, c)]]
<1>1. MaxWatchpoints \in Nat
  BY MaxAssumption
<1>2. \A c : Behind1(0, c) = Idle
  OBVIOUS
<1>3. ASSUME NEW i \in 1 .. MaxWatchpoints, NEW c \in Cursor
      PROVE  Behind1(i, c) \in Cursor
  <2>1. i - 1 \in NOs
    BY <1>1 DEF NOs
  <2>2. CASE watchpoints[i - 1].enabled
    <3>1. watchpoints[i - 1].expression \in Expression
      <4>1. Blank.enabled = FALSE
        BY DEF Blank
      <4>2. watchpoints[i - 1] # Blank
        BY <2>2, <4>1
      <4> QED
        BY <2>1, <4>2 DEF PoolTypeOK, Watchpoint
    <3>2. Evaluate(watchpoints[i - 1].expression, c).bus \in Cursor
      BY <3>1, EvaluateType, ExpressionAssumption DEF Outcome
    <3> QED
      BY <2>2, <3>2
  <2>3. CASE ~watchpoints[i - 1].enabled
    BY <2>3
  <2> QED
    BY <2>2, <2>3
<1>4. CursorBehindAll = cursor[MaxWatchpoints]
  BY DEF CursorBehindAll
<1> HIDE DEF Behind1
<1>5. F \in [1 .. MaxWatchpoints -> [Cursor -> Cursor]]
  BY <1>3
<1>6. PICK g : g \in Solutions(Cursor, Idle, MaxWatchpoints, F)
  <2> HIDE DEF F, cursor
  <2> QED
    BY <1>1, <1>5, RecursionInto, IdleType
<1>7. ASSUME NEW i \in 1 .. MaxWatchpoints PROVE g[i] = Behind1(i, g[i - 1])
  <2>1. g[i - 1] \in Cursor /\ g[i] = F[i][g[i - 1]]
    BY <1>1, <1>6 DEF Solutions
  <2> QED
    BY <2>1
<1>8. g = [i \in 0 .. MaxWatchpoints |-> Behind1(i, g[i - 1])]
  BY <1>1, <1>2, <1>6, <1>7 DEF Solutions
<1>9. cursor = [i \in 0 .. MaxWatchpoints |-> Behind1(i, cursor[i - 1])]
  BY <1>8
<1> HIDE DEF cursor
<1> DEFINE S == {i \in Nat : i <= MaxWatchpoints => cursor[i] \in Cursor}
<1>10. 0 \in S
  BY <1>1, <1>2, <1>9, IdleType
<1>11. ASSUME NEW i \in Nat, i \in S PROVE i + 1 \in S
  BY <1>1, <1>3, <1>9, <1>11
<1> HIDE DEF S
<1>12. Nat \subseteq S
  BY <1>10, <1>11, NatSetInduction
<1> QED
  BY <1>1, <1>4, <1>12 DEF S

-----------------------------------------------------------------------------
(* Types of the session.  Every step of the debugger is a step of the      *)
(* processor, a Commit of what was read, or neither.                       *)

SessionTypeOK ==
  /\ mode \in {"prompt", "step", "check", "quit"}
  /\ left \in Nat \cup {Forever} /\ (mode = "step" => left # 0)
  /\ checked \in Nat /\ (mode = "check" => checked <= Len(UsedWatchpointIndices))
  /\ triggered \in BOOLEAN

Typed == TypeOK /\ PoolInv /\ SessionTypeOK

\* What a command reads is committed; nothing else moves.
Reads(bus) == Commit(bus) /\ UNCHANGED <<core, irq, data, output, host>>

LEMMA ReadsType ==
  ASSUME TypeOK, NEW bus \in Cursor, Reads(bus)
  PROVE  TypeOK'
<1>1. MemoryTypeOK
  BY DEF TypeOK
<1>2. RxQueue' \in Seq(Byte) /\ RxEof' \in BOOLEAN /\ stdin' \in Seq(Byte)
  BY <1>1, CommitType DEF Reads
<1>3. MemoryTypeOK'
  BY <1>1, <1>2 DEF Reads, MemoryTypeOK, host, Cells
<1> QED
  BY <1>3 DEF TypeOK, Reads, core, irq

LEMMA ReadsQuiet == ASSUME NEW bus, Reads(bus) PROVE Quiet
BY DEF Reads, Quiet, core

\* An enabled watchpoint watches an expression.
LEMMA EnabledWatches ==
  ASSUME PoolTypeOK, NEW NO \in NOs, watchpoints[NO].enabled
  PROVE  watchpoints[NO].expression \in Expression /\ watchpoints[NO].expression \in Tree
<1>1. Blank.enabled = FALSE
  BY DEF Blank
<1>2. watchpoints[NO] # Blank
  BY <1>1
<1> QED
  BY <1>2, ExpressionAssumption DEF PoolTypeOK, Watchpoint

\* The watchpoint CheckAll looks at.
LEMMA CheckedType ==
  ASSUME Typed, checked < Len(UsedWatchpointIndices)
  PROVE  /\ checked + 1 \in DOMAIN UsedWatchpointIndices
         /\ UsedWatchpointIndices[checked + 1] \in NOs
         /\ watchpoints[UsedWatchpointIndices[checked + 1]].enabled
         /\ CheckedValue \in Outcome
<1> DEFINE NO == UsedWatchpointIndices[checked + 1]
<1>1. checked + 1 \in DOMAIN UsedWatchpointIndices /\ NO \in NOs
  BY DEF Typed, PoolInv, PoolTypeOK, SessionTypeOK
<1>2. watchpoints[NO].enabled
  BY <1>1 DEF Typed, PoolInv, PoolIsPartitioned, In
<1>3. watchpoints[NO].expression \in Tree
  BY <1>1, <1>2, EnabledWatches DEF Typed, PoolInv
<1>4. Evaluate(watchpoints[NO].expression, Idle) \in Outcome
  BY <1>3, EvaluateType, IdleType DEF Typed
<1> QED
  BY <1>1, <1>2, <1>4 DEF CheckedValue

LEMMA CheckOneReads ==
  ASSUME Typed, CheckOne
  PROVE  /\ Reads(CheckedValue.bus) /\ CheckedValue.bus \in Cursor
         /\ CheckWatchpoint(checked + 1, CheckedValue, RegisterPC)
         /\ triggered' = (triggered \/ Triggers(checked + 1, CheckedValue))
         /\ mode = "check" /\ mode' = "check" /\ left' = left
         /\ checked < Len(UsedWatchpointIndices) /\ checked' = checked + 1
<1>1. checked < Len(UsedWatchpointIndices)
  BY DEF CheckOne
<1>2. CheckedValue.bus \in Cursor
  BY <1>1, CheckedType DEF Outcome
<1> QED
  BY <1>1, <1>2 DEF CheckOne, Reads

\* The commands that look.
LEMMA LooksReads ==
  ASSUME Typed, PCommand \/ XCommand \/ InfoWatchpoints \/ WCommand
  PROVE  \E bus \in Cursor : Reads(bus) /\ UNCHANGED session
<1>1. \A e \in Expression : Evaluate(e, Idle) \in Outcome
  BY EvaluateType, IdleType, ExpressionAssumption DEF Typed
<1>2. \A bus : Looks(bus) => Reads(bus) /\ UNCHANGED session
  BY DEF Looks, Reads
<1>3. CASE PCommand
  BY <1>1, <1>2, <1>3 DEF PCommand, Outcome
<1>4. CASE XCommand
  <2>1. PICK e \in Expression, N \in Lengths :
          Looks(IF Evaluate(e, Idle).ok THEN CursorBehind(Evaluate(e, Idle), N)
                                        ELSE Evaluate(e, Idle).bus)
    BY <1>4 DEF XCommand
  <2>2. N \in Nat
    BY CountsAssumption
  <2>3. CursorBehind(Evaluate(e, Idle), N) \in Cursor /\ Evaluate(e, Idle).bus \in Cursor
    BY <1>1, <2>2, CursorBehindType DEF Typed, Outcome
  <2> QED
    BY <1>2, <2>1, <2>3
<1>5. CASE InfoWatchpoints
  BY <1>2, <1>5, CursorBehindAllType DEF InfoWatchpoints, Typed, PoolInv
<1>6. CASE WCommand
  BY <1>1, <1>2, <1>6 DEF WCommand, Outcome
<1> QED
  BY <1>3, <1>4, <1>5, <1>6

\* The debugger uses the pool as a client of it.
LEMMA PoolStep ==
  ASSUME Typed, [SdbNext]_varsS
  PROVE  [PoolNext]_pool
<1>1. CASE RunCommand \/ RunStep \/ CheckDone \/ QCommand \/ UNCHANGED varsS
  BY <1>1 DEF RunCommand, SiCommand, CCommand, Run, RunStep, CheckDone, QCommand,
              varsS, pool
<1>2. CASE Stdin /\ UNCHANGED <<pool, session>>
  BY <1>2
<1>3. CASE CheckOne
  <2> DEFINE o == [ok |-> CheckedValue.ok, value |-> CheckedValue.value]
  <2>1. /\ CheckWatchpoint(checked + 1, CheckedValue, RegisterPC)
        /\ checked + 1 \in DOMAIN UsedWatchpointIndices
        /\ CheckedValue.ok \in BOOLEAN /\ CheckedValue.value \in Nat
    BY <1>3, CheckOneReads, CheckedType DEF Outcome
  <2>2. CheckWatchpoint(checked + 1, o, RegisterPC)
    BY <2>1 DEF CheckWatchpoint, Triggers
  <2>3. RegisterPC \in Nat
    BY WordBounds DEF Typed, TypeOK
  <2> QED
    BY <2>1, <2>2, <2>3 DEF PoolNext
<1>4. CASE PCommand \/ XCommand \/ InfoWatchpoints
  BY <1>4 DEF PCommand, XCommand, InfoWatchpoints
<1>5. CASE WCommand
  <2>1. PICK e \in Expression :
          \/ CreateWatchpoint(e, Evaluate(e, Idle).value)
          \/ UNCHANGED pool
    BY <1>5 DEF WCommand
  <2>2. Evaluate(e, Idle).value \in Nat
    BY EvaluateType, IdleType, ExpressionAssumption DEF Typed, Outcome
  <2> QED
    BY <2>1, <2>2 DEF PoolNext
<1>6. CASE DCommand
  BY <1>6, MaxAssumption DEF DCommand, PoolNext, NOs
<1> QED
  BY <1>1, <1>2, <1>3, <1>4, <1>5, <1>6 DEF SdbNext, OtherCommand, Running, CheckAll

LEMMA MachineStep ==
  ASSUME Typed, [SdbNext]_varsS
  PROVE  TypeOK'
<1>1. TypeOK
  BY DEF Typed
<1>2. CASE RunCommand \/ CheckDone \/ QCommand \/ DCommand \/ UNCHANGED varsS
  <2>1. UNCHANGED vars
    BY <1>2 DEF RunCommand, SiCommand, CCommand, Run, CheckDone, QCommand, DCommand,
                varsS
  <2> QED
    BY <1>1, <2>1, NextType
<1>3. CASE RunStep
  BY <1>1, <1>3, NextType DEF RunStep, Next
<1>4. CASE Stdin /\ UNCHANGED <<pool, session>>
  BY <1>1, <1>4, StdinType
<1>5. CASE CheckOne
  BY <1>1, <1>5, CheckOneReads, ReadsType
<1>6. CASE PCommand \/ XCommand \/ InfoWatchpoints \/ WCommand
  BY <1>1, <1>6, LooksReads, ReadsType
<1> QED
  BY <1>2, <1>3, <1>4, <1>5, <1>6 DEF SdbNext, OtherCommand, Running, CheckAll

LEMMA SessionStep ==
  ASSUME Typed, [SdbNext]_varsS
  PROVE  SessionTypeOK'
<1>1. SessionTypeOK /\ UsedWatchpointIndices \in Seq(NOs)
  BY DEF Typed, PoolInv, PoolTypeOK
<1>2. CASE RunCommand
  BY <1>1, <1>2, CountsAssumption
     DEF RunCommand, SiCommand, CCommand, Run, SessionTypeOK, Forever
<1>3. CASE RunStep
  <2>1. /\ mode' = "check" /\ checked' = 0 /\ triggered' = FALSE
        /\ left' = (IF left = Forever THEN Forever ELSE left - 1)
        /\ mode = "step" /\ UNCHANGED UsedWatchpointIndices
    BY <1>3 DEF RunStep, pool
  <2>2. left' \in Nat \cup {Forever}
    BY <1>1, <2>1 DEF SessionTypeOK, Forever
  <2>3. 0 <= Len(UsedWatchpointIndices)
    BY <1>1
  <2> QED
    BY <2>1, <2>2, <2>3 DEF SessionTypeOK
<1>4. CASE CheckOne
  <2>1. UNCHANGED UsedWatchpointIndices
    BY <1>4, CheckOneReads DEF CheckWatchpoint
  <2> QED
    BY <1>1, <1>4, <2>1, CheckOneReads DEF SessionTypeOK
<1>5. CASE CheckDone
  BY <1>1, <1>5 DEF CheckDone, SessionTypeOK
<1>6. CASE OtherCommand
  <2>1. mode' \in {"prompt", "quit"} /\ UNCHANGED <<left, checked, triggered>>
    BY <1>6 DEF OtherCommand, PCommand, XCommand, InfoWatchpoints, WCommand, Looks,
                DCommand, QCommand, session
  <2> QED
    BY <1>1, <2>1 DEF SessionTypeOK
<1>7. CASE UNCHANGED <<pool, session>>
  BY <1>1, <1>7 DEF pool, session, SessionTypeOK
<1> QED
  BY <1>2, <1>3, <1>4, <1>5, <1>6, <1>7 DEF SdbNext, Running, CheckAll, varsS

LEMMA TypedStep == Typed /\ [SdbNext]_varsS => Typed'
BY PoolStep, NextPool, MachineStep, SessionStep DEF Typed

LEMMA SdbInitTyped == SdbInit => Typed
<1> SUFFICES ASSUME SdbInit PROVE Typed
  OBVIOUS
<1>1. TypeOK /\ PoolInv
  BY InitType, InitPool DEF SdbInit
<1>2. SessionTypeOK
  BY DEF SdbInit, SessionTypeOK
<1> QED
  BY <1>1, <1>2 DEF Typed

-----------------------------------------------------------------------------
(* Watchpoints compare with the present. *)

Now(NO) == Evaluate(watchpoints[NO].expression, Idle)

Current(NO) ==
  Now(NO).ok /\ ~Now(NO).bus.polled => watchpoints[NO].OldValue = Now(NO).value

\* Inside CheckAll the watchpoints it has looked at are current.
CurrentInv ==
  \A NO \in NOs :
    /\ watchpoints[NO].enabled
    /\ mode = "check" => \E i \in 1 .. checked : UsedWatchpointIndices[i] = NO
    => Current(NO)

LEMMA NowStable ==
  ASSUME TypeOK, TypeOK', Quiet, PoolTypeOK, NEW NO \in NOs, watchpoints[NO].enabled,
         watchpoints'[NO].expression = watchpoints[NO].expression
  PROVE  Agree(Now(NO), Now(NO)')
<1>1. PICK e \in Tree : e = watchpoints[NO].expression
  BY EnabledWatches
<1>2. Agree(Evaluate(e, Idle), Evaluate(e, Idle)')
  BY EvaluateStable
<1>3. Now(NO) = Evaluate(e, Idle)
  BY <1>1 DEF Now
<1>4. Now(NO)' = Evaluate(e, Idle)'
  BY <1>1 DEF Now, Evaluate
<1> QED
  BY <1>2, <1>3, <1>4

LEMMA CurrentStable ==
  ASSUME TypeOK, TypeOK', Quiet, PoolTypeOK, NEW NO \in NOs, watchpoints[NO].enabled,
         watchpoints'[NO].expression = watchpoints[NO].expression,
         watchpoints'[NO].OldValue = watchpoints[NO].OldValue,
         Current(NO)
  PROVE  Current(NO)'
BY NowStable DEF Agree, Current

\* Creating a watchpoint with the value its expression has.
LEMMA CreateCurrent ==
  ASSUME TypeOK, TypeOK', Quiet, PoolInv, NEW e \in Expression,
         CreateWatchpoint(e, Evaluate(e, Idle).value),
         NEW NO \in NOs, watchpoints'[NO].enabled,
         watchpoints[NO].enabled => Current(NO)
  PROVE  Current(NO)'
<1> DEFINE new == Last(FreeWatchpointIndices)
           wp  == [Blank EXCEPT !.enabled = TRUE, !.expression = e,
                                !.OldValue = Evaluate(e, Idle).value]
<1>1. watchpoints' = [watchpoints EXCEPT ![new] = wp]
  BY DEF CreateWatchpoint
<1>2. wp.expression = e /\ wp.OldValue = Evaluate(e, Idle).value
  BY DEF Blank
<1> HIDE DEF wp, new
<1>3. CASE NO = new
  <2>1. watchpoints'[NO] = wp
    BY <1>1, <1>3 DEF PoolInv, PoolTypeOK
  <2>2. Now(NO)' = Evaluate(e, Idle)'
    BY <1>2, <2>1 DEF Now, Evaluate
  <2>3. Agree(Evaluate(e, Idle), Evaluate(e, Idle)')
    BY EvaluateStable, ExpressionAssumption
  <2> QED
    BY <1>2, <2>1, <2>2, <2>3 DEF Agree, Current
<1>4. CASE NO # new
  <2>1. watchpoints'[NO] = watchpoints[NO]
    BY <1>1, <1>4 DEF PoolInv, PoolTypeOK
  <2> QED
    BY <2>1, CurrentStable DEF PoolInv
<1> QED
  BY <1>3, <1>4

\* What a round of CheckAll does to the watchpoints.
LEMMA CheckEffect ==
  ASSUME PoolTypeOK, NEW i \in DOMAIN UsedWatchpointIndices, NEW o, NEW pc,
         CheckWatchpoint(i, o, pc)
  PROVE  LET at == UsedWatchpointIndices[i]
         IN  /\ \A n \in NOs :
                  /\ watchpoints'[n].expression = watchpoints[n].expression
                  /\ watchpoints'[n].enabled = watchpoints[n].enabled
                  /\ n # at => watchpoints'[n] = watchpoints[n]
             /\ watchpoints'[at].OldValue =
                  IF Triggers(i, o) THEN o.value ELSE watchpoints[at].OldValue
             /\ UNCHANGED UsedWatchpointIndices
<1> DEFINE at == UsedWatchpointIndices[i]
           wp == [watchpoints[at] EXCEPT !.OldValue = o.value, !.PC = pc,
                                         !.HasPC = TRUE]
<1>1. at \in NOs /\ watchpoints[at] \in Watchpoint
  BY DEF PoolTypeOK
<1>2. UNCHANGED UsedWatchpointIndices
  BY DEF CheckWatchpoint
<1>3. CASE Triggers(i, o)
  <2>1. /\ wp.expression = watchpoints[at].expression
        /\ wp.enabled = watchpoints[at].enabled
        /\ wp.OldValue = o.value
    BY <1>1 DEF Watchpoint, Blank
  <2>2. watchpoints' = [watchpoints EXCEPT ![at] = wp]
    BY <1>1, <1>3 DEF CheckWatchpoint, PoolTypeOK, Watchpoint, Blank
  <2> HIDE DEF wp
  <2>3. watchpoints'[at] = wp /\ \A n \in NOs : n # at => watchpoints'[n] = watchpoints[n]
    BY <1>1, <2>2 DEF PoolTypeOK
  <2> HIDE DEF at
  <2>4. \A n \in NOs : /\ watchpoints'[n].expression = watchpoints[n].expression
                       /\ watchpoints'[n].enabled = watchpoints[n].enabled
    BY <2>1, <2>3
  <2> QED
    BY <1>2, <1>3, <2>1, <2>3, <2>4 DEF at
<1>4. CASE ~Triggers(i, o)
  BY <1>1, <1>2, <1>4 DEF CheckWatchpoint
<1> QED
  BY <1>3, <1>4

\* Looking at a watchpoint: it has the value of its expression afterwards,
\* and the others are as they were.
LEMMA CheckCurrent ==
  ASSUME Typed, TypeOK', CheckOne,
         NEW NO \in NOs, watchpoints'[NO].enabled,
         NO = UsedWatchpointIndices[checked + 1] \/ Current(NO)
  PROVE  Current(NO)'
<1> DEFINE at == UsedWatchpointIndices[checked + 1]
           v  == CheckedValue
<1>1. /\ at \in NOs /\ watchpoints[at].enabled /\ PoolTypeOK
      /\ Quiet /\ TypeOK /\ checked + 1 \in DOMAIN UsedWatchpointIndices
  BY CheckOneReads, CheckedType, ReadsQuiet DEF Typed, PoolInv
<1>2. CheckWatchpoint(checked + 1, v, RegisterPC)
  BY CheckOneReads
<1>3. v = Now(at)
  BY DEF CheckedValue, Now
<1>4. /\ \A n \in NOs :
           /\ watchpoints'[n].expression = watchpoints[n].expression
           /\ watchpoints'[n].enabled = watchpoints[n].enabled
           /\ n # at => watchpoints'[n] = watchpoints[n]
      /\ watchpoints'[at].OldValue =
           IF Triggers(checked + 1, v) THEN v.value ELSE watchpoints[at].OldValue
  BY <1>1, <1>2, CheckEffect
<1>5. Triggers(checked + 1, v) <=> v.ok /\ v.value # watchpoints[at].OldValue
  BY <1>1 DEF Triggers
<1> HIDE DEF at, v
<1>6. CASE NO = at
  <2>1. Agree(Now(NO), Now(NO)')
    BY <1>1, <1>4, <1>6, NowStable
  <2>2. v.ok => watchpoints'[NO].OldValue = v.value
    BY <1>4, <1>5, <1>6
  <2> QED
    BY <1>3, <1>6, <2>1, <2>2 DEF Agree, Current
<1>7. CASE NO # at
  BY <1>1, <1>4, <1>7, CurrentStable DEF at
<1> QED
  BY <1>6, <1>7

LEMMA CurrentStep ==
  ASSUME Typed, Typed', CurrentInv, [SdbNext]_varsS
  PROVE  CurrentInv'
<1> SUFFICES ASSUME NEW NO \in NOs, watchpoints'[NO].enabled,
                    mode' = "check" => \E i \in 1 .. checked' :
                                         UsedWatchpointIndices'[i] = NO
             PROVE  Current(NO)'
  BY DEF CurrentInv
<1>1. TypeOK /\ TypeOK' /\ PoolInv /\ PoolTypeOK
  BY DEF Typed, PoolInv
<1>2. CASE RunStep
  <2>1. checked' = 0 /\ mode' = "check"
    BY <1>2 DEF RunStep
  <2> QED
    BY <2>1
<1>3. CASE /\ Quiet /\ UNCHANGED <<watchpoints, UsedWatchpointIndices, checked>>
           /\ mode' = "check" <=> mode = "check"
  <2>1. watchpoints[NO].enabled /\ Current(NO)
    BY <1>3 DEF CurrentInv
  <2> QED
    BY <1>1, <1>3, <2>1, CurrentStable
<1>4. CASE RunCommand \/ QCommand \/ UNCHANGED varsS \/ (Stdin /\ UNCHANGED <<pool, session>>)
  <2>1. Quiet
    BY <1>4 DEF RunCommand, SiCommand, CCommand, Run, QCommand, Stdin, StdinArrives,
                StdinCloses, varsS, vars, core, memoryVars, Quiet
  <2>2. UNCHANGED <<watchpoints, UsedWatchpointIndices, checked>>
    BY <1>4 DEF RunCommand, SiCommand, CCommand, Run, QCommand, varsS, session, pool
  <2>3. mode' = "check" <=> mode = "check"
    BY <1>4 DEF RunCommand, SiCommand, CCommand, Run, QCommand, varsS, session
  <2> QED
    BY <1>3, <2>1, <2>2, <2>3
<1>5. CASE CheckOne
  <2>1. /\ mode = "check" /\ mode' = "check" /\ checked' = checked + 1
        /\ UNCHANGED UsedWatchpointIndices
    BY <1>5, CheckOneReads DEF CheckWatchpoint
  <2>2. watchpoints[NO].enabled
    BY <1>1, <1>5, CheckOneReads, CheckedType, CheckEffect
  <2>3. PICK i \in 1 .. checked + 1 : UsedWatchpointIndices[i] = NO
    BY <2>1
  <2>4. checked \in Nat
    BY DEF Typed, SessionTypeOK
  <2>5. NO = UsedWatchpointIndices[checked + 1] \/ Current(NO)
    BY <2>1, <2>2, <2>3, <2>4 DEF CurrentInv
  <2> QED
    BY <1>1, <1>5, <2>5, CheckCurrent
<1>6. CASE CheckDone
  <2>1. /\ mode = "check" /\ checked = Len(UsedWatchpointIndices)
        /\ UNCHANGED vars /\ UNCHANGED pool
    BY <1>6 DEF CheckDone
  <2>2. watchpoints[NO].enabled /\ Quiet /\ UNCHANGED watchpoints
    BY <2>1 DEF pool, Quiet, vars, core, memoryVars
  <2>3. In(UsedWatchpointIndices, NO)
    BY <1>1, <2>2 DEF PoolInv, PoolIsPartitioned
  <2>4. \E i \in 1 .. checked : UsedWatchpointIndices[i] = NO
    BY <1>1, <2>1, <2>3 DEF In, PoolTypeOK
  <2>5. Current(NO)
    BY <2>2, <2>4 DEF CurrentInv
  <2> QED
    BY <1>1, <2>2, <2>5, CurrentStable
<1>7. CASE PCommand \/ XCommand \/ InfoWatchpoints
  <2>1. Quiet /\ UNCHANGED session
    BY <1>7, LooksReads, ReadsQuiet
  <2>2. UNCHANGED pool
    BY <1>7 DEF PCommand, XCommand, InfoWatchpoints
  <2> QED
    BY <1>3, <2>1, <2>2 DEF session, pool
<1>8. CASE WCommand
  <2>1. Quiet /\ UNCHANGED session
    BY <1>8, LooksReads, ReadsQuiet
  <2>2. PICK e \in Expression :
          \/ CreateWatchpoint(e, Evaluate(e, Idle).value)
          \/ UNCHANGED pool
    BY <1>8 DEF WCommand
  <2>3. mode = "prompt"
    BY <1>8 DEF WCommand, Looks
  <2>4. watchpoints[NO].enabled => Current(NO)
    BY <2>3 DEF CurrentInv
  <2>5. CASE CreateWatchpoint(e, Evaluate(e, Idle).value)
    BY <1>1, <2>1, <2>4, <2>5, CreateCurrent
  <2>6. CASE UNCHANGED pool
    BY <1>3, <2>1, <2>6 DEF session, pool
  <2> QED
    BY <2>2, <2>5, <2>6
<1>9. CASE DCommand
  <2>1. PICK n \in NOs : DeleteWatchpoint(n)
    BY <1>9 DEF DCommand
  <2>2. mode = "prompt" /\ Quiet
    BY <1>9 DEF DCommand, vars, core, memoryVars, Quiet
  <2>3. watchpoints' = [watchpoints EXCEPT ![n] = Blank] /\ Blank.enabled = FALSE
    BY <2>1 DEF DeleteWatchpoint, Blank
  <2>4. watchpoints'[NO] = watchpoints[NO]
    BY <1>1, <2>3 DEF PoolTypeOK
  <2>5. Current(NO)
    BY <2>2, <2>4 DEF CurrentInv
  <2> QED
    BY <1>1, <2>2, <2>4, <2>5, CurrentStable
<1> QED
  BY <1>2, <1>4, <1>5, <1>6, <1>7, <1>8, <1>9
     DEF SdbNext, OtherCommand, Running, CheckAll

-----------------------------------------------------------------------------
(* No change is missed. *)

\* A watchpoint CheckAll would trigger on.
Pending(NO) ==
  /\ watchpoints[NO].enabled
  /\ Now(NO).ok /\ ~Now(NO).bus.polled
  /\ watchpoints[NO].OldValue # Now(NO).value

\* A change that CheckAll has not reported yet is ahead of it.
MissInv ==
  /\ mode = "step" => ~changed
  /\ mode = "check" /\ changed =>
       \/ triggered
       \/ \E i \in DOMAIN UsedWatchpointIndices :
            i > checked /\ Pending(UsedWatchpointIndices[i])

\* A step that changes a watched value leaves its watchpoint pending: it had
\* the value of before.
LEMMA SteppedPending ==
  ASSUME Typed, CurrentInv, Stepped, changed'
  PROVE  \E i \in DOMAIN UsedWatchpointIndices' :
           i > 0 /\ Pending(UsedWatchpointIndices[i])'
<1>1. /\ mode = "step" /\ UNCHANGED pool /\ Differs(Watched, Watched')
  BY DEF Stepped, RunStep
<1>2. PICK NO \in DOMAIN Watched :
        /\ Watched[NO].ok /\ ~Watched[NO].bus.polled
        /\ Watched'[NO].ok /\ ~Watched'[NO].bus.polled
        /\ Watched[NO].value # Watched'[NO].value
  BY <1>1 DEF Differs
<1>3. NO \in NOs /\ watchpoints[NO].enabled /\ Watched[NO] = Now(NO)
  BY DEF Watched, Now
<1>4. UNCHANGED <<watchpoints, UsedWatchpointIndices>>
  BY <1>1 DEF pool
<1>5. Watched'[NO] = Now(NO)'
  BY <1>3, <1>4 DEF Watched, Now
<1>6. Current(NO)
  BY <1>1, <1>3 DEF CurrentInv
<1>7. Pending(NO)'
  BY <1>2, <1>3, <1>4, <1>5, <1>6 DEF Pending, Current
<1>8. PICK i \in DOMAIN UsedWatchpointIndices : UsedWatchpointIndices[i] = NO
  BY <1>3 DEF Typed, PoolInv, PoolIsPartitioned, In
<1>9. i > 0
  BY DEF Typed, PoolInv, PoolTypeOK
<1>10. Pending(UsedWatchpointIndices[i])'
  BY <1>4, <1>7, <1>8 DEF Pending, Now
<1> QED
  BY <1>4, <1>9, <1>10

\* CheckAll reports the pending watchpoint it looks at, and the ones ahead
\* stay pending.
LEMMA CheckOneMisses ==
  ASSUME Typed, TypeOK', CheckOne, UNCHANGED changed, MissInv
  PROVE  MissInv'
<1> DEFINE at == UsedWatchpointIndices[checked + 1]
<1>1. /\ mode = "check" /\ mode' = "check" /\ checked' = checked + 1
      /\ checked \in Nat /\ checked + 1 \in DOMAIN UsedWatchpointIndices
      /\ triggered' = (triggered \/ Triggers(checked + 1, CheckedValue))
      /\ CheckWatchpoint(checked + 1, CheckedValue, RegisterPC)
  BY CheckOneReads, CheckedType DEF Typed, SessionTypeOK
<1>2. TypeOK /\ Quiet /\ PoolTypeOK /\ NoDuplicates(UsedWatchpointIndices)
  BY CheckOneReads, ReadsQuiet DEF Typed, PoolInv, PoolIsPartitioned
<1>3. /\ UNCHANGED UsedWatchpointIndices
      /\ \A n \in NOs : n # at => watchpoints'[n] = watchpoints[n]
  BY <1>1, <1>2, CheckEffect
<1>4. ASSUME changed, ~triggered
      PROVE  \/ triggered'
             \/ \E i \in DOMAIN UsedWatchpointIndices :
                  i > checked + 1 /\ Pending(UsedWatchpointIndices[i])'
  <2>1. PICK i \in DOMAIN UsedWatchpointIndices :
          i > checked /\ Pending(UsedWatchpointIndices[i])
    BY <1>1, <1>4 DEF MissInv
  <2>2. i \in Nat
    BY <1>2 DEF PoolTypeOK
  <2>3. CASE i = checked + 1
    <3>1. CheckedValue = Now(at) /\ Pending(at)
      BY <2>1, <2>3 DEF CheckedValue, Now
    <3>2. Triggers(checked + 1, CheckedValue)
      BY <3>1 DEF Pending, Triggers
    <3> QED
      BY <1>1, <3>2
  <2>4. CASE i > checked + 1
    <3>1. PICK NO \in NOs : NO = UsedWatchpointIndices[i]
      BY <1>2 DEF PoolTypeOK
    <3>2. NO # at
      BY <1>1, <1>2, <2>4, <3>1 DEF NoDuplicates
    <3>3. watchpoints'[NO] = watchpoints[NO]
      BY <1>3, <3>2
    <3>4. Pending(NO)
      BY <2>1, <3>1
    <3>5. Agree(Now(NO), Now(NO)')
      BY <1>2, <3>3, <3>4, NowStable DEF Pending
    <3>6. Pending(NO)'
      BY <3>3, <3>4, <3>5 DEF Pending, Agree
    <3>7. Pending(UsedWatchpointIndices[i])'
      BY <1>3, <3>1, <3>6 DEF Pending, Now
    <3> QED
      BY <2>4, <3>7
  <2> QED
    BY <1>1, <2>1, <2>2, <2>3, <2>4
<1>5. triggered => triggered'
  BY <1>1
<1>6. mode' # "step"
  BY <1>1
<1> QED
  BY <1>1, <1>3, <1>4, <1>5, <1>6 DEF MissInv

LEMMA NextNIsNext == [NextN]_varsN => [SdbNext]_varsS
BY DEF NextN, varsN, Given, Stepped, Checked, SdbNext, Running

LEMMA MissStep ==
  ASSUME Typed, Typed', CurrentInv, MissInv, [NextN]_varsN
  PROVE  MissInv'
<1>1. CASE Given
  BY <1>1 DEF Given, RunCommand, SiCommand, CCommand, Run, MissInv
<1>2. CASE Stepped
  <2>1. mode' = "check" /\ checked' = 0
    BY <1>2 DEF Stepped, RunStep
  <2> QED
    BY <1>2, <2>1, SteppedPending DEF MissInv
<1>3. CASE CheckOne /\ UNCHANGED <<asked, done, changed>>
  BY <1>3, CheckOneMisses DEF Typed
<1>4. CASE CheckDone /\ UNCHANGED <<asked, done, changed>>
  <2>1. /\ mode = "check" /\ checked = Len(UsedWatchpointIndices)
        /\ mode' = (IF triggered \/ halted \/ left = 0 THEN "prompt" ELSE "step")
    BY <1>4 DEF CheckDone
  <2>2. \A i \in DOMAIN UsedWatchpointIndices : ~(i > checked)
    BY <2>1 DEF Typed, PoolInv, PoolTypeOK
  <2>3. changed => triggered
    BY <2>1, <2>2 DEF MissInv
  <2> QED
    BY <1>4, <2>1, <2>3 DEF MissInv
<1>5. CASE OtherCommand /\ UNCHANGED <<asked, done, changed>>
  <2>1. mode' \in {"prompt", "quit"}
    BY <1>5 DEF OtherCommand, PCommand, XCommand, InfoWatchpoints, WCommand, Looks,
                DCommand, QCommand, session
  <2> QED
    BY <2>1 DEF MissInv
<1>6. CASE \/ Stdin /\ UNCHANGED <<pool, session>> /\ UNCHANGED <<asked, done, changed>>
           \/ UNCHANGED varsN
  <2>1. Quiet
    BY <1>6 DEF Stdin, StdinArrives, StdinCloses, varsN, varsS, vars, core, memoryVars,
                Quiet
  <2>2. UNCHANGED <<pool, session, changed>>
    BY <1>6 DEF varsN, varsS
  <2>3. ASSUME NEW i \in DOMAIN UsedWatchpointIndices,
               Pending(UsedWatchpointIndices[i])
        PROVE  Pending(UsedWatchpointIndices[i])'
    <3>1. PICK NO \in NOs : NO = UsedWatchpointIndices[i]
      BY DEF Typed, PoolInv, PoolTypeOK
    <3>2. watchpoints' = watchpoints /\ UsedWatchpointIndices' = UsedWatchpointIndices
      BY <2>2 DEF pool
    <3>3. Pending(NO)
      BY <2>3, <3>1
    <3>4. Agree(Now(NO), Now(NO)')
      BY <2>1, <3>2, <3>3, NowStable DEF Pending, Typed, PoolInv
    <3>5. Pending(NO)'
      BY <3>2, <3>3, <3>4 DEF Pending, Agree
    <3> QED
      BY <3>1, <3>2, <3>5 DEF Pending, Now
  <2> QED
    BY <2>2, <2>3 DEF MissInv, session, pool
<1> QED
  BY <1>1, <1>2, <1>3, <1>4, <1>5, <1>6 DEF NextN, Checked, CheckAll

-----------------------------------------------------------------------------
(* The steps of a command. *)

\* What the command has made and what it still has to make are what it asked
\* for; it ends for one of its three reasons.
StepsInv ==
  /\ asked \in Nat \cup {Forever} /\ done \in Nat
  /\ asked = Forever => left = Forever /\ done = 0
  /\ asked # Forever => left \in Nat /\ done + left = asked
  /\ mode = "prompt" /\ asked # 0 => halted \/ triggered \/ left = 0

LEMMA StepsStep ==
  ASSUME Typed, StepsInv, [NextN]_varsN
  PROVE  StepsInv'
<1>1. SessionTypeOK
  BY DEF Typed
<1>2. CASE Given
  <2>1. /\ left' \in Nat \cup {Forever} /\ asked' = left' /\ done' = 0
        /\ mode' = "step"
    BY <1>2, CountsAssumption DEF Given, RunCommand, SiCommand, CCommand, Run
  <2>2. CASE left' \in Nat
    <3>1. PICK n \in Nat : left' = n /\ asked' = n
      BY <2>1, <2>2
    <3>2. n # Forever /\ 0 + n = n
      BY DEF Forever
    <3>3. asked' # Forever /\ done' + left' = asked'
      BY <2>1, <3>1, <3>2
    <3> QED
      BY <2>1, <2>2, <3>3 DEF StepsInv
  <2>3. CASE left' = Forever
    BY <2>1, <2>3 DEF StepsInv
  <2> QED
    BY <2>1, <2>2, <2>3
<1>3. CASE Stepped
  <2>1. /\ mode = "step" /\ mode' = "check" /\ asked' = asked
        /\ left' = (IF left = Forever THEN Forever ELSE left - 1)
        /\ done' = (IF asked = Forever THEN 0 ELSE done + 1)
    BY <1>3 DEF Stepped, RunStep
  <2>2. left # 0
    BY <1>1, <2>1 DEF SessionTypeOK
  <2> QED
    BY <2>1, <2>2 DEF StepsInv, Forever
<1>4. CASE CheckOne /\ UNCHANGED <<asked, done, changed>>
  <2>1. mode' = "check" /\ UNCHANGED <<asked, done, left>>
    BY <1>4, CheckOneReads
  <2> QED
    BY <2>1 DEF StepsInv
<1>5. CASE CheckDone /\ UNCHANGED <<asked, done, changed>>
  <2>1. /\ mode' = (IF triggered \/ halted \/ left = 0 THEN "prompt" ELSE "step")
        /\ asked' = asked /\ done' = done /\ left' = left
        /\ triggered' = triggered /\ halted' = halted
    BY <1>5 DEF CheckDone, vars, core
  <2>2. mode' = "prompt" => halted' \/ triggered' \/ left' = 0
    <3>1. ASSUME ~(triggered \/ halted \/ left = 0) PROVE mode' = "step"
      BY <2>1, <3>1
    <3> QED
      BY <2>1, <3>1
  <2> QED
    BY <2>1, <2>2 DEF StepsInv
<1>6. CASE /\ OtherCommand \/ (Stdin /\ UNCHANGED <<pool, session>>)
           /\ UNCHANGED <<asked, done, changed>>
  <2>1. CASE QCommand
    <3>1. mode' = "quit" /\ UNCHANGED <<asked, done, left>>
      BY <1>6, <2>1 DEF QCommand
    <3> QED
      BY <3>1 DEF StepsInv
  <2>2. CASE PCommand \/ XCommand \/ InfoWatchpoints \/ WCommand
    <3>1. UNCHANGED <<session, halted>>
      BY <2>2, LooksReads DEF Reads, core
    <3> QED
      BY <1>6, <3>1 DEF StepsInv, session
  <2>3. CASE DCommand \/ (Stdin /\ UNCHANGED <<pool, session>>)
    <3>1. UNCHANGED <<session, halted>>
      BY <2>3 DEF DCommand, Stdin, vars, core
    <3> QED
      BY <1>6, <3>1 DEF StepsInv, session
  <2> QED
    BY <1>6, <2>1, <2>2, <2>3 DEF OtherCommand
<1>7. CASE UNCHANGED varsN
  BY <1>7 DEF varsN, varsS, vars, core, session, StepsInv
<1> QED
  BY <1>2, <1>3, <1>4, <1>5, <1>6, <1>7 DEF NextN, Checked, CheckAll

-----------------------------------------------------------------------------
SessionInv == Typed /\ CurrentInv /\ MissInv /\ StepsInv

LEMMA SessionInit == InitN => SessionInv
<1> SUFFICES ASSUME InitN PROVE SessionInv
  OBVIOUS
<1>1. Typed
  BY SdbInitTyped DEF InitN
<1>2. mode = "prompt" /\ left = 0 /\ asked = 0 /\ done = 0
  BY DEF InitN, SdbInit
<1>3. \A NO \in NOs : ~watchpoints[NO].enabled
  BY DEF InitN, SdbInit, PoolInit, Blank
<1>4. CurrentInv /\ MissInv
  BY <1>2, <1>3 DEF CurrentInv, MissInv
<1>5. StepsInv
  BY <1>2 DEF StepsInv, Forever
<1> QED
  BY <1>1, <1>4, <1>5 DEF SessionInv

LEMMA SessionNext == SessionInv /\ [NextN]_varsN => SessionInv'
<1> SUFFICES ASSUME SessionInv, [NextN]_varsN PROVE SessionInv'
  OBVIOUS
<1>1. [SdbNext]_varsS
  BY NextNIsNext
<1>2. Typed'
  BY <1>1, TypedStep DEF SessionInv
<1>3. CurrentInv'
  BY <1>1, <1>2, CurrentStep DEF SessionInv
<1>4. MissInv'
  BY <1>2, MissStep DEF SessionInv
<1>5. StepsInv'
  BY StepsStep DEF SessionInv
<1> QED
  BY <1>2, <1>3, <1>4, <1>5 DEF SessionInv

LEMMA SessionInvariant == SpecN => []SessionInv
BY SessionInit, SessionNext, PTL DEF SpecN

\* The registers, the memory, the pool and the session keep their types
\* under the debugger.
THEOREM SessionTypeCorrect == SpecN => [](TypeOK /\ PoolTypeOK /\ SessionTypeOK)
<1>1. SessionInv => TypeOK /\ PoolTypeOK /\ SessionTypeOK
  BY DEF SessionInv, Typed, PoolInv
<1> QED
  BY SessionInvariant, <1>1, PTL

\* The debugger is a client of the pool: w, d and CheckAll, with whatever
\* the expressions evaluate to, are steps of PoolClient, and nothing else
\* touches the pool.
THEOREM SessionUsesPool == SpecN => PoolSpec
<1>1. InitN => PoolInit
  BY DEF InitN, SdbInit
<1>2. SessionInv /\ [NextN]_varsN => [PoolNext]_pool
  BY NextNIsNext, PoolStep DEF SessionInv
<1> QED
  BY SessionInvariant, <1>1, <1>2, PTL DEF SpecN, PoolSpec

\* So no session leaks a number of a watchpoint or hands one out twice.
THEOREM SessionPartitionsPool == SpecN => []PoolIsPartitioned
BY SessionUsesPool, PoolPartitioned, PTL

\* Nor does it ever take a number over while its watchpoint exists.
THEOREM SessionKeepsNumbers == SpecN => NumbersStay
BY SessionUsesPool, NumbersKept, PTL

\* Outside CheckAll every watchpoint that does not read the UART has the
\* value of its expression, for every set of expressions: what only looks
\* changes nothing they depend on, and CheckAll looks at all of them.
THEOREM WatchesStayCurrent == SpecN => []WatchesAreCurrent
<1>1. SessionInv => WatchesAreCurrent
  BY DEF SessionInv, CurrentInv, WatchesAreCurrent, Current, Now
<1> QED
  BY SessionInvariant, <1>1, PTL

\* No command steps on after a step that changed a watched value.
THEOREM ChangesAreNoticed == SpecN => []NoChangeIsMissed
<1>1. SessionInv => NoChangeIsMissed
  BY DEF SessionInv, MissInv, NoChangeIsMissed
<1> QED
  BY SessionInvariant, <1>1, PTL

\* si N makes N steps unless the guest halts or a watchpoint triggers; c
\* ends for these reasons only.
THEOREM StepsAreCounted == SpecN => []StepsAsAsked
<1>1. SessionInv => StepsAsAsked
  BY DEF SessionInv, StepsInv, StepsAsAsked, Forever
<1> QED
  BY SessionInvariant, <1>1, PTL

\* GuardsProtect: && protects a division by its guard, for every pair of
\* expressions and whatever the guest has in memory.
THEOREM GuardsAlwaysProtect == SpecN => []GuardsProtect
<1>1. TypeOK => GuardsProtect
  <2> SUFFICES ASSUME TypeOK, NEW e \in GuardedTree
               PROVE  LET first == Evaluate(e.left, Idle)
                          whole == Evaluate(e, Idle)
                      IN  /\ ~first.ok \/ first.value = 0 => whole = first
                          /\ /\ first.ok /\ ~first.bus.polled
                             /\ Evaluate(e.right.left, Idle).ok
                             => whole.ok
    BY DEF GuardsProtect
  <2>1. PICK guard, dividend \in Expression : e = Guarded(guard, dividend)
    BY DEF GuardedTree
  <2>2. e.left = guard /\ e.right.left = dividend
    BY <2>1 DEF Guarded
  <2> QED
    BY <2>1, <2>2, GuardsHold DEF GuardedTree
<1> QED
  BY <1>1, SessionTypeCorrect, PTL
=============================================================================
