----------------------------- MODULE TextProofs -----------------------------
(***************************************************************************)
(* Theorems about the lexer and the parser, for every text and every       *)
(* sequence of tokens: the parser decides the grammar, and counting        *)
(* parentheses beforehand refuses no expression.                           *)
(***************************************************************************)
EXTENDS FiniteSetTheorems, TextSweep, ByteLemmas, SequenceTheorems

-----------------------------------------------------------------------------
(* Recursion.  TreesTo, ParseTo, ParseTurns and ScanTurns are recursive    *)
(* functions over 0 .. n; that such a function satisfies its own equation  *)
(* is a fact to prove: chains that satisfy it up to m exist for every m.   *)

LEMMA TreesToUnfolds ==
  ASSUME NEW tokens, Len(tokens) \in Nat
  PROVE  /\ \A q \in Spans(tokens) : TreesTo(tokens)[0][q] = {}
         /\ \A n \in 1 .. Len(tokens), q \in Spans(tokens) :
              TreesTo(tokens)[n][q] =
                Rule(tokens, q[1], q[2], q[3], TreesTo(tokens)[n - 1])
<1> DEFINE N == Len(tokens)
           Step(n, t) == [q \in Spans(tokens) |->
                            IF n = 0 THEN {} ELSE Rule(tokens, q[1], q[2], q[3], t)]
           IsChain(m, h) == h = [n \in 0 .. m |-> Step(n, h[n - 1])]
           S == {m \in Nat : \E h : IsChain(m, h)}
<1>1. TreesTo(tokens) = CHOOSE h : IsChain(N, h)
  BY DEF TreesTo
<1>2. \A s, t : Step(0, s) = Step(0, t)
  OBVIOUS
<1>3. \A n, t : \A q \in Spans(tokens) :
        Step(n, t)[q] = IF n = 0 THEN {} ELSE Rule(tokens, q[1], q[2], q[3], t)
  OBVIOUS
<1> HIDE DEF Step
<1>4. 0 \in S
  <2> DEFINE h == [n \in 0 .. 0 |-> Step(0, 0)]
  <2>1. IsChain(0, h)
    BY <1>2
  <2> HIDE DEF h
  <2> QED  BY <2>1
<1>5. ASSUME NEW m \in Nat, m \in S  PROVE m + 1 \in S
  <2>1. PICK g : IsChain(m, g)
    BY <1>5
  <2> DEFINE h == [n \in 0 .. m + 1 |-> IF n <= m THEN g[n] ELSE Step(m + 1, g[m])]
  <2>2. ASSUME NEW n \in 0 .. m + 1  PROVE h[n] = Step(n, h[n - 1])
    <3>1. CASE n = 0            BY <1>2, <2>1, <3>1
    <3>2. CASE n \in 1 .. m     BY <2>1, <3>2
    <3>3. CASE n = m + 1        BY <3>3
    <3> QED  BY <3>1, <3>2, <3>3
  <2>3. h = [n \in 0 .. m + 1 |-> h[n]]
    OBVIOUS
  <2> HIDE DEF h
  <2>4. IsChain(m + 1, h)
    BY <2>2, <2>3
  <2> HIDE DEF IsChain
  <2> QED  BY <2>4
<1> HIDE DEF S
<1>6. N \in S
  BY <1>4, <1>5, NatSetInduction
<1>7. IsChain(N, TreesTo(tokens))
  <2> HIDE DEF IsChain
  <2> QED  BY <1>1, <1>6 DEF S
<1>8. /\ TreesTo(tokens)[0] = Step(0, TreesTo(tokens)[0 - 1])
      /\ \A n \in 1 .. N : TreesTo(tokens)[n] = Step(n, TreesTo(tokens)[n - 1])
  BY <1>7
<1> HIDE DEF IsChain
<1>9. \A q \in Spans(tokens) : TreesTo(tokens)[0][q] = {}
  BY ONLY <1>3, <1>8
<1>10. ASSUME NEW n \in 1 .. N, NEW q \in Spans(tokens)
       PROVE  TreesTo(tokens)[n][q] = Rule(tokens, q[1], q[2], q[3], TreesTo(tokens)[n - 1])
  <2>1. n # 0 /\ TreesTo(tokens)[n] = Step(n, TreesTo(tokens)[n - 1])
    BY <1>8
  <2> QED  BY <1>3, <2>1
<1> QED  BY <1>9, <1>10

LEMMA ParseToUnfolds ==
  ASSUME NEW tokens, Len(tokens) \in Nat, NEW n \in 1 .. Len(tokens)
  PROVE  /\ \A i \in DOMAIN tokens :
              ParseTo(tokens)[n].unary[i] = ParseUnary(tokens, i, ParseTo(tokens)[n - 1])
         /\ \A i \in DOMAIN tokens, m \in 0 .. 5 :
              ParseTo(tokens)[n].expression[<<i, m>>] =
                ParseExpression(tokens, i, m, ParseTo(tokens)[n - 1])
<1> DEFINE N == Len(tokens)
           Unaries(t) == [i \in DOMAIN tokens |-> ParseUnary(tokens, i, t)]
           Expressions(t) == [q \in (DOMAIN tokens) \X (0 .. 5) |->
                                ParseExpression(tokens, q[1], q[2], t)]
           Step(k, t) == IF k = 0 THEN [unary |-> <<>>, expression |-> <<>>]
                         ELSE [unary |-> Unaries(t), expression |-> Expressions(t)]
           IsChain(m, h) == h = [k \in 0 .. m |-> Step(k, h[k - 1])]
           S == {m \in Nat : \E h : IsChain(m, h)}
<1>1. ParseTo(tokens) = CHOOSE h : IsChain(N, h)
  BY DEF ParseTo
<1>2. \A s, t : Step(0, s) = Step(0, t)
  OBVIOUS
<1>3. \A k, t : k # 0 => /\ Step(k, t).unary = Unaries(t)
                         /\ Step(k, t).expression = Expressions(t)
  <2> HIDE DEF Unaries, Expressions
  <2> QED  OBVIOUS
<1> HIDE DEF Step
<1>4. 0 \in S
  <2> DEFINE h == [k \in 0 .. 0 |-> Step(0, 0)]
  <2>1. IsChain(0, h)
    BY <1>2
  <2> HIDE DEF h
  <2> QED  BY <2>1
<1>5. ASSUME NEW m \in Nat, m \in S  PROVE m + 1 \in S
  <2>1. PICK g : IsChain(m, g)
    BY <1>5
  <2> DEFINE h == [k \in 0 .. m + 1 |-> IF k <= m THEN g[k] ELSE Step(m + 1, g[m])]
  <2>2. ASSUME NEW k \in 0 .. m + 1  PROVE h[k] = Step(k, h[k - 1])
    <3>1. CASE k = 0            BY <1>2, <2>1, <3>1
    <3>2. CASE k \in 1 .. m     BY <2>1, <3>2
    <3>3. CASE k = m + 1        BY <3>3
    <3> QED  BY <3>1, <3>2, <3>3
  <2>3. h = [k \in 0 .. m + 1 |-> h[k]]
    OBVIOUS
  <2> HIDE DEF h
  <2>4. IsChain(m + 1, h)
    BY <2>2, <2>3
  <2> HIDE DEF IsChain
  <2> QED  BY <2>4
<1> HIDE DEF S
<1>6. N \in S
  BY <1>4, <1>5, NatSetInduction
<1>7. IsChain(N, ParseTo(tokens))
  <2> HIDE DEF IsChain
  <2> QED  BY <1>1, <1>6 DEF S
<1>8. /\ ParseTo(tokens)[0] = Step(0, ParseTo(tokens)[0 - 1])
      /\ \A k \in 1 .. N : ParseTo(tokens)[k] = Step(k, ParseTo(tokens)[k - 1])
  BY <1>7
<1> HIDE DEF IsChain
<1>9. n # 0 /\ ParseTo(tokens)[n] = Step(n, ParseTo(tokens)[n - 1])
  BY <1>8
<1> HIDE DEF Unaries, Expressions
<1>10. /\ ParseTo(tokens)[n].unary = Unaries(ParseTo(tokens)[n - 1])
       /\ ParseTo(tokens)[n].expression = Expressions(ParseTo(tokens)[n - 1])
  BY <1>3, <1>9
<1> QED  BY <1>10 DEF Unaries, Expressions

LEMMA ParseTurnsUnfold ==
  ASSUME NEW tokens, Len(tokens) \in Nat, NEW i, NEW m, NEW below
  PROVE  /\ ParseTurns(tokens, i, m, below)[0] = ParseUnary(tokens, i, below)
         /\ \A n \in 1 .. Len(tokens) :
              ParseTurns(tokens, i, m, below)[n] =
                ParseOperator(tokens, ParseTurns(tokens, i, m, below)[n - 1], m, below)
<1> DEFINE N == Len(tokens)
           Step(n, t) == IF n = 0 THEN ParseUnary(tokens, i, below)
                         ELSE ParseOperator(tokens, t, m, below)
           IsChain(k, h) == h = [n \in 0 .. k |-> Step(n, h[n - 1])]
           S == {k \in Nat : \E h : IsChain(k, h)}
           turn == ParseTurns(tokens, i, m, below)
<1>1. turn = CHOOSE h : IsChain(N, h)
  BY DEF ParseTurns
<1>2. \A s, t : Step(0, s) = Step(0, t)
  OBVIOUS
<1>3. /\ \A t : Step(0, t) = ParseUnary(tokens, i, below)
      /\ \A n, t : n # 0 => Step(n, t) = ParseOperator(tokens, t, m, below)
  OBVIOUS
<1> HIDE DEF turn
<1> HIDE DEF Step
<1>4. 0 \in S
  <2> DEFINE h == [n \in 0 .. 0 |-> Step(0, 0)]
  <2>1. IsChain(0, h)
    BY <1>2
  <2> HIDE DEF h
  <2> QED  BY <2>1
<1>5. ASSUME NEW k \in Nat, k \in S  PROVE k + 1 \in S
  <2>1. PICK g : IsChain(k, g)
    BY <1>5
  <2> DEFINE h == [n \in 0 .. k + 1 |-> IF n <= k THEN g[n] ELSE Step(k + 1, g[k])]
  <2>2. ASSUME NEW n \in 0 .. k + 1  PROVE h[n] = Step(n, h[n - 1])
    <3>1. CASE n = 0            BY <1>2, <2>1, <3>1
    <3>2. CASE n \in 1 .. k     BY <2>1, <3>2
    <3>3. CASE n = k + 1        BY <3>3
    <3> QED  BY <3>1, <3>2, <3>3
  <2>3. h = [n \in 0 .. k + 1 |-> h[n]]
    OBVIOUS
  <2> HIDE DEF h
  <2>4. IsChain(k + 1, h)
    BY <2>2, <2>3
  <2> HIDE DEF IsChain
  <2> QED  BY <2>4
<1> HIDE DEF S
<1>6. N \in S
  BY <1>4, <1>5, NatSetInduction
<1>7. IsChain(N, turn)
  <2> HIDE DEF IsChain
  <2> QED  BY <1>1, <1>6 DEF S
<1>8. /\ turn[0] = Step(0, turn[0 - 1])
      /\ \A n \in 1 .. N : turn[n] = Step(n, turn[n - 1])
  BY <1>7
<1> HIDE DEF IsChain
<1>9. \A n \in 1 .. N : n # 0
  OBVIOUS
<1> QED  BY <1>3, <1>8, <1>9 DEF turn

-----------------------------------------------------------------------------
(* What a tree and what an answer of the parser can be. *)

\* A sequence of tokens as ScanAll returns it.
Ended(tokens) ==
  /\ Len(tokens) \in Nat \ {0}
  /\ DOMAIN tokens = 1 .. Len(tokens)
  /\ \A i \in 1 .. Len(tokens) : tokens[i].kind = "EndOfInput" <=> i = Len(tokens)

LEMMA LevelIsPrecedence ==
  ASSUME NEW token
  PROVE  /\ Precedence(token) \in 0 .. 4
         /\ \A p \in 1 .. 4 : token.kind \in Operators[p] <=> Precedence(token) = p
<1> DEFINE k == token.kind
<1>1. /\ Operators[1] = {"&&"} /\ Operators[2] = {"==", "!=", "<="}
      /\ Operators[3] = {"+", "-"} /\ Operators[4] = {"*", "/"}
  BY DEF Operators
<1>2. /\ k = "&&" => Precedence(token) = 1
      /\ k \in {"==", "!=", "<="} => Precedence(token) = 2
      /\ k \in {"+", "-"} => Precedence(token) = 3
      /\ k \in {"*", "/"} => Precedence(token) = 4
      /\ k \notin {"&&", "==", "!=", "<=", "+", "-", "*", "/"} => Precedence(token) = 0
  BY DEF Precedence
<1> HIDE DEF k
<1>3. Precedence(token) \in 0 .. 4
  BY <1>2
<1>4. ASSUME NEW p \in 1 .. 4
      PROVE  k \in Operators[p] <=> Precedence(token) = p
  <2>1. p = 1 \/ p = 2 \/ p = 3 \/ p = 4
    OBVIOUS
  <2>2. CASE p = 1  BY <1>1, <1>2, <2>2
  <2>3. CASE p = 2  BY <1>1, <1>2, <2>3
  <2>4. CASE p = 3  BY <1>1, <1>2, <2>4
  <2>5. CASE p = 4  BY <1>1, <1>2, <2>5
  <2> QED  BY <2>1, <2>2, <2>3, <2>4, <2>5
<1> QED  BY <1>3, <1>4 DEF k

LEMMA ParsedFields ==
  ASSUME NEW t, NEW n
  PROVE  /\ Parsed(t, n).ok /\ Parsed(t, n).tree = t /\ Parsed(t, n).next = n
         /\ ~ Unexpected(n).ok
BY DEF Parsed, Unexpected

\* The trees without a binary operator outside of parentheses.
Unaries(tokens, i, j, shorter) ==
  Operand(tokens, i, j, shorter) \cup Prefixed(tokens, i, j, shorter)

IsUnary(tokens, t, i, j, shorter) ==
  \/ tokens[i].kind = "Number" /\ i = j /\ t = Number(tokens[i].value)
  \/ tokens[i].kind = "Register" /\ i = j /\ t = Register(tokens[i].name)
  \/ /\ tokens[i].kind = "(" /\ i < j /\ tokens[j].kind = ")"
     /\ t \in shorter[<<1, i + 1, j - 1>>]
  \/ tokens[i].kind = "-" /\ \E c \in shorter[<<5, i + 1, j>>] : t = Minus(c)
  \/ tokens[i].kind = "*" /\ \E c \in shorter[<<5, i + 1, j>>] : t = Read8(c)
  \/ /\ tokens[i].kind = "read8" /\ i + 1 < j
     /\ tokens[i + 1].kind = "(" /\ tokens[j].kind = ")"
     /\ \E c \in shorter[<<1, i + 2, j - 1>>] : t = Read8(c)

LEMMA UnaryForms ==
  ASSUME NEW tokens, NEW i \in Nat, NEW j \in Nat, NEW shorter, NEW t
  PROVE  t \in Unaries(tokens, i, j, shorter) <=> IsUnary(tokens, t, i, j, shorter)
<1> DEFINE k == tokens[i].kind
           P(a) == InParentheses(tokens, a, j, shorter)
<1>1. \A a : P(a) = IF a < j /\ tokens[a].kind = "(" /\ tokens[j].kind = ")"
                    THEN shorter[<<1, a + 1, j - 1>>] ELSE {}
  BY DEF InParentheses
<1>2. Operand(tokens, i, j, shorter) =
        IF i = j /\ k = "Number" THEN {Number(tokens[i].value)}
        ELSE IF i = j /\ k = "Register" THEN {Register(tokens[i].name)} ELSE P(i)
  BY DEF Operand
<1>3. Prefixed(tokens, i, j, shorter) =
        IF k = "-" THEN {Minus(c) : c \in shorter[<<5, i + 1, j>>]}
        ELSE IF k = "*" THEN {Read8(c) : c \in shorter[<<5, i + 1, j>>]}
        ELSE IF k = "read8" THEN {Read8(c) : c \in P(i + 1)} ELSE {}
  BY DEF Prefixed
<1>4. (i + 1) + 1 = i + 2
  OBVIOUS
<1> HIDE DEF P
<1>5. k = "Number" => (t \in Unaries(tokens, i, j, shorter) <=> i = j /\ t = Number(tokens[i].value))
  BY <1>1, <1>2, <1>3 DEF Unaries
<1>6. k = "Register" => (t \in Unaries(tokens, i, j, shorter) <=> i = j /\ t = Register(tokens[i].name))
  BY <1>1, <1>2, <1>3 DEF Unaries
<1>7. k = "(" => (t \in Unaries(tokens, i, j, shorter) <=> t \in P(i))
  BY <1>1, <1>2, <1>3 DEF Unaries
<1>8. k \notin {"Number", "Register", "("} =>
        (t \in Unaries(tokens, i, j, shorter) <=> t \in Prefixed(tokens, i, j, shorter))
  BY <1>1, <1>2 DEF Unaries
<1>9. k \in {"Number", "Register", "("} => Prefixed(tokens, i, j, shorter) = {}
  BY <1>3
<1>10. k = "read8" => (t \in Prefixed(tokens, i, j, shorter) <=> \E c \in P(i + 1) : t = Read8(c))
  BY <1>3
<1>11. k = "-" => (t \in Prefixed(tokens, i, j, shorter) <=>
                     \E c \in shorter[<<5, i + 1, j>>] : t = Minus(c))
  BY <1>3
<1>12. k = "*" => (t \in Prefixed(tokens, i, j, shorter) <=>
                     \E c \in shorter[<<5, i + 1, j>>] : t = Read8(c))
  BY <1>3
<1>13. k \notin {"-", "*", "read8"} => t \notin Prefixed(tokens, i, j, shorter)
  BY <1>3
<1>14. t \in P(i) <=> /\ i < j /\ k = "(" /\ tokens[j].kind = ")"
                      /\ t \in shorter[<<1, i + 1, j - 1>>]
  BY <1>1
<1>15. \A c : c \in P(i + 1) <=>
                /\ i + 1 < j /\ tokens[i + 1].kind = "(" /\ tokens[j].kind = ")"
                /\ c \in shorter[<<1, i + 2, j - 1>>]
  BY <1>1, <1>4
<1> HIDE DEF k
<1>16. CASE k = "Number"    BY <1>5, <1>16 DEF IsUnary, k
<1>17. CASE k = "Register"  BY <1>6, <1>17 DEF IsUnary, k
<1>18. CASE k = "("         BY <1>7, <1>14, <1>18 DEF IsUnary, k
<1>19. CASE k = "-"         BY <1>8, <1>11, <1>19 DEF IsUnary, k
<1>20. CASE k = "*"         BY <1>8, <1>12, <1>20 DEF IsUnary, k
<1>21. CASE k = "read8"     BY <1>8, <1>10, <1>15, <1>21 DEF IsUnary, k
<1>22. CASE k \notin {"Number", "Register", "(", "-", "*", "read8"}
  BY <1>8, <1>13, <1>22 DEF IsUnary, k
<1> QED  BY <1>16, <1>17, <1>18, <1>19, <1>20, <1>21, <1>22

\* An operator of level p at place k, and trees on both sides of it.
IsJoined(tokens, t, p, k, i, j, shorter) ==
  /\ Precedence(tokens[k]) = p
  /\ \E l \in shorter[<<p, i, k - 1>>], r \in shorter[<<p + 1, k + 1, j>>] :
       t = Binary(tokens[k].kind, l, r)

LEMMA RuleForms ==
  ASSUME NEW tokens, NEW level \in 1 .. 5, NEW i \in Nat, NEW j \in Nat, NEW shorter, NEW t
  PROVE  t \in Rule(tokens, level, i, j, shorter) <=>
           /\ i <= j
           /\ \/ t \in Unaries(tokens, i, j, shorter)
              \/ \E p \in level .. 4, k \in i .. j : IsJoined(tokens, t, p, k, i, j, shorter)
<1> DEFINE Pairs(p, k) == { Binary(tokens[k].kind, left, right) :
                              left \in shorter[<<p, i, k - 1>>],
                              right \in shorter[<<p + 1, k + 1, j>>] }
           Places(p) == { m \in i .. j : tokens[m].kind \in Operators[p] }
<1>1. \A p, k : t \in Pairs(p, k) <=>
                  \E l \in shorter[<<p, i, k - 1>>], r \in shorter[<<p + 1, k + 1, j>>] :
                    t = Binary(tokens[k].kind, l, r)
  OBVIOUS
<1>2. \A p \in level .. 4 : \A k \in i .. j : k \in Places(p) <=> Precedence(tokens[k]) = p
  BY LevelIsPrecedence
<1>3. \A p : Joined(tokens, p, i, j, shorter) = UNION {Pairs(p, k) : k \in Places(p)}
  BY DEF Joined
<1>4. \A p : Places(p) \subseteq i .. j
  OBVIOUS
<1> HIDE DEF Pairs, Places
<1>5. \A p : t \in Joined(tokens, p, i, j, shorter) <=> \E k \in Places(p) : t \in Pairs(p, k)
  BY <1>3
<1>6. ASSUME NEW p \in level .. 4
      PROVE  t \in Joined(tokens, p, i, j, shorter) <=>
               \E k \in i .. j : IsJoined(tokens, t, p, k, i, j, shorter)
  BY <1>1, <1>2, <1>4, <1>5 DEF IsJoined
<1>7. t \in UNION {Joined(tokens, p, i, j, shorter) : p \in level .. 4} <=>
        \E p \in level .. 4 : t \in Joined(tokens, p, i, j, shorter)
  OBVIOUS
<1>8. t \in Rule(tokens, level, i, j, shorter) <=>
        /\ i <= j
        /\ \/ t \in Unaries(tokens, i, j, shorter)
           \/ t \in UNION {Joined(tokens, p, i, j, shorter) : p \in level .. 4}
  BY DEF Rule, Unaries
<1> QED  BY <1>6, <1>7, <1>8

\* A parenthesis and its answer e from the inside.
Closed(tokens, u, i, e) ==
  /\ tokens[i].kind = "(" /\ e.ok /\ tokens[e.next].kind = ")"
  /\ u = Parsed(e.tree, e.next + 1)

LEMMA EnclosedForms ==
  ASSUME NEW tokens, NEW i, NEW below, NEW e, e = below.expression[<<i + 1, 0>>]
  PROVE  /\ Enclosed(tokens, i, below).ok => Closed(tokens, Enclosed(tokens, i, below), i, e)
         /\ tokens[i].kind = "(" /\ e.ok /\ tokens[e.next].kind = ")" =>
              Enclosed(tokens, i, below) = Parsed(e.tree, e.next + 1)
<1>1. Enclosed(tokens, i, below) =
        IF tokens[i].kind # "(" THEN Unexpected(i)
        ELSE IF ~ e.ok THEN e
        ELSE IF tokens[e.next].kind # ")" THEN Unexpected(e.next)
        ELSE Parsed(e.tree, e.next + 1)
  BY DEF Enclosed
<1> QED  BY <1>1, ParsedFields DEF Closed

\* What ParseUnary answers, by the kind of the token it stands at.
LEMMA UnaryAnswers ==
  ASSUME NEW tokens, NEW i, NEW below, NEW u, u = ParseUnary(tokens, i, below),
         NEW k, k = tokens[i].kind, NEW c, c = below.unary[i + 1],
         NEW r, r = Enclosed(tokens, i + 1, below)
  PROVE  /\ k = "Number" => u = Parsed(Number(tokens[i].value), i + 1)
         /\ k = "Register" => u = Parsed(Register(tokens[i].name), i + 1)
         /\ k = "-" => u = IF c.ok THEN Parsed(Minus(c.tree), c.next) ELSE c
         /\ k = "*" => u = IF c.ok THEN Parsed(Read8(c.tree), c.next) ELSE c
         /\ k = "read8" => u = IF r.ok THEN Parsed(Read8(r.tree), r.next) ELSE r
         /\ k \notin {"Number", "Register", "-", "*", "read8"} =>
              u = Enclosed(tokens, i, below)
BY DEF ParseUnary, ParsePrimary

-----------------------------------------------------------------------------
(* The parser answers with trees of the grammar. *)

\* t is a tree of the tokens from i to j, whatever the bound on its length.
IsTree(tokens, t, p, i, j) ==
  \A n \in 0 .. Len(tokens) : n > j - i => t \in TreesTo(tokens)[n][<<p, i, j>>]

LEMMA TreesForms ==
  ASSUME NEW tokens, Len(tokens) \in Nat, NEW n \in 1 .. Len(tokens), NEW p \in 1 .. 5,
         NEW i \in 1 .. Len(tokens) + 1, NEW j \in 0 .. Len(tokens), NEW t
  PROVE  t \in TreesTo(tokens)[n][<<p, i, j>>] <=>
           /\ i <= j
           /\ \/ IsUnary(tokens, t, i, j, TreesTo(tokens)[n - 1])
              \/ \E q \in p .. 4, k \in i .. j :
                   IsJoined(tokens, t, q, k, i, j, TreesTo(tokens)[n - 1])
<1>1. TreesTo(tokens)[n][<<p, i, j>>] = Rule(tokens, p, i, j, TreesTo(tokens)[n - 1])
  <2>1. <<p, i, j>> \in Spans(tokens)
    BY DEF Spans
  <2> QED  BY <2>1, TreesToUnfolds
<1>2. i \in Nat /\ j \in Nat
  OBVIOUS
<1> DEFINE shorter == TreesTo(tokens)[n - 1]
<1> HIDE DEF shorter
<1>3. t \in Rule(tokens, p, i, j, shorter) <=>
        /\ i <= j
        /\ \/ t \in Unaries(tokens, i, j, shorter)
           \/ \E q \in p .. 4, k \in i .. j : IsJoined(tokens, t, q, k, i, j, shorter)
  BY <1>2, RuleForms
<1>4. t \in Unaries(tokens, i, j, shorter) <=> IsUnary(tokens, t, i, j, shorter)
  BY <1>2, UnaryForms
<1> QED  BY <1>1, <1>3, <1>4 DEF shorter

\* A tree of a level is one of every lower level.
LEMMA LowerLevel ==
  ASSUME NEW tokens, Len(tokens) \in Nat, NEW p \in 1 .. 5, NEW q \in p .. 5,
         NEW i \in 1 .. Len(tokens), NEW j \in i .. Len(tokens), NEW t,
         IsTree(tokens, t, q, i, j)
  PROVE  IsTree(tokens, t, p, i, j)
<1> SUFFICES ASSUME NEW n \in 0 .. Len(tokens), n > j - i
             PROVE  t \in TreesTo(tokens)[n][<<p, i, j>>]
  BY DEF IsTree
<1>1. /\ n \in 1 .. Len(tokens) /\ q \in 1 .. 5
      /\ i \in 1 .. Len(tokens) + 1 /\ j \in 0 .. Len(tokens)
  OBVIOUS
<1>2. t \in TreesTo(tokens)[n][<<q, i, j>>]
  BY DEF IsTree
<1>3. q .. 4 \subseteq p .. 4
  OBVIOUS
<1> QED  BY <1>1, <1>2, <1>3, TreesForms

\* An answer u about place i is a tree of the tokens it takes.
Takes(tokens, u, p, i) ==
  /\ u.next \in i + 1 .. Len(tokens)
  /\ IsTree(tokens, u.tree, p, i, u.next - 1)

Least(m) == IF m = 0 THEN 1 ELSE m

Follower(tokens, u) == Precedence(tokens[u.next])

\* left in the loop: a tree for the least level, and for the level of the
\* operator behind it.
SoundTurn(tokens, u, m, i) ==
  u.ok => /\ Takes(tokens, u, Least(m), i)
          /\ Follower(tokens, u) >= Least(m) => Takes(tokens, u, Follower(tokens, u), i)

SoundUnary(tokens, u, i) == u.ok => Takes(tokens, u, 5, i)

SoundExpression(tokens, u, m, i) ==
  u.ok => /\ Takes(tokens, u, Least(m), i)
          /\ Follower(tokens, u) = 0 \/ Follower(tokens, u) < m

\* The answers of calls that start at place s or behind it.
SoundBelow(tokens, below, s) ==
  \A i \in s .. Len(tokens) :
    /\ SoundUnary(tokens, below.unary[i], i)
    /\ \A m \in 0 .. 5 : SoundExpression(tokens, below.expression[<<i, m>>], m, i)

LEMMA EnclosedIsSound ==
  ASSUME NEW tokens, Ended(tokens), NEW i \in 1 .. Len(tokens), NEW below,
         SoundBelow(tokens, below, i + 1), NEW u, u = Enclosed(tokens, i, below), u.ok
  PROVE  /\ tokens[i].kind = "(" /\ tokens[u.next - 1].kind = ")"
         /\ u.next \in i + 3 .. Len(tokens)
         /\ IsTree(tokens, u.tree, 1, i + 1, u.next - 2)
<1> DEFINE N == Len(tokens)
           e == below.expression[<<i + 1, 0>>]
<1>1. Closed(tokens, u, i, e)
  BY EnclosedForms
<1>2. N \in Nat
  BY DEF Ended
<1>3. i # N
  BY <1>1 DEF Closed, Ended
<1>4. i + 1 \in i + 1 .. N /\ 0 \in 0 .. 5
  BY <1>2, <1>3
<1>5. SoundExpression(tokens, e, 0, i + 1)
  BY <1>4 DEF SoundBelow
<1> HIDE DEF e
<1>6. Takes(tokens, e, 1, i + 1)
  BY <1>1, <1>5 DEF SoundExpression, Least, Closed
<1>7. e.next \in i + 2 .. N /\ IsTree(tokens, e.tree, 1, i + 1, e.next - 1)
  BY <1>2, <1>6 DEF Takes
<1>8. u.next = e.next + 1 /\ u.tree = e.tree
  BY <1>1, ParsedFields DEF Closed
<1>9. e.next # N
  <2>1. tokens[e.next].kind = ")"
    BY <1>1 DEF Closed
  <2>2. tokens[N].kind = "EndOfInput"
    BY DEF Ended
  <2> QED  BY <2>1, <2>2
<1>10. u.next - 1 = e.next /\ u.next - 2 = e.next - 1 /\ u.next \in i + 3 .. N
  BY <1>2, <1>7, <1>8, <1>9
<1> QED  BY <1>1, <1>7, <1>8, <1>10 DEF Closed

\* A form of IsUnary over trees of shorter sequences makes a tree.
LEMMA UnaryIsTree ==
  ASSUME NEW tokens, Ended(tokens), NEW i \in 1 .. Len(tokens), NEW j \in i .. Len(tokens),
         NEW t,
         \A n \in 1 .. Len(tokens) : n > j - i => IsUnary(tokens, t, i, j, TreesTo(tokens)[n - 1])
  PROVE  IsTree(tokens, t, 5, i, j)
<1> SUFFICES ASSUME NEW n \in 0 .. Len(tokens), n > j - i
             PROVE  t \in TreesTo(tokens)[n][<<5, i, j>>]
  BY DEF IsTree
<1>1. Len(tokens) \in Nat
  BY DEF Ended
<1>2. n \in 1 .. Len(tokens) /\ i \in 1 .. Len(tokens) + 1 /\ j \in 0 .. Len(tokens) /\ i <= j
  BY <1>1
<1>3. IsUnary(tokens, t, i, j, TreesTo(tokens)[n - 1])
  BY <1>2
<1>4. 5 \in 1 .. 5
  OBVIOUS
<1> QED  BY <1>1, <1>2, <1>3, <1>4, TreesForms

LEMMA UnaryIsSound ==
  ASSUME NEW tokens, Ended(tokens), NEW i \in 1 .. Len(tokens), NEW below,
         SoundBelow(tokens, below, i + 1)
  PROVE  SoundUnary(tokens, ParseUnary(tokens, i, below), i)
<1> DEFINE N == Len(tokens)
           u == ParseUnary(tokens, i, below)
           j == u.next - 1
           c == below.unary[i + 1]
           r == Enclosed(tokens, i + 1, below)
           k == tokens[i].kind
           T(n) == TreesTo(tokens)[n - 1]
<1> SUFFICES ASSUME u.ok  PROVE Takes(tokens, u, 5, i)
  BY DEF SoundUnary
<1>1. N \in Nat
  BY DEF Ended
<1>2. /\ k = "Number" => u = Parsed(Number(tokens[i].value), i + 1)
      /\ k = "Register" => u = Parsed(Register(tokens[i].name), i + 1)
      /\ k = "-" => u = IF c.ok THEN Parsed(Minus(c.tree), c.next) ELSE c
      /\ k = "*" => u = IF c.ok THEN Parsed(Read8(c.tree), c.next) ELSE c
      /\ k = "read8" => u = IF r.ok THEN Parsed(Read8(r.tree), r.next) ELSE r
      /\ k \notin {"Number", "Register", "-", "*", "read8"} =>
           u = Enclosed(tokens, i, below)
  BY UnaryAnswers
<1>3. k # "EndOfInput" => i + 1 \in i + 1 .. N
  BY <1>1 DEF Ended
<1>4. ASSUME k = "-" \/ k = "*"
      PROVE  /\ c.ok /\ u.next = c.next /\ Takes(tokens, c, 5, i + 1)
             /\ u.tree = IF k = "-" THEN Minus(c.tree) ELSE Read8(c.tree)
  <2>1. SoundUnary(tokens, c, i + 1)
    BY <1>3, <1>4 DEF SoundBelow
  <2> HIDE DEF c
  <2>2. c.ok
    BY <1>2, <1>4
  <2>3. /\ u.next = c.next
        /\ u.tree = IF k = "-" THEN Minus(c.tree) ELSE Read8(c.tree)
    BY <1>2, <1>4, <2>2, ParsedFields
  <2> QED  BY <2>1, <2>2, <2>3 DEF SoundUnary
<1>5. CASE k = "Number"
  <2>1. u.next = i + 1 /\ u.tree = Number(tokens[i].value)
    BY <1>2, <1>5, ParsedFields
  <2>2. u.next \in i + 1 .. N /\ j = i
    BY <1>1, <1>3, <1>5, <2>1
  <2>3. \A s : IsUnary(tokens, u.tree, i, j, s)
    BY <1>5, <2>1, <2>2 DEF IsUnary
  <2>4. j \in i .. N
    BY <1>1, <2>2
  <2> QED  BY <2>2, <2>3, <2>4, UnaryIsTree DEF Takes
<1>6. CASE k = "Register"
  <2>1. u.next = i + 1 /\ u.tree = Register(tokens[i].name)
    BY <1>2, <1>6, ParsedFields
  <2>2. u.next \in i + 1 .. N /\ j = i
    BY <1>1, <1>3, <1>6, <2>1
  <2>3. \A s : IsUnary(tokens, u.tree, i, j, s)
    BY <1>6, <2>1, <2>2 DEF IsUnary
  <2>4. j \in i .. N
    BY <1>1, <2>2
  <2> QED  BY <2>2, <2>3, <2>4, UnaryIsTree DEF Takes
<1>7. CASE k = "-" \/ k = "*"
  <2>1. u.next \in i + 2 .. N /\ IsTree(tokens, c.tree, 5, i + 1, j)
    BY <1>1, <1>4, <1>7 DEF Takes
  <2>2. ASSUME NEW n \in 1 .. N, n > j - i
        PROVE  IsUnary(tokens, u.tree, i, j, T(n))
    <3>1. n - 1 \in 0 .. N /\ n - 1 > j - (i + 1)
      BY <1>1, <2>1, <2>2
    <3>2. c.tree \in T(n)[<<5, i + 1, j>>]
      BY <2>1, <3>1 DEF IsTree
    <3> HIDE DEF c, T
    <3>3. CASE k = "-"  BY <1>4, <3>2, <3>3 DEF IsUnary
    <3>4. CASE k = "*"  BY <1>4, <3>2, <3>4 DEF IsUnary
    <3> QED  BY <1>7, <3>3, <3>4
  <2>3. j \in i .. N /\ u.next \in i + 1 .. N
    BY <1>1, <2>1
  <2> QED  BY <2>2, <2>3, UnaryIsTree DEF Takes
<1>8. CASE k = "read8"
  <2>1. i + 1 \in 1 .. N
    BY <1>1, <1>3, <1>8
  <2>2. SoundBelow(tokens, below, i + 1 + 1)
    <3>1. i + 1 + 1 .. N \subseteq i + 1 .. N
      BY <1>1
    <3> QED  BY <3>1 DEF SoundBelow
  <2>3. r.ok
    BY <1>2, <1>8
  <2>4. /\ tokens[i + 1].kind = "(" /\ tokens[r.next - 1].kind = ")"
        /\ r.next \in i + 1 + 3 .. N
        /\ IsTree(tokens, r.tree, 1, i + 1 + 1, r.next - 2)
    BY <2>1, <2>2, <2>3, EnclosedIsSound
  <2>5. u.next = r.next /\ u.tree = Read8(r.tree)
    BY <1>2, <1>8, <2>3, ParsedFields
  <2> HIDE DEF r
  <2>6. /\ u.next \in i + 4 .. N /\ j \in i + 3 .. N /\ j = r.next - 1 /\ j - 1 = r.next - 2
        /\ i + 1 + 1 = i + 2 /\ i + 1 < j
    BY <1>1, <2>4, <2>5
  <2>7. ASSUME NEW n \in 1 .. N, n > j - i
        PROVE  IsUnary(tokens, u.tree, i, j, T(n))
    <3>1. n - 1 \in 0 .. N /\ n - 1 > (j - 1) - (i + 2)
      BY <1>1, <2>6, <2>7
    <3>2. r.tree \in T(n)[<<1, i + 2, j - 1>>]
      BY <2>4, <2>6, <3>1 DEF IsTree
    <3> HIDE DEF T
    <3> QED  BY <1>8, <2>4, <2>5, <2>6, <3>2 DEF IsUnary
  <2>8. j \in i .. N /\ u.next \in i + 1 .. N
    BY <1>1, <2>6
  <2> QED  BY <2>7, <2>8, UnaryIsTree DEF Takes
<1>9. CASE k \notin {"Number", "Register", "-", "*", "read8"}
  <2>1. u = Enclosed(tokens, i, below)
    BY <1>2, <1>9
  <2>2. /\ k = "(" /\ tokens[j].kind = ")"
        /\ u.next \in i + 3 .. N
        /\ IsTree(tokens, u.tree, 1, i + 1, u.next - 2)
    BY <2>1, EnclosedIsSound
  <2>3. j \in i + 2 .. N /\ j - 1 = u.next - 2 /\ i < j
    BY <1>1, <2>2
  <2>4. ASSUME NEW n \in 1 .. N, n > j - i
        PROVE  IsUnary(tokens, u.tree, i, j, T(n))
    <3>1. n - 1 \in 0 .. N /\ n - 1 > (j - 1) - (i + 1)
      BY <1>1, <2>3, <2>4
    <3>2. u.tree \in T(n)[<<1, i + 1, j - 1>>]
      BY <2>2, <2>3, <3>1 DEF IsTree
    <3> HIDE DEF T
    <3> QED  BY <2>2, <2>3, <3>2 DEF IsUnary
  <2>5. j \in i .. N /\ u.next \in i + 1 .. N
    BY <1>1, <2>2
  <2> QED  BY <2>4, <2>5, UnaryIsTree DEF Takes
<1> QED  BY <1>5, <1>6, <1>7, <1>8, <1>9

\* A tree joined from trees of shorter sequences.
LEMMA JoinedIsTree ==
  ASSUME NEW tokens, Ended(tokens), NEW i \in 1 .. Len(tokens), NEW j \in i .. Len(tokens),
         NEW k \in i + 1 .. j - 1, NEW p \in 1 .. 4, Precedence(tokens[k]) = p,
         NEW l, IsTree(tokens, l, p, i, k - 1),
         NEW r, IsTree(tokens, r, p + 1, k + 1, j)
  PROVE  IsTree(tokens, Binary(tokens[k].kind, l, r), p, i, j)
<1> DEFINE t == Binary(tokens[k].kind, l, r)
<1> SUFFICES ASSUME NEW n \in 0 .. Len(tokens), n > j - i
             PROVE  t \in TreesTo(tokens)[n][<<p, i, j>>]
  BY DEF IsTree
<1>1. Len(tokens) \in Nat
  BY DEF Ended
<1>2. /\ n \in 1 .. Len(tokens) /\ i \in 1 .. Len(tokens) + 1 /\ j \in 0 .. Len(tokens)
      /\ i <= j /\ p \in 1 .. 5 /\ p \in p .. 4 /\ k \in i .. j
      /\ n - 1 \in 0 .. Len(tokens) /\ n - 1 > (k - 1) - i /\ n - 1 > j - (k + 1)
  BY <1>1
<1>3. /\ l \in TreesTo(tokens)[n - 1][<<p, i, k - 1>>]
      /\ r \in TreesTo(tokens)[n - 1][<<p + 1, k + 1, j>>]
  BY <1>2 DEF IsTree
<1>4. IsJoined(tokens, t, p, k, i, j, TreesTo(tokens)[n - 1])
  BY <1>3 DEF IsJoined
<1> HIDE DEF t
<1>5. \E q \in p .. 4, m \in i .. j : IsJoined(tokens, t, q, m, i, j, TreesTo(tokens)[n - 1])
  BY <1>2, <1>4
<1> QED  BY <1>1, <1>2, <1>5, TreesForms

\* A turn that finds an operator moves on by two places.
Moves(tokens, u, w, m) ==
  u.ok /\ Follower(tokens, u) # 0 /\ Follower(tokens, u) >= m /\ w.ok =>
    w.next >= u.next + 2

LEMMA TurnIsSound ==
  ASSUME NEW tokens, Ended(tokens), NEW i \in 1 .. Len(tokens), NEW below,
         SoundBelow(tokens, below, i + 1), NEW m \in 0 .. 5,
         NEW u, SoundTurn(tokens, u, m, i),
         NEW w, w = ParseOperator(tokens, u, m, below)
  PROVE  SoundTurn(tokens, w, m, i) /\ Moves(tokens, u, w, m)
<1> DEFINE N == Len(tokens)
           f == Follower(tokens, u)
           r == below.expression[<<u.next + 1, NextMinimum(f)>>]
<1>1. N \in Nat
  BY DEF Ended
<1>2. w = IF ~ u.ok \/ f = 0 \/ f < m THEN u
          ELSE IF ~ r.ok THEN r
          ELSE Parsed(Binary(tokens[u.next].kind, u.tree, r.tree), r.next)
  BY DEF ParseOperator, Follower
<1>3. f \in 0 .. 4
  BY LevelIsPrecedence DEF Follower
<1>4. CASE ~ u.ok \/ f = 0 \/ f < m
  <2>1. w = u
    BY <1>2, <1>4
  <2>2. ~ (u.ok /\ f # 0 /\ f >= m)
    BY <1>3, <1>4
  <2> HIDE DEF f
  <2> QED  BY <2>1, <2>2 DEF Moves, f
<1>5. CASE u.ok /\ f # 0 /\ f >= m
  <2>1. f \in 1 .. 4 /\ f >= Least(m) /\ Least(m) \in 1 .. 5
    BY <1>3, <1>5 DEF Least
  <2>2. Takes(tokens, u, f, i)
    BY <1>5, <2>1 DEF SoundTurn
  <2>3. u.next \in i + 1 .. N /\ IsTree(tokens, u.tree, f, i, u.next - 1)
    BY <2>2 DEF Takes
  <2>4. u.next # N
    <3>1. tokens[N].kind = "EndOfInput"
      BY DEF Ended
    <3>2. Precedence(tokens[N]) = 0
      BY <3>1 DEF Precedence
    <3> QED  BY <2>1, <3>2 DEF Follower
  <2>5. NextMinimum(f) = f + 1 /\ f + 1 \in 2 .. 5 /\ Least(f + 1) = f + 1
    BY <2>1 DEF NextMinimum, Least
  <2>6. SoundExpression(tokens, r, f + 1, u.next + 1)
    <3>1. u.next + 1 \in i + 1 .. N /\ f + 1 \in 0 .. 5
      BY <1>1, <2>3, <2>4, <2>5
    <3> QED  BY <2>5, <3>1 DEF SoundBelow
  <2>7. w = IF ~ r.ok THEN r
            ELSE Parsed(Binary(tokens[u.next].kind, u.tree, r.tree), r.next)
    BY <1>2, <1>3, <1>5
  <2> HIDE DEF r, f
  <2>8. CASE ~ r.ok
    BY <2>7, <2>8 DEF SoundTurn, Moves
  <2>9. CASE r.ok
    <3>1. /\ w.ok /\ w.next = r.next
          /\ w.tree = Binary(tokens[u.next].kind, u.tree, r.tree)
      BY <2>7, <2>9, ParsedFields
    <3>2. /\ Takes(tokens, r, f + 1, u.next + 1)
          /\ Follower(tokens, r) = 0 \/ Follower(tokens, r) < f + 1
      BY <2>5, <2>6, <2>9 DEF SoundExpression
    <3>3. /\ w.next \in u.next + 2 .. N
          /\ IsTree(tokens, r.tree, f + 1, u.next + 1, w.next - 1)
      BY <1>1, <2>3, <3>1, <3>2 DEF Takes
    <3>4. /\ w.next - 1 \in i .. N /\ u.next \in i + 1 .. (w.next - 1) - 1
          /\ w.next \in i + 1 .. N /\ w.next >= u.next + 2
      BY <1>1, <2>3, <3>3
    <3>5. Precedence(tokens[u.next]) = f
      BY DEF f, Follower
    <3>6. IsTree(tokens, w.tree, f, i, w.next - 1)
      BY <2>1, <2>3, <3>1, <3>3, <3>4, <3>5, JoinedIsTree
    <3>7. ASSUME NEW p \in 1 .. 5, p <= f  PROVE Takes(tokens, w, p, i)
      <4>1. f \in p .. 5 /\ w.next - 1 \in i .. Len(tokens) /\ Len(tokens) \in Nat
        BY <1>1, <2>1, <3>4, <3>7
      <4>2. IsTree(tokens, w.tree, p, i, w.next - 1)
        BY <3>6, <4>1, LowerLevel
      <4> QED  BY <3>4, <4>2 DEF Takes
    <3>8. Follower(tokens, w) \in 0 .. 4 /\ Follower(tokens, w) = Follower(tokens, r)
      BY <3>1, LevelIsPrecedence DEF Follower
    <3>9. Follower(tokens, w) <= f
      BY <2>1, <3>2, <3>8
    <3>10. Follower(tokens, w) >= Least(m) => Takes(tokens, w, Follower(tokens, w), i)
      BY <2>1, <3>7, <3>8, <3>9
    <3>11. Takes(tokens, w, Least(m), i)
      BY <2>1, <3>7
    <3> QED  BY <3>4, <3>10, <3>11 DEF SoundTurn, Moves
  <2> QED  BY <2>8, <2>9
<1> QED  BY <1>3, <1>4, <1>5

LEMMA ExpressionIsSound ==
  ASSUME NEW tokens, Ended(tokens), NEW i \in 1 .. Len(tokens), NEW below,
         SoundBelow(tokens, below, i + 1), NEW m \in 0 .. 5
  PROVE  SoundExpression(tokens, ParseExpression(tokens, i, m, below), m, i)
<1> DEFINE N == Len(tokens)
           turn == ParseTurns(tokens, i, m, below)
           Stopped(u) == ~ u.ok \/ Follower(tokens, u) = 0 \/ Follower(tokens, u) < m
           S == {n \in Nat : n <= N => /\ SoundTurn(tokens, turn[n], m, i)
                                       /\ Stopped(turn[n]) \/ turn[n].next > i + n}
<1>1. N \in Nat /\ Least(m) \in 1 .. 5 /\ Least(m) >= m
  <2>1. N \in Nat
    BY DEF Ended
  <2>2. CASE m = 0  BY <2>1, <2>2 DEF Least
  <2>3. CASE m # 0  BY <2>1, <2>3 DEF Least
  <2> QED  BY <2>2, <2>3
<1>2. /\ turn[0] = ParseUnary(tokens, i, below)
      /\ \A n \in 1 .. N : turn[n] = ParseOperator(tokens, turn[n - 1], m, below)
  BY <1>1, ParseTurnsUnfold
<1> HIDE DEF turn
<1>3. 0 \in S
  <2>1. SoundUnary(tokens, turn[0], i)
    BY <1>2, UnaryIsSound
  <2>2. ASSUME turn[0].ok
        PROVE  /\ turn[0].next > i
               /\ \A p \in 1 .. 5 : Takes(tokens, turn[0], p, i)
    <3>1. turn[0].next \in i + 1 .. N /\ IsTree(tokens, turn[0].tree, 5, i, turn[0].next - 1)
      BY <2>1, <2>2 DEF SoundUnary, Takes
    <3>2. turn[0].next - 1 \in i .. N /\ turn[0].next > i
      BY <1>1, <3>1
    <3>3. \A p \in 1 .. 5 : 5 \in p .. 5
      OBVIOUS
    <3>4. ASSUME NEW p \in 1 .. 5  PROVE IsTree(tokens, turn[0].tree, p, i, turn[0].next - 1)
      BY <1>1, <3>1, <3>2, <3>3, LowerLevel
    <3> QED  BY <3>1, <3>2, <3>4 DEF Takes
  <2>3. Follower(tokens, turn[0]) \in 0 .. 4
    BY LevelIsPrecedence DEF Follower
  <2>4. SoundTurn(tokens, turn[0], m, i)
    <3>1. Follower(tokens, turn[0]) >= Least(m) => Follower(tokens, turn[0]) \in 1 .. 5
      BY <1>1, <2>3
    <3> QED  BY <1>1, <2>2, <3>1 DEF SoundTurn
  <2>5. Stopped(turn[0]) \/ turn[0].next > i + 0
    BY <2>2
  <2> QED  BY <2>4, <2>5
<1>4. ASSUME NEW n \in Nat, n \in S  PROVE n + 1 \in S
  <2> SUFFICES ASSUME n + 1 <= N
               PROVE  /\ SoundTurn(tokens, turn[n + 1], m, i)
                      /\ Stopped(turn[n + 1]) \/ turn[n + 1].next > i + (n + 1)
    OBVIOUS
  <2>1. /\ SoundTurn(tokens, turn[n], m, i)
        /\ Stopped(turn[n]) \/ turn[n].next > i + n
    BY <1>1, <1>4
  <2>2. turn[n + 1] = ParseOperator(tokens, turn[n], m, below)
    <3>1. n + 1 \in 1 .. N /\ (n + 1) - 1 = n
      BY <1>1
    <3> QED  BY <1>2, <3>1
  <2>3. SoundTurn(tokens, turn[n + 1], m, i) /\ Moves(tokens, turn[n], turn[n + 1], m)
    BY <2>1, <2>2, TurnIsSound
  <2>4. CASE Stopped(turn[n])
    <3>1. turn[n + 1] = turn[n]
      BY <2>2, <2>4 DEF ParseOperator, Follower
    <3> QED  BY <2>3, <2>4, <3>1
  <2>5. CASE ~ Stopped(turn[n]) /\ turn[n + 1].ok
    <3>1. Follower(tokens, turn[n]) \in 0 .. 4
      BY LevelIsPrecedence DEF Follower
    <3>2. turn[n + 1].next >= turn[n].next + 2
      BY <2>3, <2>5, <3>1 DEF Moves
    <3>3. turn[n].next \in i + 1 .. N
      BY <2>1, <2>5 DEF SoundTurn, Takes
    <3>4. turn[n + 1].next \in i + 1 .. N
      BY <2>3, <2>5 DEF SoundTurn, Takes
    <3>5. turn[n + 1].next > i + (n + 1)
      BY <1>1, <2>1, <2>5, <3>2, <3>3, <3>4
    <3> QED  BY <2>3, <3>5
  <2>6. CASE ~ turn[n + 1].ok
    BY <2>3, <2>6
  <2> QED  BY <2>4, <2>5, <2>6
<1> HIDE DEF S, Stopped
<1>5. N \in S
  BY <1>1, <1>3, <1>4, NatSetInduction
<1>6. /\ SoundTurn(tokens, turn[N], m, i)
      /\ Stopped(turn[N]) \/ turn[N].next > i + N
  BY <1>1, <1>5 DEF S
<1>7. turn[N] = ParseExpression(tokens, i, m, below)
  BY DEF ParseExpression, turn
<1>8. ASSUME turn[N].ok  PROVE Stopped(turn[N])
  <2>1. turn[N].next \in i + 1 .. N
    BY <1>6, <1>8 DEF SoundTurn, Takes
  <2> QED  BY <1>1, <1>6, <2>1
<1> QED  BY <1>6, <1>7, <1>8 DEF SoundExpression, SoundTurn, Stopped

LEMMA ParseToIsSound ==
  ASSUME NEW tokens, Ended(tokens), NEW n \in 0 .. Len(tokens)
  PROVE  SoundBelow(tokens, ParseTo(tokens)[n], Len(tokens) + 1 - n)
<1> DEFINE N == Len(tokens)
           to == ParseTo(tokens)
           S == {k \in Nat : k <= N => SoundBelow(tokens, to[k], N + 1 - k)}
<1>1. N \in Nat /\ DOMAIN tokens = 1 .. N
  BY DEF Ended
<1>2. 0 \in S
  <2>1. N + 1 - 0 .. N = {}
    BY <1>1
  <2>2. SoundBelow(tokens, to[0], N + 1 - 0)
    BY <2>1 DEF SoundBelow
  <2> QED  BY <2>2
<1>3. ASSUME NEW k \in Nat, k \in S  PROVE k + 1 \in S
  <2> SUFFICES ASSUME k + 1 <= N  PROVE SoundBelow(tokens, to[k + 1], N + 1 - (k + 1))
    OBVIOUS
  <2> SUFFICES ASSUME NEW i \in N + 1 - (k + 1) .. N
               PROVE  /\ SoundUnary(tokens, to[k + 1].unary[i], i)
                      /\ \A m \in 0 .. 5 :
                           SoundExpression(tokens, to[k + 1].expression[<<i, m>>], m, i)
    BY DEF SoundBelow
  <2>1. i \in 1 .. N /\ k + 1 \in 1 .. N /\ (k + 1) - 1 = k
    BY <1>1
  <2>2. SoundBelow(tokens, to[k], N + 1 - k)
    BY <1>1, <1>3
  <2>3. SoundBelow(tokens, to[k], i + 1)
    <3>1. i + 1 .. N \subseteq N + 1 - k .. N
      BY <1>1
    <3> QED  BY <2>2, <3>1 DEF SoundBelow
  <2>4. /\ to[k + 1].unary[i] = ParseUnary(tokens, i, to[k])
        /\ \A m \in 0 .. 5 :
             to[k + 1].expression[<<i, m>>] = ParseExpression(tokens, i, m, to[k])
    BY <1>1, <2>1, ParseToUnfolds
  <2> HIDE DEF to
  <2> QED  BY <2>1, <2>3, <2>4, UnaryIsSound, ExpressionIsSound
<1> HIDE DEF S
<1>4. n \in S
  BY <1>2, <1>3, NatSetInduction
<1> QED  BY <1>4 DEF S

-----------------------------------------------------------------------------
(* The parser finds every tree of the grammar. *)

\* With calls nested deep enough, ParseUnary and ParseExpression answer t for
\* the tokens from i to j; the loop of ParseExpression has it at some turn.
ReadsUnary(tokens, t, i, j) ==
  \A b \in 0 .. Len(tokens) : b >= Len(tokens) - i =>
    ParseUnary(tokens, i, ParseTo(tokens)[b]) = Parsed(t, j + 1)

ReadsExpression(tokens, t, m, i, j) ==
  \A b \in 0 .. Len(tokens) : b >= Len(tokens) - i =>
    ParseExpression(tokens, i, m, ParseTo(tokens)[b]) = Parsed(t, j + 1)

Reaches(tokens, t, m, i, j) ==
  \A b \in 0 .. Len(tokens) : b >= Len(tokens) - i =>
    \E n \in 0 .. j - i :
      ParseTurns(tokens, i, m, ParseTo(tokens)[b])[n] = Parsed(t, j + 1)

\* An operator of a higher level would go on with the tokens before it.
ReachesAll(tokens, t, p, i, j) ==
  Precedence(tokens[j + 1]) <= p => \A m \in 0 .. p : Reaches(tokens, t, m, i, j)

\* The loop stays where it finds no operator of its own.
LEMMA LoopStops ==
  ASSUME NEW tokens, Ended(tokens), NEW i \in 1 .. Len(tokens), NEW j \in i .. Len(tokens) - 1,
         NEW m \in 0 .. 5, NEW t, Reaches(tokens, t, m, i, j),
         Precedence(tokens[j + 1]) = 0 \/ Precedence(tokens[j + 1]) < m
  PROVE  ReadsExpression(tokens, t, m, i, j)
<1> DEFINE N == Len(tokens)
<1> SUFFICES ASSUME NEW b \in 0 .. N, b >= N - i
             PROVE  ParseExpression(tokens, i, m, ParseTo(tokens)[b]) = Parsed(t, j + 1)
  BY DEF ReadsExpression
<1> DEFINE below == ParseTo(tokens)[b]
           turn == ParseTurns(tokens, i, m, below)
           x == Parsed(t, j + 1)
<1>1. N \in Nat
  BY DEF Ended
<1>2. PICK a \in 0 .. j - i : turn[a] = x
  BY DEF Reaches
<1>3. \A n \in 1 .. N : turn[n] = ParseOperator(tokens, turn[n - 1], m, below)
  BY <1>1, ParseTurnsUnfold
<1>4. ParseOperator(tokens, x, m, below) = x
  <2>1. x.next = j + 1
    BY ParsedFields
  <2> HIDE DEF x
  <2> QED  BY <2>1 DEF ParseOperator
<1> HIDE DEF x, turn, below
<1> DEFINE S == {n \in Nat : a + n <= N => turn[a + n] = x}
<1>5. 0 \in S
  BY <1>1, <1>2
<1>6. ASSUME NEW n \in Nat, n \in S  PROVE n + 1 \in S
  <2> SUFFICES ASSUME a + (n + 1) <= N  PROVE turn[a + (n + 1)] = x
    OBVIOUS
  <2>1. /\ a + (n + 1) \in 1 .. N /\ (a + (n + 1)) - 1 = a + n /\ a + n <= N
    BY <1>1
  <2>2. turn[a + n] = x
    BY <1>6, <2>1
  <2> QED  BY <1>3, <1>4, <2>1, <2>2
<1> HIDE DEF S
<1>7. N - a \in S
  <2>1. N - a \in Nat
    BY <1>1
  <2> QED  BY <1>5, <1>6, <2>1, NatSetInduction
<1>8. turn[N] = x
  <2>1. a + (N - a) = N
    BY <1>1
  <2> QED  BY <1>1, <1>7, <2>1 DEF S
<1> QED  BY <1>8 DEF ParseExpression, turn, below, x

\* What an answer means to the calls that look it up.
LEMMA LookUpUnary ==
  ASSUME NEW tokens, Ended(tokens), NEW b \in 1 .. Len(tokens), NEW i \in 1 .. Len(tokens),
         b - 1 >= Len(tokens) - i, NEW t, NEW j, ReadsUnary(tokens, t, i, j)
  PROVE  ParseTo(tokens)[b].unary[i] = Parsed(t, j + 1)
<1>1. Len(tokens) \in Nat /\ i \in DOMAIN tokens
  BY DEF Ended
<1>2. b - 1 \in 0 .. Len(tokens)
  BY <1>1
<1>3. ParseTo(tokens)[b].unary[i] = ParseUnary(tokens, i, ParseTo(tokens)[b - 1])
  BY <1>1, ParseToUnfolds
<1> QED  BY <1>2, <1>3 DEF ReadsUnary

LEMMA LookUpExpression ==
  ASSUME NEW tokens, Ended(tokens), NEW b \in 1 .. Len(tokens), NEW i \in 1 .. Len(tokens),
         b - 1 >= Len(tokens) - i, NEW t, NEW j, NEW m \in 0 .. 5,
         ReadsExpression(tokens, t, m, i, j), NEW q, q = <<i, m>>
  PROVE  ParseTo(tokens)[b].expression[q] = Parsed(t, j + 1)
<1>1. Len(tokens) \in Nat /\ i \in DOMAIN tokens
  BY DEF Ended
<1>2. b - 1 \in 0 .. Len(tokens)
  BY <1>1
<1>3. ParseTo(tokens)[b].expression[<<i, m>>] = ParseExpression(tokens, i, m, ParseTo(tokens)[b - 1])
  BY <1>1, ParseToUnfolds
<1> QED  BY <1>2, <1>3 DEF ReadsExpression

\* What is claimed of the trees of at most n tokens.
ReadsTrees(tokens, n) ==
  \A p \in 1 .. 5, i \in 1 .. Len(tokens) + 1, j \in 0 .. Len(tokens) - 1 :
  \A t \in TreesTo(tokens)[n][<<p, i, j>>] :
    /\ i <= j
    /\ p = 5 => ReadsUnary(tokens, t, i, j)
    /\ ReachesAll(tokens, t, p, i, j)

\* In parentheses nothing binds from outside.
LEMMA InsideIsRead ==
  ASSUME NEW tokens, Ended(tokens), NEW n, ReadsTrees(tokens, n),
         NEW i \in 1 .. Len(tokens), NEW j \in 1 .. Len(tokens) - 1,
         tokens[j].kind = ")", NEW t \in TreesTo(tokens)[n][<<1, i, j - 1>>]
  PROVE  i < j /\ ReadsExpression(tokens, t, 0, i, j - 1)
<1>1. /\ Len(tokens) \in Nat /\ j - 1 \in 0 .. Len(tokens) - 1 /\ (j - 1) + 1 = j
      /\ i \in 1 .. Len(tokens) + 1 /\ 1 \in 1 .. 5
  BY DEF Ended
<1>2. i <= j - 1 /\ ReachesAll(tokens, t, 1, i, j - 1)
  BY <1>1 DEF ReadsTrees
<1>3. Precedence(tokens[j]) = 0
  BY DEF Precedence
<1>4. Reaches(tokens, t, 0, i, j - 1)
  BY <1>1, <1>2, <1>3 DEF ReachesAll
<1>5. j - 1 \in i .. Len(tokens) - 1
  BY <1>1, <1>2
<1> QED  BY <1>1, <1>2, <1>3, <1>4, <1>5, LoopStops

\* A parenthesis that the grammar closes at j is closed there.
LEMMA EnclosedIsRead ==
  ASSUME NEW tokens, Ended(tokens), NEW i \in 1 .. Len(tokens), NEW j \in 1 .. Len(tokens) - 1,
         tokens[i].kind = "(", tokens[j].kind = ")", i < j,
         NEW t, ReadsExpression(tokens, t, 0, i + 1, j - 1),
         NEW b \in 1 .. Len(tokens), b >= Len(tokens) - i
  PROVE  Enclosed(tokens, i, ParseTo(tokens)[b]) = Parsed(t, j + 1)
<1> DEFINE e == ParseTo(tokens)[b].expression[<<i + 1, 0>>]
<1>1. Len(tokens) \in Nat
  BY DEF Ended
<1>2. e = Parsed(t, j)
  <2>1. /\ i + 1 \in 1 .. Len(tokens) /\ b - 1 >= Len(tokens) - (i + 1) /\ (j - 1) + 1 = j
    BY <1>1
  <2>2. PICK c : c = j - 1
    OBVIOUS
  <2>3. PICK a \in 1 .. Len(tokens) : a = i + 1
    BY <2>1
  <2>4. b - 1 >= Len(tokens) - a /\ ReadsExpression(tokens, t, 0, a, c)
    BY <2>1, <2>2, <2>3
  <2>5. ParseTo(tokens)[b].expression[<<a, 0>>] = Parsed(t, c + 1)
    <3>1. 0 \in 0 .. 5
      OBVIOUS
    <3> HIDE DEF e
    <3>2. ASSUME NEW q, q = <<a, 0>>
          PROVE  ParseTo(tokens)[b].expression[q] = Parsed(t, c + 1)
      BY <2>4, <3>1, <3>2, LookUpExpression
    <3> QED  BY <3>2
  <2> QED  BY <2>1, <2>2, <2>3, <2>5
<1>3. e.ok /\ e.tree = t /\ e.next = j
  BY <1>2, ParsedFields
<1> HIDE DEF e
<1> QED  BY <1>3, EnclosedForms DEF e

LEMMA UnaryIsRead ==
  ASSUME NEW tokens, Ended(tokens), NEW n, ReadsTrees(tokens, n),
         NEW i \in 1 .. Len(tokens), NEW j \in i .. Len(tokens) - 1,
         NEW t, IsUnary(tokens, t, i, j, TreesTo(tokens)[n])
  PROVE  ReadsUnary(tokens, t, i, j)
<1> DEFINE N == Len(tokens)
           T == TreesTo(tokens)[n]
<1> SUFFICES ASSUME NEW b \in 0 .. N, b >= N - i
             PROVE  ParseUnary(tokens, i, ParseTo(tokens)[b]) = Parsed(t, j + 1)
  BY DEF ReadsUnary
<1> DEFINE below == ParseTo(tokens)[b]
           u == ParseUnary(tokens, i, below)
           c == below.unary[i + 1]
           r == Enclosed(tokens, i + 1, below)
           k == tokens[i].kind
<1>1. N \in Nat /\ b \in 1 .. N /\ b >= N - i /\ b - 1 >= N - (i + 1)
  BY DEF Ended
<1>2. /\ k = "Number" => u = Parsed(Number(tokens[i].value), i + 1)
      /\ k = "Register" => u = Parsed(Register(tokens[i].name), i + 1)
      /\ k = "-" => u = IF c.ok THEN Parsed(Minus(c.tree), c.next) ELSE c
      /\ k = "*" => u = IF c.ok THEN Parsed(Read8(c.tree), c.next) ELSE c
      /\ k = "read8" => u = IF r.ok THEN Parsed(Read8(r.tree), r.next) ELSE r
      /\ k \notin {"Number", "Register", "-", "*", "read8"} =>
           u = Enclosed(tokens, i, below)
  BY UnaryAnswers
<1>3. ASSUME NEW v \in T[<<5, i + 1, j>>]  PROVE c = Parsed(v, j + 1)
  <2>1. i + 1 \in 1 .. N + 1 /\ j \in 0 .. N - 1 /\ 5 \in 1 .. 5
    BY <1>1
  <2>2. i + 1 <= j /\ ReadsUnary(tokens, v, i + 1, j)
    BY <2>1 DEF ReadsTrees
  <2>3. PICK a \in 1 .. N : a = i + 1
    BY <1>1, <2>1, <2>2
  <2>4. b - 1 >= N - a /\ ReadsUnary(tokens, v, a, j)
    BY <1>1, <2>2, <2>3
  <2>5. ParseTo(tokens)[b].unary[a] = Parsed(v, j + 1)
    BY <1>1, <2>4, LookUpUnary
  <2> QED  BY <2>3, <2>5
<1> HIDE DEF c
<1>4. CASE k = "Number" /\ i = j /\ t = Number(tokens[i].value)
  BY <1>2, <1>4
<1>5. CASE k = "Register" /\ i = j /\ t = Register(tokens[i].name)
  BY <1>2, <1>5
<1>6. CASE /\ k = "(" /\ i < j /\ tokens[j].kind = ")"
           /\ t \in T[<<1, i + 1, j - 1>>]
  <2>1. i + 1 \in 1 .. N /\ j \in 1 .. N - 1
    BY <1>1, <1>6
  <2>2. ReadsExpression(tokens, t, 0, i + 1, j - 1)
    BY <1>6, <2>1, InsideIsRead
  <2>3. Enclosed(tokens, i, below) = Parsed(t, j + 1)
    BY <1>1, <1>6, <2>1, <2>2, EnclosedIsRead
  <2> QED  BY <1>2, <1>6, <2>3
<1>7. CASE k = "-" /\ \E v \in T[<<5, i + 1, j>>] : t = Minus(v)
  <2>1. PICK v \in T[<<5, i + 1, j>>] : t = Minus(v)
    BY <1>7
  <2>2. c.ok /\ c.tree = v /\ c.next = j + 1
    BY <1>3, ParsedFields
  <2> QED  BY <1>2, <1>7, <2>1, <2>2
<1>8. CASE k = "*" /\ \E v \in T[<<5, i + 1, j>>] : t = Read8(v)
  <2>1. PICK v \in T[<<5, i + 1, j>>] : t = Read8(v)
    BY <1>8
  <2>2. c.ok /\ c.tree = v /\ c.next = j + 1
    BY <1>3, ParsedFields
  <2> QED  BY <1>2, <1>8, <2>1, <2>2
<1>9. CASE /\ k = "read8" /\ i + 1 < j
           /\ tokens[i + 1].kind = "(" /\ tokens[j].kind = ")"
           /\ \E v \in T[<<1, i + 2, j - 1>>] : t = Read8(v)
  <2>1. PICK v \in T[<<1, i + 2, j - 1>>] : t = Read8(v)
    BY <1>9
  <2>2. /\ i + 2 \in 1 .. N /\ i + 1 \in 1 .. N /\ j \in 1 .. N - 1 /\ (i + 1) + 1 = i + 2
        /\ b >= N - (i + 1)
    BY <1>1, <1>9
  <2>3. ReadsExpression(tokens, v, 0, i + 2, j - 1)
    BY <1>9, <2>1, <2>2, InsideIsRead
  <2>4. r = Parsed(v, j + 1)
    BY <1>1, <1>9, <2>2, <2>3, EnclosedIsRead
  <2>5. r.ok /\ r.tree = v /\ r.next = j + 1
    BY <2>4, ParsedFields
  <2> HIDE DEF r
  <2> QED  BY <1>2, <1>9, <2>1, <2>5
<1>10. \/ k = "Number" /\ i = j /\ t = Number(tokens[i].value)
       \/ k = "Register" /\ i = j /\ t = Register(tokens[i].name)
       \/ k = "(" /\ i < j /\ tokens[j].kind = ")" /\ t \in T[<<1, i + 1, j - 1>>]
       \/ k = "-" /\ \E v \in T[<<5, i + 1, j>>] : t = Minus(v)
       \/ k = "*" /\ \E v \in T[<<5, i + 1, j>>] : t = Read8(v)
       \/ /\ k = "read8" /\ i + 1 < j /\ tokens[i + 1].kind = "(" /\ tokens[j].kind = ")"
          /\ \E v \in T[<<1, i + 2, j - 1>>] : t = Read8(v)
  BY DEF IsUnary
<1> HIDE DEF k, T, u, below, N
<1> QED  BY <1>4, <1>5, <1>6, <1>7, <1>8, <1>9, <1>10 DEF u, below

LEMMA UnaryIsReached ==
  ASSUME NEW tokens, Ended(tokens), NEW i \in 1 .. Len(tokens), NEW j \in i .. Len(tokens) - 1,
         NEW t, ReadsUnary(tokens, t, i, j), NEW m
  PROVE  Reaches(tokens, t, m, i, j)
<1> SUFFICES ASSUME NEW b \in 0 .. Len(tokens), b >= Len(tokens) - i
             PROVE  \E n \in 0 .. j - i :
                      ParseTurns(tokens, i, m, ParseTo(tokens)[b])[n] = Parsed(t, j + 1)
  BY DEF Reaches
<1>1. Len(tokens) \in Nat
  BY DEF Ended
<1>2. ParseTurns(tokens, i, m, ParseTo(tokens)[b])[0] = Parsed(t, j + 1)
  BY <1>1, ParseTurnsUnfold DEF ReadsUnary
<1>3. 0 \in 0 .. j - i
  BY <1>1
<1> QED  BY <1>2, <1>3

\* From the left tree the loop takes the operator and the right tree.
LEMMA JoinedIsReached ==
  ASSUME NEW tokens, Ended(tokens), NEW i \in 1 .. Len(tokens), NEW j \in i .. Len(tokens) - 1,
         NEW k \in i + 1 .. j - 1, NEW q \in 1 .. 4, Precedence(tokens[k]) = q,
         NEW m \in 0 .. q, NEW l, Reaches(tokens, l, m, i, k - 1),
         NEW r, ReadsExpression(tokens, r, q + 1, k + 1, j)
  PROVE  Reaches(tokens, Binary(tokens[k].kind, l, r), m, i, j)
<1> DEFINE N == Len(tokens)
           t == Binary(tokens[k].kind, l, r)
<1> SUFFICES ASSUME NEW b \in 0 .. N, b >= N - i
             PROVE  \E n \in 0 .. j - i :
                      ParseTurns(tokens, i, m, ParseTo(tokens)[b])[n] = Parsed(t, j + 1)
  BY DEF Reaches
<1> DEFINE below == ParseTo(tokens)[b]
           turn == ParseTurns(tokens, i, m, below)
           u == Parsed(l, k)
<1>1. N \in Nat
  BY DEF Ended
<1>2. k \in 1 .. N /\ (k - 1) + 1 = k /\ b \in 1 .. N /\ q + 1 \in 0 .. 5
  BY <1>1
<1>3. PICK a \in 0 .. (k - 1) - i : turn[a] = Parsed(l, (k - 1) + 1)
  BY DEF Reaches
<1>4. a + 1 \in 1 .. N /\ (a + 1) - 1 = a /\ a + 1 \in 0 .. j - i
  BY <1>1
<1>5. turn[a + 1] = ParseOperator(tokens, u, m, below)
  <2>1. \A n \in 1 .. N : turn[n] = ParseOperator(tokens, turn[n - 1], m, below)
    BY <1>1, ParseTurnsUnfold
  <2>2. turn[a] = u
    BY <1>2, <1>3
  <2> HIDE DEF turn, below, u
  <2> QED  BY <1>4, <2>1, <2>2
<1>6. below.expression[<<k + 1, q + 1>>] = Parsed(r, j + 1)
  <2>1. PICK c \in 1 .. N : c = k + 1
    BY <1>1
  <2>2. b - 1 >= N - c /\ ReadsExpression(tokens, r, q + 1, c, j)
    BY <1>1, <1>2, <2>1
  <2> HIDE DEF N
  <2>3. below.expression[<<c, q + 1>>] = Parsed(r, j + 1)
    BY <1>2, <2>2, LookUpExpression DEF N
  <2> QED  BY <2>1, <2>3
<1>7. u.ok /\ u.tree = l /\ u.next = k
  BY ParsedFields
<1>8. NextMinimum(q) = q + 1
  BY DEF NextMinimum
<1> DEFINE e == Parsed(r, j + 1)
<1>9. e.ok /\ e.tree = r /\ e.next = j + 1
  BY ParsedFields
<1> HIDE DEF u, below, turn, e
<1>10. q # 0 /\ ~ q < m
  OBVIOUS
<1>11. ParseOperator(tokens, u, m, below) =
         IF ~ u.ok \/ Precedence(tokens[k]) = 0 \/ Precedence(tokens[k]) < m THEN u
         ELSE IF ~ below.expression[<<k + 1, NextMinimum(Precedence(tokens[k]))>>].ok
           THEN below.expression[<<k + 1, NextMinimum(Precedence(tokens[k]))>>]
         ELSE Parsed(Binary(tokens[k].kind, u.tree,
                            below.expression[<<k + 1, NextMinimum(Precedence(tokens[k]))>>].tree),
                     below.expression[<<k + 1, NextMinimum(Precedence(tokens[k]))>>].next)
  BY <1>7 DEF ParseOperator
<1>12. below.expression[<<k + 1, NextMinimum(Precedence(tokens[k]))>>] = e
  BY <1>6, <1>8 DEF e
<1>13. turn[a + 1] = Parsed(t, j + 1)
  BY <1>5, <1>7, <1>9, <1>10, <1>11, <1>12
<1> QED  BY <1>4, <1>13 DEF turn, below

LEMMA TreesAreRead ==
  ASSUME NEW tokens, Ended(tokens), NEW n \in 1 .. Len(tokens), ReadsTrees(tokens, n - 1)
  PROVE  ReadsTrees(tokens, n)
<1> DEFINE N == Len(tokens)
           T == TreesTo(tokens)[n - 1]
<1> SUFFICES ASSUME NEW p \in 1 .. 5, NEW i \in 1 .. N + 1, NEW j \in 0 .. N - 1,
                    NEW t \in TreesTo(tokens)[n][<<p, i, j>>]
             PROVE  /\ i <= j
                    /\ p = 5 => ReadsUnary(tokens, t, i, j)
                    /\ ReachesAll(tokens, t, p, i, j)
  BY DEF ReadsTrees
<1>1. N \in Nat
  BY DEF Ended
<1>2. /\ i <= j
      /\ \/ IsUnary(tokens, t, i, j, T)
         \/ \E q \in p .. 4, k \in i .. j : IsJoined(tokens, t, q, k, i, j, T)
  <2>1. j \in 0 .. N
    BY <1>1
  <2> QED  BY <1>1, <2>1, TreesForms
<1>3. i \in 1 .. N /\ j \in i .. N - 1
  BY <1>1, <1>2
<1>4. CASE IsUnary(tokens, t, i, j, T)
  <2>1. ReadsUnary(tokens, t, i, j)
    BY <1>3, <1>4, UnaryIsRead
  <2>2. \A m \in 0 .. p : Reaches(tokens, t, m, i, j)
    BY <1>3, <2>1, UnaryIsReached
  <2> QED  BY <1>2, <2>1, <2>2 DEF ReachesAll
<1>5. ASSUME NEW q \in p .. 4, NEW k \in i .. j, IsJoined(tokens, t, q, k, i, j, T),
             Precedence(tokens[j + 1]) <= p, NEW m \in 0 .. p
      PROVE  Reaches(tokens, t, m, i, j)
  <2>1. q \in 1 .. 4 /\ m \in 0 .. q /\ q \in 1 .. 5 /\ q + 1 \in 1 .. 5 /\ m \in 0 .. 5
    BY <1>5
  <2>2. PICK l \in T[<<q, i, k - 1>>], r \in T[<<q + 1, k + 1, j>>] :
          t = Binary(tokens[k].kind, l, r)
    BY <1>5 DEF IsJoined
  <2>3. Precedence(tokens[k]) = q
    BY <1>5 DEF IsJoined
  <2>4. k - 1 \in 0 .. N - 1 /\ k + 1 \in 1 .. N + 1 /\ (k - 1) + 1 = k /\ j \in 0 .. N - 1
    BY <1>1, <1>3
  <2>5. i <= k - 1 /\ ReachesAll(tokens, l, q, i, k - 1)
    BY <2>1, <2>4 DEF ReadsTrees
  <2>6. Reaches(tokens, l, m, i, k - 1)
    <3>1. Precedence(tokens[(k - 1) + 1]) <= q
      BY <2>1, <2>3, <2>4
    <3> QED  BY <2>1, <2>5, <3>1 DEF ReachesAll
  <2>7. k + 1 <= j /\ ReachesAll(tokens, r, q + 1, k + 1, j)
    BY <2>1, <2>4 DEF ReadsTrees
  <2>8. Precedence(tokens[j + 1]) \in 0 .. 4
    BY LevelIsPrecedence
  <2>9. Precedence(tokens[j + 1]) <= q + 1 /\ Precedence(tokens[j + 1]) < q + 1
    BY <1>5, <2>8
  <2>10. Reaches(tokens, r, q + 1, k + 1, j)
    <3>1. q + 1 \in 0 .. q + 1
      BY <2>1
    <3> QED  BY <2>7, <2>9, <3>1 DEF ReachesAll
  <2>11. /\ k + 1 \in 1 .. N /\ j \in k + 1 .. N - 1 /\ q + 1 \in 0 .. 5
         /\ k \in i + 1 .. j - 1
    BY <1>1, <1>3, <2>1, <2>5, <2>7
  <2>12. ReadsExpression(tokens, r, q + 1, k + 1, j)
    BY <2>9, <2>10, <2>11, LoopStops
  <2> QED  BY <1>3, <2>1, <2>2, <2>3, <2>6, <2>11, <2>12, JoinedIsReached
<1>6. CASE \E q \in p .. 4, k \in i .. j : IsJoined(tokens, t, q, k, i, j, T)
  <2>1. p # 5
    BY <1>6
  <2>2. ReachesAll(tokens, t, p, i, j)
    BY <1>5, <1>6 DEF ReachesAll
  <2> QED  BY <1>2, <2>1, <2>2
<1> QED  BY <1>2, <1>4, <1>6

LEMMA AllTreesAreRead ==
  ASSUME NEW tokens, Ended(tokens), NEW n \in 0 .. Len(tokens)
  PROVE  ReadsTrees(tokens, n)
<1> DEFINE S == {k \in Nat : k <= Len(tokens) => ReadsTrees(tokens, k)}
<1>1. Len(tokens) \in Nat
  BY DEF Ended
<1>2. 0 \in S
  <2>1. ASSUME NEW p \in 1 .. 5, NEW i \in 1 .. Len(tokens) + 1, NEW j \in 0 .. Len(tokens) - 1
        PROVE  TreesTo(tokens)[0][<<p, i, j>>] = {}
    <3>1. <<p, i, j>> \in Spans(tokens)
      BY <1>1 DEF Spans
    <3> QED  BY <1>1, <3>1, TreesToUnfolds
  <2>2. ReadsTrees(tokens, 0)
    BY <2>1 DEF ReadsTrees
  <2> QED  BY <2>2
<1>3. ASSUME NEW k \in Nat, k \in S  PROVE k + 1 \in S
  <2> SUFFICES ASSUME k + 1 <= Len(tokens)  PROVE ReadsTrees(tokens, k + 1)
    OBVIOUS
  <2>1. k + 1 \in 1 .. Len(tokens) /\ (k + 1) - 1 = k
    BY <1>1
  <2>2. ReadsTrees(tokens, k)
    BY <1>1, <1>3, <2>1
  <2> QED  BY <2>1, <2>2, TreesAreRead
<1> HIDE DEF S
<1>4. n \in S
  BY <1>2, <1>3, NatSetInduction
<1> QED  BY <1>4 DEF S

-----------------------------------------------------------------------------

(***************************************************************************)
(* parse() decides the grammar: whatever the tokens and however many, it   *)
(* accepts the sentences of the grammar, refuses everything else, and a    *)
(* sentence has one tree, the one it returns.  ParseExpression never reads *)
(* behind EndOfInput.                                                      *)
(***************************************************************************)
THEOREM ParserDecides ==
  ASSUME NEW tokens, Ended(tokens)
  PROVE  Trees(tokens, 1, 1, Len(tokens) - 1) =
           IF Parse(tokens).ok THEN {Parse(tokens).tree} ELSE {}
<1> DEFINE N == Len(tokens)
           below == ParseTo(tokens)[N]
           e == ParseExpression(tokens, 1, 0, below)
           T == TreesTo(tokens)[N][<<1, 1, N - 1>>]
<1>1. N \in Nat /\ N >= 1 /\ 1 \in 1 .. N /\ N \in 0 .. N /\ 0 \in 0 .. 5
  BY DEF Ended
<1>2. /\ tokens[N].kind = "EndOfInput"
      /\ \A k \in 1 .. N : tokens[k].kind = "EndOfInput" => k = N
  <2>1. N \in 1 .. N
    BY <1>1
  <2> QED  BY <2>1 DEF Ended
<1>3. Parse(tokens) = IF e.ok /\ tokens[e.next].kind # "EndOfInput"
                      THEN Unexpected(e.next) ELSE e
  BY DEF Parse
<1>4. Precedence(tokens[N]) = 0
  BY <1>2 DEF Precedence
<1>5. ASSUME NEW t \in T  PROVE Parse(tokens).ok /\ Parse(tokens).tree = t
  <2>1. /\ N - 1 \in 0 .. N - 1 /\ 1 \in 1 .. 5 /\ 1 \in 1 .. N + 1 /\ (N - 1) + 1 = N
    BY <1>1
  <2>2. 1 <= N - 1 /\ ReachesAll(tokens, t, 1, 1, N - 1)
    <3>1. ReadsTrees(tokens, N)
      BY <1>1, AllTreesAreRead
    <3> QED  BY <2>1, <3>1 DEF ReadsTrees
  <2>3. Reaches(tokens, t, 0, 1, N - 1)
    <3>1. 0 \in 0 .. 1 /\ 0 <= 1
      OBVIOUS
    <3> QED  BY <1>4, <2>1, <2>2, <3>1 DEF ReachesAll
  <2>4. N - 1 \in 1 .. N - 1
    BY <1>1, <2>2
  <2>5. ReadsExpression(tokens, t, 0, 1, N - 1)
    BY <1>1, <1>4, <2>1, <2>3, <2>4, LoopStops
  <2>6. e = Parsed(t, N)
    <3>1. N >= N - 1
      BY <1>1
    <3> QED  BY <1>1, <2>1, <2>5, <3>1 DEF ReadsExpression
  <2>7. e.ok /\ e.tree = t /\ e.next = N
    BY <2>6, ParsedFields
  <2> HIDE DEF e
  <2> QED  BY <1>2, <1>3, <2>7
<1>6. ASSUME Parse(tokens).ok  PROVE Parse(tokens).tree \in T
  <2>1. Parse(tokens) = e /\ e.ok /\ tokens[e.next].kind = "EndOfInput"
    BY <1>3, <1>6, ParsedFields
  <2>2. SoundBelow(tokens, below, 1 + 1)
    <3>1. SoundBelow(tokens, below, N + 1 - N)
      BY <1>1, ParseToIsSound
    <3>2. 1 + 1 .. N \subseteq N + 1 - N .. N
      BY <1>1
    <3> QED  BY <3>1, <3>2 DEF SoundBelow
  <2>3. SoundExpression(tokens, e, 0, 1)
    BY <1>1, <2>2, ExpressionIsSound
  <2> HIDE DEF e
  <2>4. e.next \in 1 + 1 .. N /\ IsTree(tokens, e.tree, 1, 1, e.next - 1)
    BY <2>1, <2>3 DEF SoundExpression, Takes, Least
  <2>5. e.next = N
    BY <1>1, <1>2, <2>1, <2>4
  <2>6. N > (N - 1) - 1
    BY <1>1
  <2>7. e.tree \in T
    BY <1>1, <2>4, <2>5, <2>6 DEF IsTree
  <2> QED  BY <2>1, <2>7
<1> HIDE DEF T
<1>7. T = IF Parse(tokens).ok THEN {Parse(tokens).tree} ELSE {}
  <2>1. CASE Parse(tokens).ok    BY <1>5, <1>6, <2>1
  <2>2. CASE ~ Parse(tokens).ok  BY <1>5, <2>2
  <2> QED  BY <2>1, <2>2
<1> QED  BY <1>7 DEF T, Trees

-----------------------------------------------------------------------------
(* The texts of TextSweep. *)

TextTypeOK == lexemes \in Seq(Lexemes)

LEMMA TextTyped == TextSpec => []TextTypeOK
<1>1. TextInit => TextTypeOK
  BY DEF TextInit, TextTypeOK
<1>2. TextTypeOK /\ [Grow]_lexemes => TextTypeOK'
  BY DEF Grow, TextTypeOK
<1> QED  BY <1>1, <1>2, PTL DEF TextSpec

\* What is read ends with EndOfInput and has no other.
LEMMA InputEnds ==
  TextTypeOK /\ NoJunk => Ended(Input) /\ Len(Input) = Len(lexemes) + 1
<1> SUFFICES ASSUME TextTypeOK, NoJunk
             PROVE  Ended(Input) /\ Len(Input) = Len(lexemes) + 1
  OBVIOUS
<1> DEFINE n == Len(lexemes)
<1>1. n \in Nat /\ DOMAIN lexemes = 1 .. n
  BY DEF TextTypeOK
<1>2. \A i \in 1 .. n : lexemes[i] \in DOMAIN Meaning
  BY <1>1 DEF NoJunk
<1> DEFINE All == {Meaning[l] : l \in DOMAIN Meaning}
<1>3. Tokens \in Seq(All) /\ Len(Tokens) = n /\ \A i \in 1 .. n : Tokens[i] \in All
  <2>1. Tokens = [i \in 1 .. n |-> Meaning[lexemes[i]]]
    BY <1>1 DEF Tokens
  <2>2. \A i \in 1 .. n : Meaning[lexemes[i]] \in All
    BY <1>2
  <2> HIDE DEF All, n
  <2> QED  BY <1>1, <2>1, <2>2
<1>4. \A t \in All : t.kind # "EndOfInput"
  BY MeaningAssumption
<1> DEFINE Every == All \cup {EndOfInput}
<1>5. Tokens \in Seq(Every) /\ EndOfInput \in Every
  BY <1>3
<1>6. EndOfInput.kind = "EndOfInput"
  BY DEF EndOfInput, Token
<1> HIDE DEF All, Every, n
<1>7. /\ Len(Input) = n + 1 /\ DOMAIN Input = 1 .. n + 1
      /\ \A i \in 1 .. n : Input[i] = Tokens[i]
      /\ Input[n + 1] = EndOfInput
  BY <1>1, <1>3, <1>5 DEF Input
<1>8. Len(Input) \in Nat \ {0}
  BY <1>1, <1>7
<1>9. ASSUME NEW i \in 1 .. n + 1
      PROVE  Input[i].kind = "EndOfInput" <=> i = n + 1
  <2>1. CASE i = n + 1  BY <1>6, <1>7, <2>1
  <2>2. CASE i \in 1 .. n
    <3>1. Tokens[i].kind # "EndOfInput"
      BY <1>3, <1>4, <2>2
    <3> QED  BY <1>1, <1>7, <2>2, <3>1
  <2> QED  BY <1>1, <2>1, <2>2
<1> QED  BY <1>7, <1>8, <1>9 DEF Ended, n

(***************************************************************************)
(* GrammarDecides, for all lexemes and texts of any length.                *)
(***************************************************************************)
THEOREM GrammarIsDecided == TextSpec => []GrammarDecides
<1>1. TextTypeOK => GrammarDecides
  <2> SUFFICES ASSUME TextTypeOK, NoJunk
               PROVE  Trees(Input, 1, 1, Len(lexemes)) =
                        IF Outcome.ok THEN {Outcome.tree} ELSE {}
    BY DEF GrammarDecides
  <2>1. Ended(Input) /\ Len(Input) - 1 = Len(lexemes)
    <3>1. Len(lexemes) \in Nat
      BY DEF TextTypeOK
    <3> QED  BY <3>1, InputEnds
  <2>2. Trees(Input, 1, 1, Len(Input) - 1) =
          IF Parse(Input).ok THEN {Parse(Input).tree} ELSE {}
    BY <2>1, ParserDecides
  <2> QED  BY <2>1, <2>2 DEF Outcome
<1> QED  BY <1>1, TextTyped, PTL

-----------------------------------------------------------------------------
(* Counting parentheses. *)

Opens(c)  == IF c = "(" THEN 1 ELSE 0
Closes(c) == IF c = ")" THEN 1 ELSE 0

Occurrences(s, c, n) == Cardinality({i \in 1 .. n : s[i] = c})

LEMMA OccurrencesStep ==
  ASSUME NEW s, NEW c, NEW n \in Nat
  PROVE  /\ Occurrences(s, c, 0) = 0
         /\ Occurrences(s, c, n) \in Nat
         /\ Occurrences(s, c, n + 1) =
              Occurrences(s, c, n) + (IF s[n + 1] = c THEN 1 ELSE 0)
<1> DEFINE O(m) == {i \in 1 .. m : s[i] = c}
<1>1. O(0) = {}
  OBVIOUS
<1>2. IsFiniteSet(O(n))
  <2>1. IsFiniteSet(1 .. n)
    <3>1. 1 \in Int /\ n \in Int
      OBVIOUS
    <3> QED  BY <3>1, FS_Interval
  <2>2. O(n) \in SUBSET (1 .. n)
    OBVIOUS
  <2> QED  BY <2>1, <2>2, FS_Subset
<1>3. Cardinality(O(n)) \in Nat
  BY <1>2, FS_CardinalityType
<1>4. CASE s[n + 1] = c
  <2>1. O(n + 1) = O(n) \cup {n + 1} /\ n + 1 \notin O(n)
    BY <1>4
  <2> HIDE DEF O
  <2>2. Cardinality(O(n + 1)) = Cardinality(O(n)) + 1
    BY <1>2, <2>1, FS_AddElement
  <2> QED  BY <1>1, <1>3, <1>4, <2>2, FS_EmptySet DEF O, Occurrences
<1>5. CASE s[n + 1] # c
  <2>1. O(n + 1) = O(n)
    BY <1>5
  <2>2. Cardinality(O(n + 1)) = Cardinality(O(n)) + 0
    BY <1>3, <2>1
  <2> HIDE DEF O
  <2> QED  BY <1>1, <1>3, <1>5, <2>2, FS_EmptySet DEF O, Occurrences
<1> QED  BY <1>4, <1>5

LEMMA CountStep ==
  ASSUME NEW s, NEW n \in Nat
  PROVE  /\ ParenCount(s, 0) = 0
         /\ ParenCount(s, n) \in Int
         /\ ParenCount(s, n + 1) = ParenCount(s, n) + Opens(s[n + 1]) - Closes(s[n + 1])
<1> DEFINE O(c, m) == Occurrences(s, c, m)
<1>1. \A m : ParenCount(s, m) = O("(", m) - O(")", m)
  BY DEF ParenCount, Occurrences
<1>2. /\ O("(", 0) = 0 /\ O("(", n) \in Nat
      /\ O("(", n + 1) = O("(", n) + Opens(s[n + 1])
  BY OccurrencesStep DEF Opens
<1>3. /\ O(")", 0) = 0 /\ O(")", n) \in Nat
      /\ O(")", n + 1) = O(")", n) + Closes(s[n + 1])
  BY OccurrencesStep DEF Closes
<1> HIDE DEF O
<1>4. Opens(s[n + 1]) \in Int /\ Closes(s[n + 1]) \in Int
  BY DEF Opens, Closes
<1> QED  BY <1>1, <1>2, <1>3, <1>4

\* Only the first n characters count.
LEMMA CountPrefix ==
  ASSUME NEW s, NEW v, NEW n \in Nat, \A i \in 1 .. n : s[i] = v[i]
  PROVE  ParenCount(s, n) = ParenCount(v, n)
<1>1. /\ {i \in 1 .. n : s[i] = "("} = {i \in 1 .. n : v[i] = "("}
      /\ {i \in 1 .. n : s[i] = ")"} = {i \in 1 .. n : v[i] = ")"}
  OBVIOUS
<1> QED  BY <1>1 DEF ParenCount

\* Where no parenthesis stands the count stays.
LEMMA CountStays ==
  ASSUME NEW s, NEW a \in Nat, NEW b \in Nat, a <= b,
         \A i \in a + 1 .. b : s[i] \notin {"(", ")"}
  PROVE  \A n \in a .. b : ParenCount(s, n) = ParenCount(s, a)
<1> DEFINE S == {n \in Nat : a + n <= b => ParenCount(s, a + n) = ParenCount(s, a)}
<1>1. 0 \in S
  OBVIOUS
<1>2. ASSUME NEW n \in Nat, n \in S  PROVE n + 1 \in S
  <2> SUFFICES ASSUME a + (n + 1) <= b  PROVE ParenCount(s, a + (n + 1)) = ParenCount(s, a)
    OBVIOUS
  <2>1. a + n \in Nat /\ a + (n + 1) = (a + n) + 1 /\ (a + n) + 1 \in a + 1 .. b
    OBVIOUS
  <2>2. ParenCount(s, a + n) = ParenCount(s, a)
    BY <1>2
  <2>3. Opens(s[(a + n) + 1]) = 0 /\ Closes(s[(a + n) + 1]) = 0
    BY <2>1 DEF Opens, Closes
  <2>4. PICK m \in Nat : m = a + n
    BY <2>1
  <2>5. /\ ParenCount(s, m) \in Int
        /\ ParenCount(s, m + 1) = ParenCount(s, m) + Opens(s[m + 1]) - Closes(s[m + 1])
    BY CountStep
  <2> QED  BY <2>1, <2>2, <2>3, <2>4, <2>5
<1> HIDE DEF S
<1>3. ASSUME NEW n \in a .. b  PROVE ParenCount(s, n) = ParenCount(s, a)
  <2>1. n - a \in Nat /\ a + (n - a) = n
    OBVIOUS
  <2>2. n - a \in S
    BY <1>1, <1>2, <2>1, NatSetInduction
  <2> QED  BY <2>1, <2>2 DEF S
<1> QED  BY <1>3

\* The same of tokens.
Kinds(tokens) == [i \in DOMAIN tokens |-> tokens[i].kind]

Depth(tokens, n) == ParenCount(Kinds(tokens), n)

LEMMA DepthStep ==
  ASSUME NEW tokens, Ended(tokens), NEW n \in 0 .. Len(tokens) - 1
  PROVE  /\ Depth(tokens, 0) = 0
         /\ Depth(tokens, n) \in Int
         /\ Depth(tokens, n + 1) \in Int
         /\ tokens[n + 1].kind = "(" => Depth(tokens, n + 1) = Depth(tokens, n) + 1
         /\ tokens[n + 1].kind = ")" => Depth(tokens, n + 1) = Depth(tokens, n) - 1
         /\ tokens[n + 1].kind \notin {"(", ")"} => Depth(tokens, n + 1) = Depth(tokens, n)
<1>1. Len(tokens) \in Nat /\ DOMAIN tokens = 1 .. Len(tokens)
  BY DEF Ended
<1>2. n \in Nat /\ n + 1 \in Nat /\ n + 1 \in DOMAIN tokens
  BY <1>1
<1>3. Kinds(tokens)[n + 1] = tokens[n + 1].kind
  BY <1>2 DEF Kinds
<1>4. /\ Depth(tokens, 0) = 0 /\ Depth(tokens, n) \in Int
      /\ Depth(tokens, n + 1) =
           Depth(tokens, n) + Opens(tokens[n + 1].kind) - Closes(tokens[n + 1].kind)
  BY <1>2, <1>3, CountStep DEF Depth
<1>5. Depth(tokens, n + 1) \in Int
  BY <1>2, CountStep DEF Depth
<1> QED  BY <1>4, <1>5 DEF Opens, Closes

\* From i to j parentheses are closed after they are opened, and all are.
Nested(tokens, i, j) ==
  /\ \A n \in i - 1 .. j : Depth(tokens, n) >= Depth(tokens, i - 1)
  /\ Depth(tokens, j) = Depth(tokens, i - 1)

\* In front of, behind and between nested tokens.
LEMMA NestedJoins ==
  ASSUME NEW tokens, Ended(tokens), NEW i \in 1 .. Len(tokens), NEW j \in i .. Len(tokens)
  PROVE  /\ (tokens[i].kind \notin {"(", ")"} /\ (i = j \/ Nested(tokens, i + 1, j)))
              => Nested(tokens, i, j)
         /\ (i < j /\ tokens[i].kind = "(" /\ tokens[j].kind = ")" /\ Nested(tokens, i + 1, j - 1))
              => Nested(tokens, i, j)
         /\ \A k \in i + 1 .. j - 1 :
              (tokens[k].kind \notin {"(", ")"}
                 /\ Nested(tokens, i, k - 1) /\ Nested(tokens, k + 1, j))
              => Nested(tokens, i, j)
<1> DEFINE N == Len(tokens)
           D(n) == Depth(tokens, n)
<1>1. N \in Nat
  BY DEF Ended
<1>2. ASSUME NEW n \in 1 .. N
      PROVE  /\ D(n) \in Int /\ D(n - 1) \in Int
             /\ tokens[n].kind = "(" => D(n) = D(n - 1) + 1
             /\ tokens[n].kind = ")" => D(n) = D(n - 1) - 1
             /\ tokens[n].kind \notin {"(", ")"} => D(n) = D(n - 1)
  <2>1. PICK m \in 0 .. N - 1 : m = n - 1
    BY <1>1
  <2>2. m + 1 = n
    BY <1>1, <2>1
  <2> QED  BY <2>1, <2>2, DepthStep
<1>3. i - 1 \in 0 .. N /\ j \in 1 .. N
  BY <1>1
<1>4. \A n \in 0 .. N : D(n) \in Int
  <2>1. ASSUME NEW n \in 0 .. N  PROVE D(n) \in Int
    <3>1. CASE n \in 1 .. N  BY <1>2, <3>1
    <3>2. CASE n = 0
      <4>1. D(1 - 1) \in Int
        BY <1>1, <1>2
      <4> QED  BY <3>2, <4>1
    <3> QED  BY <1>1, <3>1, <3>2
  <2> QED  BY <2>1
<1>5. \A a, b : Nested(tokens, a, b) <=> /\ \A n \in a - 1 .. b : D(n) >= D(a - 1)
                                         /\ D(b) = D(a - 1)
  BY DEF Nested
<1> HIDE DEF D
<1>6. ASSUME tokens[i].kind \notin {"(", ")"}, i = j \/ Nested(tokens, i + 1, j)
      PROVE  Nested(tokens, i, j)
  <2>1. D(i) = D(i - 1)
    BY <1>2, <1>3, <1>6
  <2>2. CASE i = j
    <3>1. \A n \in i - 1 .. j : n = i - 1 \/ n = i
      BY <2>2
    <3>2. \A n \in i - 1 .. j : D(n) >= D(i - 1)
      BY <1>3, <1>4, <2>1, <3>1
    <3> QED  BY <1>5, <2>1, <2>2, <3>2
  <2>3. CASE Nested(tokens, i + 1, j)
    <3>1. /\ \A n \in i .. j : D(n) >= D(i)
          /\ D(j) = D(i)
      BY <1>3, <1>5, <2>3
    <3>2. \A n \in i - 1 .. j : n = i - 1 \/ n \in i .. j
      OBVIOUS
    <3>3. \A n \in i - 1 .. j : D(n) >= D(i - 1)
      BY <1>3, <1>4, <2>1, <3>1, <3>2
    <3> QED  BY <1>5, <2>1, <3>1, <3>3
  <2> QED  BY <1>6, <2>2, <2>3
<1>7. ASSUME i < j, tokens[i].kind = "(", tokens[j].kind = ")", Nested(tokens, i + 1, j - 1)
      PROVE  Nested(tokens, i, j)
  <2>1. D(i) = D(i - 1) + 1 /\ D(j) = D(j - 1) - 1
    BY <1>2, <1>3, <1>7
  <2>2. /\ \A n \in i .. j - 1 : D(n) >= D(i)
        /\ D(j - 1) = D(i)
    BY <1>3, <1>5, <1>7
  <2>3. D(j) = D(i - 1)
    BY <1>3, <1>4, <2>1, <2>2
  <2>4. \A n \in i - 1 .. j : n = i - 1 \/ n = j \/ n \in i .. j - 1
    BY <1>1
  <2>5. i \in 0 .. N
    BY <1>1
  <2>6. D(i - 1) \in Int /\ D(i) \in Int /\ \A n \in i .. j - 1 : D(n) \in Int
    BY <1>1, <1>3, <1>4, <2>5
  <2>7. \A n \in i - 1 .. j : D(n) >= D(i - 1)
    BY <2>1, <2>2, <2>3, <2>4, <2>6
  <2> QED  BY <1>5, <2>3, <2>7
<1>8. ASSUME NEW k \in i + 1 .. j - 1, tokens[k].kind \notin {"(", ")"},
             Nested(tokens, i, k - 1), Nested(tokens, k + 1, j)
      PROVE  Nested(tokens, i, j)
  <2>1. k \in 1 .. N
    BY <1>1
  <2>2. D(k) = D(k - 1)
    BY <1>2, <1>8, <2>1
  <2>3. /\ \A n \in i - 1 .. k - 1 : D(n) >= D(i - 1)
        /\ D(k - 1) = D(i - 1)
    BY <1>5, <1>8
  <2>4. /\ \A n \in k .. j : D(n) >= D(k)
        /\ D(j) = D(k)
    BY <1>5, <1>8, <2>1
  <2>5. \A n \in i - 1 .. j : n \in i - 1 .. k - 1 \/ n \in k .. j
    BY <1>1
  <2>6. \A n \in i - 1 .. j : D(n) >= D(i - 1)
    BY <2>2, <2>3, <2>4, <2>5
  <2> QED  BY <1>5, <2>2, <2>3, <2>4, <2>6
<1> QED  BY <1>6, <1>7, <1>8

\* What has a tree is nested.
LEMMA TreesAreNested ==
  ASSUME NEW tokens, Ended(tokens), NEW n \in 0 .. Len(tokens)
  PROVE  \A p \in 1 .. 5, i \in 1 .. Len(tokens) + 1, j \in 0 .. Len(tokens) - 1 :
           \A t \in TreesTo(tokens)[n][<<p, i, j>>] : i <= j /\ Nested(tokens, i, j)
<1> DEFINE N == Len(tokens)
           P(k) == \A p \in 1 .. 5, i \in 1 .. N + 1, j \in 0 .. N - 1 :
                     \A t \in TreesTo(tokens)[k][<<p, i, j>>] : i <= j /\ Nested(tokens, i, j)
           S == {k \in Nat : k <= N => P(k)}
<1>1. N \in Nat
  BY DEF Ended
<1>2. 0 \in S
  <2>1. ASSUME NEW p \in 1 .. 5, NEW i \in 1 .. N + 1, NEW j \in 0 .. N - 1
        PROVE  TreesTo(tokens)[0][<<p, i, j>>] = {}
    <3>1. <<p, i, j>> \in Spans(tokens)
      BY <1>1 DEF Spans
    <3> QED  BY <1>1, <3>1, TreesToUnfolds
  <2> QED  BY <2>1
<1>3. ASSUME NEW k \in Nat, k \in S  PROVE k + 1 \in S
  <2> SUFFICES ASSUME k + 1 <= N  PROVE P(k + 1)
    OBVIOUS
  <2>1. P(k) /\ k + 1 \in 1 .. N /\ (k + 1) - 1 = k
    BY <1>1, <1>3
  <2> SUFFICES ASSUME NEW p \in 1 .. 5, NEW i \in 1 .. N + 1, NEW j \in 0 .. N - 1,
                      NEW t \in TreesTo(tokens)[k + 1][<<p, i, j>>]
               PROVE  i <= j /\ Nested(tokens, i, j)
    OBVIOUS
  <2> DEFINE T == TreesTo(tokens)[k]
  <2>2. /\ i <= j
        /\ \/ IsUnary(tokens, t, i, j, T)
           \/ \E q \in p .. 4, m \in i .. j : IsJoined(tokens, t, q, m, i, j, T)
    <3>1. j \in 0 .. N
      BY <1>1
    <3> QED  BY <1>1, <2>1, <3>1, TreesForms
  <2>3. i \in 1 .. N /\ j \in i .. N /\ j \in 0 .. N - 1
    BY <1>1, <2>2
  <2>4. ASSUME NEW q \in 1 .. 5, NEW a \in 1 .. N + 1, NEW b \in 0 .. N - 1,
               T[<<q, a, b>>] # {}
        PROVE  a <= b /\ Nested(tokens, a, b)
    BY <2>1, <2>4
  <2> HIDE DEF P, T
  <2>5. ASSUME NEW a \in 1 .. N, i < a, a < j, tokens[a].kind = "(", tokens[j].kind = ")",
               T[<<1, a + 1, j - 1>>] # {}
        PROVE  Nested(tokens, a, j)
    <3>1. /\ 1 \in 1 .. 5 /\ a + 1 \in 1 .. N + 1 /\ j - 1 \in 0 .. N - 1 /\ j \in a .. N
      BY <1>1, <2>3, <2>5
    <3>2. Nested(tokens, a + 1, j - 1)
      BY <2>4, <2>5, <3>1
    <3> QED  BY <2>5, <3>1, <3>2, NestedJoins
  <2>6. CASE tokens[i].kind \in {"Number", "Register"} /\ i = j
    BY <2>3, <2>6, NestedJoins
  <2>7. CASE tokens[i].kind \in {"-", "*"} /\ T[<<5, i + 1, j>>] # {}
    <3>1. 5 \in 1 .. 5 /\ i + 1 \in 1 .. N + 1
      BY <1>1, <2>3
    <3>2. Nested(tokens, i + 1, j)
      BY <2>4, <2>7, <3>1
    <3> QED  BY <2>2, <2>3, <2>7, <3>2, NestedJoins
  <2>8. CASE /\ tokens[i].kind = "(" /\ i < j /\ tokens[j].kind = ")"
             /\ T[<<1, i + 1, j - 1>>] # {}
    <3>1. /\ 1 \in 1 .. 5 /\ i + 1 \in 1 .. N + 1 /\ j - 1 \in 0 .. N - 1
      BY <1>1, <2>3, <2>8
    <3>2. Nested(tokens, i + 1, j - 1)
      BY <2>4, <2>8, <3>1
    <3> QED  BY <2>2, <2>3, <2>8, <3>2, NestedJoins
  <2>9. CASE /\ tokens[i].kind = "read8" /\ i + 1 < j /\ tokens[i + 1].kind = "("
             /\ tokens[j].kind = ")" /\ T[<<1, i + 2, j - 1>>] # {}
    <3>1. i + 1 \in 1 .. N /\ i < i + 1 /\ (i + 1) + 1 = i + 2
      BY <1>1, <2>3, <2>9
    <3>2. Nested(tokens, i + 1, j)
      <4>1. PICK a \in 1 .. N : a = i + 1
        BY <3>1
      <4>2. a + 1 = i + 2
        BY <3>1, <4>1
      <4>3. T[<<1, a + 1, j - 1>>] # {}
        BY <2>9, <4>2
      <4>4. Nested(tokens, a, j)
        BY <2>5, <2>9, <3>1, <4>1, <4>3
      <4> QED  BY <4>1, <4>4
    <3> QED  BY <2>2, <2>3, <2>9, <3>2, NestedJoins
  <2>10. ASSUME NEW q \in p .. 4, NEW m \in i .. j, IsJoined(tokens, t, q, m, i, j, T)
         PROVE  Nested(tokens, i, j)
    <3>1. /\ q \in 1 .. 5 /\ q + 1 \in 1 .. 5 /\ m - 1 \in 0 .. N - 1 /\ m + 1 \in 1 .. N + 1
      BY <1>1, <2>3
    <3>2. /\ Precedence(tokens[m]) = q
          /\ T[<<q, i, m - 1>>] # {} /\ T[<<q + 1, m + 1, j>>] # {}
      BY <2>10 DEF IsJoined
    <3>3. i <= m - 1 /\ Nested(tokens, i, m - 1)
      BY <2>4, <3>1, <3>2
    <3>4. m + 1 <= j /\ Nested(tokens, m + 1, j)
      BY <2>4, <3>1, <3>2
    <3>5. tokens[m].kind \notin {"(", ")"}
      <4>1. q # 0
        OBVIOUS
      <4> QED  BY <3>2, <4>1 DEF Precedence
    <3>6. m \in i + 1 .. j - 1
      BY <1>1, <2>3, <3>3, <3>4
    <3> QED  BY <2>3, <3>3, <3>4, <3>5, <3>6, NestedJoins
  <2>11. CASE IsUnary(tokens, t, i, j, T)
    <3>1. \/ tokens[i].kind \in {"Number", "Register"} /\ i = j
          \/ tokens[i].kind \in {"-", "*"} /\ T[<<5, i + 1, j>>] # {}
          \/ /\ tokens[i].kind = "(" /\ i < j /\ tokens[j].kind = ")"
             /\ T[<<1, i + 1, j - 1>>] # {}
          \/ /\ tokens[i].kind = "read8" /\ i + 1 < j /\ tokens[i + 1].kind = "("
             /\ tokens[j].kind = ")" /\ T[<<1, i + 2, j - 1>>] # {}
      BY <2>11 DEF IsUnary
    <3> QED  BY <2>2, <2>6, <2>7, <2>8, <2>9, <3>1
  <2> QED  BY <2>2, <2>10, <2>11
<1> HIDE DEF S
<1>4. n \in S
  BY <1>2, <1>3, NatSetInduction
<1> QED  BY <1>4 DEF S

-----------------------------------------------------------------------------
(* What the lexer does with a text. *)

LEMMA ScanTurnsUnfold ==
  ASSUME NEW text, Len(text) \in Nat
  PROVE  /\ ScanTurns(text)[0] = Scanning(<<>>, 1)
         /\ \A n \in 1 .. Len(text) + 1 :
              ScanTurns(text)[n] = ScanTurn(text, ScanTurns(text)[n - 1])
<1> DEFINE N == Len(text) + 1
           Step(n, t) == IF n = 0 THEN Scanning(<<>>, 1) ELSE ScanTurn(text, t)
           IsChain(k, h) == h = [n \in 0 .. k |-> Step(n, h[n - 1])]
           S == {k \in Nat : \E h : IsChain(k, h)}
           turn == ScanTurns(text)
<1>1. turn = CHOOSE h : IsChain(N, h)
  BY DEF ScanTurns
<1>2. \A s, t : Step(0, s) = Step(0, t)
  OBVIOUS
<1>3. /\ \A t : Step(0, t) = Scanning(<<>>, 1)
      /\ \A n, t : n # 0 => Step(n, t) = ScanTurn(text, t)
  OBVIOUS
<1> HIDE DEF turn
<1> HIDE DEF Step
<1>4. 0 \in S
  <2> DEFINE h == [n \in 0 .. 0 |-> Step(0, 0)]
  <2>1. IsChain(0, h)
    BY <1>2
  <2> HIDE DEF h
  <2> QED  BY <2>1
<1>5. ASSUME NEW k \in Nat, k \in S  PROVE k + 1 \in S
  <2>1. PICK g : IsChain(k, g)
    BY <1>5
  <2> DEFINE h == [n \in 0 .. k + 1 |-> IF n <= k THEN g[n] ELSE Step(k + 1, g[k])]
  <2>2. ASSUME NEW n \in 0 .. k + 1  PROVE h[n] = Step(n, h[n - 1])
    <3>1. CASE n = 0            BY <1>2, <2>1, <3>1
    <3>2. CASE n \in 1 .. k     BY <2>1, <3>2
    <3>3. CASE n = k + 1        BY <3>3
    <3> QED  BY <3>1, <3>2, <3>3
  <2>3. h = [n \in 0 .. k + 1 |-> h[n]]
    OBVIOUS
  <2> HIDE DEF h
  <2>4. IsChain(k + 1, h)
    BY <2>2, <2>3
  <2> HIDE DEF IsChain
  <2> QED  BY <2>4
<1> HIDE DEF S
<1>6. N \in S
  <2>1. N \in Nat
    OBVIOUS
  <2> QED  BY <1>4, <1>5, <2>1, NatSetInduction
<1>7. IsChain(N, turn)
  <2> HIDE DEF IsChain
  <2> QED  BY <1>1, <1>6 DEF S
<1>8. /\ turn[0] = Step(0, turn[0 - 1])
      /\ \A n \in 1 .. N : turn[n] = Step(n, turn[n - 1])
  BY <1>7
<1> HIDE DEF IsChain
<1>9. \A n \in 1 .. N : n # 0
  OBVIOUS
<1> QED  BY <1>3, <1>8, <1>9 DEF turn

IsRunEnd(text, start, set, j) ==
  /\ \A k \in start .. j - 1 : text[k] \in set
  /\ j > Len(text) \/ text[j] \notin set

LEMMA RunEnds ==
  ASSUME NEW text, Len(text) \in Nat, NEW start \in 1 .. Len(text) + 1, NEW set
  PROVE  /\ EndOfRun(text, start, set) \in start .. Len(text) + 1
         /\ IsRunEnd(text, start, set, EndOfRun(text, start, set))
<1> DEFINE N == Len(text)
           Ends(j) == IsRunEnd(text, start, set, j)
<1>1. \E j \in start .. N + 1 : Ends(j)
  <2> SUFFICES ASSUME \A j \in start .. N + 1 : ~ Ends(j)  PROVE FALSE
    OBVIOUS
  <2> DEFINE S == {n \in Nat : start + n <= N + 1 =>
                                 \A k \in start .. start + n - 1 : text[k] \in set}
  <2>1. 0 \in S
    OBVIOUS
  <2>2. ASSUME NEW n \in Nat, n \in S  PROVE n + 1 \in S
    <3> SUFFICES ASSUME start + (n + 1) <= N + 1, NEW k \in start .. start + (n + 1) - 1
                 PROVE  text[k] \in set
      OBVIOUS
    <3>1. start + n \in start .. N + 1
      OBVIOUS
    <3>2. \A m \in start .. start + n - 1 : text[m] \in set
      BY <2>2
    <3>3. text[start + n] \in set
      BY <3>1, <3>2 DEF IsRunEnd
    <3>4. k = start + n \/ k \in start .. start + n - 1
      OBVIOUS
    <3> QED  BY <3>2, <3>3, <3>4
  <2> HIDE DEF S
  <2>3. N + 1 - start \in S
    <3>1. N + 1 - start \in Nat
      OBVIOUS
    <3> QED  BY <2>1, <2>2, <3>1, NatSetInduction
  <2>4. \A k \in start .. (N + 1) - 1 : text[k] \in set
    <3>1. start + (N + 1 - start) = N + 1
      OBVIOUS
    <3> QED  BY <2>3, <3>1 DEF S
  <2>5. Ends(N + 1)
    BY <2>4 DEF IsRunEnd
  <2> QED  BY <2>5
<1>2. EndOfRun(text, start, set) = CHOOSE j \in start .. N + 1 : Ends(j)
  BY DEF EndOfRun, IsRunEnd
<1> HIDE DEF Ends
<1>3. EndOfRun(text, start, set) \in start .. N + 1 /\ Ends(EndOfRun(text, start, set))
  BY <1>1, <1>2
<1> QED  BY <1>3 DEF Ends

LEMMA NoParenthesis ==
  \A c \in {"(", ")"} : c \notin Space \cup Digit \cup HexDigit \cup NameHead \cup NameTail
<1> SUFFICES ASSUME NEW c \in {"(", ")"}
             PROVE  c \notin Space \cup Digit \cup HexDigit \cup NameHead \cup NameTail
  OBVIOUS
<1>1. c \notin Digit
  BY DEF Digit, LowerDigits
<1>2. c \notin Letters
  BY LexerAssumption
<1>3. c \notin HexDigit
  BY <1>1, <1>2, LexerAssumption
<1>4. c \notin Space
  BY DEF Space
<1> QED  BY <1>1, <1>2, <1>3, <1>4 DEF NameHead, NameTail

\* The characters a token takes: a parenthesis is a token of its own.
Consumes(text, start, t) ==
  t.ok =>
    /\ t.next \in start .. Len(text) + 1
    /\ \A k \in start .. t.next - 1 :
         text[k] \in {"(", ")"} => k = t.next - 1 /\ t.token.kind = text[k]
    /\ t.token.kind \in {"(", ")"} => t.next > start /\ text[t.next - 1] = t.token.kind
    /\ t.token.kind = "EndOfInput" => t.next = Len(text) + 1
    /\ t.token.kind # "EndOfInput" => t.next > start

LEMMA ScannedFields ==
  ASSUME NEW token, NEW next
  PROVE  /\ Scanned(token, next).ok /\ Scanned(token, next).token = token
         /\ Scanned(token, next).next = next /\ ~ Error.ok
BY DEF Scanned, Error

\* Tokens without parentheses.
LEMMA PlainToken ==
  ASSUME NEW text, Len(text) \in Nat, NEW start \in 1 .. Len(text) + 1, NEW token,
         token.kind \notin {"(", ")", "EndOfInput"}, NEW next \in start + 1 .. Len(text) + 1,
         \A k \in start .. next - 1 : text[k] \notin {"(", ")"}
  PROVE  Consumes(text, start, Scanned(token, next))
<1> DEFINE t == Scanned(token, next)
<1>1. t.token = token /\ t.next = next
  BY ScannedFields
<1> HIDE DEF t
<1>2. next \in start .. Len(text) + 1 /\ next > start
  OBVIOUS
<1> QED  BY <1>1, <1>2 DEF Consumes, t

LEMMA NumeralIsPlain ==
  ASSUME NEW digits, NEW base, NEW next
  PROVE  \/ Numeral(digits, base, next) = Error
         \/ \E v : Numeral(digits, base, next) = Scanned(NumberToken(v), next)
BY DEF Numeral

LEMMA NextTokenConsumes ==
  ASSUME NEW text, Len(text) \in Nat, NEW start \in 1 .. Len(text) + 1
  PROVE  Consumes(text, start, NextToken(text, start))
<1> DEFINE N == Len(text)
           i == EndOfRun(text, start, Space)
           t == NextToken(text, start)
           Plain(a, b) == \A k \in a .. b - 1 : text[k] \notin {"(", ")"}
<1>1. i \in start .. N + 1 /\ Plain(start, i)
  BY RunEnds, NoParenthesis DEF IsRunEnd
<1>2. /\ i > N => t = Scanned(EndOfInput, i)
      /\ i <= N => \/ t = ScanHexNumber(text, i) /\ i < N /\ text[i] = "0" /\ text[i + 1] \in {"x", "X"}
                   \/ t = ScanNumber(text, i) /\ text[i] \in Digit
                   \/ t = ScanRegister(text, i) /\ text[i] \in NameHead
                   \/ t = ScanOperator(text, i)
  BY <1>1 DEF NextToken
<1>3. \A v : NumberToken(v).kind = "Number"
  BY DEF NumberToken
<1>4. \A kind : Token(kind).kind = kind
  BY DEF Token
<1> HIDE DEF i, t
<1>5. ~ Error.ok
  BY DEF Error
<1>6. CASE t = Error
  BY <1>5, <1>6 DEF Consumes, t
<1>7. CASE i > N
  <2>1. t.token = EndOfInput /\ t.next = i /\ i = N + 1
    BY <1>1, <1>2, <1>7, ScannedFields
  <2>2. EndOfInput.kind = "EndOfInput"
    BY <1>4 DEF EndOfInput
  <2> QED  BY <1>1, <2>1, <2>2 DEF Consumes, t
<1>8. CASE i <= N /\ t = ScanHexNumber(text, i) /\ i < N /\ text[i] = "0" /\ text[i + 1] \in {"x", "X"}
  <2> DEFINE j == EndOfRun(text, i + 2, HexDigit)
  <2>1. i + 2 \in 1 .. N + 1
    BY <1>1, <1>8
  <2>2. j \in i + 2 .. N + 1 /\ Plain(i + 2, j)
    BY <2>1, RunEnds, NoParenthesis DEF IsRunEnd
  <2>3. t = Error \/ \E v : t = Scanned(NumberToken(v), j)
    BY <1>8, NumeralIsPlain DEF ScanHexNumber
  <2> HIDE DEF j
  <2>4. j \in start + 1 .. N + 1
    BY <1>1, <2>2
  <2>5. Plain(start, j)
    <3>1. text[i] \notin {"(", ")"} /\ text[i + 1] \notin {"(", ")"}
      BY <1>8
    <3>2. \A k \in start .. j - 1 :
            k \in start .. i - 1 \/ k = i \/ k = i + 1 \/ k \in i + 2 .. j - 1
      BY <1>1, <2>2
    <3> QED  BY <1>1, <2>2, <3>1, <3>2
  <2> QED  BY <1>3, <1>6, <2>3, <2>4, <2>5, PlainToken DEF t
<1>9. CASE i <= N /\ t = ScanNumber(text, i) /\ text[i] \in Digit
  <2> DEFINE j == EndOfRun(text, i, Digit)
  <2>1. i \in 1 .. N + 1
    BY <1>1
  <2>2. j \in i .. N + 1 /\ Plain(i, j) /\ IsRunEnd(text, i, Digit, j)
    BY <2>1, RunEnds, NoParenthesis DEF IsRunEnd
  <2>3. t = Error \/ \E v : t = Scanned(NumberToken(v), j)
    BY <1>9, NumeralIsPlain DEF ScanNumber
  <2> HIDE DEF j
  <2>4. j # i
    BY <1>9, <2>2 DEF IsRunEnd
  <2>5. j \in start + 1 .. N + 1
    BY <1>1, <2>2, <2>4
  <2>6. Plain(start, j)
    <3>1. \A k \in start .. j - 1 : k \in start .. i - 1 \/ k \in i .. j - 1
      BY <1>1, <2>2
    <3> QED  BY <1>1, <2>2, <3>1
  <2> QED  BY <1>3, <1>6, <2>3, <2>5, <2>6, PlainToken DEF t
<1>10. CASE i <= N /\ t = ScanRegister(text, i) /\ text[i] \in NameHead
  <2> DEFINE head == IF text[i] = "$" THEN i + 1 ELSE i
             j == EndOfRun(text, head, NameTail)
             name == Sequence!FoldLeft(LAMBDA s, c : s \o c, "", SubSeq(text, i, j - 1))
  <2>1. head \in 1 .. N + 1 /\ head \in i .. i + 1
    BY <1>1, <1>10
  <2>2. j \in head .. N + 1 /\ Plain(head, j)
    BY <2>1, RunEnds, NoParenthesis DEF IsRunEnd
  <2>3. t = IF j = head THEN Error
            ELSE Scanned(IF name = "read8" THEN Token(name) ELSE RegisterToken(name), j)
    BY <1>10 DEF ScanRegister
  <2> DEFINE token == IF name = "read8" THEN Token(name) ELSE RegisterToken(name)
  <2>4. token.kind \in {"read8", "Register"}
    <3> HIDE DEF name
    <3>1. RegisterToken(name).kind = "Register"
      BY DEF RegisterToken
    <3> QED  BY <1>4, <3>1
  <2> HIDE DEF name, token, j
  <2>5. CASE j = head
    BY <1>6, <2>3, <2>5
  <2>6. CASE j # head
    <3>1. t = Scanned(token, j)
      BY <2>3, <2>6 DEF token
    <3>2. j \in start + 1 .. N + 1
      BY <1>1, <2>1, <2>2, <2>6
    <3>3. Plain(start, j)
      <4>1. text[i] \notin {"(", ")"}
        BY <1>10, NoParenthesis
      <4>2. \A k \in start .. j - 1 : k \in start .. i - 1 \/ k = i \/ k \in head .. j - 1
        BY <1>1, <2>1, <2>2
      <4> QED  BY <1>1, <2>2, <4>1, <4>2
    <3>4. token.kind \notin {"(", ")", "EndOfInput"}
      BY <2>4
    <3> QED  BY <3>1, <3>2, <3>3, <3>4, PlainToken DEF t
  <2> QED  BY <2>5, <2>6
<1>11. CASE i <= N /\ t = ScanOperator(text, i)
  <2>1. CASE text[i] \in {"(", ")", "+", "-", "*", "/"}
    <3>1. t = Scanned(Token(text[i]), i + 1)
      BY <1>11, <2>1 DEF ScanOperator
    <3>2. t.token.kind = text[i] /\ t.next = i + 1
      BY <1>4, <3>1, ScannedFields
    <3>3. \A k \in start .. (i + 1) - 1 : k \in start .. i - 1 \/ k = i
      BY <1>1
    <3>4. i + 1 \in start .. N + 1 /\ (i + 1) - 1 = i /\ i + 1 > start
      BY <1>1, <1>11
    <3> QED  BY <1>1, <2>1, <3>2, <3>3, <3>4 DEF Consumes, t
  <2>2. ASSUME NEW kind \in {"==", "!=", "<=", "&&"}, t = Scanned(Token(kind), i + 2), i < N,
               text[i] \notin {"(", ")"}, text[i + 1] \notin {"(", ")"}
        PROVE  Consumes(text, start, NextToken(text, start))
    <3>1. i + 2 \in start + 1 .. N + 1
      BY <1>1, <2>2
    <3>2. \A k \in start .. (i + 2) - 1 : k \in start .. i - 1 \/ k = i \/ k = i + 1
      BY <1>1
    <3>3. Plain(start, i + 2)
      BY <1>1, <2>2, <3>2
    <3>4. Token(kind).kind \notin {"(", ")", "EndOfInput"}
      BY <1>4
    <3> QED  BY <2>2, <3>1, <3>3, <3>4, PlainToken DEF t
  <2>3. CASE text[i] \notin {"(", ")", "+", "-", "*", "/"}
    <3>1. \/ t = Error
          \/ /\ i < N /\ text[i] \in {"=", "!", "<"} /\ text[i + 1] = "="
             /\ \E kind \in {"==", "!=", "<="} : t = Scanned(Token(kind), i + 2)
          \/ i < N /\ text[i] = "&" /\ text[i + 1] = "&" /\ t = Scanned(Token("&&"), i + 2)
      <4>1. CASE text[i] = "="  BY <1>11, <4>1 DEF ScanOperator
      <4>2. CASE text[i] = "!"  BY <1>11, <4>2 DEF ScanOperator
      <4>3. CASE text[i] = "<"  BY <1>11, <4>3 DEF ScanOperator
      <4>4. CASE text[i] = "&"  BY <1>11, <4>4 DEF ScanOperator
      <4>5. CASE text[i] \notin {"=", "!", "<", "&"}
        BY <1>11, <2>3, <4>5 DEF ScanOperator
      <4> QED  BY <4>1, <4>2, <4>3, <4>4, <4>5
    <3> QED  BY <1>6, <2>2, <3>1
  <2> QED  BY <2>1, <2>3
<1> QED  BY <1>1, <1>2, <1>7, <1>8, <1>9, <1>10, <1>11

LEMMA AppendDepth ==
  ASSUME NEW S, NEW tokens \in Seq(S), NEW x
  PROVE  /\ \A k \in 0 .. Len(tokens) : Depth(Append(tokens, x), k) = Depth(tokens, k)
         /\ Depth(Append(tokens, x), Len(tokens) + 1) =
              Depth(tokens, Len(tokens)) + Opens(x.kind) - Closes(x.kind)
<1> DEFINE a == Append(tokens, x)
           m == Len(tokens)
<1>1. m \in Nat /\ DOMAIN tokens = 1 .. m
  OBVIOUS
<1>2. tokens \in Seq(S \cup {x}) /\ x \in S \cup {x}
  OBVIOUS
<1>3. DOMAIN a = 1 .. m + 1 /\ (\A i \in 1 .. m : a[i] = tokens[i]) /\ a[m + 1] = x
  BY <1>1, <1>2
<1> HIDE DEF a, m
<1>4. ASSUME NEW k \in 0 .. m  PROVE Depth(a, k) = Depth(tokens, k)
  <2>1. \A i \in 1 .. k : i \in DOMAIN tokens /\ i \in DOMAIN a /\ a[i] = tokens[i]
    BY <1>1, <1>3
  <2>2. \A i \in 1 .. k : Kinds(a)[i] = Kinds(tokens)[i]
    BY <2>1 DEF Kinds
  <2>3. k \in Nat
    BY <1>1
  <2> QED  BY <2>2, <2>3, CountPrefix DEF Depth
<1>5. Kinds(a)[m + 1] = x.kind
  <2>1. m + 1 \in DOMAIN a
    BY <1>1, <1>3
  <2> QED  BY <1>3, <2>1 DEF Kinds
<1>6. Depth(a, m + 1) = Depth(a, m) + Opens(x.kind) - Closes(x.kind)
  BY <1>1, <1>5, CountStep DEF Depth
<1>7. Depth(a, m) = Depth(tokens, m)
  BY <1>1, <1>4
<1> QED  BY <1>4, <1>6, <1>7 DEF a, m

\* As deep in parentheses as the tokens are the characters they are made of.
Covers(text, tokens, next) ==
  /\ \A c \in 0 .. next - 1 : \E k \in 0 .. Len(tokens) : ParenCount(text, c) = Depth(tokens, k)
  /\ ParenCount(text, next - 1) = Depth(tokens, Len(tokens))

LEMMA CoversMore ==
  ASSUME NEW text, Len(text) \in Nat, NEW start \in 1 .. Len(text) + 1,
         NEW S, NEW tokens \in Seq(S), Covers(text, tokens, start),
         NEW t, t.ok, Consumes(text, start, t)
  PROVE  Covers(text, Append(tokens, t.token), t.next)
<1> DEFINE a == Append(tokens, t.token)
           m == Len(tokens)
           next == t.next
           x == t.token
<1>1. m \in Nat /\ Len(a) = m + 1
  BY tokens \in Seq(S \cup {x}), x \in S \cup {x}
<1>2. /\ next \in start .. Len(text) + 1
      /\ \A k \in start .. next - 1 : text[k] \in {"(", ")"} => k = next - 1 /\ x.kind = text[k]
      /\ x.kind \in {"(", ")"} => next > start /\ text[next - 1] = x.kind
  BY DEF Consumes
<1>3. /\ \A k \in 0 .. m : Depth(a, k) = Depth(tokens, k)
      /\ Depth(a, m + 1) = Depth(tokens, m) + Opens(x.kind) - Closes(x.kind)
  BY AppendDepth
<1>4. ParenCount(text, start - 1) = Depth(tokens, m)
  BY DEF Covers
<1>5. \A c \in 0 .. start - 1 : \E k \in 0 .. m : ParenCount(text, c) = Depth(tokens, k)
  BY DEF Covers
<1> HIDE DEF a, m, next, x
<1>6. start \in Nat \ {0} /\ next \in Nat /\ next >= start
  BY <1>2
<1>7. CASE next = start
  <2>1. x.kind \notin {"(", ")"}
    BY <1>2, <1>6, <1>7
  <2>2. Opens(x.kind) = 0 /\ Closes(x.kind) = 0
    BY <2>1 DEF Opens, Closes
  <2>3. Depth(tokens, m) \in Int
    BY <1>1, CountStep DEF Depth
  <2>4. Depth(a, m + 1) = Depth(tokens, m)
    BY <1>3, <2>2, <2>3
  <2>5. \A c \in 0 .. next - 1 : \E k \in 0 .. Len(a) : ParenCount(text, c) = Depth(a, k)
    <3> TAKE c \in 0 .. next - 1
    <3>1. PICK k \in 0 .. m : ParenCount(text, c) = Depth(tokens, k)
      BY <1>5, <1>7
    <3>2. k \in 0 .. Len(a)
      BY <1>1
    <3> QED  BY <1>3, <3>1, <3>2
  <2> QED  BY <1>1, <1>4, <1>7, <2>4, <2>5 DEF Covers, a, next, x
<1>8. CASE next > start
  <2>1. start - 1 \in Nat /\ next - 2 \in Nat /\ start - 1 <= next - 2
    BY <1>6, <1>8
  <2>2. \A k \in (start - 1) + 1 .. next - 2 : text[k] \notin {"(", ")"}
    BY <1>2, <1>6
  <2>3. \A c \in start - 1 .. next - 2 : ParenCount(text, c) = ParenCount(text, start - 1)
    BY <2>1, <2>2, CountStays
  <2>4. ParenCount(text, next - 2) = Depth(tokens, m)
    BY <1>4, <2>1, <2>3
  <2>5. PICK e \in Nat : e = next - 2
    BY <2>1
  <2>6. e + 1 = next - 1 /\ next - 1 \in start .. next - 1
    BY <1>6, <1>8, <2>5
  <2>7. ParenCount(text, e + 1) =
          ParenCount(text, e) + Opens(text[e + 1]) - Closes(text[e + 1])
    BY CountStep
  <2>8. Opens(text[next - 1]) = Opens(x.kind) /\ Closes(text[next - 1]) = Closes(x.kind)
    BY <1>2, <2>6 DEF Opens, Closes
  <2>9. ParenCount(text, next - 1) = Depth(a, m + 1)
    BY <1>3, <2>4, <2>5, <2>6, <2>7, <2>8
  <2>10. ASSUME NEW c \in 0 .. next - 1
         PROVE  \E k \in 0 .. Len(a) : ParenCount(text, c) = Depth(a, k)
    <3>1. CASE c \in 0 .. start - 1
      <4>1. PICK k \in 0 .. m : ParenCount(text, c) = Depth(tokens, k)
        BY <1>5, <3>1
      <4>2. k \in 0 .. Len(a)
        BY <1>1
      <4> QED  BY <1>3, <4>1, <4>2
    <3>2. CASE c \in start - 1 .. next - 2
      <4>1. m \in 0 .. m /\ m \in 0 .. Len(a)
        BY <1>1
      <4> QED  BY <1>3, <1>4, <2>3, <3>2, <4>1
    <3>3. CASE c = next - 1
      <4>1. m + 1 \in 0 .. Len(a)
        BY <1>1
      <4> QED  BY <2>9, <3>3, <4>1
    <3> QED  BY <1>6, <1>8, <3>1, <3>2, <3>3
  <2> QED  BY <1>1, <2>9, <2>10 DEF Covers, a, next, x
<1> QED  BY <1>6, <1>7, <1>8

\* What ScanAll has read after n turns of its loop.
Finished(s) == s.tokens # <<>> /\ s.tokens[Len(s.tokens)].kind = "EndOfInput"

HasRead(text, s, n) ==
  s.ok =>
    /\ \E S : s.tokens \in Seq(S)
    /\ s.next \in 1 .. Len(text) + 1
    /\ Len(s.tokens) <= n
    /\ \A i \in 1 .. Len(s.tokens) - 1 : s.tokens[i].kind # "EndOfInput"
    /\ Finished(s) => s.next = Len(text) + 1
    /\ Finished(s) \/ s.next > n
    /\ Covers(text, s.tokens, s.next)

LEMMA TurnReads ==
  ASSUME NEW text, Len(text) \in Nat, NEW n \in Nat, NEW s, HasRead(text, s, n)
  PROVE  HasRead(text, ScanTurn(text, s), n + 1)
<1> DEFINE r == ScanTurn(text, s)
           t == NextToken(text, s.next)
<1>1. CASE ~ s.ok
  <2>1. r = s
    BY <1>1 DEF ScanTurn
  <2> QED  BY <1>1, <2>1 DEF HasRead
<1>2. CASE s.ok
  <2>1. PICK S : s.tokens \in Seq(S)
    BY <1>2 DEF HasRead
  <2>2. /\ s.next \in 1 .. Len(text) + 1 /\ Len(s.tokens) <= n /\ Len(s.tokens) \in Nat
        /\ Covers(text, s.tokens, s.next)
    BY <1>2, <2>1 DEF HasRead
  <2>3. CASE Finished(s)
    <3>1. r = s
      BY <1>2, <2>3 DEF ScanTurn, Finished
    <3> QED  BY <2>2, <2>3, <3>1 DEF HasRead
  <2>4. CASE ~ Finished(s) /\ ~ t.ok
    <3>1. r = Error
      BY <1>2, <2>4 DEF ScanTurn, Finished
    <3> QED  BY <3>1, ScannedFields DEF HasRead
  <2>5. CASE ~ Finished(s) /\ t.ok
    <3> DEFINE a == Append(s.tokens, t.token)
               m == Len(s.tokens)
    <3>1. r = Scanning(a, t.next)
      BY <1>2, <2>5 DEF ScanTurn, Finished
    <3>2. r.ok /\ r.tokens = a /\ r.next = t.next
      BY <3>1 DEF Scanning
    <3>3. Consumes(text, s.next, t)
      BY <2>2, NextTokenConsumes
    <3>4. /\ t.next \in s.next .. Len(text) + 1
          /\ t.token.kind = "EndOfInput" => t.next = Len(text) + 1
          /\ t.token.kind # "EndOfInput" => t.next > s.next
      BY <2>5, <3>3 DEF Consumes
    <3>5. Covers(text, a, t.next)
      BY <2>1, <2>2, <2>5, <3>3, CoversMore
    <3> HIDE DEF t, r
    <3>6. /\ a \in Seq(S \cup {t.token}) /\ Len(a) = m + 1 /\ a[m + 1] = t.token
          /\ \A i \in 1 .. m : a[i] = s.tokens[i]
      BY <2>1, s.tokens \in Seq(S \cup {t.token}), t.token \in S \cup {t.token}
    <3>7. s.next > n
      BY <1>2, <2>5 DEF HasRead
    <3>8. \A i \in 1 .. m : s.tokens[i].kind # "EndOfInput"
      <4> TAKE i \in 1 .. m
      <4>1. CASE i = m
        <5>1. s.tokens # <<>>
          BY <2>1, <4>1
        <5> QED  BY <2>5, <4>1, <5>1 DEF Finished
      <4>2. CASE i # m
        <5>1. i \in 1 .. m - 1
          BY <2>2, <4>2
        <5> QED  BY <1>2, <5>1 DEF HasRead
      <4> QED  BY <4>1, <4>2
    <3> HIDE DEF a
    <3>9. \A i \in 1 .. Len(a) - 1 : a[i].kind # "EndOfInput"
      BY <2>2, <3>6, <3>8
    <3>10. a # <<>>
      BY <2>2, <3>6
    <3>11. Finished(r) <=> t.token.kind = "EndOfInput"
      BY <3>2, <3>6, <3>10 DEF Finished
    <3>12. Finished(r) \/ t.next > n + 1
      BY <2>2, <3>4, <3>7, <3>11
    <3>13. r.next \in 1 .. Len(text) + 1
      BY <2>2, <3>2, <3>4
    <3>14. Len(a) <= n + 1
      BY <2>2, <3>6
    <3> QED  BY <3>2, <3>4, <3>5, <3>6, <3>9, <3>11, <3>12, <3>13, <3>14 DEF HasRead, r
  <2> QED  BY <2>3, <2>4, <2>5
<1> QED  BY <1>1, <1>2

LEMMA ScanAllReads ==
  ASSUME NEW text, Len(text) \in Nat, ScanAll(text).ok
  PROVE  /\ Ended(ScanAll(text).tokens)
         /\ Len(ScanAll(text).tokens) <= Len(text) + 1
         /\ Covers(text, ScanAll(text).tokens, Len(text) + 1)
<1> DEFINE N == Len(text) + 1
           turn == ScanTurns(text)
           S == {n \in Nat : n <= N => HasRead(text, turn[n], n)}
<1>1. 0 \in S
  <2> DEFINE s == Scanning(<<>>, 1)
  <2>1. turn[0] = s
    BY ScanTurnsUnfold
  <2>2. s.ok /\ s.tokens = <<>> /\ s.next = 1
    BY DEF Scanning
  <2>3. ParenCount(text, 0) = 0 /\ Depth(<<>>, 0) = 0
    BY CountStep DEF Depth
  <2>4. Covers(text, <<>>, 1)
    <3>1. 1 - 1 = 0 /\ (0 .. 1 - 1) = {0} /\ 0 \in 0 .. 0
      OBVIOUS
    <3>2. Len(<<>>) = 0
      OBVIOUS
    <3> QED  BY <2>3, <3>1, <3>2 DEF Covers
  <2>5. ~ Finished(s)
    BY <2>2 DEF Finished
  <2>6. <<>> \in Seq({}) /\ Len(<<>>) = 0
    OBVIOUS
  <2> HIDE DEF s
  <2>7. HasRead(text, s, 0)
    BY <2>2, <2>4, <2>5, <2>6 DEF HasRead
  <2> QED  BY <2>1, <2>7
<1>2. ASSUME NEW n \in Nat, n \in S  PROVE n + 1 \in S
  <2> SUFFICES ASSUME n + 1 <= N  PROVE HasRead(text, turn[n + 1], n + 1)
    OBVIOUS
  <2>1. n + 1 \in 1 .. N /\ (n + 1) - 1 = n
    OBVIOUS
  <2>2. turn[n + 1] = ScanTurn(text, turn[n])
    BY <2>1, ScanTurnsUnfold
  <2>3. HasRead(text, turn[n], n)
    BY <1>2
  <2> QED  BY <2>2, <2>3, TurnReads
<1> HIDE DEF S
<1>3. N \in Nat
  OBVIOUS
<1>4. N \in S
  BY <1>1, <1>2, <1>3, NatSetInduction
<1> DEFINE s == turn[N]
           tokens == s.tokens
<1>5. HasRead(text, s, N)
  BY <1>3, <1>4 DEF S
<1>6. s.ok /\ ScanAll(text).tokens = tokens
  <2> HIDE DEF turn
  <2>1. ~ Error.ok
    BY DEF Error
  <2>2. ScanAll(text) = IF s.ok THEN [ok |-> TRUE, tokens |-> tokens] ELSE Error
    BY DEF ScanAll, turn
  <2> QED  BY <2>1, <2>2
<1> HIDE DEF s
<1>7. /\ \E A : tokens \in Seq(A)
      /\ s.next \in 1 .. N /\ Len(tokens) <= N
      /\ \A i \in 1 .. Len(tokens) - 1 : tokens[i].kind # "EndOfInput"
      /\ Finished(s) => s.next = N
      /\ Finished(s) \/ s.next > N
      /\ Covers(text, tokens, s.next)
  BY <1>5, <1>6 DEF HasRead
<1>8. Finished(s) /\ s.next = N
  BY <1>7
<1>9. PICK A : tokens \in Seq(A)
  BY <1>7
<1>10. /\ Len(tokens) \in Nat \ {0} /\ DOMAIN tokens = 1 .. Len(tokens)
       /\ tokens[Len(tokens)].kind = "EndOfInput"
  BY <1>8, <1>9 DEF Finished
<1>11. Ended(tokens)
  BY <1>7, <1>10 DEF Ended
<1> QED  BY <1>6, <1>7, <1>8, <1>11

(***************************************************************************)
(* SDBValidateExpressionSyntax, which p and w ask before they evaluate,    *)
(* refuses no text that evaluate would compile.                            *)
(***************************************************************************)
THEOREM PrecheckAccepts ==
  ASSUME NEW text, Len(text) \in Nat, Compile(text) # SyntaxError
  PROVE  SDBValidateExpressionSyntax(text)
<1> DEFINE tokens == ScanAll(text).tokens
           N == Len(tokens)
<1>1. ScanAll(text).ok /\ Parse(tokens).ok
  BY DEF Compile
<1>2. Ended(tokens) /\ N <= Len(text) + 1 /\ Covers(text, tokens, Len(text) + 1)
  BY <1>1, ScanAllReads
<1> HIDE DEF tokens
<1>3. N \in Nat \ {0}
  BY <1>2 DEF Ended
<1>4. Parse(tokens).tree \in Trees(tokens, 1, 1, N - 1)
  BY <1>1, <1>2, ParserDecides
<1>5. 1 <= N - 1 /\ Nested(tokens, 1, N - 1)
  <2>1. N \in 0 .. Len(tokens) /\ 1 \in 1 .. 5 /\ 1 \in 1 .. N + 1 /\ N - 1 \in 0 .. N - 1
    BY <1>3
  <2>2. Parse(tokens).tree \in TreesTo(tokens)[N][<<1, 1, N - 1>>]
    BY <1>4 DEF Trees
  <2> QED  BY <1>2, <2>1, <2>2, TreesAreNested
<1> DEFINE D(k) == Depth(tokens, k)
<1>6. /\ D(0) = 0 /\ D(N - 1) = 0 /\ D(N) = 0
      /\ \A k \in 0 .. N : D(k) >= 0
  <2>1. N - 1 \in 0 .. N - 1 /\ (N - 1) + 1 = N /\ 1 - 1 = 0
    BY <1>3
  <2>2. tokens[N].kind = "EndOfInput"
    <3>1. N \in 1 .. N
      BY <1>3
    <3>2. \A i \in 1 .. Len(tokens) : tokens[i].kind = "EndOfInput" <=> i = Len(tokens)
      BY <1>2 DEF Ended
    <3> QED  BY <3>1, <3>2
  <2>3. D(0) = 0 /\ D(N) = D(N - 1)
    <3>1. PICK b \in 0 .. N - 1 : b = N - 1
      BY <2>1
    <3>2. b + 1 = N
      BY <1>3, <3>1
    <3>3. /\ D(0) = 0
          /\ tokens[b + 1].kind \notin {"(", ")"} => D(b + 1) = D(b)
      BY <1>2, DepthStep
    <3> QED  BY <2>2, <3>1, <3>2, <3>3
  <2>4. D(N - 1) = D(0) /\ \A k \in 0 .. N - 1 : D(k) >= D(0)
    BY <1>5, <2>1 DEF Nested
  <2>5. \A k \in 0 .. N : k \in 0 .. N - 1 \/ k = N
    BY <1>3
  <2> HIDE DEF D
  <2> QED  BY <2>3, <2>4, <2>5
<1>7. \A c \in 0 .. Len(text) : ParenCount(text, c) >= 0
  <2> TAKE c \in 0 .. Len(text)
  <2>1. PICK k \in 0 .. N : ParenCount(text, c) = D(k)
    <3>1. c \in 0 .. (Len(text) + 1) - 1
      OBVIOUS
    <3> QED  BY <1>2, <3>1 DEF Covers
  <2> HIDE DEF D
  <2> QED  BY <1>6, <2>1
<1>8. ParenCount(text, Len(text)) = 0
  <2>1. (Len(text) + 1) - 1 = Len(text)
    OBVIOUS
  <2> QED  BY <1>2, <1>6, <2>1 DEF Covers
<1>9. text # <<>>
  <2>1. Len(text) + 1 >= 2
    BY <1>2, <1>3, <1>5
  <2>2. Len(<<>>) = 0
    OBVIOUS
  <2> QED  BY <2>1, <2>2
<1>10. \A c \in 1 .. Len(text) : c \in 0 .. Len(text)
  OBVIOUS
<1> QED  BY <1>7, <1>8, <1>9, <1>10 DEF SDBValidateExpressionSyntax

-----------------------------------------------------------------------------
(* The texts lexemes are written as. *)

LEMMA TextUnfolds ==
  ASSUME TextTypeOK, NEW spaced
  PROVE  /\ TextTo(spaced)[0] = <<>>
         /\ \A n \in 1 .. Len(lexemes) :
              TextTo(spaced)[n] =
                TextTo(spaced)[n - 1] \o Gap(n, spaced) \o Spelling[lexemes[n]]
<1> DEFINE N == Len(lexemes)
           Step(n, t) == IF n = 0 THEN <<>> ELSE t \o Gap(n, spaced) \o Spelling[lexemes[n]]
           IsChain(k, h) == h = [n \in 0 .. k |-> Step(n, h[n - 1])]
           S == {k \in Nat : \E h : IsChain(k, h)}
           text == TextTo(spaced)
<1>0. N \in Nat
  BY DEF TextTypeOK
<1>1. text = CHOOSE h : IsChain(N, h)
  BY DEF TextTo
<1>2. \A s, t : Step(0, s) = Step(0, t)
  OBVIOUS
<1>3. /\ \A t : Step(0, t) = <<>>
      /\ \A n, t : n # 0 => Step(n, t) = t \o Gap(n, spaced) \o Spelling[lexemes[n]]
  OBVIOUS
<1> HIDE DEF text
<1> HIDE DEF Step
<1>4. 0 \in S
  <2> DEFINE h == [n \in 0 .. 0 |-> Step(0, 0)]
  <2>1. IsChain(0, h)
    BY <1>2
  <2> HIDE DEF h
  <2> QED  BY <2>1
<1>5. ASSUME NEW m \in Nat, m \in S  PROVE m + 1 \in S
  <2>1. PICK g : IsChain(m, g)
    BY <1>5
  <2> DEFINE h == [n \in 0 .. m + 1 |-> IF n <= m THEN g[n] ELSE Step(m + 1, g[m])]
  <2>2. ASSUME NEW n \in 0 .. m + 1  PROVE h[n] = Step(n, h[n - 1])
    <3>1. CASE n = 0            BY <1>2, <2>1, <3>1
    <3>2. CASE n \in 1 .. m     BY <2>1, <3>2
    <3>3. CASE n = m + 1        BY <3>3
    <3> QED  BY <3>1, <3>2, <3>3
  <2>3. h = [n \in 0 .. m + 1 |-> h[n]]
    OBVIOUS
  <2> HIDE DEF h
  <2>4. IsChain(m + 1, h)
    BY <2>2, <2>3
  <2> HIDE DEF IsChain
  <2> QED  BY <2>4
<1> HIDE DEF S
<1>6. N \in S
  BY <1>0, <1>4, <1>5, NatSetInduction
<1>7. IsChain(N, text)
  <2> HIDE DEF IsChain
  <2> QED  BY <1>1, <1>6 DEF S
<1>8. /\ text[0] = Step(0, text[0 - 1])
      /\ \A n \in 1 .. N : text[n] = Step(n, text[n - 1])
  BY <1>7
<1> HIDE DEF IsChain
<1>9. \A n \in 1 .. N : n # 0
  OBVIOUS
<1> QED  BY <1>3, <1>8, <1>9 DEF text

Chars == STRING \cup {" "}

LEMMA WiderSeq ==
  ASSUME NEW S, NEW c
  PROVE  /\ \A q \in Seq(S) : q \in Seq(S \cup {c})
         /\ <<c>> \in Seq(S \cup {c})
<1>1. ASSUME NEW q \in Seq(S)  PROVE q \in Seq(S \cup {c})
  OBVIOUS
<1>2. c \in S \cup {c}
  OBVIOUS
<1>3. ASSUME NEW T, c \in T  PROVE <<c>> \in Seq(T)
  BY <1>3
<1> QED  BY <1>1, <1>2, <1>3

LEMMA SpellingIsText ==
  ASSUME TextTypeOK, NEW spaced, NEW n \in 1 .. Len(lexemes)
  PROVE  /\ lexemes[n] \in Lexemes
         /\ Spelling[lexemes[n]] \in Seq(Chars)
         /\ Len(Spelling[lexemes[n]]) \in Nat \ {0}
         /\ Gap(n, spaced) \in Seq(Chars)
<1>1. lexemes[n] \in Lexemes
  BY DEF TextTypeOK
<1>2. Spelling[lexemes[n]] \in Seq(STRING) /\ Spelling[lexemes[n]] # <<>>
  BY <1>1, SpellingAssumption DEF Lexemes
<1>4. Gap(n, spaced) \in Seq(Chars)
  <2>1. Gap(n, spaced) = <<" ">> \/ Gap(n, spaced) = <<>>
    BY DEF Gap
  <2>2. <<" ">> \in Seq(Chars)
    BY WiderSeq DEF Chars
  <2>3. <<>> \in Seq(Chars)
    OBVIOUS
  <2> QED  BY <2>1, <2>2, <2>3
<1>5. Spelling[lexemes[n]] \in Seq(Chars)
  BY <1>2, WiderSeq DEF Chars
<1>6. Len(Spelling[lexemes[n]]) \in Nat \ {0}
  BY <1>2, <1>5
<1> QED  BY <1>1, <1>4, <1>5, <1>6

LEMMA TextIsText ==
  ASSUME TextTypeOK, NEW spaced
  PROVE  \A n \in 0 .. Len(lexemes) :
           /\ TextTo(spaced)[n] \in Seq(Chars)
           /\ Len(TextTo(spaced)[n]) \in Nat
           /\ n <= Len(TextTo(spaced)[n])
<1> DEFINE text == TextTo(spaced)
           Right(n) == text[n] \in Seq(Chars) /\ Len(text[n]) \in Nat /\ n <= Len(text[n])
           S == {n \in Nat : n <= Len(lexemes) => Right(n)}
<1>1. 0 \in S
  <2>1. text[0] = <<>>
    BY TextUnfolds
  <2> HIDE DEF text
  <2>2. Right(0)
    BY <2>1
  <2> QED  BY <2>2
<1>2. ASSUME NEW n \in Nat, n \in S  PROVE n + 1 \in S
  <2> SUFFICES ASSUME n + 1 <= Len(lexemes)  PROVE Right(n + 1)
    OBVIOUS
  <2>0. Len(lexemes) \in Nat
    BY DEF TextTypeOK
  <2>1. PICK m \in 1 .. Len(lexemes) : m = n + 1
    BY <2>0
  <2>2. m - 1 = n /\ Right(n)
    BY <1>2, <2>0, <2>1
  <2>3. text[m] = text[m - 1] \o Gap(m, spaced) \o Spelling[lexemes[m]]
    BY TextUnfolds
  <2>4. /\ Spelling[lexemes[m]] \in Seq(Chars)
        /\ Len(Spelling[lexemes[m]]) \in Nat \ {0}
        /\ Gap(m, spaced) \in Seq(Chars)
    BY SpellingIsText
  <2> HIDE DEF text
  <2>5. /\ text[m] \in Seq(Chars)
        /\ Len(text[m]) = Len(text[m - 1]) + Len(Gap(m, spaced)) + Len(Spelling[lexemes[m]])
    BY <2>2, <2>3, <2>4
  <2>6. Len(Gap(m, spaced)) \in Nat
    BY <2>4
  <2>7. Len(text[m]) \in Nat /\ m <= Len(text[m])
    <3>1. Len(text[m - 1]) \in Nat /\ m - 1 <= Len(text[m - 1])
      BY <2>2
    <3>2. m \in Nat /\ m - 1 \in Nat
      BY <2>0
    <3>3. \A a, b \in Nat, c \in Nat \ {0} :
            m - 1 <= a => a + b + c \in Nat /\ m <= a + b + c
      BY <3>2
    <3> QED  BY ONLY <2>4, <2>5, <2>6, <3>1, <3>3
  <2>8. Right(m)
    BY <2>5, <2>7
  <2> QED  BY <2>1, <2>8
<1> HIDE DEF S
<1>3. ASSUME NEW n \in 0 .. Len(lexemes)  PROVE Right(n)
  <2>1. n \in S
    BY <1>1, <1>2, NatSetInduction
  <2> QED  BY <2>1 DEF S
<1> QED  BY <1>3

(***************************************************************************)
(* PrecheckIsHarmless, for all lexemes and texts of any length.            *)
(***************************************************************************)
THEOREM PrecheckNeverRefuses == TextSpec => []PrecheckIsHarmless
<1>1. TextTypeOK => PrecheckIsHarmless
  <2> SUFFICES ASSUME TextTypeOK, NEW spaced \in BOOLEAN,
                      Compile(Text(spaced)) # SyntaxError
               PROVE  SDBValidateExpressionSyntax(Text(spaced))
    BY DEF PrecheckIsHarmless
  <2>1. Len(lexemes) \in 0 .. Len(lexemes)
    BY DEF TextTypeOK
  <2>2. Len(Text(spaced)) \in Nat
    BY <2>1, TextIsText DEF Text
  <2> QED  BY <2>2, PrecheckAccepts
<1> QED  BY <1>1, TextTyped, PTL

-----------------------------------------------------------------------------
(* A token is read the same wherever it stands: the scanners look at the   *)
(* characters from its place on, and at one behind it.                     *)

LEMMA RunEndIs ==
  ASSUME NEW text, Len(text) \in Nat, NEW start \in 1 .. Len(text) + 1, NEW set,
         NEW j \in start .. Len(text) + 1, IsRunEnd(text, start, set, j)
  PROVE  EndOfRun(text, start, set) = j
<1> DEFINE e == EndOfRun(text, start, set)
<1>1. e \in start .. Len(text) + 1 /\ IsRunEnd(text, start, set, e)
  BY RunEnds
<1> SUFFICES e = j
  OBVIOUS
<1> HIDE DEF e
<1>2. CASE e < j
  <2>1. e \in start .. j - 1 /\ ~ e > Len(text)
    BY <1>1, <1>2
  <2> QED  BY <1>1, <2>1 DEF IsRunEnd
<1>3. CASE j < e
  <2>1. j \in start .. e - 1 /\ ~ j > Len(text)
    BY <1>1, <1>3
  <2> QED  BY <1>1, <2>1 DEF IsRunEnd
<1>4. e \in Int /\ j \in Int
  BY <1>1
<1> QED  BY <1>2, <1>3, <1>4

\* word stands in text behind its first a characters.
StandsIn(text, a, word) ==
  /\ a \in Nat /\ text \in Seq(Chars) /\ word \in Seq(Chars)
  /\ a + Len(word) <= Len(text)
  /\ \A k \in 1 .. Len(word) : text[a + k] = word[k]

\* No character of a set stands behind the first z.
Bounded(text, z, set) == z >= Len(text) \/ text[z + 1] \notin set

LEMMA RunShifts ==
  ASSUME NEW text, NEW a, NEW word, StandsIn(text, a, word),
         NEW k \in 1 .. Len(word) + 1, NEW set,
         EndOfRun(word, k, set) = Len(word) + 1 => Bounded(text, a + Len(word), set)
  PROVE  EndOfRun(text, a + k, set) = a + EndOfRun(word, k, set)
<1> DEFINE j == EndOfRun(word, k, set)
<1>1. a \in Nat /\ Len(word) \in Nat /\ Len(text) \in Nat /\ a + Len(word) <= Len(text)
  BY DEF StandsIn
<1>2. j \in k .. Len(word) + 1 /\ IsRunEnd(word, k, set, j)
  BY <1>1, RunEnds
<1>3. \A m \in 1 .. Len(word) : text[a + m] = word[m]
  BY DEF StandsIn
<1>4. j = Len(word) + 1 => a + Len(word) >= Len(text) \/ text[(a + Len(word)) + 1] \notin set
  BY DEF Bounded
<1> HIDE DEF j
<1>5. \A n \in a + k .. (a + j) - 1 : text[n] \in set
  <2> TAKE n \in a + k .. (a + j) - 1
  <2>1. PICK m \in k .. j - 1 : n = a + m
    <3>1. n - a \in k .. j - 1 /\ n = a + (n - a)
      BY <1>1, <1>2
    <3> QED  BY <3>1
  <2>2. m \in 1 .. Len(word)
    BY <1>1, <1>2
  <2> QED  BY <1>2, <1>3, <2>1, <2>2 DEF IsRunEnd
<1>6. a + j > Len(text) \/ text[a + j] \notin set
  <2>1. CASE j = Len(word) + 1
    <3>1. a + j = (a + Len(word)) + 1
      BY <1>1, <2>1
    <3> QED  BY <1>1, <1>4, <2>1, <3>1
  <2>2. CASE j # Len(word) + 1
    <3>1. j \in 1 .. Len(word)
      BY <1>1, <1>2, <2>2
    <3>2. ~ j > Len(word)
      BY <1>1, <3>1
    <3> QED  BY <1>2, <1>3, <3>1, <3>2 DEF IsRunEnd
  <2> QED  BY <2>1, <2>2
<1>7. PICK b : b = a + k
  OBVIOUS
<1>8. PICK e : e = a + j
  OBVIOUS
<1>9. b \in 1 .. Len(text) + 1 /\ e \in b .. Len(text) + 1
  BY <1>1, <1>2, <1>7, <1>8
<1>10. IsRunEnd(text, b, set, e)
  BY <1>5, <1>6, <1>7, <1>8 DEF IsRunEnd
<1>11. EndOfRun(text, b, set) = e
  BY <1>1, <1>9, <1>10, RunEndIs
<1> QED  BY <1>7, <1>8, <1>11 DEF j

\* From i to j the same characters.
SameDigits(text, a, word, i, j) ==
  SubSeq(text, a + i, (a + j) - 1) = SubSeq(word, i, j - 1)

LEMMA DigitsShift ==
  ASSUME NEW text, NEW a, NEW word, StandsIn(text, a, word),
         NEW i \in 1 .. Len(word) + 1, NEW j \in i .. Len(word) + 1
  PROVE  SameDigits(text, a, word, i, j)
<1>1. /\ a \in Nat /\ Len(word) \in Nat /\ Len(text) \in Nat /\ a + Len(word) <= Len(text)
      /\ text \in Seq(Chars) /\ word \in Seq(Chars)
      /\ \A k \in 1 .. Len(word) : text[a + k] = word[k]
  BY DEF StandsIn
<1> DEFINE u == SubSeq(text, a + i, (a + j) - 1)
           v == SubSeq(word, i, j - 1)
<1>2. /\ v \in Seq(Chars) /\ Len(v) = j - i
      /\ \A n \in 1 .. j - i : v[n] = word[(i + n) - 1]
  BY <1>1
<1>3. /\ u \in Seq(Chars) /\ Len(u) = j - i
      /\ \A n \in 1 .. j - i : u[n] = text[((a + i) + n) - 1]
  BY <1>1
<1> HIDE DEF u, v
<1>4. ASSUME NEW n \in 1 .. j - i  PROVE u[n] = v[n]
  <2>1. (i + n) - 1 \in 1 .. Len(word) /\ ((a + i) + n) - 1 = a + ((i + n) - 1)
    BY <1>1
  <2> QED  BY <1>1, <1>2, <1>3, <2>1
<1>5. u = v
  BY <1>2, <1>3, <1>4
<1> QED  BY <1>5 DEF u, v, SameDigits

\* The same token, a places further on.
Shifted(a, t, u) ==
  /\ t = Error => u = Error
  /\ \A x, n : t = Scanned(x, n) => u = Scanned(x, a + n)

LEMMA ScannedShifts ==
  ASSUME NEW a, NEW x, NEW n
  PROVE  Shifted(a, Scanned(x, n), Scanned(x, a + n)) /\ Shifted(a, Error, Error)
<1>1. Scanned(x, n) # Error /\ \A y, m : Error # Scanned(y, m)
  BY ScannedFields
<1>2. ASSUME NEW y, NEW m, Scanned(x, n) = Scanned(y, m)  PROVE x = y /\ n = m
  BY <1>2, ScannedFields
<1> QED  BY <1>1, <1>2 DEF Shifted

LEMMA NumeralShifts ==
  ASSUME NEW a, NEW digits, NEW base, NEW n
  PROVE  Shifted(a, Numeral(digits, base, n), Numeral(digits, base, a + n))
<1>1. \/ \A m : Numeral(digits, base, m) = Error
      \/ \E v : \A m : Numeral(digits, base, m) = Scanned(NumberToken(v), m)
  <2> DEFINE w == Sequence!FoldLeft(LAMBDA v, c : base * v + HexValue[c], 0, digits)
  <2>1. \A m : Numeral(digits, base, m) =
                 IF w < UlongRange THEN Scanned(NumberToken(w % UintRange), m) ELSE Error
    BY DEF Numeral
  <2> HIDE DEF w
  <2>2. CASE w < UlongRange
    <3>1. \A m : Numeral(digits, base, m) = Scanned(NumberToken(w % UintRange), m)
      BY <2>1, <2>2
    <3> QED  BY <3>1
  <2>3. CASE ~ (w < UlongRange)
    BY <2>1, <2>3
  <2> QED  BY <2>2, <2>3
<1>2. CASE \A m : Numeral(digits, base, m) = Error
  BY <1>2, ScannedShifts
<1>3. CASE \E v : \A m : Numeral(digits, base, m) = Scanned(NumberToken(v), m)
  BY <1>3, ScannedShifts
<1> QED  BY <1>1, <1>2, <1>3

LEMMA DigitsAreNameTail ==
  /\ Digit \subseteq NameTail /\ HexDigit \subseteq NameTail
  /\ {"x", "X"} \subseteq NameTail
  /\ " " \notin NameTail /\ "$" \notin NameTail
  /\ Digit \cap NameHead = {}
<1>1. HexDigit \subseteq Digit \cup Letters /\ {"x", "X"} \subseteq Letters
  BY LexerAssumption
<1>2. " " \notin Digit /\ "$" \notin Digit /\ "_" \notin Digit
  <2> DEFINE D == {"0", "1", "2", "3", "4", "5", "6", "7", "8", "9"}
  <2>1. ASSUME NEW i \in 1 .. 10  PROVE LowerDigits[i] \in D
    BY DEF LowerDigits
  <2>2. " " \notin D /\ "$" \notin D /\ "_" \notin D
    OBVIOUS
  <2> QED  BY <2>1, <2>2 DEF Digit
<1>3. " " \notin Letters /\ "$" \notin Letters
  BY LexerAssumption
<1>4. Letters \cap Digit = {}
  BY LexerAssumption
<1> QED  BY <1>1, <1>2, <1>3, <1>4 DEF NameHead, NameTail

\* A word that would not grow together with what is behind it.
Separated(text, a, word) ==
  Bounded(text, a + Len(word), NameTail) \/ word[Len(word)] \notin NameTail

SameRun(text, a, word, k, set) ==
  LET j == EndOfRun(word, k, set)
  IN  EndOfRun(text, a + k, set) = a + j /\ SameDigits(text, a, word, k, j)

\* A run of digits or of a name that takes a character ends with the word.
LEMMA RunIsLocal ==
  ASSUME NEW text, NEW a, NEW word, StandsIn(text, a, word), Separated(text, a, word),
         NEW k \in 1 .. Len(word) + 1, NEW set, set \subseteq NameTail,
         \/ EndOfRun(word, k, set) # k
         \/ k <= Len(word)
         \/ k > 1 /\ word[k - 1] \in NameTail
         \/ a + Len(word) = Len(text)
  PROVE  SameRun(text, a, word, k, set)
<1> DEFINE j == EndOfRun(word, k, set)
<1>1. a \in Nat /\ Len(word) \in Nat /\ Len(text) \in Nat
  BY DEF StandsIn
<1>2. j \in k .. Len(word) + 1 /\ IsRunEnd(word, k, set, j)
  BY <1>1, RunEnds
<1>3. ASSUME j = Len(word) + 1  PROVE Bounded(text, a + Len(word), set)
  <2>1. CASE a + Len(word) = Len(text)
    <3>1. a + Len(word) >= Len(text)
      BY <1>1, <2>1
    <3> QED  BY <3>1 DEF Bounded
  <2>2. CASE a + Len(word) # Len(text)
    <3>1. word[Len(word)] \in NameTail
      <4>1. CASE j = k
        <5>1. k > 1 /\ word[k - 1] \in NameTail
          BY <1>1, <1>3, <2>2, <4>1
        <5>2. k - 1 = Len(word)
          BY <1>1, <1>3, <4>1
        <5> QED  BY <5>1, <5>2
      <4>2. CASE j # k
        <5>1. Len(word) \in k .. j - 1
          BY <1>1, <1>2, <1>3, <4>2
        <5> QED  BY <1>2, <5>1 DEF IsRunEnd
      <4> QED  BY <4>1, <4>2
    <3>2. Bounded(text, a + Len(word), NameTail)
      BY <3>1 DEF Separated
    <3> QED  BY <3>2 DEF Bounded
  <2> QED  BY <2>1, <2>2
<1>4. EndOfRun(text, a + k, set) = a + j
  BY <1>3, RunShifts
<1>5. SameDigits(text, a, word, k, j)
  <2> HIDE DEF j
  <2> QED  BY <1>2, DigitsShift
<1> QED  BY <1>4, <1>5 DEF SameRun

LEMMA OperatorShifts ==
  ASSUME NEW text, NEW a, NEW word, StandsIn(text, a, word), word # <<>>,
         a + Len(word) = Len(text) \/ ScanOperator(word, 1) # Error
  PROVE  Shifted(a, ScanOperator(word, 1), ScanOperator(text, a + 1))
<1> DEFINE t == ScanOperator(word, 1)
           u == ScanOperator(text, a + 1)
           c == word[1]
<1>1. a \in Nat /\ Len(word) \in Nat \ {0} /\ Len(text) \in Nat /\ a + Len(word) <= Len(text)
  BY DEF StandsIn
<1>2. \A k \in 1 .. Len(word) : text[a + k] = word[k]
  BY DEF StandsIn
<1>3. text[a + 1] = c
  BY <1>1, <1>2
<1>4. /\ 1 < Len(word) => a + 1 < Len(text) /\ text[(a + 1) + 1] = word[1 + 1]
      /\ a + Len(word) = Len(text) => (a + 1 < Len(text) <=> 1 < Len(word))
  <2>1. 1 < Len(word) => 2 \in 1 .. Len(word) /\ (a + 1) + 1 = a + 2 /\ 1 + 1 = 2
    BY <1>1
  <2>2. 1 < Len(word) => text[(a + 1) + 1] = word[1 + 1]
    BY <1>2, <2>1
  <2> QED  BY <1>1, <2>2
<1>5. a + (1 + 1) = (a + 1) + 1 /\ a + (1 + 2) = (a + 1) + 2
  BY <1>1
<1>6. CASE c \in {"(", ")", "+", "-", "*", "/"}
  <2>1. t = Scanned(Token(c), 1 + 1) /\ u = Scanned(Token(c), (a + 1) + 1)
    BY <1>3, <1>6 DEF ScanOperator
  <2> QED  BY <1>5, <2>1, ScannedShifts
<1>7. ASSUME NEW second, NEW kind,
             t = IF 1 < Len(word) /\ word[1 + 1] = second
                   THEN Scanned(Token(kind), 1 + 2) ELSE Error,
             u = IF a + 1 < Len(text) /\ text[(a + 1) + 1] = second
                   THEN Scanned(Token(kind), (a + 1) + 2) ELSE Error
      PROVE  Shifted(a, t, u)
  <2> HIDE DEF t, u
  <2>1. CASE 1 < Len(word) /\ word[1 + 1] = second
    <3>1. t = Scanned(Token(kind), 1 + 2) /\ u = Scanned(Token(kind), a + (1 + 2))
      BY <1>4, <1>5, <1>7, <2>1
    <3> QED  BY <3>1, ScannedShifts
  <2>2. CASE ~ (1 < Len(word) /\ word[1 + 1] = second)
    <3>1. t = Error
      BY <1>7, <2>2
    <3>2. a + Len(word) = Len(text)
      BY <3>1 DEF t
    <3>3. u = Error
      BY <1>4, <1>7, <2>2, <3>2
    <3> QED  BY <3>1, <3>3, ScannedShifts
  <2> QED  BY <2>1, <2>2
<1>8. CASE c = "="
  <2>1. t = IF 1 < Len(word) /\ word[1 + 1] = "=" THEN Scanned(Token("=="), 1 + 2) ELSE Error
    BY <1>8 DEF ScanOperator
  <2>2. u = IF a + 1 < Len(text) /\ text[(a + 1) + 1] = "="
              THEN Scanned(Token("=="), (a + 1) + 2) ELSE Error
    BY <1>3, <1>8 DEF ScanOperator
  <2> QED  BY <1>7, <2>1, <2>2
<1>9. CASE c = "!"
  <2>1. t = IF 1 < Len(word) /\ word[1 + 1] = "=" THEN Scanned(Token("!="), 1 + 2) ELSE Error
    BY <1>9 DEF ScanOperator
  <2>2. u = IF a + 1 < Len(text) /\ text[(a + 1) + 1] = "="
              THEN Scanned(Token("!="), (a + 1) + 2) ELSE Error
    BY <1>3, <1>9 DEF ScanOperator
  <2> QED  BY <1>7, <2>1, <2>2
<1>10. CASE c = "<"
  <2>1. t = IF 1 < Len(word) /\ word[1 + 1] = "=" THEN Scanned(Token("<="), 1 + 2) ELSE Error
    BY <1>10 DEF ScanOperator
  <2>2. u = IF a + 1 < Len(text) /\ text[(a + 1) + 1] = "="
              THEN Scanned(Token("<="), (a + 1) + 2) ELSE Error
    BY <1>3, <1>10 DEF ScanOperator
  <2> QED  BY <1>7, <2>1, <2>2
<1>11. CASE c = "&"
  <2>1. t = IF 1 < Len(word) /\ word[1 + 1] = "&" THEN Scanned(Token("&&"), 1 + 2) ELSE Error
    BY <1>11 DEF ScanOperator
  <2>2. u = IF a + 1 < Len(text) /\ text[(a + 1) + 1] = "&"
              THEN Scanned(Token("&&"), (a + 1) + 2) ELSE Error
    BY <1>3, <1>11 DEF ScanOperator
  <2> QED  BY <1>7, <2>1, <2>2
<1>12. CASE c \notin {"(", ")", "+", "-", "*", "/", "=", "!", "<", "&"}
  <2>1. t = Error /\ u = Error
    BY <1>3, <1>12 DEF ScanOperator
  <2> QED  BY <2>1, ScannedShifts
<1> QED  BY <1>6, <1>8, <1>9, <1>10, <1>11, <1>12

\* The scanner of the character a token begins with.
IsHexNumber(text, i) == i < Len(text) /\ text[i] = "0" /\ text[i + 1] \in {"x", "X"}

ScanAt(text, i) ==
  IF IsHexNumber(text, i) THEN ScanHexNumber(text, i)
  ELSE IF text[i] \in Digit THEN ScanNumber(text, i)
  ELSE IF text[i] \in NameHead THEN ScanRegister(text, i)
  ELSE ScanOperator(text, i)

\* ScanRegister, whose name begins behind a dollar sign.
NameToken(characters) ==
  LET name == Sequence!FoldLeft(LAMBDA s, c : s \o c, "", characters)
  IN  IF name = "read8" THEN Token(name) ELSE RegisterToken(name)

NameFrom(text, i, head) ==
  LET j == EndOfRun(text, head, NameTail)
  IN  IF j = head THEN Error ELSE Scanned(NameToken(SubSeq(text, i, j - 1)), j)

LEMMA NameBegins ==
  ASSUME NEW text, NEW i, NEW head, head = IF text[i] = "$" THEN i + 1 ELSE i
  PROVE  ScanRegister(text, i) = NameFrom(text, i, head)
BY DEF ScanRegister, NameFrom, NameToken

LEMMA TokenBegins ==
  ASSUME NEW text, Len(text) \in Nat, NEW i \in 1 .. Len(text), text[i] \notin Space
  PROVE  NextToken(text, i) = ScanAt(text, i)
<1>1. EndOfRun(text, i, Space) = i
  <2>1. i \in 1 .. Len(text) + 1 /\ i \in i .. Len(text) + 1
    OBVIOUS
  <2>2. IsRunEnd(text, i, Space, i)
    BY DEF IsRunEnd
  <2> QED  BY <2>1, <2>2, RunEndIs
<1>2. ~ i > Len(text)
  OBVIOUS
<1>3. CASE IsHexNumber(text, i)
  BY <1>1, <1>2, <1>3 DEF NextToken, ScanAt, IsHexNumber
<1>4. CASE ~ IsHexNumber(text, i) /\ text[i] \in Digit
  <2>1. NextToken(text, i) = ScanNumber(text, i)
    BY <1>1, <1>2, <1>4, DigitsAreNameTail DEF NextToken, IsHexNumber
  <2> QED  BY <1>4, <2>1 DEF ScanAt
<1>5. CASE ~ IsHexNumber(text, i) /\ text[i] \notin Digit /\ text[i] \in NameHead
  BY <1>1, <1>2, <1>5 DEF NextToken, ScanAt, IsHexNumber
<1>6. CASE ~ IsHexNumber(text, i) /\ text[i] \notin Digit /\ text[i] \notin NameHead
  BY <1>1, <1>2, <1>6 DEF NextToken, ScanAt, IsHexNumber
<1> QED  BY <1>3, <1>4, <1>5, <1>6

LEMMA TokenIsLocal ==
  ASSUME NEW text, NEW a, NEW word, StandsIn(text, a, word), Separated(text, a, word),
         word # <<>>, word[1] \notin Space,
         a + Len(word) = Len(text) \/ NextToken(word, 1) # Error
  PROVE  Shifted(a, NextToken(word, 1), NextToken(text, a + 1))
<1> DEFINE t == NextToken(word, 1)
           u == NextToken(text, a + 1)
           c == word[1]
<1>1. a \in Nat /\ Len(word) \in Nat \ {0} /\ Len(text) \in Nat /\ a + Len(word) <= Len(text)
  BY DEF StandsIn
<1>2. \A k \in 1 .. Len(word) : text[a + k] = word[k]
  BY DEF StandsIn
<1>3. text[a + 1] = c
  BY <1>1, <1>2
<1>6. IsHexNumber(word, 1) <=> IsHexNumber(text, a + 1)
  <2>1. CASE 1 < Len(word)
    <3>1. 2 \in 1 .. Len(word) /\ a + 1 < Len(text) /\ (a + 1) + 1 = a + 2 /\ 1 + 1 = 2
      BY <1>1, <2>1
    <3> QED  BY <1>2, <1>3, <2>1, <3>1 DEF IsHexNumber
  <2>2. CASE ~ 1 < Len(word)
    <3> SUFFICES ASSUME IsHexNumber(text, a + 1)  PROVE FALSE
      BY <2>2 DEF IsHexNumber
    <3>1. Len(word) = 1
      BY <1>1, <2>2
    <3>2. word[Len(word)] \in NameTail
      <4>1. "0" \in Digit
        BY DEF Digit, LowerDigits
      <4> QED  BY <1>3, <3>1, <4>1, DigitsAreNameTail DEF IsHexNumber
    <3>3. Bounded(text, a + 1, NameTail)
      BY <3>1, <3>2 DEF Separated
    <3>4. a + 1 < Len(text) /\ text[(a + 1) + 1] \in NameTail
      BY DigitsAreNameTail DEF IsHexNumber
    <3>5. ~ a + 1 >= Len(text)
      BY <1>1, <3>4
    <3> QED  BY <3>3, <3>4, <3>5 DEF Bounded
  <2> QED  BY <2>1, <2>2
<1>7. t = ScanAt(word, 1)
  <2>1. 1 \in 1 .. Len(word)
    BY <1>1
  <2> QED  BY <1>1, <2>1, TokenBegins
<1>8. u = ScanAt(text, a + 1)
  <2>1. PICK b : b = a + 1
    OBVIOUS
  <2>2. b \in 1 .. Len(text)
    BY <1>1, <2>1
  <2>3. NextToken(text, b) = ScanAt(text, b)
    BY <1>1, <1>3, <2>1, <2>2, TokenBegins
  <2> QED  BY <2>1, <2>3
<1>9. a + Len(word) = Len(text) \/ t # Error
  OBVIOUS
<1> SUFFICES Shifted(a, t, u)
  OBVIOUS
<1> HIDE DEF t, u
<1>10. CASE IsHexNumber(word, 1)
  <2> DEFINE j == EndOfRun(word, 3, HexDigit)
             digits == SubSeq(word, 3, j - 1)
  <2>1. 3 \in 1 .. Len(word) + 1 /\ 3 > 1 /\ word[3 - 1] \in NameTail
    <3>1. 1 < Len(word) /\ word[1 + 1] \in {"x", "X"}
      BY <1>10 DEF IsHexNumber
    <3>2. 3 \in 1 .. Len(word) + 1 /\ 1 + 1 = 3 - 1
      BY <1>1, <3>1
    <3>3. word[3 - 1] \in NameTail
      BY <3>1, <3>2, DigitsAreNameTail
    <3> QED  BY <3>2, <3>3
  <2>2. /\ EndOfRun(text, (a + 1) + 2, HexDigit) = a + j
        /\ SubSeq(text, (a + 1) + 2, (a + j) - 1) = digits
    <3>1. SameRun(text, a, word, 3, HexDigit)
      BY <2>1, RunIsLocal, DigitsAreNameTail
    <3>2. a + 3 = (a + 1) + 2
      BY <1>1
    <3> QED  BY <3>1, <3>2 DEF SameRun, SameDigits
  <2>3. t = IF j = 3 THEN Error ELSE Numeral(digits, 16, j)
    <3>1. 1 + 2 = 3
      OBVIOUS
    <3> QED  BY <1>7, <1>10, <3>1 DEF ScanAt, ScanHexNumber
  <2>4. u = IF a + j = (a + 1) + 2 THEN Error ELSE Numeral(digits, 16, a + j)
    BY <1>6, <1>8, <1>10, <2>2 DEF ScanAt, ScanHexNumber
  <2>5. j \in Int
    BY <1>1, <2>1, RunEnds
  <2> HIDE DEF j, digits
  <2>6. a + j = (a + 1) + 2 <=> j = 3
    BY <1>1, <2>5
  <2> QED  BY <2>3, <2>4, <2>6, NumeralShifts, ScannedShifts
<1>11. CASE ~ IsHexNumber(word, 1) /\ c \in Digit
  <2> DEFINE j == EndOfRun(word, 1, Digit)
             digits == SubSeq(word, 1, j - 1)
  <2>1. 1 \in 1 .. Len(word) + 1 /\ 1 <= Len(word)
    BY <1>1
  <2>2. EndOfRun(text, a + 1, Digit) = a + j /\ SubSeq(text, a + 1, (a + j) - 1) = digits
    <3>1. SameRun(text, a, word, 1, Digit)
      BY <2>1, RunIsLocal, DigitsAreNameTail
    <3> QED  BY <3>1 DEF SameRun, SameDigits
  <2>3. t = Numeral(digits, 10, j)
    BY <1>7, <1>11 DEF ScanAt, ScanNumber
  <2>4. u = Numeral(digits, 10, a + j)
    BY <1>3, <1>6, <1>8, <1>11, <2>2 DEF ScanAt, ScanNumber
  <2> HIDE DEF j, digits
  <2> QED  BY <2>3, <2>4, NumeralShifts
<1>12. CASE ~ IsHexNumber(word, 1) /\ c \notin Digit /\ c \in NameHead
  <2> DEFINE head == IF c = "$" THEN 2 ELSE 1
             j == EndOfRun(word, head, NameTail)
  <2>1. /\ head \in 1 .. Len(word) + 1
        /\ (IF c = "$" THEN (a + 1) + 1 ELSE a + 1) = a + head
        /\ (IF c = "$" THEN 1 + 1 ELSE 1) = head
    BY <1>1
  <2>2. t = NameFrom(word, 1, head)
    <3>1. t = ScanRegister(word, 1)
      BY <1>7, <1>12 DEF ScanAt
    <3> QED  BY <2>1, <3>1, NameBegins
  <2>3. u = NameFrom(text, a + 1, a + head)
    <3>1. u = ScanRegister(text, a + 1)
      BY <1>3, <1>6, <1>8, <1>12 DEF ScanAt
    <3> QED  BY <1>3, <2>1, <3>1, NameBegins
  <2> HIDE DEF head
  <2>4. j \in head .. Len(word) + 1
    BY <1>1, <2>1, RunEnds
  <2>5. j # head \/ head <= Len(word) \/ a + Len(word) = Len(text)
    BY <1>9, <2>2 DEF NameFrom
  <2>6. SameRun(text, a, word, head, NameTail)
    BY <2>1, <2>5, RunIsLocal
  <2>7. EndOfRun(text, a + head, NameTail) = a + j
    BY <2>6 DEF SameRun
  <2> HIDE DEF j
  <2>8. SameDigits(text, a, word, 1, j)
    <3>1. 1 \in 1 .. Len(word) + 1 /\ j \in 1 .. Len(word) + 1
      BY <1>1, <2>1, <2>4
    <3> QED  BY <3>1, DigitsShift
  <2>9. NameToken(SubSeq(text, a + 1, (a + j) - 1)) = NameToken(SubSeq(word, 1, j - 1))
    BY <2>8 DEF SameDigits
  <2>10. t = IF j = head THEN Error ELSE Scanned(NameToken(SubSeq(word, 1, j - 1)), j)
    BY <2>2 DEF NameFrom, j
  <2>11. u = IF a + j = a + head THEN Error
             ELSE Scanned(NameToken(SubSeq(word, 1, j - 1)), a + j)
    BY <2>3, <2>7, <2>9 DEF NameFrom
  <2>12. a + j = a + head <=> j = head
    BY <1>1, <2>1, <2>4
  <2> QED  BY <2>10, <2>11, <2>12, ScannedShifts
<1>13. CASE ~ IsHexNumber(word, 1) /\ c \notin Digit /\ c \notin NameHead
  <2>1. t = ScanOperator(word, 1)
    BY <1>7, <1>13 DEF ScanAt
  <2>2. u = ScanOperator(text, a + 1)
    BY <1>3, <1>6, <1>8, <1>13 DEF ScanAt
  <2> QED  BY <1>9, <2>1, <2>2, OperatorShifts
<1> QED  BY <1>10, <1>11, <1>12, <1>13

LEMMA BlankIsSkipped ==
  ASSUME NEW text, Len(text) \in Nat, NEW i \in 1 .. Len(text), text[i] \in Space
  PROVE  NextToken(text, i) = NextToken(text, i + 1)
<1>1. PICK b : b = i + 1
  OBVIOUS
<1> DEFINE e == EndOfRun(text, b, Space)
<1>2. b \in 1 .. Len(text) + 1 /\ i \in 1 .. Len(text) + 1
  BY <1>1
<1>3. e \in b .. Len(text) + 1 /\ IsRunEnd(text, b, Space, e)
  BY <1>2, RunEnds
<1> HIDE DEF e
<1>4. e \in i .. Len(text) + 1
  BY <1>1, <1>2, <1>3
<1>5. IsRunEnd(text, i, Space, e)
  <2>1. \A k \in i .. e - 1 : k = i \/ k \in b .. e - 1
    BY <1>1, <1>3
  <2> QED  BY <1>3, <2>1 DEF IsRunEnd
<1>6. EndOfRun(text, i, Space) = e
  BY <1>2, <1>4, <1>5, RunEndIs
<1>7. NextToken(text, i) = NextToken(text, b)
  BY <1>3, <1>6 DEF NextToken, e
<1> QED  BY <1>1, <1>7

-----------------------------------------------------------------------------
(* Where the lexemes stand in the text. *)

\* The characters in front of a lexeme.
Front(spaced, n) == Len(TextTo(spaced)[n - 1]) + Len(Gap(n, spaced))

LEMMA Concatenated ==
  ASSUME NEW S, NEW p \in Seq(S), NEW q \in Seq(S)
  PROVE  /\ p \o q \in Seq(S) /\ Len(p \o q) = Len(p) + Len(q)
         /\ \A k \in 1 .. Len(p) : (p \o q)[k] = p[k]
         /\ \A k \in 1 .. Len(q) : (p \o q)[Len(p) + k] = q[k]
OBVIOUS

\* A text that ends with a lexeme, behind a blank or none.
EndsWithLexeme(spaced, n) ==
  LET new == TextTo(spaced)[n]
      old == TextTo(spaced)[n - 1]
      word == Spelling[lexemes[n]]
  IN  /\ Front(spaced, n) \in Nat /\ Len(old) \in Nat /\ Len(new) \in Nat
      /\ Len(new) = Front(spaced, n) + Len(word)
      /\ Len(word) \in Nat \ {0}
      /\ \A k \in 1 .. Len(old) : new[k] = old[k]
      /\ \A k \in 1 .. Len(word) : new[Front(spaced, n) + k] = word[k]
      /\ \/ Gap(n, spaced) = <<>> /\ Front(spaced, n) = Len(old)
         \/ /\ Gap(n, spaced) # <<>> /\ Front(spaced, n) = Len(old) + 1
            /\ new[Len(old) + 1] \in Space

LEMMA LexemeIsLast ==
  ASSUME TextTypeOK, NEW spaced, NEW n \in 1 .. Len(lexemes)
  PROVE  EndsWithLexeme(spaced, n)
<1> DEFINE new == TextTo(spaced)[n]
           old == TextTo(spaced)[n - 1]
           word == Spelling[lexemes[n]]
           gap == Gap(n, spaced)
<1>0. Len(lexemes) \in Nat
  BY DEF TextTypeOK
<1>1. new = old \o gap \o word
  BY TextUnfolds
<1>2. old \in Seq(Chars) /\ Len(old) \in Nat
  <2>1. PICK m \in 0 .. Len(lexemes) : m = n - 1
    BY <1>0
  <2> QED  BY <2>1, TextIsText
<1>3. /\ word \in Seq(Chars) /\ Len(word) \in Nat \ {0}
      /\ gap \in Seq(Chars) /\ Len(gap) \in Nat
  BY SpellingIsText
<1>4. gap = <<>> \/ \E c \in Space : gap = <<c>>
  <2>1. gap = <<>> \/ gap = <<" ">>
    BY DEF Gap
  <2>2. " " \in Space
    BY DEF Space
  <2> QED  BY <2>1, <2>2
<1>5. Front(spaced, n) = Len(old) + Len(gap)
  BY DEF Front
<1> HIDE DEF new, old, word, gap
<1> DEFINE head == old \o gap
<1>6. /\ head \in Seq(Chars) /\ Len(head) = Len(old) + Len(gap)
      /\ \A k \in 1 .. Len(old) : head[k] = old[k]
      /\ \A k \in 1 .. Len(gap) : head[Len(old) + k] = gap[k]
  BY <1>2, <1>3, Concatenated
<1> HIDE DEF head
<1>7. /\ Len(new) = Len(head) + Len(word)
      /\ \A k \in 1 .. Len(head) : new[k] = head[k]
      /\ \A k \in 1 .. Len(word) : new[Len(head) + k] = word[k]
  <2>1. new = head \o word
    BY <1>1 DEF head
  <2>2. /\ Len(head \o word) = Len(head) + Len(word)
        /\ \A k \in 1 .. Len(head) : (head \o word)[k] = head[k]
        /\ \A k \in 1 .. Len(word) : (head \o word)[Len(head) + k] = word[k]
    <3>1. head \in Seq(Chars) /\ word \in Seq(Chars)
      BY <1>3, <1>6
    <3> QED  BY ONLY <3>1, Concatenated
  <2> QED  BY <2>1, <2>2
<1>8. Front(spaced, n) = Len(head) /\ Len(head) \in Nat
  BY <1>2, <1>3, <1>5, <1>6
<1>9. \A k \in 1 .. Len(old) : new[k] = old[k]
  <2>1. \A k \in 1 .. Len(old) : k \in 1 .. Len(head)
    BY <1>2, <1>3, <1>6
  <2> QED  BY <1>6, <1>7, <2>1
<1>10. \/ gap = <<>> /\ Len(head) = Len(old)
       \/ gap # <<>> /\ Len(head) = Len(old) + 1 /\ new[Len(old) + 1] \in Space
  <2>1. CASE gap = <<>>
    <3>1. Len(gap) = 0
      BY <2>1
    <3> QED  BY <1>2, <1>6, <2>1, <3>1
  <2>2. CASE gap # <<>>
    <3>1. PICK c \in Space : gap = <<c>>
      BY <1>4, <2>2
    <3>2. Len(gap) = 1 /\ gap[1] = c
      BY <3>1
    <3>3. 1 \in 1 .. Len(gap) /\ Len(old) + 1 \in 1 .. Len(head) /\ Len(head) = Len(old) + 1
      BY <1>2, <1>6, <3>2
    <3>4. head[Len(old) + 1] = c
      BY <1>6, <3>2, <3>3
    <3> QED  BY <1>7, <2>2, <3>3, <3>4
  <2> QED  BY <2>1, <2>2
<1>11. Len(new) \in Nat
  BY <1>3, <1>7, <1>8
<1> QED  BY <1>2, <1>3, <1>7, <1>8, <1>9, <1>10, <1>11 DEF EndsWithLexeme, new, old, word, gap

\* The text of the first n lexemes begins the whole.
LEMMA TextBegins ==
  ASSUME TextTypeOK, NEW spaced, NEW n \in 0 .. Len(lexemes)
  PROVE  /\ Len(TextTo(spaced)[n]) <= Len(Text(spaced))
         /\ \A k \in 1 .. Len(TextTo(spaced)[n]) : Text(spaced)[k] = TextTo(spaced)[n][k]
<1> DEFINE N == Len(lexemes)
           to == TextTo(spaced)
           text == Text(spaced)
           Begins(m) == /\ Len(to[m]) <= Len(text)
                        /\ \A k \in 1 .. Len(to[m]) : text[k] = to[m][k]
           S == {d \in Nat : d <= N => Begins(N - d)}
<1>1. N \in Nat
  BY DEF TextTypeOK
<1>2. text = to[N]
  BY DEF Text
<1>3. \A m \in 0 .. N : Len(to[m]) \in Nat
  BY TextIsText
<1>4. ASSUME NEW m \in 1 .. N  PROVE /\ Len(to[m - 1]) <= Len(to[m])
                                     /\ \A k \in 1 .. Len(to[m - 1]) : to[m][k] = to[m - 1][k]
  <2>1. /\ Front(spaced, m) \in Nat /\ Len(to[m - 1]) \in Nat /\ Len(to[m]) \in Nat
        /\ Len(to[m]) = Front(spaced, m) + Len(Spelling[lexemes[m]])
        /\ Len(Spelling[lexemes[m]]) \in Nat \ {0}
        /\ \A k \in 1 .. Len(to[m - 1]) : to[m][k] = to[m - 1][k]
        /\ Front(spaced, m) = Len(to[m - 1]) \/ Front(spaced, m) = Len(to[m - 1]) + 1
    <3>1. EndsWithLexeme(spaced, m)
      BY LexemeIsLast
    <3> QED  BY <3>1 DEF EndsWithLexeme, to
  <2> HIDE DEF to
  <2>2. Len(to[m - 1]) <= Len(to[m])
    BY <2>1
  <2> QED  BY <2>1, <2>2
<1> HIDE DEF to, text, N
<1>5. 0 \in S
  <2>1. N - 0 = N /\ N \in 0 .. N
    BY <1>1
  <2>2. Begins(N)
    BY <1>2, <1>3, <2>1
  <2> QED  BY <2>1, <2>2
<1>6. ASSUME NEW d \in Nat, d \in S  PROVE d + 1 \in S
  <2> SUFFICES ASSUME d + 1 <= N  PROVE Begins(N - (d + 1))
    OBVIOUS
  <2>1. PICK m \in 1 .. N : m = N - d
    BY <1>1
  <2>2. PICK l \in 0 .. N : l = m - 1
    BY <1>1
  <2>3. N - (d + 1) = l /\ d <= N
    BY <1>1, <2>1, <2>2
  <2>4. Begins(m)
    BY <1>6, <2>1, <2>3
  <2>5. Len(to[l]) <= Len(to[m]) /\ \A k \in 1 .. Len(to[l]) : to[m][k] = to[l][k]
    BY <1>4, <2>2
  <2>6. Len(to[l]) \in Nat /\ Len(to[m]) \in Nat /\ Len(text) \in Nat
    BY <1>1, <1>2, <1>3
  <2>7. Begins(l)
    BY <2>4, <2>5, <2>6
  <2> QED  BY <2>3, <2>7
<1> HIDE DEF S
<1>7. N - n \in S
  <2>1. N - n \in Nat
    BY <1>1 DEF N
  <2> QED  BY <1>5, <1>6, <2>1, NatSetInduction
<1>8. Begins(n)
  <2>1. N - (N - n) = n /\ N - n <= N
    BY <1>1 DEF N
  <2> QED  BY <1>7, <2>1 DEF S
<1> QED  BY <1>8 DEF to, text

LEMMA LexemeStands ==
  ASSUME TextTypeOK, NEW spaced, NEW n \in 1 .. Len(lexemes)
  PROVE  StandsIn(Text(spaced), Front(spaced, n), Spelling[lexemes[n]])
<1> DEFINE text == Text(spaced)
           new == TextTo(spaced)[n]
           word == Spelling[lexemes[n]]
           a == Front(spaced, n)
<1>0. Len(lexemes) \in Nat
  BY DEF TextTypeOK
<1>1. /\ a \in Nat /\ Len(new) = a + Len(word) /\ Len(word) \in Nat \ {0}
      /\ \A k \in 1 .. Len(word) : new[a + k] = word[k]
  <2>1. EndsWithLexeme(spaced, n)
    BY LexemeIsLast
  <2> QED  BY <2>1 DEF EndsWithLexeme
<1>2. Len(new) <= Len(text) /\ \A k \in 1 .. Len(new) : text[k] = new[k]
  <2>1. n \in 0 .. Len(lexemes)
    BY <1>0
  <2> QED  BY <2>1, TextBegins
<1>3. text \in Seq(Chars)
  <2>1. Len(lexemes) \in 0 .. Len(lexemes)
    BY <1>0
  <2> QED  BY <2>1, TextIsText DEF Text
<1>4. word \in Seq(Chars)
  BY SpellingIsText
<1> HIDE DEF text, new, word, a
<1>5. \A k \in 1 .. Len(word) : text[a + k] = word[k]
  <2> TAKE k \in 1 .. Len(word)
  <2>1. a + k \in 1 .. Len(new)
    BY <1>1
  <2> QED  BY <1>1, <1>2, <2>1
<1>6. a + Len(word) <= Len(text)
  BY <1>1, <1>2
<1> QED  BY <1>1, <1>3, <1>4, <1>5, <1>6 DEF StandsIn, text, word, a

LEMMA BlankIsNoName == Space \cap NameTail = {}
<1>1. "\t" \notin Digit
  <2>1. ASSUME NEW i \in 1 .. 10
        PROVE  LowerDigits[i] \in {"0", "1", "2", "3", "4", "5", "6", "7", "8", "9"}
    BY DEF LowerDigits
  <2>2. "\t" \notin {"0", "1", "2", "3", "4", "5", "6", "7", "8", "9"}
    OBVIOUS
  <2> QED  BY <2>1, <2>2 DEF Digit
<1>2. "\t" \notin Letters /\ "\t" # "_"
  BY LexerAssumption
<1>3. "\t" \notin NameTail
  BY <1>1, <1>2 DEF NameTail
<1> QED  BY <1>3, DigitsAreNameTail DEF Space

LEMMA LexemeIsSeparate ==
  ASSUME TextTypeOK, NEW spaced \in BOOLEAN, NEW n \in 1 .. Len(lexemes)
  PROVE  Separated(Text(spaced), Front(spaced, n), Spelling[lexemes[n]])
<1> DEFINE N == Len(lexemes)
           text == Text(spaced)
           word == Spelling[lexemes[n]]
           z == Front(spaced, n) + Len(word)
<1>0. N \in Nat /\ n \in 1 .. N
  BY DEF TextTypeOK
<1>1. z = Len(TextTo(spaced)[n]) /\ z \in Nat
  <2>1. EndsWithLexeme(spaced, n)
    BY LexemeIsLast
  <2> QED  BY <2>1 DEF EndsWithLexeme
<1>2. CASE n = N
  <2>1. z = Len(text)
    BY <1>1, <1>2 DEF Text
  <2>2. z >= Len(text)
    BY <1>1, <2>1
  <2> QED  BY <2>2 DEF Bounded, Separated
<1>3. CASE n # N
  <2>1. PICK m \in 1 .. N : m = n + 1
    BY <1>0, <1>3
  <2>2. m - 1 = n /\ m > 1
    BY <1>0, <2>1
  <2> DEFINE next == Spelling[lexemes[m]]
             new == TextTo(spaced)[m]
             gap == Gap(m, spaced)
  <2>3. EndsWithLexeme(spaced, m)
    BY LexemeIsLast
  <2>4. /\ Front(spaced, m) \in Nat /\ Len(new) = Front(spaced, m) + Len(next)
        /\ Len(next) \in Nat \ {0}
        /\ \A k \in 1 .. Len(next) : new[Front(spaced, m) + k] = next[k]
        /\ \/ gap = <<>> /\ Front(spaced, m) = z
           \/ gap # <<>> /\ Front(spaced, m) = z + 1 /\ new[z + 1] \in Space
    <3> HIDE DEF z
    <3> QED  BY <1>1, <2>2, <2>3 DEF EndsWithLexeme
  <2>5. \A k \in 1 .. Len(new) : text[k] = new[k]
    <3>1. m \in 0 .. N
      BY <1>0
    <3> QED  BY <3>1, TextBegins
  <2> HIDE DEF new, text, z
  <2>6. z + 1 \in 1 .. Len(new)
    BY <1>1, <2>4
  <2>7. CASE gap # <<>>
    <3>1. text[z + 1] \notin NameTail
      BY <2>4, <2>5, <2>6, <2>7, BlankIsNoName
    <3> QED  BY <3>1 DEF Bounded, Separated, z, text
  <2>8. CASE gap = <<>>
    <3>1. text[z + 1] = next[1]
      <4>1. 1 \in 1 .. Len(next)
        BY <2>4
      <4> QED  BY <2>4, <2>5, <2>6, <2>8, <4>1
    <3>2. ~ Merge(lexemes[m - 1], lexemes[m])
      <4>1. <<" ">> # <<>>
        OBVIOUS
      <4> QED  BY <2>2, <2>8, <4>1 DEF Gap
    <3>3. word[Len(word)] \notin NameTail \/ next[1] \notin NameTail
      BY <2>2, <3>2 DEF Merge
    <3> QED  BY <3>1, <3>3 DEF Bounded, Separated, z, text
  <2> QED  BY <2>7, <2>8
<1> QED  BY <1>2, <1>3

(***************************************************************************)
(* Every lexeme alone is a token, the one Meaning says, or none.           *)
(***************************************************************************)
LexemesAreRead ==
  \A l \in Lexemes :
    NextToken(Spelling[l], 1) =
      IF l \in DOMAIN Meaning THEN Scanned(Meaning[l], Len(Spelling[l]) + 1) ELSE Error

LEMMA LexemeIsRead ==
  ASSUME TextTypeOK, LexemesAreRead, NEW spaced \in BOOLEAN, NEW n \in 1 .. Len(lexemes),
         n = Len(lexemes) \/ lexemes[n] \in DOMAIN Meaning
  PROVE  NextToken(Text(spaced), Len(TextTo(spaced)[n - 1]) + 1) =
           IF lexemes[n] \in DOMAIN Meaning
             THEN Scanned(Meaning[lexemes[n]], Len(TextTo(spaced)[n]) + 1) ELSE Error
<1> DEFINE text == Text(spaced)
           new == TextTo(spaced)[n]
           old == TextTo(spaced)[n - 1]
           word == Spelling[lexemes[n]]
           a == Front(spaced, n)
           known == lexemes[n] \in DOMAIN Meaning
<1>1. /\ a \in Nat /\ Len(old) \in Nat /\ Len(new) = a + Len(word)
      /\ Len(word) \in Nat \ {0}
      /\ \/ a = Len(old)
         \/ a = Len(old) + 1 /\ new[Len(old) + 1] \in Space
  <2>1. EndsWithLexeme(spaced, n)
    BY LexemeIsLast
  <2> QED  BY <2>1 DEF EndsWithLexeme
<1>2. StandsIn(text, a, word) /\ Separated(text, a, word)
  BY LexemeStands, LexemeIsSeparate
<1>3. lexemes[n] \in Lexemes /\ word # <<>>
  <2>1. lexemes[n] \in Lexemes
    BY SpellingIsText
  <2> QED  BY <2>1, SpellingAssumption DEF Lexemes
<1>4. word[1] \notin Space
  BY <1>3, SpellingAssumption DEF Lexemes
<1>5. NextToken(word, 1) = IF known THEN Scanned(Meaning[lexemes[n]], Len(word) + 1) ELSE Error
  BY <1>3 DEF LexemesAreRead
<1>6. n = Len(lexemes) => a + Len(word) = Len(text)
  BY <1>1 DEF Text
<1>7. /\ Len(text) \in Nat /\ a + Len(word) <= Len(text)
      /\ a = Len(old) + 1 => text[Len(old) + 1] = new[Len(old) + 1]
  <2>1. /\ Len(text) \in Nat /\ a + Len(word) <= Len(text)
    BY <1>2 DEF StandsIn
  <2>2. \A k \in 1 .. Len(new) : text[k] = new[k]
    <3>1. n \in 0 .. Len(lexemes)
      BY DEF TextTypeOK
    <3> QED  BY <3>1, TextBegins
  <2> HIDE DEF text, new, old, word, a
  <2>3. a = Len(old) + 1 => Len(old) + 1 \in 1 .. Len(new)
    BY <1>1
  <2> QED  BY <2>1, <2>2, <2>3
<1> HIDE DEF text, new, old, word, a
<1>8. ~ known => NextToken(word, 1) = Error
  BY <1>5
<1>9. known => NextToken(word, 1) # Error
  BY <1>5, ScannedFields
<1>10. Shifted(a, NextToken(word, 1), NextToken(text, a + 1))
  <2>1. a + Len(word) = Len(text) \/ NextToken(word, 1) # Error
    BY <1>6, <1>9
  <2> QED  BY <1>2, <1>3, <1>4, <2>1, TokenIsLocal
<1>11. NextToken(text, a + 1) =
         IF known THEN Scanned(Meaning[lexemes[n]], Len(new) + 1) ELSE Error
  <2>1. CASE known
    <3>1. NextToken(word, 1) = Scanned(Meaning[lexemes[n]], Len(word) + 1)
      BY <1>5, <2>1
    <3>2. NextToken(text, a + 1) = Scanned(Meaning[lexemes[n]], a + (Len(word) + 1))
      BY <1>10, <3>1 DEF Shifted
    <3>3. a + (Len(word) + 1) = Len(new) + 1
      BY <1>1
    <3> QED  BY <2>1, <3>2, <3>3
  <2>2. CASE ~ known
    BY <1>8, <1>10, <2>2 DEF Shifted
  <2> QED  BY <2>1, <2>2
<1>12. NextToken(text, Len(old) + 1) = NextToken(text, a + 1)
  <2>1. CASE a = Len(old)
    BY <2>1
  <2>2. CASE a = Len(old) + 1 /\ new[Len(old) + 1] \in Space
    <3>1. PICK b : b = Len(old) + 1
      OBVIOUS
    <3>2. b \in 1 .. Len(text) /\ text[b] \in Space
      BY <1>1, <1>7, <2>2, <3>1
    <3>3. NextToken(text, b) = NextToken(text, b + 1)
      BY <1>7, <3>2, BlankIsSkipped
    <3> QED  BY <2>2, <3>1, <3>3
  <2> QED  BY <1>1, <2>1, <2>2
<1> QED  BY <1>11, <1>12 DEF text, old, new

-----------------------------------------------------------------------------
(* ScanAll reads one lexeme in a turn. *)

LEMMA ScanStays ==
  ASSUME NEW text, Len(text) \in Nat, NEW n \in 0 .. Len(text) + 1,
         ScanTurn(text, ScanTurns(text)[n]) = ScanTurns(text)[n]
  PROVE  ScanTurns(text)[Len(text) + 1] = ScanTurns(text)[n]
<1> DEFINE N == Len(text) + 1
           turn == ScanTurns(text)
           S == {d \in Nat : n + d <= N => turn[n + d] = turn[n]}
<1>1. 0 \in S
  BY n + 0 = n
<1>2. ASSUME NEW d \in Nat, d \in S  PROVE d + 1 \in S
  <2> SUFFICES ASSUME n + (d + 1) <= N  PROVE turn[n + (d + 1)] = turn[n]
    OBVIOUS
  <2>1. PICK m \in 1 .. N : m = n + (d + 1)
    OBVIOUS
  <2>2. m - 1 = n + d /\ n + d <= N
    BY <2>1
  <2>3. turn[m] = ScanTurn(text, turn[m - 1])
    BY ScanTurnsUnfold
  <2>4. turn[n + d] = turn[n]
    BY <1>2, <2>2
  <2> QED  BY <2>1, <2>2, <2>3, <2>4
<1> HIDE DEF S
<1>3. N - n \in S
  <2>1. N - n \in Nat
    OBVIOUS
  <2> QED  BY <1>1, <1>2, <2>1, NatSetInduction
<1>4. n + (N - n) = N
  OBVIOUS
<1> QED  BY <1>3, <1>4 DEF S

FirstTokens(n) == [i \in 1 .. n |-> Meaning[lexemes[i]]]

Known(n) == \A i \in 1 .. n : lexemes[i] \in DOMAIN Meaning

LEMMA FirstTokensGrow ==
  ASSUME NEW n \in Nat, Known(n)
  PROVE  /\ Len(FirstTokens(n)) = n
         /\ \A x : Append(FirstTokens(n), x) =
                     [i \in 1 .. n + 1 |-> IF i = n + 1 THEN x ELSE Meaning[lexemes[i]]]
         /\ ~ Finished(Scanning(FirstTokens(n), 1))
<1> DEFINE F == FirstTokens(n)
<1>1. ASSUME NEW S, NEW f, f = [i \in 1 .. n |-> f[i]], \A i \in 1 .. n : f[i] \in S
      PROVE  /\ Len(f) = n
             /\ \A x : Append(f, x) = [i \in 1 .. n + 1 |-> IF i = n + 1 THEN x ELSE f[i]]
  <2>1. f \in Seq(S) /\ Len(f) = n
    BY <1>1
  <2>2. ASSUME NEW x  PROVE Append(f, x) = [i \in 1 .. n + 1 |-> IF i = n + 1 THEN x ELSE f[i]]
    <3> DEFINE g == Append(f, x)
    <3>1. f \in Seq(S \cup {x}) /\ x \in S \cup {x}
      BY <2>1
    <3>2. Len(f) = n /\ Len(g) = n + 1 /\ g \in Seq(S \cup {x})
      BY <2>1, <3>1
    <3>3. (\A i \in 1 .. n : g[i] = f[i]) /\ g[n + 1] = x
      BY <2>1, <3>1
    <3>4. \A T : \A h \in Seq(T) : h = [i \in 1 .. Len(h) |-> h[i]]
      OBVIOUS
    <3> HIDE DEF g
    <3>5. g = [i \in 1 .. n + 1 |-> g[i]]
      BY <3>2, <3>4
    <3>6. ASSUME NEW i \in 1 .. n + 1  PROVE g[i] = IF i = n + 1 THEN x ELSE f[i]
      BY <3>3
    <3>7. g = [i \in 1 .. n + 1 |-> IF i = n + 1 THEN x ELSE f[i]]
      BY <3>5, <3>6
    <3> QED  BY <3>7 DEF g
  <2> QED  BY <2>1, <2>2
<1>2. F = [i \in 1 .. n |-> F[i]] /\ \A i \in 1 .. n : F[i] = Meaning[lexemes[i]]
  BY DEF FirstTokens
<1> HIDE DEF F
<1>3. \A i \in 1 .. n : F[i] \in {Meaning[lexemes[j]] : j \in 1 .. n}
  BY <1>2
<1>4. /\ Len(F) = n
      /\ \A x : Append(F, x) = [i \in 1 .. n + 1 |-> IF i = n + 1 THEN x ELSE F[i]]
  BY <1>1, <1>2, <1>3
<1>5. ASSUME NEW x
      PROVE  Append(F, x) = [i \in 1 .. n + 1 |-> IF i = n + 1 THEN x ELSE Meaning[lexemes[i]]]
  <2>1. \A i \in 1 .. n + 1 : i = n + 1 \/ i \in 1 .. n
    OBVIOUS
  <2>2. \A i \in 1 .. n + 1 :
          (IF i = n + 1 THEN x ELSE F[i]) = (IF i = n + 1 THEN x ELSE Meaning[lexemes[i]])
    BY <1>2, <2>1
  <2> QED  BY <1>4, <2>2
<1>6. ~ Finished(Scanning(F, 1))
  <2> DEFINE s == Scanning(F, 1)
  <2>1. s.tokens = F
    BY DEF Scanning
  <2> HIDE DEF s
  <2>2. F # <<>> => n \in 1 .. n
    <3>1. CASE n = 0
      <4>1. F = <<>>
        BY <1>2, <3>1
      <4> QED  BY <4>1
    <3>2. CASE n # 0
      BY <3>2
    <3> QED  BY <3>1, <3>2
  <2>3. F # <<>> => F[n].kind # "EndOfInput"
    BY <1>2, <2>2, MeaningAssumption DEF Known
  <2> QED  BY <1>4, <2>1, <2>3 DEF Finished, s
<1> QED  BY <1>4, <1>5, <1>6 DEF F

LEMMA UnfinishedTurn ==
  ASSUME NEW text, NEW tokens, NEW q, ~ Finished(Scanning(tokens, 1))
  PROVE  ScanTurn(text, Scanning(tokens, q)) =
           IF NextToken(text, q).ok
             THEN Scanning(Append(tokens, NextToken(text, q).token), NextToken(text, q).next)
             ELSE Error
<1> DEFINE s == Scanning(tokens, q)
           r == Scanning(tokens, 1)
<1>1. s.ok /\ s.tokens = tokens /\ s.next = q /\ r.tokens = tokens
  BY DEF Scanning
<1> HIDE DEF s, r
<1>2. ~ (tokens # <<>> /\ tokens[Len(tokens)].kind = "EndOfInput")
  BY <1>1 DEF Finished, r
<1>3. ScanTurn(text, s) =
        IF NextToken(text, q).ok
          THEN Scanning(Append(tokens, NextToken(text, q).token), NextToken(text, q).next)
          ELSE Error
  BY <1>1, <1>2 DEF ScanTurn
<1> QED  BY <1>3 DEF s

LEMMA LexemesAreScanned ==
  ASSUME TextTypeOK, LexemesAreRead, NEW spaced \in BOOLEAN,
         NEW n \in 0 .. Len(lexemes), Known(n)
  PROVE  ScanTurns(Text(spaced))[n] =
           Scanning(FirstTokens(n), Len(TextTo(spaced)[n]) + 1)
<1> DEFINE N == Len(lexemes)
           to == TextTo(spaced)
           text == Text(spaced)
           turn == ScanTurns(text)
           Scans(k) == turn[k] = Scanning(FirstTokens(k), Len(to[k]) + 1)
           S == {k \in Nat : k <= n => Scans(k)}
<1>0. N \in Nat /\ n \in 0 .. N
  BY DEF TextTypeOK
<1>1. Len(text) \in Nat /\ N <= Len(text)
  <2>1. N \in 0 .. N
    BY <1>0
  <2> QED  BY <2>1, TextIsText DEF Text
<1>2. 0 \in S
  <2>1. turn[0] = Scanning(<<>>, 1)
    BY <1>1, ScanTurnsUnfold
  <2>2. to[0] = <<>>
    BY TextUnfolds
  <2>3. Len(to[0]) + 1 = 1
    BY <2>2
  <2>4. FirstTokens(0) = <<>>
    BY DEF FirstTokens
  <2>5. Scans(0)
    BY <2>1, <2>3, <2>4
  <2> QED  BY <2>5
<1>3. ASSUME NEW k \in Nat, k \in S  PROVE k + 1 \in S
  <2> SUFFICES ASSUME k + 1 <= n  PROVE Scans(k + 1)
    OBVIOUS
  <2>1. PICK m \in 1 .. N : m = k + 1
    BY <1>0
  <2>2. m - 1 = k /\ m \in 1 .. Len(text) + 1 /\ m \in 1 .. n
    BY <1>0, <1>1, <2>1
  <2>3. turn[m] = ScanTurn(text, turn[m - 1])
    BY <1>1, <2>2, ScanTurnsUnfold
  <2>4. turn[k] = Scanning(FirstTokens(k), Len(to[k]) + 1)
    BY <1>3
  <2>5. Known(k)
    <3>1. \A i \in 1 .. k : i \in 1 .. n
      BY <1>0
    <3> QED  BY <3>1 DEF Known
  <2>6. lexemes[m] \in DOMAIN Meaning
    BY <2>2 DEF Known
  <2>7. NextToken(text, Len(to[m - 1]) + 1) = Scanned(Meaning[lexemes[m]], Len(to[m]) + 1)
    BY <2>6, LexemeIsRead
  <2> DEFINE q == Len(to[k]) + 1
             t == NextToken(text, q)
  <2>8. t.ok /\ t.token = Meaning[lexemes[m]] /\ t.next = Len(to[m]) + 1
    BY <2>2, <2>7, ScannedFields
  <2>9. ~ Finished(Scanning(FirstTokens(k), 1))
    BY <2>5, FirstTokensGrow
  <2>10. ScanTurn(text, Scanning(FirstTokens(k), q)) =
           Scanning(Append(FirstTokens(k), t.token), t.next)
    BY <2>8, <2>9, UnfinishedTurn
  <2>11. Append(FirstTokens(k), Meaning[lexemes[m]]) = FirstTokens(m)
    <3>1. Append(FirstTokens(k), Meaning[lexemes[m]]) =
            [i \in 1 .. k + 1 |-> IF i = k + 1 THEN Meaning[lexemes[m]] ELSE Meaning[lexemes[i]]]
      BY <2>5, FirstTokensGrow
    <3> QED  BY <2>1, <3>1 DEF FirstTokens
  <2> HIDE DEF q, t, to, text, turn
  <2>12. turn[m] = Scanning(FirstTokens(m), Len(to[m]) + 1)
    BY <2>2, <2>3, <2>4, <2>8, <2>10, <2>11 DEF q
  <2> QED  BY <2>1, <2>12
<1> HIDE DEF S
<1>4. n \in S
  <2>1. n \in Nat
    BY <1>0
  <2> QED  BY <1>2, <1>3, <2>1, NatSetInduction
<1>5. Scans(n)
  BY <1>0, <1>4 DEF S
<1> QED  BY <1>5

\* Nothing is written behind a lexeme that is no token.
JunkIsLast == \A n \in Nat : n < Len(lexemes) => Known(n)

LEMMA LexemesAreCut ==
  ASSUME TextTypeOK, LexemesAreRead, JunkIsLast, NEW spaced \in BOOLEAN
  PROVE  ScanAll(Text(spaced)) =
           IF NoJunk THEN [ok |-> TRUE, tokens |-> Input] ELSE Error
<1> DEFINE N == Len(lexemes)
           to == TextTo(spaced)
           text == Text(spaced)
           turn == ScanTurns(text)
<1>0. N \in Nat /\ DOMAIN lexemes = 1 .. N
  BY DEF TextTypeOK
<1>1. Len(text) \in Nat /\ N <= Len(text) /\ text = to[N]
  <2>1. N \in 0 .. N
    BY <1>0
  <2> QED  BY <2>1, TextIsText DEF Text
<1>2. NoJunk <=> Known(N)
  BY <1>0 DEF NoJunk, Known
<1>3. CASE NoJunk
  <2> DEFINE q == Len(text) + 1
             t == NextToken(text, q)
             done == Scanning(Input, q)
  <2>1. turn[N] = Scanning(FirstTokens(N), q)
    <3>1. N \in 0 .. N
      BY <1>0
    <3> QED  BY <1>1, <1>2, <1>3, <3>1, LexemesAreScanned
  <2>2. t = Scanned(EndOfInput, q)
    <3>1. q \in 1 .. Len(text) + 1
      BY <1>1
    <3>2. EndOfRun(text, q, Space) \in q .. Len(text) + 1
      BY <1>1, <3>1, RunEnds
    <3>3. EndOfRun(text, q, Space) = q /\ q > Len(text)
      BY <1>1, <3>2
    <3>4. q \in Int
      BY <1>1
    <3> HIDE DEF q
    <3> QED  BY <1>1, <3>3, <3>4 DEF NextToken
  <2>3. t.ok /\ t.token = EndOfInput /\ t.next = q
    BY <2>2, ScannedFields
  <2>4. FirstTokens(N) = Tokens
    BY <1>0 DEF FirstTokens, Tokens
  <2>5. ~ Finished(Scanning(FirstTokens(N), 1))
    BY <1>0, <1>2, <1>3, FirstTokensGrow
  <2>6. ScanTurn(text, turn[N]) = done
    <3> HIDE DEF q, t
    <3>1. ScanTurn(text, Scanning(FirstTokens(N), q)) = Scanning(Append(FirstTokens(N), t.token), t.next)
      BY <2>3, <2>5, UnfinishedTurn DEF t
    <3> QED  BY <2>1, <2>3, <2>4, <3>1 DEF Input
  <2>7. PICK m \in 1 .. Len(text) + 1 : m = N + 1
    BY <1>0, <1>1
  <2>8. turn[m] = done
    <3>1. turn[m] = ScanTurn(text, turn[m - 1]) /\ m - 1 = N
      BY <1>0, <1>1, <2>7, ScanTurnsUnfold
    <3> QED  BY <2>6, <3>1
  <2>9. done.ok /\ done.tokens = Input
    BY DEF Scanning
  <2> HIDE DEF done
  <2>10. Input # <<>> /\ Input[Len(Input)].kind = "EndOfInput"
    <3>1. Ended(Input)
      BY <1>3, InputEnds
    <3>2. Len(Input) \in Nat \ {0}
      BY <3>1 DEF Ended
    <3>3. Len(Input) \in 1 .. Len(Input)
      BY <3>2
    <3>4. Input # <<>>
      BY <3>2
    <3> QED  BY <3>1, <3>3, <3>4 DEF Ended
  <2>11. ScanTurn(text, done) = done
    BY <2>9, <2>10 DEF ScanTurn
  <2>12. turn[Len(text) + 1] = done
    <3>1. m \in 0 .. Len(text) + 1
      BY <1>1
    <3> QED  BY <1>1, <2>8, <2>11, <3>1, ScanStays
  <2> HIDE DEF turn
  <2>13. ScanAll(text) = [ok |-> TRUE, tokens |-> Input]
    BY <2>9, <2>12 DEF ScanAll, turn
  <2> QED  BY <1>3, <2>13
<1>4. CASE ~ NoJunk
  <2>1. N # 0
    BY <1>2, <1>4 DEF Known
  <2>2. PICK k \in 0 .. N : k = N - 1
    <3> HIDE DEF N
    <3>1. N - 1 \in 0 .. N
      BY <1>0, <2>1
    <3> QED  BY <3>1
  <2>3. k \in Nat /\ k < N /\ N \in 1 .. N /\ N \in 1 .. Len(text) + 1 /\ N - 1 = k
    BY <1>0, <1>1, <2>1, <2>2
  <2>4. Known(k)
    BY <2>3 DEF JunkIsLast
  <2>5. lexemes[N] \notin DOMAIN Meaning
    <3>1. \A i \in 1 .. N : i = N \/ i \in 1 .. k
      <4> HIDE DEF N
      <4> QED  BY <1>0, <2>2
    <3> QED  BY <1>2, <1>4, <2>4, <3>1 DEF Known
  <2> DEFINE q == Len(to[k]) + 1
  <2>6. turn[k] = Scanning(FirstTokens(k), q)
    BY <2>4, LexemesAreScanned
  <2>7. NextToken(text, q) = Error
    <3>1. NextToken(text, Len(to[N - 1]) + 1) = Error
      BY <2>3, <2>5, LexemeIsRead
    <3> QED  BY <2>3, <3>1
  <2>8. ~ Finished(Scanning(FirstTokens(k), 1))
    BY <2>3, <2>4, FirstTokensGrow
  <2>9. ScanTurn(text, Scanning(FirstTokens(k), q)) = Error
    <3> HIDE DEF q
    <3>1. ~ NextToken(text, q).ok
      BY <2>7, ScannedFields
    <3> QED  BY <2>8, <3>1, UnfinishedTurn
  <2>10. turn[N] = Error
    <3>1. turn[N] = ScanTurn(text, turn[N - 1])
      BY <1>1, <2>3, ScanTurnsUnfold
    <3> QED  BY <2>3, <2>6, <2>9, <3>1
  <2>11. ScanTurn(text, Error) = Error
    BY ScannedFields DEF ScanTurn
  <2>12. turn[Len(text) + 1] = Error
    <3>1. N \in 0 .. Len(text) + 1
      BY <2>3
    <3> QED  BY <1>1, <2>10, <2>11, <3>1, ScanStays
  <2> HIDE DEF turn
  <2>13. ScanAll(text) = Error
    BY <2>12, ScannedFields DEF ScanAll, turn
  <2> QED  BY <1>4, <2>13
<1> QED  BY <1>3, <1>4

LEMMA JunkStaysLast == TextSpec => []JunkIsLast
<1>1. TextInit => JunkIsLast
  <2> SUFFICES ASSUME TextInit, NEW n \in Nat, n < Len(lexemes)  PROVE Known(n)
    BY DEF JunkIsLast
  <2>1. Len(lexemes) = 0
    BY DEF TextInit
  <2> QED  BY <2>1
<1>2. TextTypeOK /\ JunkIsLast /\ [Grow]_lexemes => JunkIsLast'
  <2> SUFFICES ASSUME TextTypeOK, JunkIsLast, [Grow]_lexemes
               PROVE  JunkIsLast'
    OBVIOUS
  <2>1. CASE UNCHANGED lexemes
    BY <2>1 DEF JunkIsLast, Known
  <2>2. CASE Grow
    <3>1. PICK l \in Lexemes : lexemes' = Append(lexemes, l)
      BY <2>2 DEF Grow
    <3>2. NoJunk
      BY <2>2 DEF Grow
    <3>3. /\ Len(lexemes) \in Nat /\ DOMAIN lexemes = 1 .. Len(lexemes)
          /\ Len(lexemes') = Len(lexemes) + 1
          /\ \A i \in 1 .. Len(lexemes) : lexemes'[i] = lexemes[i]
      BY <3>1 DEF TextTypeOK
    <3>4. ASSUME NEW n \in Nat, n < Len(lexemes'), NEW i \in 1 .. n
          PROVE  lexemes'[i] \in DOMAIN Meaning
      <4>1. i \in 1 .. Len(lexemes)
        BY <3>3, <3>4
      <4> QED  BY <3>2, <3>3, <4>1 DEF NoJunk
    <3> QED  BY <3>4 DEF JunkIsLast, Known
  <2> QED  BY <2>1, <2>2
<1> QED  BY <1>1, <1>2, TextTyped, PTL DEF TextSpec

(***************************************************************************)
(* LexerReads, for all lexemes and texts of any length: what NextToken     *)
(* reads of every lexeme alone, which the texts of one lexeme check,       *)
(* ScanAll reads of them one behind the other.                             *)
(***************************************************************************)
THEOREM LexemesAreNeverMixed ==
  ASSUME LexemesAreRead
  PROVE  TextSpec => []LexerReads
<1>1. TextTypeOK /\ JunkIsLast => LexerReads
  BY LexemesAreCut DEF LexerReads
<1> QED  BY <1>1, TextTyped, JunkStaysLast, PTL
=============================================================================
