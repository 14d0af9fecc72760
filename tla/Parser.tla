------------------------------- MODULE Parser -------------------------------
(***************************************************************************)
(* class parser: recursive descent with precedence climbing over the       *)
(* tokens of an expression.  Each operator takes the place it starts at    *)
(* and returns the tree with the place behind it, or the place of the      *)
(* token it cannot use.  Trees keep no parentheses: ParenthesizedNode      *)
(* evaluates to its inside.                                                *)
(***************************************************************************)
EXTENDS Lexer, Integers, FiniteSets

Number(n)        == [node |-> "Number", value |-> n]
Register(name)   == [node |-> "Register", name |-> name]
Read8(address)   == [node |-> "Dereference", address |-> address]
Minus(child)     == [node |-> "UnaryMinus", child |-> child]
Binary(op, l, r) == [node |-> "BinaryOp", op |-> op, left |-> l, right |-> r]
SyntaxError      == [node |-> "SyntaxError"]

Parsed(tree, next) == [ok |-> TRUE, tree |-> tree, next |-> next]
Unexpected(place)  == [ok |-> FALSE, next |-> place]

\* token::GetPrecedence; 0 is no binary operator.
Precedence(token) ==
  CASE token.kind = "&&"               -> 1
    [] token.kind \in {"==", "!=", "<="} -> 2
    [] token.kind \in {"+", "-"}       -> 3
    [] token.kind \in {"*", "/"}       -> 4
    [] OTHER                           -> 0

\* Of the right side; one more than the operator's own groups to the left.
NextMinimum_Same(precedence) == precedence
NextMinimum(precedence) == precedence + 1

-----------------------------------------------------------------------------
(* The calls of each other that ParseUnary and ParseExpression make are    *)
(* looked up in below: below.unary[i] and below.expression[<<i, min>>].    *)

\* The parenthesis at i, an expression and its closing parenthesis.
Enclosed(tokens, i, below) ==
  LET inner == below.expression[<<i + 1, 0>>]
  IN  IF tokens[i].kind # "(" THEN Unexpected(i)
      ELSE IF ~inner.ok THEN inner
      ELSE IF tokens[inner.next].kind # ")" THEN Unexpected(inner.next)
      ELSE Parsed(inner.tree, inner.next + 1)

ParsePrimary(tokens, i, below) ==
  CASE tokens[i].kind = "Number"   -> Parsed(Number(tokens[i].value), i + 1)
    [] tokens[i].kind = "Register" -> Parsed(Register(tokens[i].name), i + 1)
    [] OTHER                       -> Enclosed(tokens, i, below)

\* Prefix operators bind tighter than every binary one.
ParseUnary(tokens, i, below) ==
  LET Prefix(Node(_), operand) ==
        IF operand.ok THEN Parsed(Node(operand.tree), operand.next) ELSE operand
  IN  CASE tokens[i].kind = "-"     -> Prefix(Minus, below.unary[i + 1])
        [] tokens[i].kind = "*"     -> Prefix(Read8, below.unary[i + 1])
        [] tokens[i].kind = "read8" -> Prefix(Read8, Enclosed(tokens, i + 1, below))
        [] OTHER                    -> ParsePrimary(tokens, i, below)

\* A turn of ParseExpression's loop: an operator behind left that binds as
\* tightly as MinPrecedence.
ParseOperator(tokens, left, MinPrecedence, below) ==
  LET precedence == Precedence(tokens[left.next])
      right      == below.expression[<<left.next + 1, NextMinimum(precedence)>>]
  IN  IF ~left.ok \/ precedence = 0 \/ precedence < MinPrecedence THEN left
      ELSE IF ~right.ok THEN right
      ELSE Parsed(Binary(tokens[left.next].kind, left.tree, right.tree), right.next)

\* There are fewer operators than tokens; a turn more changes nothing.
ParseTurns(tokens, i, MinPrecedence, below) ==
  LET turn[n \in 0 .. Len(tokens)] ==
        IF n = 0 THEN ParseUnary(tokens, i, below)
                 ELSE ParseOperator(tokens, turn[n - 1], MinPrecedence, below)
  IN  turn

ParseExpression(tokens, i, MinPrecedence, below) ==
  ParseTurns(tokens, i, MinPrecedence, below)[Len(tokens)]

\* Both at every place, for calls that nest at most n deep: each call starts
\* behind its caller's place, so the depth of Len(tokens) is enough.
ParseTo(tokens) ==
  LET to[n \in 0 .. Len(tokens)] ==
        IF n = 0 THEN [unary |-> <<>>, expression |-> <<>>]
        ELSE [unary      |-> [i \in DOMAIN tokens |-> ParseUnary(tokens, i, to[n - 1])],
              expression |-> [q \in (DOMAIN tokens) \X (0 .. 5) |->
                                ParseExpression(tokens, q[1], q[2], to[n - 1])]]
  IN  to

\* parse(): the whole sequence, up to EndOfInput.
Parse(tokens) ==
  LET e == ParseExpression(tokens, 1, 0, ParseTo(tokens)[Len(tokens)])
  IN  IF e.ok /\ tokens[e.next].kind # "EndOfInput" THEN Unexpected(e.next) ELSE e

\* The tree evaluate makes of a text before it evaluates it.
Compile(text) ==
  LET s == ScanAll(text)
      e == Parse(s.tokens)
  IN  IF s.ok /\ e.ok THEN e.tree ELSE SyntaxError

\* SDBValidateExpressionSyntax, which p and w ask before they evaluate: no
\* parenthesis is closed before it is opened, and none stays open.
ParenCount(text, n) ==
  Cardinality({i \in 1 .. n : text[i] = "("})
    - Cardinality({i \in 1 .. n : text[i] = ")"})

SDBValidateExpressionSyntax_Nesting(text) ==
  /\ text # <<>>
  /\ \A n \in 1 .. Len(text) : ParenCount(text, n) \in {0, 1}
  /\ ParenCount(text, Len(text)) = 0
SDBValidateExpressionSyntax(text) ==
  /\ text # <<>>
  /\ \A n \in 1 .. Len(text) : ParenCount(text, n) >= 0
  /\ ParenCount(text, Len(text)) = 0
=============================================================================
