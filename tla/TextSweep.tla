----------------------------- MODULE TextSweep -----------------------------
(***************************************************************************)
(* The texts the debugger reads, grown lexeme by lexeme, and their language*)
(* as a grammar: binary operators in four levels, each grouping to the     *)
(* left, over prefix operators over operands.                              *)
(*                                                                         *)
(*   level 1  &&     level 2  == != <=     level 3  + -     level 4  * /   *)
(*                                                                         *)
(* An expression is grown only while the parser could still accept it: what*)
(* follows the first wrong token cannot make it right.                     *)
(***************************************************************************)
EXTENDS Parser

CONSTANTS
  Spelling,              \* lexemes, as a function to their characters
  Meaning,               \* the tokens of those that are no junk
  MaxLexemes

ASSUME MeaningAssumption ==
  DOMAIN Meaning \subseteq DOMAIN Spelling /\ \A l \in DOMAIN Meaning : Meaning[l].kind # "EndOfInput"

ASSUME SpellingAssumption ==
  \A l \in DOMAIN Spelling :
    Spelling[l] \in Seq(STRING) \ {<<>>} /\ Spelling[l][1] \notin Space

VARIABLE lexemes

Lexemes == DOMAIN Spelling

\* Two lexemes that would grow together without a blank between them.
Merge(l, m) == Spelling[l][Len(Spelling[l])] \in NameTail /\ Spelling[m][1] \in NameTail

\* Blanks everywhere, or only where they are needed.
Gap(i, spaced) ==
  IF i > 1 /\ (spaced \/ Merge(lexemes[i - 1], lexemes[i])) THEN <<" ">> ELSE <<>>

\* The first n lexemes.
TextTo(spaced) ==
  LET text[n \in 0 .. Len(lexemes)] ==
        IF n = 0 THEN <<>> ELSE text[n - 1] \o Gap(n, spaced) \o Spelling[lexemes[n]]
  IN  text

Text(spaced) == TextTo(spaced)[Len(lexemes)]

Tokens == [i \in DOMAIN lexemes |-> Meaning[lexemes[i]]]

NoJunk == \A i \in DOMAIN lexemes : lexemes[i] \in DOMAIN Meaning

Input == Append(Tokens, EndOfInput)

Outcome == Parse(Input)

Grow ==
  /\ Len(lexemes) < MaxLexemes
  /\ NoJunk
  /\ Outcome.ok \/ Outcome.next > Len(lexemes)
  /\ \E l \in Lexemes : lexemes' = Append(lexemes, l)

TextInit == lexemes = <<>>
TextSpec == TextInit /\ [][Grow]_lexemes

-----------------------------------------------------------------------------
(* Trees(tokens, level, i, j) is the set of the trees of the tokens from i *)
(* to j, found by trying every place to cut them, so an ambiguity would    *)
(* show as a second tree; the parser never looks back.                     *)

Operators == << {"&&"}, {"==", "!=", "<="}, {"+", "-"}, {"*", "/"} >>

InParentheses(tokens, i, j, shorter) ==
  IF i < j /\ tokens[i].kind = "(" /\ tokens[j].kind = ")"
    THEN shorter[<<1, i + 1, j - 1>>] ELSE {}

Operand(tokens, i, j, shorter) ==
  CASE i = j /\ tokens[i].kind = "Number"   -> {Number(tokens[i].value)}
    [] i = j /\ tokens[i].kind = "Register" -> {Register(tokens[i].name)}
    [] OTHER                                -> InParentheses(tokens, i, j, shorter)

Prefixed(tokens, i, j, shorter) ==
  CASE tokens[i].kind = "-"     -> {Minus(t) : t \in shorter[<<5, i + 1, j>>]}
    [] tokens[i].kind = "*"     -> {Read8(t) : t \in shorter[<<5, i + 1, j>>]}
    [] tokens[i].kind = "read8" -> {Read8(t) : t \in InParentheses(tokens, i + 1, j, shorter)}
    [] OTHER                    -> {}

\* The trees whose last operator is of a level p.
Joined(tokens, p, i, j, shorter) ==
  UNION { { Binary(tokens[k].kind, left, right) :
              left \in shorter[<<p, i, k - 1>>], right \in shorter[<<p + 1, k + 1, j>>] } :
          k \in { m \in i .. j : tokens[m].kind \in Operators[p] } }

\* The trees of a level, from those of shorter sequences.
Rule(tokens, level, i, j, shorter) ==
  IF i > j THEN {}
  ELSE Operand(tokens, i, j, shorter) \cup Prefixed(tokens, i, j, shorter)
         \cup UNION { Joined(tokens, p, i, j, shorter) : p \in level .. 4 }

\* Levels, first and last places.
Spans(tokens) == (1 .. 5) \X (1 .. Len(tokens) + 1) \X (0 .. Len(tokens))

\* Those of at most n tokens.
TreesTo(tokens) ==
  LET to[n \in 0 .. Len(tokens)] ==
        [q \in Spans(tokens) |->
           IF n = 0 THEN {} ELSE Rule(tokens, q[1], q[2], q[3], to[n - 1])]
  IN  to

Trees(tokens, level, i, j) == TreesTo(tokens)[Len(tokens)][<<level, i, j>>]

-----------------------------------------------------------------------------
(***************************************************************************)
(* The lexer cuts a text into the lexemes it was written from, with blanks *)
(* or without: the longest token at each place, and none that is malformed *)
(* or too large for std::stoul.  A number is read modulo 2^32.             *)
(***************************************************************************)
LexerReads ==
  \A spaced \in BOOLEAN :
    ScanAll(Text(spaced)) =
      IF NoJunk THEN [ok |-> TRUE, tokens |-> Input] ELSE Error

(***************************************************************************)
(* The parser accepts the sentences of the grammar and no others, and      *)
(* builds their one tree: precedences, grouping to the left, prefix        *)
(* operators and read8, however they nest.                                 *)
(***************************************************************************)
GrammarDecides ==
  NoJunk =>
    Trees(Input, 1, 1, Len(lexemes)) = IF Outcome.ok THEN {Outcome.tree} ELSE {}

(***************************************************************************)
(* The two checks of w and p agree where it matters: counting parentheses  *)
(* in the text refuses nothing the parser would have taken.                *)
(***************************************************************************)
PrecheckIsHarmless ==
  \A spaced \in BOOLEAN :
    Compile(Text(spaced)) # SyntaxError => SDBValidateExpressionSyntax(Text(spaced))
=============================================================================
