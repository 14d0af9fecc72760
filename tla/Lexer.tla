-------------------------------- MODULE Lexer --------------------------------
(***************************************************************************)
(* class lexer: ScanAll cuts the text of an expression into tokens, the    *)
(* longest one at each place, or fails at the first character that begins  *)
(* none.  Positions count from 1; the spelling of a token is kept where    *)
(* something reads it, the name of a register.                             *)
(***************************************************************************)
EXTENDS Characters
Sequence == INSTANCE SequencesExt

CONSTANTS
  UintRange,             \* 2^32, the numbers of a token
  UlongRange,            \* 2^64, the numbers std::stoul returns
  Letters                \* isalpha

ASSUME LexerAssumption ==
  /\ UintRange \in Nat \ {0} /\ UlongRange \in Nat \ {0}
  /\ (HexDigit \ Digit) \cup {"x", "X"} \subseteq Letters
  /\ Letters \cap (Digit \cup {" ", "\t", "_", "$", "(", ")"}) = {}

Space    == {" ", "\t"}  \* isspace, as far as the line editor returns it
NameHead == Letters \cup {"_", "$"}
NameTail == Letters \cup Digit \cup {"_"}

NumberToken(n)   == [kind |-> "Number", value |-> n]
RegisterToken(s) == [kind |-> "Register", name |-> s]
Token(kind)      == [kind |-> kind]         \* operators, parentheses, read8
EndOfInput       == Token("EndOfInput")

Scanned(token, next) == [ok |-> TRUE, token |-> token, next |-> next]
Error == [ok |-> FALSE]

\* The loops of the scanners: where the characters of a set end.
EndOfRun(text, start, set) ==
  CHOOSE j \in start .. Len(text) + 1 :
    /\ \A k \in start .. j - 1 : text[k] \in set
    /\ j > Len(text) \/ text[j] \notin set

\* std::stoul, which throws what does not fit, and the token's narrower value.
Numeral(digits, base, next) ==
  LET n == Sequence!FoldLeft(LAMBDA v, c : base * v + HexValue[c], 0, digits)
  IN  IF n < UlongRange THEN Scanned(NumberToken(n % UintRange), next) ELSE Error

ScanNumber(text, i) ==
  LET j == EndOfRun(text, i, Digit)
  IN  Numeral(SubSeq(text, i, j - 1), 10, j)

\* "0x" without a digit is no number.
ScanHexNumber_NoDigit(text, i) ==
  LET j == EndOfRun(text, i + 2, HexDigit)
  IN  Numeral(SubSeq(text, i + 2, j - 1), 16, j)
ScanHexNumber(text, i) ==
  LET j == EndOfRun(text, i + 2, HexDigit)
  IN  IF j = i + 2 THEN Error ELSE Numeral(SubSeq(text, i + 2, j - 1), 16, j)

\* A name, after a dollar sign that must not stand alone, or read8.
ScanRegister(text, i) ==
  LET head == IF text[i] = "$" THEN i + 1 ELSE i
      j    == EndOfRun(text, head, NameTail)
      name == Sequence!FoldLeft(LAMBDA s, c : s \o c, "", SubSeq(text, i, j - 1))
  IN  IF j = head THEN Error
      ELSE Scanned(IF name = "read8" THEN Token(name) ELSE RegisterToken(name), j)

ScanOperator(text, i) ==
  LET Before(c) == i < Len(text) /\ text[i + 1] = c        \* Match
  IN  CASE text[i] \in {"(", ")", "+", "-", "*", "/"} -> Scanned(Token(text[i]), i + 1)
        [] text[i] = "=" /\ Before("=") -> Scanned(Token("=="), i + 2)
        [] text[i] = "!" /\ Before("=") -> Scanned(Token("!="), i + 2)
        [] text[i] = "<" /\ Before("=") -> Scanned(Token("<="), i + 2)
        [] text[i] = "&" /\ Before("&") -> Scanned(Token("&&"), i + 2)
        [] OTHER                        -> Error

NextToken(text, start) ==
  LET i == EndOfRun(text, start, Space)
  IN  CASE i > Len(text) -> Scanned(EndOfInput, i)
        [] i < Len(text) /\ text[i] = "0" /\ text[i + 1] \in {"x", "X"} ->
             ScanHexNumber(text, i)
        [] OTHER ->
             CASE text[i] \in Digit    -> ScanNumber(text, i)
               [] text[i] \in NameHead -> ScanRegister(text, i)
               [] OTHER                -> ScanOperator(text, i)

Scanning(tokens, next) == [ok |-> TRUE, tokens |-> tokens, next |-> next]

\* One turn of ScanAll's loop, which ends with an error or behind EndOfInput.
ScanTurn(text, s) ==
  LET t == NextToken(text, s.next)
  IN  CASE ~s.ok -> s
        [] s.ok /\ s.tokens # <<>> /\ s.tokens[Len(s.tokens)].kind = "EndOfInput" -> s
        [] OTHER -> IF t.ok THEN Scanning(Append(s.tokens, t.token), t.next) ELSE Error

\* Every token but the last takes a character.
ScanTurns(text) ==
  LET turn[n \in 0 .. Len(text) + 1] ==
        IF n = 0 THEN Scanning(<<>>, 1) ELSE ScanTurn(text, turn[n - 1])
  IN  turn

ScanAll(text) ==
  LET s == ScanTurns(text)[Len(text) + 1]
  IN  IF s.ok THEN [ok |-> TRUE, tokens |-> s.tokens] ELSE Error
=============================================================================
