----------------------------- MODULE Characters -----------------------------
(***************************************************************************)
(* The characters of a text and the digits among them.  A character is a   *)
(* string of length one, a text a sequence of characters.                  *)
(***************************************************************************)
EXTENDS Naturals, Sequences

LowerDigits == << "0", "1", "2", "3", "4", "5", "6", "7", "8", "9",
                  "a", "b", "c", "d", "e", "f" >>
UpperDigits == << "0", "1", "2", "3", "4", "5", "6", "7", "8", "9",
                  "A", "B", "C", "D", "E", "F" >>

Digit    == { LowerDigits[i] : i \in 1 .. 10 }            \* isdigit
HexDigit == { LowerDigits[i] : i \in 1 .. 16 } \cup
            { UpperDigits[i] : i \in 1 .. 16 }           \* isxdigit

HexValue[c \in HexDigit] ==
  CHOOSE v \in 0 .. 15 : c \in {LowerDigits[v + 1], UpperDigits[v + 1]}
=============================================================================
