-------------------------------- MODULE MCSdb --------------------------------
(***************************************************************************)
(* A guest that counts in $10 and X and reads a character, debugged with   *)
(* two watchpoints over expressions that change together, apart, never,    *)
(* fail at times, and read the UART.                                       *)
(***************************************************************************)
EXTENDS SdbHistory, Programs

CONSTANTS UlongRange, Letters    \* of the lexer

Text == INSTANCE Parser

MCScript == <<66>>

MCIrqIntervals == {0}

Counter ==
  At(Main, << Zp("INC", \h10), One("INX"), Abs("LDA", \hF001),
              Rel("BNE", -8), Zp("DEC", \h10), One("BRK") >>)
  @@ Vectors(Main, Handler)

\* Never halts.
Blinker ==
  At(Main, << Zp("INC", \h10), Zp("DEC", \h10), Abs("JMP", Main) >>)
  @@ Vectors(Main, Handler)

MCImages == {Counter, Blinker}

MCLetters == {"a", "b", "c", "d", "e", "f", "A", "B", "C", "D", "E", "F",
              "r", "x", "X", "q"}

\* What is typed, and the trees the parser makes of it.
Typed ==
  << <<"x">>,
     <<"*", "0", "x", "1", "0", " ", "-", "$", "x">>,
     <<"6", "/", "*", "1", "6">>,
     <<"r","e","a","d","8","(","0","x","F","0","0","1",")", "+", "*", "a">>,
     <<"q">>,
     <<"$","x","&","&","*","0","x","F","0","0","1","/","$","x">> >>

Trees ==
  << Text!Register("x"),
     Text!Binary("-", Text!Read8(Text!Number(16)), Text!Register("$x")),
     Text!Binary("/", Text!Number(6), Text!Read8(Text!Number(16))),
     Text!Binary("+", Text!Read8(Text!Number(DataAddress)), Text!Read8(Text!Register("a"))),
     Text!Register("q"),
     Guarded(Text!Register("$x"), Text!Read8(Text!Number(DataAddress))) >>

ASSUME TypedAssumption == \A i \in DOMAIN Typed : Text!Compile(Typed[i]) = Trees[i]

\* The fifth names no register, the last is not watched: it shows what Guarded is.
MCExpression == {Trees[i] : i \in 1 .. 5}

MCCounts == {1, 3}
MCLengths == {2}
=============================================================================
