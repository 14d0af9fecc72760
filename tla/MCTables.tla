------------------------------ MODULE MCTables ------------------------------
(***************************************************************************)
(* The functions of the program that keep no state, over their arguments:  *)
(* the arithmetic of the processor for all operands, the decoder's table   *)
(* for all opcodes, the lexer and the parser for all short expressions and *)
(* the loader for all short files.  One of the three is swept in a         *)
(* behaviour; the arguments of the others stay at their first value.       *)
(***************************************************************************)
EXTENDS AluSweep, OpcodeStructure, TextSweep, HexFile, TLC

swept == <<vars, lexemes, file>>

InitSweep == Init /\ TextInit /\ FileInit

NextSweep ==
  \/ Sweep /\ lexemes = <<>> /\ file = <<>> /\ UNCHANGED <<lexemes, file>>
  \/ Grow /\ vars = <<0, 0, 0>> /\ file = <<>> /\ UNCHANGED <<vars, file>>
  \/ AddLine /\ vars = <<0, 0, 0>> /\ lexemes = <<>> /\ UNCHANGED <<vars, lexemes>>

SpecSweep == InitSweep /\ [][NextSweep]_swept

(***************************************************************************)
(* decoder::table is the NMOS encoding: each byte decodes to the operation *)
(* and mode of its aaabbbcc fields, and the 105 others to UNKNOWN.         *)
(***************************************************************************)
TableIsRegular == Decode(a) = Regular(a)

-----------------------------------------------------------------------------
(* Numbers are read modulo 16 here and refused from 64 on. *)

MCLetters == {"a", "b", "c", "d", "e", "f", "A", "B", "C", "D", "E", "F", "r", "x", "X"}

MCMeaning ==
  "$x"   :> RegisterToken("$x") @@ "17" :> NumberToken(1)
  @@ "0x1F" :> NumberToken(15)
  @@ [kind \in {"-", "*", "==", "&&", "(", ")", "read8"} |-> Token(kind)]

MCSpelling ==
  "$x" :> <<"$", "x">> @@ "17" :> <<"1", "7">> @@ "0x1F" :> <<"0", "x", "1", "F">>
  @@ "read8" :> <<"r", "e", "a", "d", "8">>
  @@ "==" :> <<"=", "=">> @@ "&&" :> <<"&", "&">>
  @@ [c \in {"-", "*", "(", ")", "&", "=", "$", "%"} |-> <<c>>]
  @@ "64" :> <<"6", "4">> @@ "0x" :> <<"0", "x">>

Data(address, bytes) ==
  Item("data", address, bytes, RecordLine(0, address, bytes, 0))

MCItems ==
  { Data(\h0200, <<1, 171>>), Data(\hEFFF, <<16, 17, 18, 19>>),
    Data(\hFFFF, <<5, 6>>), Data(\h0300, <<>>),
    \* Lower case, and a carriage return behind the record.
    Item("data", \h0201, <<205>>,
         <<":","0","1","0","2","0","1","0","0","c","d","2","f","\r">>),
    Item("end", 0, <<>>, RecordLine(1, 0, <<>>, 0)),
    Item("other", 0, <<0, 1>>, RecordLine(4, 0, <<0, 1>>, 0)),
    Item("blank", 0, <<>>, <<>>),
    Item("wrong", \h0200, <<7>>, RecordLine(0, \h0200, <<7>>, 1)),
    Item("wrong", 0, <<>>, <<";">>) }

MCBases == {0, \hFFFD}
=============================================================================
