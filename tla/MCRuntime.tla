------------------------------ MODULE MCRuntime ------------------------------
(***************************************************************************)
(* Guest code that does not do what is said of it: 256 bytes written by a  *)
(* cc65 program, 256 bytes of BSS of an llvm-mos program, and the RECURSE  *)
(* of the translated Tali Forth.                                           *)
(***************************************************************************)
EXTENDS Runtime, CmosPort

MCScript == <<>>

MCIrqIntervals == {0}

MCWritePrograms == {Cc65Program(1, 256)}

BssSize == 256

MCBssPrograms == {MosProgram(BssSize, 0)}

(***************************************************************************)
(* "Clear the BSS, which __bss_start and __bss_size give", on a machine    *)
(* whose memory starts blank.                                              *)
(***************************************************************************)
BssIsCleared ==
  halted => \A a \in Bss .. Bss + BssSize - 1 : Cell(a) = 0

MCForthWords == {RecurseProgram(named, \h8123) : named \in BOOLEAN}
=============================================================================
