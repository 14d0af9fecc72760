---------------------------- MODULE ProgramLoader ----------------------------
(***************************************************************************)
(* class ProgramLoader: a file is a sequence of bytes for load_bin, of     *)
(* lines for load_hex, each line a sequence of characters.  Memory is the  *)
(* array's cells, returned with an error as well: what was written before  *)
(* it stays written.                                                       *)
(*                                                                         *)
(* A line shorter than its count says is read past its end.  What lies     *)
(* there is the argument beyond, one character for every such place; the   *)
(* place right behind the line holds a NUL.                                *)
(***************************************************************************)
EXTENDS AddressSpace, Characters

Loading(cells) == [status |-> "reading", cells |-> cells]

\* load_bin: the file must fit between base and the end of memory.
LoadBin(image, cells, base) ==
  IF Len(image) > 65536 - base THEN [status |-> "error", cells |-> cells]
  ELSE [status |-> "done", cells |-> WriteImage(cells, image, base)]

-----------------------------------------------------------------------------
\* What is not a hexadecimal digit counts as 0.
HexToByte(high, low) ==
  LET Value(c) == IF c \in HexDigit THEN HexValue[c] ELSE 0
  IN  16 * Value(high) + Value(low)

\* line[k], counted from 0.
CharacterAt(line, k, beyond) ==
  CASE k < Len(line) -> line[k + 1]
    [] k = Len(line) -> "NUL"
    [] OTHER         -> beyond

ByteAt(line, k, beyond) ==
  HexToByte(CharacterAt(line, k, beyond), CharacterAt(line, k + 1, beyond))

\* sum += each of a record's bytes, in the order of the line.
Sum_NoType(r) ==
  LET sum[n \in 0 .. r.count] ==
        IF n = 0 THEN U8(r.count + High(r.address) + Low(r.address))
                 ELSE U8(sum[n - 1] + r.bytes[n])
  IN  U8(sum[r.count] + r.check)
Sum(r) ==
  LET sum[n \in 0 .. r.count] ==
        IF n = 0 THEN U8(r.count + High(r.address) + Low(r.address) + r.type)
                 ELSE U8(sum[n - 1] + r.bytes[n])
  IN  U8(sum[r.count] + r.check)

\* The fields of a line that begins with a colon.
Record(line, beyond) ==
  LET count == ByteAt(line, 1, beyond)
  IN  [count   |-> count,
       address |-> Make16(ByteAt(line, 5, beyond), ByteAt(line, 3, beyond)),
       type    |-> ByteAt(line, 7, beyond),
       bytes   |-> [i \in 1 .. count |-> ByteAt(line, 7 + 2 * i, beyond)],
       check   |-> ByteAt(line, 9 + 2 * count, beyond)]

\* One turn of the loop of load_hex.  Records of other types are checked and
\* skipped.
LoadLine(loading, line, beyond, base) ==
  LET r == Record(line, beyond)
  IN  CASE line = <<>>                -> loading
        [] line # <<>> /\ line[1] # ":" -> [loading EXCEPT !.status = "error"]
        [] OTHER ->
             IF Sum(r) # 0 THEN [loading EXCEPT !.status = "error"]
             ELSE CASE r.type = 0 -> [loading EXCEPT !.cells =
                                        WriteImage(@, r.bytes, U16(base + r.address))]
                    [] r.type = 1 -> [loading EXCEPT !.status = "done"]
                    [] OTHER      -> loading

\* The loop; a line that ends it is the last that is looked at.
LoadLines(lines, cells, beyond, base) ==
  LET loading[n \in 0 .. Len(lines)] ==
        IF n = 0 THEN Loading(cells)
        ELSE LET before == loading[n - 1]
             IN  IF before.status = "reading"
                   THEN LoadLine(before, lines[n], beyond, base)
                   ELSE before
  IN  loading[Len(lines)]

\* The end of the file ends the loop as an end record does.
LoadHex(lines, cells, beyond, base) ==
  LET end == LoadLines(lines, cells, beyond, base)
  IN  [end EXCEPT !.status = IF @ = "reading" THEN "done" ELSE @]
=============================================================================
