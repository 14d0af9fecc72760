------------------------------- MODULE HexFile -------------------------------
(***************************************************************************)
(* The files of ProgramLoader, grown line by line.  Each line comes with what*)
(* it is meant to be: a record of some kind, a blank line, or something that*)
(* load_hex has to refuse.  What memory must hold is said from these       *)
(* meanings, without reading a line.                                       *)
(***************************************************************************)
EXTENDS ProgramLoader

CONSTANTS
  Items,                 \* lines with their meanings, see Item
  MaxLines,
  Bases                  \* the argument base of ProgramLoader

VARIABLE file            \* the items so far

Item(kind, address, bytes, line) ==
  [kind |-> kind, address |-> address, bytes |-> bytes, line |-> line]

Kinds == {"data", "end", "other", "blank", "wrong"}

-----------------------------------------------------------------------------
(* How a record is written. *)

Total(bytes) ==
  LET total[n \in 0 .. Len(bytes)] ==
        IF n = 0 THEN 0 ELSE total[n - 1] + bytes[n]
  IN  total[Len(bytes)]

\* The bytes of a record with its checksum, off by some number.
RecordBytes(type, address, bytes, off) ==
  LET sum == Len(bytes) + High(address) + Low(address) + type + Total(bytes)
  IN  <<Len(bytes), High(address), Low(address), type>> \o Append(bytes, U8(off - sum))

\* Two digits stand for a byte.
IsHex(high, low, b) ==
  /\ {high, low} \subseteq HexDigit
  /\ 16 * HexValue[high] + HexValue[low] = b

\* A colon and the bytes; what follows does not matter.
Spells(line, bytes) ==
  /\ Len(line) > 2 * Len(bytes)
  /\ line[1] = ":"
  /\ \A i \in DOMAIN bytes : IsHex(line[2 * i], line[2 * i + 1], bytes[i])

IsRecord(item, type, off) ==
  Spells(item.line, RecordBytes(type, item.address, item.bytes, off))

\* An item means what its line says.
Means(item) ==
  /\ item.kind \in Kinds
  /\ item.address \in Word
  /\ item.bytes \in Seq(Byte) /\ Len(item.bytes) < 256
  /\ item.line \in Seq(STRING)
  /\ CASE item.kind = "data"  -> IsRecord(item, 0, 0)
       [] item.kind = "end"   -> IsRecord(item, 1, 0)
       [] item.kind = "other" -> \E type \in 2 .. 255 : IsRecord(item, type, 0)
       [] item.kind = "blank" -> item.line = <<>>
       [] item.kind = "wrong" ->
            /\ item.line # <<>>
            /\ item.line[1] = ":" =>
                 \E type \in Byte, off \in 1 .. 255 : IsRecord(item, type, off)

ASSUME ItemsAssumption == \A item \in Items : Means(item)
ASSUME BasesAssumption == Bases \subseteq Word

\* A record in capital letters.
RecordLine(type, address, bytes, off) ==
  LET all == RecordBytes(type, address, bytes, off)
  IN  [k \in 1 .. 2 * Len(all) + 1 |->
         CASE k = 1 -> ":"
           [] k > 1 /\ k % 2 = 0 -> UpperDigits[(all[k \div 2] \div 16) + 1]
           [] k > 1 /\ k % 2 = 1 -> UpperDigits[(all[k \div 2] % 16) + 1]]

-----------------------------------------------------------------------------
AddLine ==
  /\ Len(file) < MaxLines
  /\ \E item \in Items : file' = Append(file, item)

FileInit == file = <<>>
FileSpec == FileInit /\ [][AddLine]_file

-----------------------------------------------------------------------------
(* What memory must hold. *)

Lines == [i \in DOMAIN file |-> file[i].line]

Ends(i) == file[i].kind \in {"end", "wrong"}

\* Of the first n lines, those up to one that ends the loading.
Reached(n) == { i \in 1 .. n : \A j \in 1 .. i - 1 : ~Ends(j) }

Records(n) == { i \in Reached(n) : file[i].kind = "data" }

Start(i, base) == U16(base + file[i].address)

\* The cells an image at a start covers.
Covered(start, bytes) ==
  { a \in start .. start + Len(bytes) - 1 : a <= MaxWord } \ InRange

Cover(i, base) == Covered(Start(i, base), file[i].bytes)

Written(records, base) ==
  LET Latest(a) == CHOOSE i \in records :
                     /\ a \in Cover(i, base)
                     /\ \A j \in records : j > i => a \notin Cover(j, base)
  IN  [ a \in UNION { Cover(i, base) : i \in records } |->
          file[Latest(a)].bytes[a - Start(Latest(a), base) + 1] ]

Result(n) == IF \E i \in Reached(n) : file[i].kind = "wrong" THEN "error" ELSE "done"

Blank == [a \in {} |-> 0]

(***************************************************************************)
(* A .hex file is loaded as its records say: in order, the later one over  *)
(* the earlier, past the UART's cells and up to the last address, until an *)
(* end record or the first wrong line - which is reported, with the        *)
(* records before it and none behind it in memory.  Nothing outside the    *)
(* lines has a say.  A .bin is loaded as a whole or, if it does not fit,   *)
(* not at all.                                                             *)
(***************************************************************************)
LoadsWhatIsWritten ==
  \A base \in Bases :
    /\ \A beyond \in {"NUL", "5"} :
         LoadHex(Lines, Blank, beyond, base) =
           [status |-> Result(Len(file)), cells |-> Written(Records(Len(file)), base)]
    /\ \A i \in DOMAIN file :
         LET image == file[i].bytes
         IN  LoadBin(image, Blank, base) =
               IF base + Len(image) > 65536 THEN [status |-> "error", cells |-> Blank]
               ELSE [status |-> "done",
                     cells  |-> [a \in Covered(base, image) |-> image[a - base + 1]]]

(***************************************************************************)
(* One wrong character in a record is found and nothing of it is written,  *)
(* unless it stands in the count: every other digit is in the checksum and *)
(* the colon is looked for.                                                *)
(***************************************************************************)
DamageIsFound ==
  Len(file) = 1 /\ file[1].kind \in {"data", "end", "other"} =>
    LET line == file[1].line
    IN  \A k \in {1} \cup 4 .. 11 + 2 * Len(file[1].bytes), c \in HexDigit \cup {"G"} :
          HexToByte(c, "0") # HexToByte(line[k], "0") \/ k = 1
            => LoadHex(<<[line EXCEPT ![k] = c]>>, Blank, "NUL", 0)
                 = [status |-> "error", cells |-> Blank]
=============================================================================
