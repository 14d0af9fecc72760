---------------------------- MODULE AddressSpace ----------------------------
(***************************************************************************)
(* The array of class memory as a value: the cells that have been written, *)
(* as a function from addresses to bytes, and how an image gets into it.   *)
(***************************************************************************)
EXTENDS Bytes, Sequences

StatusAddress == 61440   \* 0xF000
DataAddress   == 61441   \* 0xF001
InRange == {StatusAddress, DataAddress}

\* write(image, base) into a blank array, the image given by its addresses:
\* the UART's are skipped.
LoadImage(image) == [a \in DOMAIN image \ InRange |-> image[a]]

\* write(image, base), the image a sequence of bytes: what would lie behind
\* the last address is dropped, not wrapped.
WriteImage_Wraps(cells, image, base) ==
  LET index == [a \in {U16(base + i - 1) : i \in DOMAIN image} \ InRange |->
                  U16(a - base) + 1]
  IN  [a \in DOMAIN cells \cup DOMAIN index |->
         IF a \in DOMAIN index THEN image[index[a]] ELSE cells[a]]
WriteImage(cells, image, base) ==
  LET written == { a \in base .. base + Len(image) - 1 :
                     a <= MaxWord /\ a \notin InRange }
  IN  [a \in DOMAIN cells \cup written |->
         IF a \in written THEN image[a - base + 1] ELSE cells[a]]
=============================================================================
