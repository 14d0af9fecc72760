------------------------------- MODULE Bytes -------------------------------
(***************************************************************************)
(* The fixed-width integers of the emulator: std::uint8_t and              *)
(* std::uint16_t values, the casts between them, single bits, the signed   *)
(* reading of a branch offset, and the processor status as a set of flags  *)
(* with its packing into the byte that goes to and from the stack.         *)
(***************************************************************************)
EXTENDS Integers

Byte == 0 .. 255

MaxWord == 65535
Word == 0 .. MaxWord

\* static_cast<std::uint8_t>(n) and static_cast<std::uint16_t>(n)
U8(n)  == n % 256
U16(n) == n % 65536

Low(w)  == w % 256
High(w) == w \div 256
Make16(low, high) == low + 256 * high

\* static_cast<int8_t>(b), the displacement of a branch
Signed(b) == IF b < 128 THEN b ELSE b - 256

\* b & 0x80
Negative(b) == b >= 128

-----------------------------------------------------------------------------
(* Bitwise operators on bytes, as sums of bit products. *)

Weight == [i \in 0 .. 7 |->
             CASE i = 0 -> 1  [] i = 1 -> 2  [] i = 2 -> 4  [] i = 3 -> 8
               [] i = 4 -> 16 [] i = 5 -> 32 [] i = 6 -> 64 [] i = 7 -> 128]

Bit(b, i) == (b \div Weight[i]) % 2

FromBits(f) == f[0] + 2 * f[1] + 4 * f[2] + 8 * f[3]
               + 16 * f[4] + 32 * f[5] + 64 * f[6] + 128 * f[7]

BitAnd(a, b) == FromBits([i \in 0 .. 7 |-> Bit(a, i) * Bit(b, i)])
BitOr(a, b)  == FromBits([i \in 0 .. 7 |->
                            IF Bit(a, i) + Bit(b, i) = 0 THEN 0 ELSE 1])
BitXor(a, b) == FromBits([i \in 0 .. 7 |->
                            IF Bit(a, i) = Bit(b, i) THEN 0 ELSE 1])

-----------------------------------------------------------------------------
(* Registers[P]: the set of the flags that are 1.  "U" is the unused bit 5, *)
(* which the code sets in reset and afterwards treats as any other bit.     *)

Flags == {"C", "Z", "I", "D", "B", "U", "V", "N"}

FlagBit == [C |-> 0, Z |-> 1, I |-> 2, D |-> 3, B |-> 4, U |-> 5, V |-> 6, N |-> 7]

PackFlags(p) ==
  LET b(f, w) == IF f \in p THEN w ELSE 0
  IN  b("C", 1) + b("Z", 2) + b("I", 4) + b("D", 8)
      + b("B", 16) + b("U", 32) + b("V", 64) + b("N", 128)

UnpackFlags(b) == {f \in Flags : Bit(b, FlagBit[f]) = 1}

\* SetFlagsN, SetFlagsZ, SetFlagsC and SetFlagsV
With(p, f, set) == IF set THEN p \cup {f} ELSE p \ {f}

WithNZ(p, b) == With(With(p, "N", Negative(b)), "Z", b = 0)
=============================================================================
