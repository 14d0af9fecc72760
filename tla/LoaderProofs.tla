---------------------------- MODULE LoaderProofs ----------------------------
(***************************************************************************)
(* Theorems about the loader for every file: any number of lines, any      *)
(* records, any base.                                                      *)
(***************************************************************************)
EXTENDS HexFile, ByteLemmas, SequenceTheorems

-----------------------------------------------------------------------------
(* Sums.  The code adds in eight bits, the checksum is defined by a sum of *)
(* numbers. *)

Totals(bytes) ==
  { t \in [0 .. Len(bytes) -> Int] :
      /\ t[0] = 0
      /\ \A n \in 1 .. Len(bytes) : t[n] = t[n - 1] + bytes[n] }

LEMMA ByteInt == \A b \in Byte : b \in Int
BY DEF Byte

LEMMA BytesElement ==
  ASSUME NEW bytes \in Seq(Byte), NEW i \in 1 .. Len(bytes)
  PROVE  bytes[i] \in Byte /\ bytes[i] \in Int
<1>1. bytes[i] \in Byte
  OBVIOUS
<1> QED  BY <1>1, ByteInt

\* The recursion of Total has a solution.
LEMMA TotalsExist ==
  ASSUME NEW bytes \in Seq(Byte)
  PROVE  Totals(bytes) # {}
<1> DEFINE N == Len(bytes)
           F == [i \in 1 .. N |-> [s \in Int |-> s + bytes[i]]]
<1>1. N \in Nat
  OBVIOUS
<1>2. F \in [1 .. N -> [Int -> Int]]
  BY BytesElement
<1>3. PICK g : g \in Solutions(Int, 0, N, F)
  <2> DEFINE V == Int
             v == 0
  <2>1. v \in V /\ F \in [1 .. N -> [V -> V]]
    BY <1>2
  <2> HIDE DEF F, N, V, v
  <2>2. \E g : g \in Solutions(V, v, N, F)
    BY <1>1, <2>1, RecursionInto
  <2> QED  BY <2>2 DEF V, v
<1>4. g \in [0 .. N -> Int] /\ g[0] = 0
  BY <1>3 DEF Solutions
<1>5. ASSUME NEW n \in 1 .. N  PROVE g[n] = g[n - 1] + bytes[n]
  <2>1. n - 1 \in 0 .. N
    BY <1>1
  <2>2. g[n - 1] \in Int
    BY <1>4, <2>1
  <2>3. g[n] = F[n][g[n - 1]]
    BY <1>3 DEF Solutions
  <2> QED  BY <2>2, <2>3
<1>6. g \in Totals(bytes)
  BY <1>4, <1>5 DEF Totals
<1> QED  BY <1>6

LEMMA TotalUnfolds ==
  ASSUME NEW bytes \in Seq(Byte)
  PROVE  \E t \in Totals(bytes) : Total(bytes) = t[Len(bytes)]
<1> DEFINE total == CHOOSE t : t = [n \in 0 .. Len(bytes) |->
                                      IF n = 0 THEN 0 ELSE t[n - 1] + bytes[n]]
<1>1. PICK g : g \in Totals(bytes)
  BY TotalsExist
<1>2. g = [n \in 0 .. Len(bytes) |-> IF n = 0 THEN 0 ELSE g[n - 1] + bytes[n]]
  BY <1>1 DEF Totals
<1>3. total = [n \in 0 .. Len(bytes) |-> IF n = 0 THEN 0 ELSE total[n - 1] + bytes[n]]
  BY <1>2
<1>4. Total(bytes) = total[Len(bytes)]
  BY DEF Total
<1> HIDE DEF total
<1>5. Len(bytes) \in Nat
  OBVIOUS
<1>6. total[0] = g[0] /\ \A n \in 1 .. Len(bytes) :
                           total[n - 1] = g[n - 1] => total[n] = g[n]
  BY <1>2, <1>3, <1>5
<1>7. \A n \in 0 .. Len(bytes) : total[n] = g[n]
  BY <1>5, <1>6, SameRecursion
<1>8. Total(bytes) = g[Len(bytes)]
  BY <1>4, <1>5, <1>7
<1> QED  BY <1>1, <1>8

LEMMA TotalType ==
  ASSUME NEW bytes \in Seq(Byte)
  PROVE  Total(bytes) \in Int
BY TotalUnfolds DEF Totals

\* One byte changed changes the total by as much.
LEMMA TotalChanges ==
  ASSUME NEW bytes \in Seq(Byte), NEW i \in 1 .. Len(bytes), NEW b \in Byte
  PROVE  Total([bytes EXCEPT ![i] = b]) = Total(bytes) + b - bytes[i]
<1> DEFINE new == [bytes EXCEPT ![i] = b]
<1>1. /\ new \in Seq(Byte) /\ Len(new) = Len(bytes) /\ new[i] = b
      /\ \A n \in 1 .. Len(bytes) : n # i => new[n] = bytes[n]
      /\ Len(bytes) \in Nat
  OBVIOUS
<1> HIDE DEF new
<1>2. PICK t : t \in Totals(bytes) /\ Total(bytes) = t[Len(bytes)]
  BY TotalUnfolds
<1>3. PICK u : u \in Totals(new) /\ Total(new) = u[Len(new)]
  BY <1>1, TotalUnfolds
<1> DEFINE N == Len(bytes)
           g == [n \in 0 .. N |-> t[n] + (IF n < i THEN 0 ELSE b - bytes[i])]
<1>4. \A n \in 0 .. N : t[n] \in Int
  BY <1>2 DEF Totals
<1>5. \A n \in 1 .. N : bytes[n] \in Int /\ t[n] = t[n - 1] + bytes[n]
  BY <1>2, BytesElement DEF Totals
<1>6. b \in Int /\ bytes[i] \in Int
  BY BytesElement DEF Byte
<1>7. t[0] = 0 /\ u[0] = 0 /\ \A n \in 1 .. N : u[n] = u[n - 1] + new[n]
  BY <1>1, <1>2, <1>3 DEF Totals
<1>8. u[0] = g[0]
  BY <1>1, <1>6, <1>7
<1>9. \A n \in 1 .. N : u[n - 1] = g[n - 1] => u[n] = g[n]
  <2> SUFFICES ASSUME NEW n \in 1 .. N, u[n - 1] = g[n - 1]  PROVE u[n] = g[n]
    OBVIOUS
  <2>1. n - 1 \in 0 .. N /\ n \in 0 .. N /\ t[n - 1] \in Int
    BY <1>1, <1>4
  <2>2. u[n] = t[n - 1] + (IF n - 1 < i THEN 0 ELSE b - bytes[i]) + new[n]
    BY <1>7, <2>1
  <2>3. new[n] = IF n = i THEN b ELSE bytes[n]
    BY <1>1
  <2>4. t[n] = t[n - 1] + bytes[n] /\ bytes[n] \in Int
    BY <1>5
  <2>5. g[n] = t[n] + (IF n < i THEN 0 ELSE b - bytes[i])
    BY <2>1
  <2> HIDE DEF g
  <2> QED  BY <1>6, <2>1, <2>2, <2>3, <2>4, <2>5
<1>10. \A n \in 0 .. N : u[n] = g[n]
  <2>1. N \in Nat
    BY <1>1
  <2> HIDE DEF g, N
  <2> QED  BY <1>8, <1>9, <2>1, SameRecursion
<1>11. u[N] = t[N] + (b - bytes[i])
  BY <1>1, <1>10
<1>12. Total(new) = Total(bytes) + b - bytes[i]
  BY <1>1, <1>2, <1>3, <1>4, <1>6, <1>11
<1> QED  BY <1>12 DEF new

\* Sum is the sum of a record's bytes modulo 256.
LEMMA SumIsTotal ==
  ASSUME NEW bytes \in Seq(Byte), NEW address \in Word, NEW type \in Byte,
         NEW check \in Byte,
         NEW r, r = [count |-> Len(bytes), address |-> address, type |-> type,
                     bytes |-> bytes, check |-> check]
  PROVE  Sum(r) = U8(Len(bytes) + High(address) + Low(address) + type
                     + Total(bytes) + check)
<1> DEFINE N == Len(bytes)
           first == N + High(address) + Low(address) + type
           sum == CHOOSE s : s = [n \in 0 .. N |->
                                    IF n = 0 THEN U8(first) ELSE U8(s[n - 1] + bytes[n])]
<1>1. Sum(r) = U8(sum[N] + check)
  BY DEF Sum
<1>2. PICK t : t \in Totals(bytes) /\ Total(bytes) = t[N]
  BY TotalUnfolds
<1>3. N \in Nat
  OBVIOUS
<1>4. first \in Int /\ check \in Int
  <2>1. High(address) \in Byte /\ Low(address) \in Byte
    BY SplitType
  <2> QED  BY <1>3, <2>1, ByteInt
<1>5. /\ \A n \in 0 .. N : t[n] \in Int
      /\ t[0] = 0
  BY <1>2 DEF Totals
<1>6. \A n \in 1 .. N : bytes[n] \in Int /\ t[n] = t[n - 1] + bytes[n]
  BY <1>2, BytesElement DEF Totals
<1>7. \A x, y \in Int : U8(U8(x) + y) = U8(x + y)
  BY DEF U8
<1> DEFINE g == [n \in 0 .. N |-> U8(first + t[n])]
<1> HIDE DEF first, N
<1>8. \A n \in 1 .. N : U8(g[n - 1] + bytes[n]) = g[n]
  <2> SUFFICES ASSUME NEW n \in 1 .. N  PROVE U8(g[n - 1] + bytes[n]) = g[n]
    OBVIOUS
  <2>1. n - 1 \in 0 .. N /\ n \in 0 .. N
    BY <1>3
  <2>2. g[n - 1] = U8(first + t[n - 1]) /\ g[n] = U8(first + t[n])
    BY <2>1
  <2>3. /\ first + t[n - 1] \in Int /\ bytes[n] \in Int
        /\ (first + t[n - 1]) + bytes[n] = first + t[n]
    BY <1>4, <1>5, <1>6, <2>1
  <2> QED  BY <1>7, <2>2, <2>3
<1>9. g[0] = U8(first)
  <2>1. 0 \in 0 .. N
    BY <1>3
  <2> QED  BY <1>4, <1>5, <2>1
<1>10. g = [n \in 0 .. N |-> IF n = 0 THEN U8(first) ELSE U8(g[n - 1] + bytes[n])]
  <2>1. \A n \in 0 .. N : g[n] = IF n = 0 THEN U8(first) ELSE U8(g[n - 1] + bytes[n])
    <3> HIDE DEF g
    <3> QED  BY <1>3, <1>8, <1>9
  <2> QED  BY <2>1
<1>11. sum = [n \in 0 .. N |-> IF n = 0 THEN U8(first) ELSE U8(sum[n - 1] + bytes[n])]
  <2> HIDE DEF g
  <2> QED  BY <1>10
<1> HIDE DEF sum, g
<1>12. sum[0] = g[0]
  BY <1>3, <1>9, <1>11
<1>13. \A n \in 1 .. N : sum[n - 1] = g[n - 1] => sum[n] = g[n]
  BY <1>3, <1>8, <1>11
<1>14. \A n \in 0 .. N : sum[n] = g[n]
  BY <1>3, <1>12, <1>13, SameRecursion
<1>15. sum[N] = U8(first + Total(bytes))
  BY <1>2, <1>3, <1>14 DEF g
<1>16. Sum(r) = U8((first + Total(bytes)) + check)
  <2>1. first + Total(bytes) \in Int
    BY <1>4, TotalType
  <2> QED  BY <1>1, <1>4, <1>7, <1>15, <2>1
<1> QED  BY <1>16 DEF first, N

-----------------------------------------------------------------------------
(* Digits and records. *)

LEMMA DigitType == \A c \in HexDigit : HexValue[c] \in 0 .. 15
<1> SUFFICES ASSUME NEW c \in HexDigit  PROVE HexValue[c] \in 0 .. 15
  OBVIOUS
<1> DEFINE Fits(v) == c \in {LowerDigits[v + 1], UpperDigits[v + 1]}
<1>1. HexValue[c] = CHOOSE v \in 0 .. 15 : Fits(v)
  BY DEF HexValue
<1>2. PICK i \in 1 .. 16 : c = LowerDigits[i] \/ c = UpperDigits[i]
  BY DEF HexDigit
<1>3. i - 1 \in 0 .. 15 /\ Fits(i - 1)
  BY <1>2
<1> HIDE DEF Fits
<1> QED  BY <1>1, <1>3

LEMMA HexToByteType ==
  ASSUME NEW high, NEW low
  PROVE  HexToByte(high, low) \in Byte
<1> DEFINE V(c) == IF c \in HexDigit THEN HexValue[c] ELSE 0
<1>1. \A c : V(c) \in 0 .. 15
  BY DigitType
<1>2. HexToByte(high, low) = 16 * V(high) + V(low)
  BY DEF HexToByte
<1> HIDE DEF V
<1>3. \A h, l \in 0 .. 15 : 16 * h + l \in 0 .. 255
  OBVIOUS
<1> QED  BY <1>1, <1>2, <1>3 DEF Byte

\* The digits of a byte are read as that byte.
LEMMA IsHexRead ==
  ASSUME NEW high, NEW low, NEW b, IsHex(high, low, b)
  PROVE  HexToByte(high, low) = b
BY DEF IsHex, HexToByte

\* A capital digit has the value it is written for.
LEMMA CapitalDigit ==
  ASSUME NEW v \in 0 .. 15
  PROVE  UpperDigits[v + 1] \in HexDigit /\ HexValue[UpperDigits[v + 1]] = v
<1> DEFINE c == UpperDigits[v + 1]
           Fits(w) == c \in {LowerDigits[w + 1], UpperDigits[w + 1]}
<1>1. v + 1 \in 1 .. 16
  OBVIOUS
<1>2. c \in HexDigit
  BY <1>1 DEF HexDigit
<1>3. HexValue[c] = CHOOSE w \in 0 .. 15 : Fits(w)
  BY <1>2 DEF HexValue
<1>4. Fits(v)
  OBVIOUS
<1>5. ASSUME NEW w \in 0 .. 15, Fits(w)  PROVE w = v
  <2>1. c = UpperDigits[w + 1] => w = v
    BY DEF UpperDigits
  <2>2. c = LowerDigits[w + 1] => w = v
    BY DEF UpperDigits, LowerDigits
  <2> QED  BY <1>5, <2>1, <2>2
<1> HIDE DEF Fits, c
<1>6. HexValue[c] = v
  BY <1>3, <1>4, <1>5
<1> QED  BY <1>2, <1>6 DEF c

\* The j-th pair of characters behind the colon.
ByteOf(line, j) == HexToByte(line[2 * j], line[2 * j + 1])

LEMMA ByteAtIn ==
  ASSUME NEW line, Len(line) \in Nat, NEW k \in Nat, k + 2 <= Len(line), NEW beyond
  PROVE  ByteAt(line, k, beyond) = HexToByte(line[k + 1], line[k + 2])
<1>1. CharacterAt(line, k, beyond) = line[k + 1]
  BY DEF CharacterAt
<1>2. CharacterAt(line, k + 1, beyond) = line[k + 2]
  <2>1. k + 1 < Len(line) /\ (k + 1) + 1 = k + 2
    OBVIOUS
  <2> QED  BY <2>1 DEF CharacterAt
<1> QED  BY <1>1, <1>2 DEF ByteAt

\* Len(line) is large enough for a record of n bytes.
LEMMA RecordOf ==
  ASSUME NEW line, Len(line) \in Nat, NEW n \in 0 .. 255, Len(line) >= 11 + 2 * n,
         ByteOf(line, 1) = n, NEW beyond
  PROVE  Record(line, beyond) =
           [count   |-> n,
            address |-> Make16(ByteOf(line, 3), ByteOf(line, 2)),
            type    |-> ByteOf(line, 4),
            bytes   |-> [i \in 1 .. n |-> ByteOf(line, 4 + i)],
            check   |-> ByteOf(line, 5 + n)]
<1>1. ASSUME NEW j \in 1 .. 5 + n
      PROVE  ByteAt(line, 2 * j - 1, beyond) = ByteOf(line, j)
  <2> DEFINE k == 2 * j - 1
  <2>1. k \in Nat /\ k + 2 <= Len(line) /\ k + 1 = 2 * j /\ k + 2 = 2 * j + 1
    OBVIOUS
  <2> HIDE DEF k
  <2>2. ByteAt(line, k, beyond) = HexToByte(line[k + 1], line[k + 2])
    BY <2>1, ByteAtIn
  <2> QED  BY <2>1, <2>2 DEF ByteOf, k
<1>2. /\ ByteAt(line, 1, beyond) = ByteOf(line, 1)
      /\ ByteAt(line, 3, beyond) = ByteOf(line, 2)
      /\ ByteAt(line, 5, beyond) = ByteOf(line, 3)
      /\ ByteAt(line, 7, beyond) = ByteOf(line, 4)
  <2>1. 1 \in 1 .. 5 + n /\ 2 \in 1 .. 5 + n /\ 3 \in 1 .. 5 + n /\ 4 \in 1 .. 5 + n
    OBVIOUS
  <2>2. 2 * 1 - 1 = 1 /\ 2 * 2 - 1 = 3 /\ 2 * 3 - 1 = 5 /\ 2 * 4 - 1 = 7
    OBVIOUS
  <2>3. /\ ByteAt(line, 2 * 1 - 1, beyond) = ByteOf(line, 1)
        /\ ByteAt(line, 2 * 2 - 1, beyond) = ByteOf(line, 2)
        /\ ByteAt(line, 2 * 3 - 1, beyond) = ByteOf(line, 3)
        /\ ByteAt(line, 2 * 4 - 1, beyond) = ByteOf(line, 4)
    BY <1>1, <2>1
  <2> QED  BY <2>2, <2>3
<1>3. ASSUME NEW i \in 1 .. n
      PROVE  ByteAt(line, 7 + 2 * i, beyond) = ByteOf(line, 4 + i)
  <2>1. 4 + i \in 1 .. 5 + n /\ 2 * (4 + i) - 1 = 7 + 2 * i
    OBVIOUS
  <2> QED  BY <1>1, <2>1
<1>4. ByteAt(line, 9 + 2 * n, beyond) = ByteOf(line, 5 + n)
  <2>1. 5 + n \in 1 .. 5 + n /\ 2 * (5 + n) - 1 = 9 + 2 * n
    OBVIOUS
  <2> QED  BY <1>1, <2>1
<1> QED  BY <1>2, <1>3, <1>4 DEF Record

LEMMA ByteSeq ==
  ASSUME NEW line, NEW n \in 0 .. 255
  PROVE  /\ [i \in 1 .. n |-> ByteOf(line, 4 + i)] \in Seq(Byte)
         /\ Len([i \in 1 .. n |-> ByteOf(line, 4 + i)]) = n
<1>1. \A i \in 1 .. n : ByteOf(line, 4 + i) \in Byte
  BY HexToByteType DEF ByteOf
<1> QED  BY <1>1

\* The sum of a line is that of all its bytes.
LEMMA SumOf ==
  ASSUME NEW line, Len(line) \in Nat, NEW n \in 0 .. 255, Len(line) >= 11 + 2 * n,
         ByteOf(line, 1) = n, NEW beyond
  PROVE  Sum(Record(line, beyond)) =
           U8(n + ByteOf(line, 2) + ByteOf(line, 3) + ByteOf(line, 4)
              + Total([i \in 1 .. n |-> ByteOf(line, 4 + i)]) + ByteOf(line, 5 + n))
<1> DEFINE bytes == [i \in 1 .. n |-> ByteOf(line, 4 + i)]
           high == ByteOf(line, 2)
           low == ByteOf(line, 3)
           type == ByteOf(line, 4)
           check == ByteOf(line, 5 + n)
           r == Record(line, beyond)
<1>1. high \in Byte /\ low \in Byte /\ type \in Byte /\ check \in Byte
  BY HexToByteType DEF ByteOf
<1>2. bytes \in Seq(Byte) /\ Len(bytes) = n
  BY ByteSeq
<1>3. r = [count |-> n, address |-> Make16(low, high), type |-> type,
           bytes |-> bytes, check |-> check]
  BY RecordOf
<1> HIDE DEF bytes, high, low, type, check, r
<1>4. Make16(low, high) \in Word /\ Low(Make16(low, high)) = low
      /\ High(Make16(low, high)) = high
  BY <1>1, Make16Type
<1>5. Sum(r) = U8(n + high + low + type + Total(bytes) + check)
  BY <1>1, <1>2, <1>3, <1>4, SumIsTotal
<1> QED  BY <1>5 DEF bytes, high, low, type, check, r

\* A record's bytes, place by place.
LEMMA RecordBytesAt ==
  ASSUME NEW type \in Byte, NEW address \in Word, NEW bytes \in Seq(Byte), NEW off \in Int,
         NEW all, all = RecordBytes(type, address, bytes, off)
  PROVE  /\ Len(all) = 5 + Len(bytes) /\ DOMAIN all = 1 .. 5 + Len(bytes)
         /\ all[1] = Len(bytes) /\ all[2] = High(address) /\ all[3] = Low(address)
         /\ all[4] = type
         /\ \A i \in 1 .. Len(bytes) : all[4 + i] = bytes[i]
         /\ all[5 + Len(bytes)] =
              U8(off - (Len(bytes) + High(address) + Low(address) + type + Total(bytes)))
<1> DEFINE sum == Len(bytes) + High(address) + Low(address) + type + Total(bytes)
           check == U8(off - sum)
           head == <<Len(bytes), High(address), Low(address), type>>
           rest == Append(bytes, check)
<1>1. all = head \o rest
  BY DEF RecordBytes
<1>2. High(address) \in Byte /\ Low(address) \in Byte
  BY SplitType
<1>3. High(address) \in Int /\ Low(address) \in Int /\ type \in Int
  BY <1>2, ByteInt
<1>4. check \in Int
  <2>1. sum \in Int
    BY <1>3, TotalType
  <2>2. check \in Byte
    BY <2>1, CastTypes
  <2> QED  BY <2>2, ByteInt
<1>5. /\ head \in Seq(Int) /\ Len(head) = 4 /\ head[1] = Len(bytes)
      /\ head[2] = High(address) /\ head[3] = Low(address) /\ head[4] = type
  BY <1>3
<1> HIDE DEF check, head
<1>6. /\ rest \in Seq(Int) /\ Len(rest) = Len(bytes) + 1
      /\ \A i \in 1 .. Len(bytes) : rest[i] = bytes[i]
      /\ rest[Len(bytes) + 1] = check
  <2>1. bytes \in Seq(Int)
    <3>1. \A i \in 1 .. Len(bytes) : bytes[i] \in Int
      BY BytesElement
    <3> QED  BY <3>1
  <2> QED  BY <1>4, <2>1
<1> HIDE DEF rest
<1>7. /\ all \in Seq(Int) /\ Len(all) = 4 + (Len(bytes) + 1)
      /\ \A i \in 1 .. 4 + (Len(bytes) + 1) :
           all[i] = IF i <= 4 THEN head[i] ELSE rest[i - 4]
  <2> DEFINE S == Int
  <2>1. head \in Seq(S) /\ rest \in Seq(S) /\ Len(head) = 4 /\ Len(rest) = Len(bytes) + 1
    BY <1>5, <1>6
  <2> HIDE DEF S
  <2>2. /\ head \o rest \in Seq(S) /\ Len(head \o rest) = Len(head) + Len(rest)
        /\ \A i \in 1 .. Len(head) + Len(rest) : (head \o rest)[i] =
              IF i <= Len(head) THEN head[i] ELSE rest[i - Len(head)]
    BY <2>1, ConcatProperties
  <2> QED  BY <1>1, <2>1, <2>2 DEF S
<1>8. Len(bytes) \in Nat
  OBVIOUS
<1>9. all[1] = head[1] /\ all[2] = head[2] /\ all[3] = head[3] /\ all[4] = head[4]
  BY <1>7, <1>8
<1>10. \A i \in 1 .. Len(bytes) + 1 : all[4 + i] = rest[i]
  <2> SUFFICES ASSUME NEW i \in 1 .. Len(bytes) + 1  PROVE all[4 + i] = rest[i]
    OBVIOUS
  <2>1. 4 + i \in 1 .. 4 + (Len(bytes) + 1) /\ ~ (4 + i <= 4) /\ (4 + i) - 4 = i
    BY <1>8
  <2> QED  BY <1>7, <2>1
<1>11. all[5 + Len(bytes)] = rest[Len(bytes) + 1]
  <2>1. 4 + (Len(bytes) + 1) = 5 + Len(bytes) /\ Len(bytes) + 1 \in 1 .. Len(bytes) + 1
    BY <1>8
  <2> QED  BY <1>10, <2>1
<1>12. Len(all) = 5 + Len(bytes) /\ DOMAIN all = 1 .. 5 + Len(bytes)
  BY <1>7, <1>8
<1>13. \A i \in 1 .. Len(bytes) : all[4 + i] = bytes[i]
  BY <1>6, <1>8, <1>10
<1> QED  BY <1>5, <1>6, <1>9, <1>11, <1>12, <1>13 DEF check

LEMMA SpelledBytes ==
  ASSUME NEW line, Len(line) \in Nat, NEW type \in Byte, NEW address \in Word,
         NEW bytes \in Seq(Byte), NEW off \in Int,
         NEW all, all = RecordBytes(type, address, bytes, off), Spells(line, all)
  PROVE  /\ Len(line) >= 11 + 2 * Len(bytes) /\ line[1] = ":"
         /\ \A j \in 1 .. 5 + Len(bytes) : ByteOf(line, j) = all[j]
<1>1. Len(all) = 5 + Len(bytes) /\ DOMAIN all = 1 .. 5 + Len(bytes)
  BY RecordBytesAt
<1>2. Len(line) > 2 * (5 + Len(bytes)) /\ line[1] = ":"
  BY <1>1 DEF Spells
<1>3. \A j \in 1 .. 5 + Len(bytes) : IsHex(line[2 * j], line[2 * j + 1], all[j])
  BY <1>1 DEF Spells
<1>4. \A j \in 1 .. 5 + Len(bytes) : ByteOf(line, j) = all[j]
  BY <1>3, IsHexRead DEF ByteOf
<1> QED  BY <1>2, <1>4

\* A line that spells a record is read as that record.
LEMMA SpelledRecord ==
  ASSUME NEW line, Len(line) \in Nat, NEW type \in Byte, NEW address \in Word,
         NEW bytes \in Seq(Byte), Len(bytes) < 256, NEW off \in Int,
         Spells(line, RecordBytes(type, address, bytes, off)), NEW beyond
  PROVE  /\ line # <<>> /\ line[1] = ":"
         /\ Record(line, beyond).type = type
         /\ Record(line, beyond).address = address
         /\ Record(line, beyond).bytes = bytes
         /\ Sum(Record(line, beyond)) = U8(off)
<1> DEFINE all == RecordBytes(type, address, bytes, off)
           n == Len(bytes)
           sum == n + High(address) + Low(address) + type + Total(bytes)
<1>1. /\ Len(bytes) = n /\ all[1] = n /\ all[2] = High(address) /\ all[3] = Low(address) /\ all[4] = type
      /\ \A i \in 1 .. n : all[4 + i] = bytes[i]
      /\ all[5 + n] = U8(off - sum)
  BY RecordBytesAt
<1>2. /\ Len(line) >= 11 + 2 * n /\ line[1] = ":"
      /\ \A j \in 1 .. 5 + n : ByteOf(line, j) = all[j]
  BY SpelledBytes
<1>3. n \in 0 .. 255
  <2>1. n \in Nat /\ n < 256
    OBVIOUS
  <2> HIDE DEF n
  <2> QED  BY <2>1
<1> HIDE DEF all, n
<1>4. /\ ByteOf(line, 1) = n /\ ByteOf(line, 2) = High(address)
      /\ ByteOf(line, 3) = Low(address) /\ ByteOf(line, 4) = type
      /\ \A i \in 1 .. n : ByteOf(line, 4 + i) = bytes[i]
      /\ ByteOf(line, 5 + n) = U8(off - sum)
  <2>1. /\ 1 \in 1 .. 5 + n /\ 2 \in 1 .. 5 + n /\ 3 \in 1 .. 5 + n
        /\ 4 \in 1 .. 5 + n /\ 5 + n \in 1 .. 5 + n
        /\ \A i \in 1 .. n : 4 + i \in 1 .. 5 + n
    BY <1>3
  <2> HIDE DEF sum
  <2> QED  BY <1>1, <1>2, <2>1
<1>5. [i \in 1 .. n |-> ByteOf(line, 4 + i)] = bytes
  <2>1. bytes = [i \in 1 .. n |-> bytes[i]]
    BY <1>1
  <2> QED  BY <1>4, <2>1
<1>6. Make16(Low(address), High(address)) = address
  BY SplitType
<1> DEFINE r == Record(line, beyond)
<1>7. r = [count   |-> n,
           address |-> Make16(ByteOf(line, 3), ByteOf(line, 2)),
           type    |-> ByteOf(line, 4),
           bytes   |-> [i \in 1 .. n |-> ByteOf(line, 4 + i)],
           check   |-> ByteOf(line, 5 + n)]
  BY <1>2, <1>3, <1>4, RecordOf
<1>8. r.type = type /\ r.address = address /\ r.bytes = bytes
  <2> HIDE DEF r
  <2> QED  BY <1>4, <1>5, <1>6, <1>7
<1>9. Sum(r) = U8(sum + U8(off - sum))
  <2>1. Sum(r) = U8(n + ByteOf(line, 2) + ByteOf(line, 3) + ByteOf(line, 4)
                    + Total([i \in 1 .. n |-> ByteOf(line, 4 + i)]) + ByteOf(line, 5 + n))
    BY <1>2, <1>3, <1>4, SumOf
  <2> QED  BY <1>4, <1>5, <2>1
<1>10. sum \in Int
  <2>1. High(address) \in Byte /\ Low(address) \in Byte
    BY SplitType
  <2> QED  BY <1>3, <2>1, ByteInt, TotalType
<1>11. U8(sum + U8(off - sum)) = U8(off)
  <2>1. \A s, o \in Int : U8(s + U8(o - s)) = U8(o)
    BY DEF U8
  <2> HIDE DEF sum
  <2> QED  BY <1>10, <2>1
<1>12. line # <<>>
  <2>1. Len(line) > 0
    BY <1>2, <1>3
  <2> QED  BY <2>1
<1> QED  BY <1>2, <1>8, <1>9, <1>11, <1>12

\* A record in capital letters is read as the record: there is an item for
\* every address and all data.
LEMMA RecordLineSpells ==
  ASSUME NEW type \in Byte, NEW address \in Word, NEW bytes \in Seq(Byte),
         Len(bytes) < 256, NEW off \in Int
  PROVE  Spells(RecordLine(type, address, bytes, off), RecordBytes(type, address, bytes, off))
<1> DEFINE all == RecordBytes(type, address, bytes, off)
           line == RecordLine(type, address, bytes, off)
           n == Len(bytes)
<1>1. /\ n \in Nat /\ Len(all) = 5 + n /\ DOMAIN all = 1 .. 5 + n
      /\ all[1] = n /\ all[2] = High(address) /\ all[3] = Low(address)
      /\ all[4] = type /\ \A i \in 1 .. n : all[4 + i] = bytes[i]
      /\ all[5 + n] = U8(off - (n + High(address) + Low(address) + type + Total(bytes)))
  BY RecordBytesAt
<1>2. \A i \in 1 .. 5 + n : all[i] \in Byte
  <2>1. High(address) \in Byte /\ Low(address) \in Byte
    BY SplitType
  <2>2. n \in Byte
    <3>1. n < 256
      OBVIOUS
    <3> HIDE DEF n
    <3> QED  BY <1>1, <3>1 DEF Byte
  <2>3. all[5 + n] \in Byte
    <3>1. off - (n + High(address) + Low(address) + type + Total(bytes)) \in Int
      BY <1>1, <2>1, ByteInt, TotalType
    <3> HIDE DEF all, n
    <3> QED  BY <1>1, <3>1, CastTypes
  <2>4. \A i \in 1 .. n : all[4 + i] \in Byte
    BY <1>1
  <2> HIDE DEF all, n
  <2> SUFFICES ASSUME NEW i \in 1 .. 5 + n  PROVE all[i] \in Byte
    OBVIOUS
  <2>5. i = 1 \/ i = 2 \/ i = 3 \/ i = 4 \/ i = 5 + n \/ (i - 4 \in 1 .. n /\ 4 + (i - 4) = i)
    BY <1>1
  <2>6. CASE i - 4 \in 1 .. n /\ 4 + (i - 4) = i
    BY <2>4, <2>6
  <2> QED  BY <1>1, <2>1, <2>2, <2>3, <2>5, <2>6
<1>3. line = [k \in 1 .. 2 * Len(all) + 1 |->
                CASE k = 1 -> ":"
                  [] k > 1 /\ k % 2 = 0 -> UpperDigits[(all[k \div 2] \div 16) + 1]
                  [] k > 1 /\ k % 2 = 1 -> UpperDigits[(all[k \div 2] % 16) + 1]]
  BY DEF RecordLine
<1> HIDE DEF all, n, line
<1>4. Len(line) = 2 * Len(all) + 1 /\ line[1] = ":"
  BY <1>1, <1>3
<1>5. ASSUME NEW i \in 1 .. 5 + n
      PROVE  IsHex(line[2 * i], line[2 * i + 1], all[i])
  <2> DEFINE h == all[i] \div 16
             l == all[i] % 16
  <2>1. all[i] \in Byte
    BY <1>2
  <2>2. h \in 0 .. 15 /\ l \in 0 .. 15 /\ 16 * h + l = all[i]
    <3>1. \A b \in Byte : b \div 16 \in 0 .. 15 /\ b % 16 \in 0 .. 15
                          /\ 16 * (b \div 16) + (b % 16) = b
      BY DEF Byte
    <3> QED  BY <2>1, <3>1
  <2> DEFINE even == 2 * i
             odd == 2 * i + 1
  <2>3. /\ even \in 1 .. 2 * Len(all) + 1 /\ even > 1 /\ even # 1
        /\ even % 2 = 0 /\ even \div 2 = i
    BY <1>1
  <2>4. /\ odd \in 1 .. 2 * Len(all) + 1 /\ odd > 1 /\ odd # 1
        /\ odd % 2 = 1 /\ odd \div 2 = i
    BY <1>1
  <2> HIDE DEF even, odd
  <2>5. line[even] = UpperDigits[(all[even \div 2] \div 16) + 1]
    BY <1>3, <2>3
  <2>6. line[odd] = UpperDigits[(all[odd \div 2] % 16) + 1]
    BY <1>3, <2>4
  <2>7. line[2 * i] = UpperDigits[h + 1] /\ line[2 * i + 1] = UpperDigits[l + 1]
    BY <2>3, <2>4, <2>5, <2>6 DEF even, odd
  <2> HIDE DEF h, l
  <2> QED  BY <2>2, <2>7, CapitalDigit DEF IsHex
<1>6. Len(line) > 2 * Len(all)
  BY <1>1, <1>4
<1> QED  BY <1>1, <1>4, <1>5, <1>6 DEF Spells, all, line

\* What a turn of the loop does with a line that means something.
Turned(item, loading, base, after) ==
  /\ item.kind \in {"blank", "other"} => after = loading
  /\ item.kind = "wrong" => after = [loading EXCEPT !.status = "error"]
  /\ item.kind = "end" => after = [loading EXCEPT !.status = "done"]
  /\ item.kind = "data" =>
       after = [loading EXCEPT !.cells =
                  WriteImage(@, item.bytes, U16(base + item.address))]

LEMMA LineLoads ==
  ASSUME NEW item, Means(item), NEW loading, NEW beyond, NEW base \in Word
  PROVE  Turned(item, loading, base, LoadLine(loading, item.line, beyond, base))
<1> DEFINE after == LoadLine(loading, item.line, beyond, base)
<1> SUFFICES Turned(item, loading, base, after)
  OBVIOUS
<1> USE DEF Turned
<1> DEFINE line == item.line
           r == Record(line, beyond)
<1>1. /\ line \in Seq(STRING) /\ item.address \in Word /\ item.bytes \in Seq(Byte)
      /\ Len(item.bytes) < 256
  BY DEF Means
<1>2. ASSUME NEW type \in Byte, NEW off \in Int, IsRecord(item, type, off)
      PROVE  /\ line # <<>> /\ line[1] = ":" /\ r.type = type
             /\ r.address = item.address /\ r.bytes = item.bytes /\ Sum(r) = U8(off)
  BY <1>1, <1>2, SpelledRecord DEF IsRecord
<1> HIDE DEF r
<1>3. CASE item.kind = "blank"
  <2>1. line = <<>>
    BY <1>3 DEF Means
  <2> QED  BY <1>3, <2>1 DEF LoadLine
<1>4. 0 \in Int /\ 0 \in Byte /\ 1 \in Byte /\ U8(0) = 0 /\ \A type \in 2 .. 255 : type \in Byte
  BY DEF Byte, U8
<1>5. CASE item.kind = "other"
  <2>1. PICK type \in 2 .. 255 : IsRecord(item, type, 0)
    BY <1>5 DEF Means
  <2>2. line # <<>> /\ line[1] = ":" /\ r.type = type /\ Sum(r) = 0
    BY <1>2, <1>4, <2>1
  <2>3. r.type # 0 /\ r.type # 1
    <3>1. type # 0 /\ type # 1
      OBVIOUS
    <3> QED  BY <2>2, <3>1
  <2>4. after = loading
    BY <2>2, <2>3 DEF LoadLine, r
  <2> QED  BY <1>5, <2>4
<1>6. CASE item.kind = "end"
  <2>1. IsRecord(item, 1, 0)
    BY <1>6 DEF Means
  <2>2. line # <<>> /\ line[1] = ":" /\ r.type = 1 /\ Sum(r) = 0
    BY <1>2, <1>4, <2>1
  <2>3. after = [loading EXCEPT !.status = "done"]
    BY <2>2 DEF LoadLine, r
  <2> QED  BY <1>6, <2>3
<1>7. CASE item.kind = "data"
  <2>1. IsRecord(item, 0, 0)
    BY <1>7 DEF Means
  <2>2. /\ line # <<>> /\ line[1] = ":" /\ r.type = 0 /\ Sum(r) = 0
        /\ r.address = item.address /\ r.bytes = item.bytes
    BY <1>2, <1>4, <2>1
  <2>3. after = [loading EXCEPT !.cells = WriteImage(@, r.bytes, U16(base + r.address))]
    BY <2>2 DEF LoadLine, r
  <2> QED  BY <1>7, <2>2, <2>3
<1>8. CASE item.kind = "wrong"
  <2>1. line # <<>>
    BY <1>8 DEF Means
  <2>2. CASE line[1] # ":"
    BY <1>8, <2>1, <2>2 DEF LoadLine
  <2>3. CASE line[1] = ":"
    <3>1. PICK type \in Byte, off \in 1 .. 255 : IsRecord(item, type, off)
      BY <1>8, <2>3 DEF Means
    <3>2. off \in Int /\ U8(off) # 0
      BY DEF U8
    <3>3. Sum(r) # 0
      BY <1>2, <3>1, <3>2
    <3>4. after = [loading EXCEPT !.status = "error"]
      BY <2>1, <2>3, <3>3 DEF LoadLine, r
    <3> QED  BY <1>8, <3>4
  <2> QED  BY <2>2, <2>3
<1>9. item.kind \in Kinds
  BY DEF Means
<1> QED  BY <1>3, <1>5, <1>6, <1>7, <1>8, <1>9 DEF Kinds

-----------------------------------------------------------------------------
(* What is in memory. *)

LEMMA WriteImageCells ==
  ASSUME NEW cells, NEW image, NEW base
  PROVE  WriteImage(cells, image, base) =
           [a \in DOMAIN cells \cup Covered(base, image) |->
              IF a \in Covered(base, image) THEN image[a - base + 1] ELSE cells[a]]
<1> DEFINE written == { a \in base .. base + Len(image) - 1 :
                          a <= MaxWord /\ a \notin InRange }
<1>1. written = Covered(base, image)
  BY DEF Covered
<1>2. WriteImage(cells, image, base) =
        [a \in DOMAIN cells \cup written |->
           IF a \in written THEN image[a - base + 1] ELSE cells[a]]
  BY DEF WriteImage
<1> HIDE DEF written
<1> QED  BY <1>1, <1>2

Filled(records, base) == UNION { Cover(i, base) : i \in records }

IsLatest(i, a, records, base) ==
  a \in Cover(i, base) /\ \A j \in records : j > i => a \notin Cover(j, base)

\* Each cell that some record fills has a latest record.
HasLatest(records, base) ==
  \A a \in Filled(records, base) : \E i \in records : IsLatest(i, a, records, base)

Numbers(records) == records \subseteq Nat

LEMMA WrittenAt ==
  ASSUME NEW records, Numbers(records), NEW base, NEW i \in records,
         NEW a, IsLatest(i, a, records, base)
  PROVE  Written(records, base)[a] = file[i].bytes[a - Start(i, base) + 1]
<1> DEFINE L(k) == a \in Cover(k, base) /\ \A j \in records : j > k => a \notin Cover(j, base)
           l == CHOOSE k \in records : L(k)
<1>1. L(i)
  BY DEF IsLatest
<1>2. a \in UNION { Cover(k, base) : k \in records }
  BY <1>1
<1>3. Written(records, base)[a] = file[l].bytes[a - Start(l, base) + 1]
  BY <1>2 DEF Written
<1> HIDE DEF L
<1>4. l \in records /\ L(l)
  BY <1>1
<1>5. l = i
  <2> HIDE DEF l
  <2>1. l \in Nat /\ i \in Nat
    BY <1>4 DEF Numbers
  <2>2. ~ (l < i) /\ ~ (i < l)
    BY <1>1, <1>4 DEF L
  <2> QED  BY <2>1, <2>2
<1> QED  BY <1>3, <1>5

LEMMA WrittenDomain ==
  ASSUME NEW records, NEW base
  PROVE  DOMAIN Written(records, base) = Filled(records, base)
BY DEF Written, Filled

\* A record behind all others is written over them.
LEMMA WrittenNext ==
  ASSUME NEW records, records \subseteq Nat, NEW base, NEW m \in Nat,
         \A i \in records : i < m, HasLatest(records, base)
  PROVE  /\ HasLatest(records \cup {m}, base)
         /\ Written(records \cup {m}, base) =
              WriteImage(Written(records, base), file[m].bytes, Start(m, base))
<1> DEFINE all == records \cup {m}
           new == Cover(m, base)
<1>1. Filled(all, base) = Filled(records, base) \cup new
  BY DEF Filled
<1>2. \A a \in new : IsLatest(m, a, all, base)
  BY DEF IsLatest
<1>3. \A a, i : i \in records /\ IsLatest(i, a, records, base) /\ a \notin new
                  => IsLatest(i, a, all, base)
  BY DEF IsLatest
<1>4. m \in all /\ records \subseteq all /\ all \subseteq Nat
  OBVIOUS
<1> HIDE DEF all, new
<1>11. ASSUME NEW a, NEW i \in all, IsLatest(i, a, all, base)
       PROVE  Written(all, base)[a] = file[i].bytes[a - Start(i, base) + 1]
  <2>1. Numbers(all)
    BY <1>4 DEF Numbers
  <2> QED  BY <2>1, <1>11, WrittenAt
<1>5. HasLatest(all, base)
  BY <1>1, <1>2, <1>3, <1>4 DEF HasLatest
<1> DEFINE old == Written(records, base)
           image == file[m].bytes
           start == Start(m, base)
<1>6. new = Covered(start, image)
  BY DEF new, Cover
<1>7. WriteImage(old, image, start) =
        [a \in Filled(records, base) \cup new |->
           IF a \in new THEN image[a - start + 1] ELSE old[a]]
  BY <1>6, WriteImageCells, WrittenDomain
<1>8. ASSUME NEW a \in Filled(records, base) \cup new
      PROVE  Written(all, base)[a] = IF a \in new THEN image[a - start + 1] ELSE old[a]
  <2>1. CASE a \in new
    <3>1. m \in all /\ IsLatest(m, a, all, base)
      BY <1>2, <1>4, <2>1
    <3>2. Written(all, base)[a] = file[m].bytes[a - Start(m, base) + 1]
      BY <1>11, <3>1
    <3> QED  BY <2>1, <3>2
  <2>2. CASE a \notin new
    <3>1. PICK i \in records : IsLatest(i, a, records, base)
      BY <1>8, <2>2 DEF HasLatest
    <3>2. old[a] = file[i].bytes[a - Start(i, base) + 1]
      <4>1. Numbers(records)
        BY DEF Numbers
      <4> QED  BY <3>1, <4>1, WrittenAt
    <3>3. i \in all /\ IsLatest(i, a, all, base)
      BY <1>3, <1>4, <2>2, <3>1
    <3>4. Written(all, base)[a] = file[i].bytes[a - Start(i, base) + 1]
      BY <1>11, <3>3
    <3> QED  BY <2>2, <3>2, <3>4
  <2> QED  BY <2>1, <2>2
<1>9. Written(all, base) = [a \in Filled(records, base) \cup new |-> Written(all, base)[a]]
  <2>1. DOMAIN Written(all, base) = Filled(records, base) \cup new
    BY <1>1, WrittenDomain
  <2>2. Written(all, base) = [a \in DOMAIN Written(all, base) |-> Written(all, base)[a]]
    BY DEF Written
  <2> QED  BY <2>1, <2>2
<1>10. Written(all, base) = WriteImage(old, image, start)
  BY <1>7, <1>8, <1>9
<1> QED  BY <1>5, <1>10 DEF all

LEMMA WrittenNothing ==
  ASSUME NEW base
  PROVE  HasLatest({}, base) /\ Written({}, base) = Blank
<1>1. HasLatest({}, base)
  BY DEF HasLatest, Filled
<1>2. Written({}, base) = [a \in {} |-> 0]
  <2>1. UNION { Cover(i, base) : i \in {} } = {}
    OBVIOUS
  <2> QED  BY <2>1 DEF Written
<1> QED  BY <1>1, <1>2 DEF Blank

-----------------------------------------------------------------------------
(* A file, line by line. *)

Stopped(n) == \E j \in 1 .. n : Ends(j)

\* What the first n lines leave.
Expected(n, base) ==
  [status |-> IF Stopped(n) THEN Result(n) ELSE "reading",
   cells  |-> Written(Records(n), base)]

LEMMA ResultType ==
  ASSUME NEW n
  PROVE  Result(n) \in {"error", "done"}
BY DEF Result

LEMMA ItemsMean ==
  ASSUME file \in Seq(Items), NEW n \in 1 .. Len(file)
  PROVE  Means(file[n]) /\ Lines[n] = file[n].line
<1>1. file[n] \in Items /\ n \in DOMAIN file
  OBVIOUS
<1> QED  BY <1>1, ItemsAssumption DEF Lines

\* Behind the line that ends the loading nothing changes.
LEMMA StoppedStays ==
  ASSUME NEW n \in Nat, n > 0, Stopped(n - 1), NEW base
  PROVE  Expected(n, base) = Expected(n - 1, base) /\ Records(n) = Records(n - 1)
<1>1. PICK k \in 1 .. n - 1 : Ends(k)
  BY DEF Stopped
<1>2. n \notin Reached(n)
  BY <1>1 DEF Reached
<1>3. Reached(n) = Reached(n - 1)
  BY <1>2 DEF Reached
<1>4. Records(n) = Records(n - 1) /\ Result(n) = Result(n - 1)
  BY <1>3 DEF Records, Result
<1>5. Stopped(n)
  BY <1>1 DEF Stopped
<1> QED  BY <1>4, <1>5 DEF Expected

\* Until then every line is reached.
LEMMA AllReached ==
  ASSUME NEW n \in Nat, n > 0, ~Stopped(n - 1)
  PROVE  /\ Reached(n) = 1 .. n
         /\ Reached(n - 1) = 1 .. n - 1
         /\ Records(n) = Records(n - 1) \cup (IF file[n].kind = "data" THEN {n} ELSE {})
         /\ Stopped(n) <=> Ends(n)
         /\ Result(n) = IF file[n].kind = "wrong" THEN "error" ELSE "done"
<1>1. \A j \in 1 .. n - 1 : ~Ends(j)
  BY DEF Stopped
<1>2. Reached(n) = 1 .. n /\ Reached(n - 1) = 1 .. n - 1
  BY <1>1 DEF Reached
<1>3. Records(n) = Records(n - 1) \cup (IF file[n].kind = "data" THEN {n} ELSE {})
  BY <1>2 DEF Records
<1>4. Stopped(n) <=> Ends(n)
  BY <1>1 DEF Stopped
<1>5. \A j \in 1 .. n - 1 : file[j].kind # "wrong"
  BY <1>1 DEF Ends
<1>6. (\E i \in 1 .. n : file[i].kind = "wrong") <=> file[n].kind = "wrong"
  BY <1>5
<1>7. Result(n) = IF file[n].kind = "wrong" THEN "error" ELSE "done"
  BY <1>2, <1>6 DEF Result
<1> QED  BY <1>2, <1>3, <1>4, <1>7

\* One turn of the loop.
LEMMA LoadStep ==
  ASSUME file \in Seq(Items), NEW base \in Word, NEW beyond, NEW n \in 1 .. Len(file),
         HasLatest(Records(n - 1), base)
  PROVE  /\ HasLatest(Records(n), base)
         /\ Expected(n, base) =
              IF Expected(n - 1, base).status = "reading"
                THEN LoadLine(Expected(n - 1, base), Lines[n], beyond, base)
                ELSE Expected(n - 1, base)
<1> DEFINE before == Expected(n - 1, base)
           after == LoadLine(before, Lines[n], beyond, base)
<1>0. n \in Nat /\ n > 0 /\ n - 1 \in Nat
  OBVIOUS
<1>1. before.status = "reading" <=> ~Stopped(n - 1)
  <2>1. Result(n - 1) # "reading"
    BY ResultType
  <2> QED  BY <2>1 DEF Expected
<1>2. CASE Stopped(n - 1)
  BY <1>0, <1>1, <1>2, StoppedStays
<1>3. CASE ~Stopped(n - 1)
  <2>1. before.status = "reading"
    BY <1>1, <1>3
  <2>2. /\ Records(n) = Records(n - 1) \cup (IF file[n].kind = "data" THEN {n} ELSE {})
        /\ Stopped(n) <=> Ends(n)
        /\ Result(n) = IF file[n].kind = "wrong" THEN "error" ELSE "done"
    BY <1>0, <1>3, AllReached
  <2>3. Means(file[n]) /\ Lines[n] = file[n].line
    BY ItemsMean
  <2>4. /\ file[n].kind \in {"blank", "other"} => after = before
        /\ file[n].kind = "wrong" => after = [before EXCEPT !.status = "error"]
        /\ file[n].kind = "end" => after = [before EXCEPT !.status = "done"]
        /\ file[n].kind = "data" =>
             after = [before EXCEPT !.cells =
                        WriteImage(@, file[n].bytes, U16(base + file[n].address))]
    <3> DEFINE item == file[n]
    <3>1. Means(item) /\ after = LoadLine(before, item.line, beyond, base)
      BY <2>3
    <3> HIDE DEF before, after, item
    <3>2. Turned(item, before, base, after)
      BY <3>1, LineLoads
    <3> QED  BY <3>2 DEF item, Turned
  <2>5. before = [status |-> "reading", cells |-> Written(Records(n - 1), base)]
    BY <1>3 DEF Expected
  <2>6. Expected(n, base) =
          [status |-> IF Ends(n) THEN Result(n) ELSE "reading",
           cells  |-> Written(Records(n), base)]
    BY <2>2 DEF Expected
  <2> HIDE DEF before, after
  <2>7. CASE file[n].kind = "data"
    <3>1. Records(n) = Records(n - 1) \cup {n}
      BY <2>2, <2>7
    <3>2. Records(n - 1) \subseteq Nat /\ \A i \in Records(n - 1) : i < n
      BY <1>0 DEF Records, Reached
    <3>3. /\ HasLatest(Records(n), base)
          /\ Written(Records(n), base) =
               WriteImage(Written(Records(n - 1), base), file[n].bytes, Start(n, base))
      BY <1>0, <3>1, <3>2, WrittenNext
    <3>4. ~Ends(n)
      BY <2>7 DEF Ends
    <3>5. Expected(n, base) = after
      BY <2>4, <2>5, <2>6, <2>7, <3>3, <3>4 DEF Start
    <3> QED  BY <2>1, <3>3, <3>5 DEF after, before
  <2>8. CASE file[n].kind # "data"
    <3>1. Records(n) = Records(n - 1)
      BY <2>2, <2>8
    <3>2. file[n].kind \in Kinds
      BY <2>3 DEF Means
    <3>3. Expected(n, base) = after
      BY <2>2, <2>4, <2>5, <2>6, <2>8, <3>1, <3>2 DEF Ends, Kinds
    <3> QED  BY <2>1, <3>1, <3>3 DEF after, before
  <2> QED  BY <2>7, <2>8
<1> QED  BY <1>2, <1>3

-----------------------------------------------------------------------------
(* The loop. *)

\* g goes through the lines as the loop does.
Runs(g, lines, cells, beyond, base) ==
  /\ \E T : g \in [0 .. Len(lines) -> T]
  /\ g[0] = Loading(cells)
  /\ \A n \in 1 .. Len(lines) :
        g[n] = IF g[n - 1].status = "reading"
                 THEN LoadLine(g[n - 1], lines[n], beyond, base)
                 ELSE g[n - 1]

LEMMA LoadLinesIs ==
  ASSUME NEW lines, Len(lines) \in Nat, NEW cells, NEW beyond, NEW base,
         NEW g, Runs(g, lines, cells, beyond, base)
  PROVE  LoadLines(lines, cells, beyond, base) = g[Len(lines)]
<1> DEFINE N == Len(lines)
           Next(n, before) == IF before.status = "reading"
                                THEN LoadLine(before, lines[n], beyond, base)
                                ELSE before
           loading == CHOOSE f : f = [n \in 0 .. N |->
                        IF n = 0 THEN Loading(cells) ELSE Next(n, f[n - 1])]
<1>1. LoadLines(lines, cells, beyond, base) = loading[N]
  BY DEF LoadLines
<1>2. g[0] = Loading(cells) /\ \A n \in 1 .. N : g[n] = Next(n, g[n - 1])
  BY DEF Runs
<1>3. (\E T : g \in [0 .. N -> T]) /\ N \in Nat
  BY DEF Runs
<1> HIDE DEF N, Next
<1>4. g = [n \in 0 .. N |-> IF n = 0 THEN Loading(cells) ELSE Next(n, g[n - 1])]
  <2>1. \A n \in 0 .. N : g[n] = IF n = 0 THEN Loading(cells) ELSE Next(n, g[n - 1])
    BY <1>2, <1>3
  <2> QED  BY <1>3, <2>1
<1>5. loading = [n \in 0 .. N |-> IF n = 0 THEN Loading(cells) ELSE Next(n, loading[n - 1])]
  BY <1>4
<1> HIDE DEF loading
<1>6. loading[0] = g[0]
  BY <1>2, <1>3, <1>5
<1>7. \A n \in 1 .. N : loading[n - 1] = g[n - 1] => loading[n] = g[n]
  BY <1>2, <1>3, <1>5
<1>8. N \in Nat
  BY <1>3
<1>9. \A n \in 0 .. N : loading[n] = g[n]
  BY <1>6, <1>7, <1>8, SameRecursion
<1> QED  BY <1>1, <1>3, <1>9 DEF N

LEMMA AllHaveLatest ==
  ASSUME file \in Seq(Items), NEW base \in Word
  PROVE  \A n \in 0 .. Len(file) : HasLatest(Records(n), base)
<1> DEFINE S == { n \in Nat : n <= Len(file) => HasLatest(Records(n), base) }
<1>1. 0 \in S
  <2>1. Records(0) = {}
    BY DEF Records, Reached
  <2>2. HasLatest(Records(0), base)
    BY <2>1, WrittenNothing
  <2> QED  BY <2>2
<1>2. ASSUME NEW n \in Nat, n \in S  PROVE n + 1 \in S
  <2> SUFFICES ASSUME n + 1 <= Len(file)  PROVE HasLatest(Records(n + 1), base)
    OBVIOUS
  <2> DEFINE m == n + 1
  <2>1. m \in 1 .. Len(file) /\ m - 1 = n /\ HasLatest(Records(n), base)
    <3>1. Len(file) \in Nat
      OBVIOUS
    <3> QED  BY <1>2, <3>1
  <2> HIDE DEF m
  <2>2. HasLatest(Records(m - 1), base)
    BY <2>1
  <2>3. HasLatest(Records(m), base)
    BY <2>1, <2>2, LoadStep
  <2> QED  BY <2>3 DEF m
<1>3. Nat \subseteq S
  <2> HIDE DEF S
  <2> QED  BY <1>1, <1>2, NatSetInduction
<1>4. \A n \in 0 .. Len(file) : n \in Nat
  OBVIOUS
<1> QED  BY <1>3, <1>4

\* The loop leaves what is expected of the whole file.
LEMMA LoopReads ==
  ASSUME file \in Seq(Items), NEW base \in Word, NEW beyond
  PROVE  LoadLines(Lines, Blank, beyond, base) = Expected(Len(file), base)
<1> DEFINE N == Len(file)
           g == [n \in 0 .. N |-> Expected(n, base)]
<1>1. Len(Lines) = N /\ N \in Nat
  BY DEF Lines
<1>2. g[0] = Loading(Blank)
  <2>1. Records(0) = {} /\ ~Stopped(0)
    BY DEF Records, Reached, Stopped
  <2>2. Written(Records(0), base) = Blank
    BY <2>1, WrittenNothing
  <2>3. Expected(0, base) = Loading(Blank)
    BY <2>1, <2>2 DEF Expected, Loading
  <2>4. g[0] = Expected(0, base)
    BY <1>1
  <2> QED  BY <2>3, <2>4
<1>3. ASSUME NEW n \in 1 .. N
      PROVE  g[n] = IF g[n - 1].status = "reading"
                      THEN LoadLine(g[n - 1], Lines[n], beyond, base)
                      ELSE g[n - 1]
  <2>1. n \in 0 .. N /\ n - 1 \in 0 .. N
    BY <1>1
  <2>2. g[n] = Expected(n, base) /\ g[n - 1] = Expected(n - 1, base)
    BY <2>1
  <2>3. HasLatest(Records(n - 1), base)
    BY <2>1, AllHaveLatest
  <2>4. Expected(n, base) =
          IF Expected(n - 1, base).status = "reading"
            THEN LoadLine(Expected(n - 1, base), Lines[n], beyond, base)
            ELSE Expected(n - 1, base)
    BY <2>3, LoadStep
  <2> HIDE DEF g
  <2> QED  BY <2>2, <2>4
<1> DEFINE T == { Expected(n, base) : n \in 0 .. N }
<1>4. g \in [0 .. N -> T]
  OBVIOUS
<1>5. g[N] = Expected(N, base)
  BY <1>1
<1> HIDE DEF g, N, T
<1>6. LoadLines(Lines, Blank, beyond, base) = g[Len(Lines)]
  <2>1. Len(Lines) \in Nat
    BY <1>1
  <2>2. Runs(g, Lines, Blank, beyond, base)
    BY <1>1, <1>2, <1>3, <1>4 DEF Runs
  <2> QED  BY <2>1, <2>2, LoadLinesIs
<1> QED  BY <1>1, <1>5, <1>6 DEF N

LEMMA HexIsLoaded ==
  ASSUME file \in Seq(Items), NEW base \in Word, NEW beyond
  PROVE  LoadHex(Lines, Blank, beyond, base) =
           [status |-> Result(Len(file)), cells |-> Written(Records(Len(file)), base)]
<1> DEFINE N == Len(file)
<1>1. LoadLines(Lines, Blank, beyond, base) = Expected(N, base)
  BY LoopReads
<1>2. LoadHex(Lines, Blank, beyond, base) =
        [Expected(N, base) EXCEPT !.status = IF @ = "reading" THEN "done" ELSE @]
  BY <1>1 DEF LoadHex
<1>3. CASE Stopped(N)
  <2>1. Result(N) # "reading"
    BY ResultType
  <2> QED  BY <1>2, <1>3, <2>1 DEF Expected
<1>4. CASE ~Stopped(N)
  <2>1. \A i \in 1 .. N : file[i].kind # "wrong"
    BY <1>4 DEF Stopped, Ends
  <2>2. Result(N) = "done"
    BY <2>1 DEF Result, Reached
  <2> QED  BY <1>2, <1>4, <2>2 DEF Expected
<1> QED  BY <1>3, <1>4

LEMMA BinIsLoaded ==
  ASSUME NEW image \in Seq(Byte), NEW base \in Word
  PROVE  LoadBin(image, Blank, base) =
           IF base + Len(image) > 65536 THEN [status |-> "error", cells |-> Blank]
           ELSE [status |-> "done",
                 cells  |-> [a \in Covered(base, image) |-> image[a - base + 1]]]
<1>1. base \in Int /\ Len(image) \in Nat
  BY WordBounds
<1>2. Len(image) > 65536 - base <=> base + Len(image) > 65536
  BY <1>1
<1>3. DOMAIN Blank \cup Covered(base, image) = Covered(base, image)
  BY DEF Blank
<1>4. WriteImage(Blank, image, base) = [a \in Covered(base, image) |-> image[a - base + 1]]
  BY <1>3, WriteImageCells
<1> QED  BY <1>2, <1>4 DEF LoadBin

-----------------------------------------------------------------------------
(* One character changed. *)

LEMMA OneLine ==
  ASSUME NEW line, NEW cells, NEW beyond, NEW base, NEW after,
         LoadLine(Loading(cells), line, beyond, base) = after
  PROVE  LoadLines(<<line>>, cells, beyond, base) = after
<1> DEFINE lines == <<line>>
           g == [n \in 0 .. 1 |-> IF n = 0 THEN Loading(cells) ELSE after]
<1>1. Len(lines) = 1 /\ lines[1] = line
  OBVIOUS
<1>2. g[0] = Loading(cells) /\ g[1] = after /\ g \in [0 .. 1 -> {Loading(cells), after}]
  OBVIOUS
<1>3. Loading(cells).status = "reading"
  BY DEF Loading
<1> HIDE DEF g, lines
<1>4. Runs(g, lines, cells, beyond, base)
  <2>1. \E T : g \in [0 .. Len(lines) -> T]
    BY <1>1, <1>2
  <2>2. ASSUME NEW n \in 1 .. Len(lines)
        PROVE  g[n] = IF g[n - 1].status = "reading"
                        THEN LoadLine(g[n - 1], lines[n], beyond, base)
                        ELSE g[n - 1]
    <3>1. n = 1 /\ n - 1 = 0
      BY <1>1
    <3>2. g[1] = LoadLine(g[0], lines[1], beyond, base) /\ g[0].status = "reading"
      BY <1>1, <1>2, <1>3
    <3> QED  BY <3>1, <3>2
  <2> QED  BY <1>2, <2>1, <2>2 DEF Runs
<1>5. LoadLines(lines, cells, beyond, base) = g[1]
  <2>1. Len(lines) \in Nat
    BY <1>1
  <2>2. LoadLines(lines, cells, beyond, base) = g[Len(lines)]
    BY <1>4, <2>1, LoadLinesIs
  <2> QED  BY <1>1, <2>2
<1> QED  BY <1>2, <1>5 DEF lines

\* A line that is refused, by itself.
LEMMA Refused ==
  ASSUME NEW line, line # <<>>, NEW cells, NEW beyond, NEW base,
         line[1] # ":" \/ Sum(Record(line, beyond)) # 0
  PROVE  LoadHex(<<line>>, cells, beyond, base) = [status |-> "error", cells |-> cells]
<1> DEFINE after == [status |-> "error", cells |-> cells]
<1>1. LoadLine(Loading(cells), line, beyond, base) = [Loading(cells) EXCEPT !.status = "error"]
  BY DEF LoadLine
<1>2. LoadLine(Loading(cells), line, beyond, base) = after
  BY <1>1 DEF Loading
<1> HIDE DEF after
<1>3. LoadLines(<<line>>, cells, beyond, base) = after
  BY <1>2, OneLine
<1> QED  BY <1>3 DEF LoadHex, after

\* Another first or second digit is another byte.
LEMMA DigitCounts ==
  ASSUME NEW c, NEW d, HexToByte(c, "0") # HexToByte(d, "0"), NEW e
  PROVE  HexToByte(c, e) # HexToByte(d, e) /\ HexToByte(e, c) # HexToByte(e, d)
<1> DEFINE V(x) == IF x \in HexDigit THEN HexValue[x] ELSE 0
<1>1. V(c) \in 0 .. 15 /\ V(d) \in 0 .. 15 /\ V(e) \in 0 .. 15 /\ V("0") \in 0 .. 15
  BY DigitType
<1>2. \A x, y : HexToByte(x, y) = 16 * V(x) + V(y)
  BY DEF HexToByte
<1> HIDE DEF V
<1>3. 16 * V(c) + V("0") # 16 * V(d) + V("0")
  BY <1>2
<1>4. V(c) # V(d)
  BY <1>3
<1>5. 16 * V(c) + V(e) # 16 * V(d) + V(e) /\ 16 * V(e) + V(c) # 16 * V(e) + V(d)
  BY <1>1, <1>4
<1> QED  BY <1>2, <1>5

\* In a record of n bytes of data, the j-th byte.
OneByteDiffers(line, other, n, j) ==
  /\ ByteOf(other, j) # ByteOf(line, j)
  /\ \A i \in 1 .. 5 + n : i # j => ByteOf(other, i) = ByteOf(line, i)

\* One byte behind the count changed makes the sum wrong.
LEMMA ByteCounts ==
  ASSUME NEW line, NEW other, Len(line) \in Nat, NEW n \in 0 .. 255,
         Len(line) >= 11 + 2 * n, Len(other) = Len(line),
         ByteOf(line, 1) = n, NEW j \in 2 .. 5 + n,
         OneByteDiffers(line, other, n, j),
         NEW beyond, Sum(Record(line, beyond)) = 0
  PROVE  Sum(Record(other, beyond)) # 0
<1> DEFINE bytes == [i \in 1 .. n |-> ByteOf(line, 4 + i)]
           new == [i \in 1 .. n |-> ByteOf(other, 4 + i)]
           whole == n + ByteOf(line, 2) + ByteOf(line, 3) + ByteOf(line, 4)
                      + Total(bytes) + ByteOf(line, 5 + n)
           newWhole == n + ByteOf(other, 2) + ByteOf(other, 3) + ByteOf(other, 4)
                         + Total(new) + ByteOf(other, 5 + n)
           change == ByteOf(other, j) - ByteOf(line, j)
<1>0. /\ ByteOf(other, j) # ByteOf(line, j)
      /\ \A i \in 1 .. 5 + n : i # j => ByteOf(other, i) = ByteOf(line, i)
  BY DEF OneByteDiffers
<1>1. ByteOf(other, 1) = n
  <2>1. 1 \in 1 .. 5 + n /\ 1 # j
    OBVIOUS
  <2> QED  BY <1>0, <2>1
<1>2. Sum(Record(line, beyond)) = U8(whole) /\ Sum(Record(other, beyond)) = U8(newWhole)
  BY <1>1, SumOf
<1>3. \A l, i : ByteOf(l, i) \in Byte /\ ByteOf(l, i) \in Int
  BY HexToByteType, ByteInt DEF ByteOf
<1>4. /\ bytes \in Seq(Byte) /\ Len(bytes) = n /\ Total(bytes) \in Int
      /\ new \in Seq(Byte) /\ Len(new) = n /\ Total(new) \in Int
  BY ByteSeq, TotalType
<1>5. ASSUME j \in 5 .. 4 + n
      PROVE  Total(new) = Total(bytes) + change
  <2> DEFINE i == j - 4
  <2>1. i \in 1 .. n /\ j = 4 + i
    BY <1>5
  <2>2. bytes[i] = ByteOf(line, j)
    BY <2>1
  <2>3. new = [bytes EXCEPT ![i] = ByteOf(other, j)]
    <3>1. \A m \in 1 .. n : ByteOf(other, 4 + m) =
                               IF m = i THEN ByteOf(other, j) ELSE ByteOf(line, 4 + m)
      <4> SUFFICES ASSUME NEW m \in 1 .. n, m # i
                   PROVE  ByteOf(other, 4 + m) = ByteOf(line, 4 + m)
        BY <2>1
      <4>1. 4 + m \in 1 .. 5 + n /\ 4 + m # j
        BY <2>1
      <4> QED  BY <1>0, <4>1
    <3> QED  BY <3>1
  <2>4. bytes \in Seq(Byte) /\ i \in 1 .. Len(bytes) /\ ByteOf(other, j) \in Byte
    BY <1>3, <1>4, <2>1
  <2>5. Total(bytes) \in Int /\ ByteOf(other, j) \in Int /\ ByteOf(line, j) \in Int
    BY <1>3, <1>4
  <2> HIDE DEF bytes, new, i
  <2>6. Total(new) = Total(bytes) + ByteOf(other, j) - ByteOf(line, j)
    BY <2>2, <2>3, <2>4, TotalChanges
  <2> QED  BY <2>5, <2>6
<1>6. ASSUME j \notin 5 .. 4 + n
      PROVE  Total(new) = Total(bytes)
  <2>1. \A m \in 1 .. n : 4 + m \in 1 .. 5 + n /\ 4 + m # j
    BY <1>6
  <2>2. new = bytes
    BY <1>0, <2>1
  <2> QED  BY <2>2
<1>7. /\ 2 \in 1 .. 5 + n /\ 3 \in 1 .. 5 + n /\ 4 \in 1 .. 5 + n /\ 5 + n \in 1 .. 5 + n
      /\ j = 2 \/ j = 3 \/ j = 4 \/ j \in 5 .. 4 + n \/ j = 5 + n
  OBVIOUS
<1>8. /\ n \in Int /\ Total(bytes) \in Int /\ ByteOf(line, 2) \in Int
      /\ ByteOf(line, 3) \in Int /\ ByteOf(line, 4) \in Int
      /\ ByteOf(line, 5 + n) \in Int
      /\ change \in Int /\ ByteOf(other, j) = ByteOf(line, j) + change
  <2>1. n \in Int
    OBVIOUS
  <2>2. change \in Int /\ ByteOf(other, j) = ByteOf(line, j) + change
    <3>1. ByteOf(line, j) \in Int /\ ByteOf(other, j) \in Int
      BY <1>3
    <3> QED  BY <3>1
  <2> HIDE DEF change, bytes, new
  <2> QED  BY <1>3, <1>4, <2>1, <2>2
<1> HIDE DEF bytes, new, change
<1>9. newWhole = whole + change
  <2>1. CASE j = 2
    <3>1. j \notin 5 .. 4 + n /\ 3 # j /\ 4 # j /\ 5 + n # j
      BY <2>1
    <3>2. /\ ByteOf(other, 3) = ByteOf(line, 3) /\ ByteOf(other, 4) = ByteOf(line, 4)
          /\ ByteOf(other, 5 + n) = ByteOf(line, 5 + n)
      BY <1>0, <1>7, <3>1
    <3>3. Total(new) = Total(bytes)
      BY <1>6, <3>1
    <3> QED  BY ONLY <1>8, <2>1, <3>2, <3>3
  <2>2. CASE j = 3
    <3>1. j \notin 5 .. 4 + n /\ 2 # j /\ 4 # j /\ 5 + n # j
      BY <2>2
    <3>2. /\ ByteOf(other, 2) = ByteOf(line, 2) /\ ByteOf(other, 4) = ByteOf(line, 4)
          /\ ByteOf(other, 5 + n) = ByteOf(line, 5 + n)
      BY <1>0, <1>7, <3>1
    <3>3. Total(new) = Total(bytes)
      BY <1>6, <3>1
    <3> QED  BY ONLY <1>8, <2>2, <3>2, <3>3
  <2>3. CASE j = 4
    <3>1. j \notin 5 .. 4 + n /\ 2 # j /\ 3 # j /\ 5 + n # j
      BY <2>3
    <3>2. /\ ByteOf(other, 2) = ByteOf(line, 2) /\ ByteOf(other, 3) = ByteOf(line, 3)
          /\ ByteOf(other, 5 + n) = ByteOf(line, 5 + n)
      BY <1>0, <1>7, <3>1
    <3>3. Total(new) = Total(bytes)
      BY <1>6, <3>1
    <3> QED  BY ONLY <1>8, <2>3, <3>2, <3>3
  <2>4. CASE j \in 5 .. 4 + n
    <3>1. 2 # j /\ 3 # j /\ 4 # j /\ 5 + n # j
      BY <2>4
    <3>2. /\ ByteOf(other, 2) = ByteOf(line, 2) /\ ByteOf(other, 3) = ByteOf(line, 3)
          /\ ByteOf(other, 4) = ByteOf(line, 4) /\ ByteOf(other, 5 + n) = ByteOf(line, 5 + n)
      BY <1>0, <1>7, <3>1
    <3>3. Total(new) = Total(bytes) + change
      BY <1>5, <2>4
    <3> QED  BY ONLY <1>8, <2>4, <3>2, <3>3
  <2>5. CASE j = 5 + n
    <3>1. j \notin 5 .. 4 + n /\ 2 # j /\ 3 # j /\ 4 # j
      BY <2>5
    <3>2. /\ ByteOf(other, 2) = ByteOf(line, 2) /\ ByteOf(other, 3) = ByteOf(line, 3)
          /\ ByteOf(other, 4) = ByteOf(line, 4)
      BY <1>0, <1>7, <3>1
    <3>3. Total(new) = Total(bytes)
      BY <1>6, <3>1
    <3> QED  BY ONLY <1>8, <2>5, <3>2, <3>3
  <2> QED  BY <1>7, <2>1, <2>2, <2>3, <2>4, <2>5
<1>10. whole \in Int
  BY <1>8
<1>11. change \in Int /\ change # 0 /\ -256 < change /\ change < 256
  <2>1. \A x, y \in Byte : x # y => x - y \in Int /\ x - y # 0 /\ -256 < x - y /\ x - y < 256
    BY DEF Byte
  <2> QED  BY <1>0, <1>3, <2>1 DEF change
<1>12. \A w, d \in Int : U8(w) = 0 /\ d # 0 /\ -256 < d /\ d < 256 => U8(w + d) # 0
  BY DEF U8
<1> HIDE DEF whole, newWhole, change
<1> QED  BY <1>2, <1>9, <1>10, <1>11, <1>12

LEMMA DigitsAreNoColons == \A c \in HexDigit : c # ":"
<1> SUFFICES ASSUME NEW i \in 1 .. 16
             PROVE  LowerDigits[i] # ":" /\ UpperDigits[i] # ":"
  BY DEF HexDigit
<1>1. LowerDigits[i] # ":"
  BY DEF LowerDigits
<1>2. UpperDigits[i] # ":"
  BY DEF UpperDigits
<1> QED  BY <1>1, <1>2

\* A record with a character changed somewhere behind its count is refused.
LEMMA DamagedLine ==
  ASSUME NEW line \in Seq(STRING), NEW type \in Byte, NEW address \in Word,
         NEW bytes \in Seq(Byte), Len(bytes) < 256,
         Spells(line, RecordBytes(type, address, bytes, 0)),
         NEW k \in 4 .. 11 + 2 * Len(bytes), NEW c,
         HexToByte(c, "0") # HexToByte(line[k], "0"), NEW beyond
  PROVE  Sum(Record([line EXCEPT ![k] = c], beyond)) # 0
<1> DEFINE all == RecordBytes(type, address, bytes, 0)
           n == Len(bytes)
           other == [line EXCEPT ![k] = c]
           j == k \div 2
<1>1. n \in 0 .. 255
  <2>1. n \in Nat /\ n < 256
    OBVIOUS
  <2> HIDE DEF n
  <2> QED  BY <2>1
<1>2. Len(line) >= 11 + 2 * n /\ ByteOf(line, 1) = n
  <2>1. 0 \in Int /\ all[1] = n
    BY RecordBytesAt
  <2>2. /\ Len(line) >= 11 + 2 * n
        /\ \A i \in 1 .. 5 + n : ByteOf(line, i) = all[i]
    BY <2>1, SpelledBytes
  <2>3. 1 \in 1 .. 5 + n
    BY <1>1
  <2> HIDE DEF all, n
  <2> QED  BY <2>1, <2>2, <2>3
<1>3. Sum(Record(line, beyond)) = 0
  <2>1. Sum(Record(line, beyond)) = U8(0)
    BY SpelledRecord
  <2> QED  BY <2>1 DEF U8
<1>4. k \in 4 .. 11 + 2 * n
  OBVIOUS
<1> HIDE DEF all, n
<1>5. /\ Len(other) = Len(line) /\ other[k] = c
      /\ \A i \in 1 .. Len(line) : i # k => other[i] = line[i]
  <2>1. Len(line) \in Nat
    OBVIOUS
  <2>2. k \in 1 .. Len(line)
    BY <1>1, <1>2, <1>4, <2>1
  <2>3. line \in Seq(STRING \cup {c})
    OBVIOUS
  <2> QED  BY <2>2, <2>3
<1> HIDE DEF other
<1>6. j \in 2 .. 5 + n /\ (k = 2 * j \/ k = 2 * j + 1)
  BY <1>1, <1>4
<1> HIDE DEF j
<1>7. ASSUME NEW i \in 1 .. 5 + n, i # j
      PROVE  ByteOf(other, i) = ByteOf(line, i)
  <2>1. 2 * i # k /\ 2 * i + 1 # k
    BY <1>6, <1>7
  <2>2. 2 * i \in 1 .. Len(line) /\ 2 * i + 1 \in 1 .. Len(line)
    <3>1. Len(line) \in Nat
      OBVIOUS
    <3> QED  BY <1>1, <1>2, <3>1
  <2>3. other[2 * i] = line[2 * i] /\ other[2 * i + 1] = line[2 * i + 1]
    BY <1>5, <2>1, <2>2
  <2> QED  BY <2>3 DEF ByteOf
<1>8. ByteOf(other, j) # ByteOf(line, j)
  <2>1. 2 * j \in 1 .. Len(line) /\ 2 * j + 1 \in 1 .. Len(line)
    <3>1. Len(line) \in Nat
      OBVIOUS
    <3> QED  BY <1>1, <1>2, <1>6, <3>1
  <2>2. 2 * j # 2 * j + 1
    BY <1>6
  <2>3. CASE k = 2 * j
    <3>1. other[2 * j] = c /\ other[2 * j + 1] = line[2 * j + 1]
      BY <1>5, <2>1, <2>2, <2>3
    <3>2. HexToByte(c, line[2 * j + 1]) # HexToByte(line[2 * j], line[2 * j + 1])
      BY <2>3, DigitCounts
    <3> QED  BY <3>1, <3>2 DEF ByteOf
  <2>4. CASE k = 2 * j + 1
    <3>1. other[2 * j + 1] = c /\ other[2 * j] = line[2 * j]
      BY <1>5, <2>1, <2>2, <2>4
    <3>2. HexToByte(line[2 * j], c) # HexToByte(line[2 * j], line[2 * j + 1])
      BY <2>4, DigitCounts
    <3> QED  BY <3>1, <3>2 DEF ByteOf
  <2> QED  BY <1>6, <2>3, <2>4
<1>9. OneByteDiffers(line, other, n, j)
  BY <1>7, <1>8 DEF OneByteDiffers
<1>10. Len(other) = Len(line) /\ Len(line) \in Nat /\ j \in 2 .. 5 + n
  BY <1>5, <1>6
<1>11. Sum(Record(other, beyond)) # 0
  BY <1>1, <1>2, <1>3, <1>9, <1>10, ByteCounts
<1> QED  BY <1>11 DEF other

-----------------------------------------------------------------------------
(* The theorems. *)

LEMMA FileType == FileSpec => [](file \in Seq(Items))
<1>1. FileInit => file \in Seq(Items)
  BY DEF FileInit
<1>2. file \in Seq(Items) /\ [AddLine]_file => (file \in Seq(Items))'
  BY DEF AddLine
<1> QED  BY <1>1, <1>2, PTL DEF FileSpec

\* Whatever the file and wherever it is loaded, load_hex leaves the records
\* that count, the later over the earlier, and load_bin the whole image or
\* nothing.
THEOREM FilesAreLoaded == FileSpec => []LoadsWhatIsWritten
<1>1. ASSUME file \in Seq(Items)  PROVE LoadsWhatIsWritten
  <2> SUFFICES ASSUME NEW base \in Bases
               PROVE  /\ \A beyond \in {"NUL", "5"} :
                            LoadHex(Lines, Blank, beyond, base) =
                              [status |-> Result(Len(file)),
                               cells  |-> Written(Records(Len(file)), base)]
                      /\ \A i \in DOMAIN file :
                            LoadBin(file[i].bytes, Blank, base) =
                              IF base + Len(file[i].bytes) > 65536
                                THEN [status |-> "error", cells |-> Blank]
                                ELSE [status |-> "done",
                                      cells  |-> [a \in Covered(base, file[i].bytes) |->
                                                    file[i].bytes[a - base + 1]]]
    BY DEF LoadsWhatIsWritten
  <2>1. base \in Word
    BY BasesAssumption
  <2>2. ASSUME NEW i \in DOMAIN file  PROVE file[i].bytes \in Seq(Byte)
    <3>1. i \in 1 .. Len(file)
      BY <1>1, <2>2
    <3>2. Means(file[i])
      BY <1>1, <3>1, ItemsMean
    <3> QED  BY <3>2 DEF Means
  <2> QED  BY <1>1, <2>1, <2>2, HexIsLoaded, BinIsLoaded
<1>2. FileSpec => [](file \in Seq(Items))
  BY FileType
<1> QED  BY <1>1, <1>2, PTL

\* A record with one wrong character - not in its count - is an error and
\* leaves memory as it was.
THEOREM DamagedRecordsAreRefused == FileSpec => []DamageIsFound
<1>1. ASSUME file \in Seq(Items)  PROVE DamageIsFound
  <2> DEFINE line == file[1].line
             bytes == file[1].bytes
  <2> SUFFICES ASSUME Len(file) = 1, file[1].kind \in {"data", "end", "other"},
                      NEW k \in {1} \cup 4 .. 11 + 2 * Len(bytes),
                      NEW c \in HexDigit \cup {"G"},
                      HexToByte(c, "0") # HexToByte(line[k], "0") \/ k = 1
               PROVE  LoadHex(<<[line EXCEPT ![k] = c]>>, Blank, "NUL", 0)
                        = [status |-> "error", cells |-> Blank]
    BY DEF DamageIsFound
  <2>1. Means(file[1])
    <3>1. 1 \in 1 .. Len(file)
      OBVIOUS
    <3> QED  BY <1>1, <3>1, ItemsMean
  <2>2. PICK type \in Byte : IsRecord(file[1], type, 0)
    <3>1. 0 \in Byte /\ 1 \in Byte /\ \A type \in 2 .. 255 : type \in Byte
      BY DEF Byte
    <3> QED  BY <2>1, <3>1 DEF Means
  <2>3. /\ line \in Seq(STRING) /\ file[1].address \in Word /\ bytes \in Seq(Byte)
        /\ Len(bytes) < 256 /\ Spells(line, RecordBytes(type, file[1].address, bytes, 0))
    BY <2>1, <2>2 DEF Means, IsRecord
  <2>4. Len(line) >= 11 + 2 * Len(bytes)
    BY <2>3, SpelledBytes
  <2>5. Len(line) \in Nat /\ Len(bytes) \in Nat
    BY <2>3
  <2>6. c # ":"
    <3>1. "G" # ":"
      OBVIOUS
    <3> QED  BY <3>1, DigitsAreNoColons
  <2> DEFINE other == [line EXCEPT ![k] = c]
  <2>7. other # <<>>
    <3>1. DOMAIN other = 1 .. Len(line)
      BY <2>3
    <3> HIDE DEF other
    <3> QED  BY <2>4, <2>5, <3>1
  <2>8. other[1] # ":" \/ Sum(Record(other, "NUL")) # 0
    <3>1. CASE k = 1
      <4>1. 1 \in 1 .. Len(line)
        BY <2>4, <2>5
      <4>2. other[1] = c
        BY <2>3, <3>1, <4>1
      <4> QED  BY <2>6, <4>2
    <3>2. CASE k # 1
      <4>1. k \in 4 .. 11 + 2 * Len(bytes) /\ HexToByte(c, "0") # HexToByte(line[k], "0")
        BY <3>2
      <4> HIDE DEF line, bytes
      <4> QED  BY <2>3, <4>1, DamagedLine
    <3> QED  BY <3>1, <3>2
  <2> HIDE DEF other
  <2>9. LoadHex(<<other>>, Blank, "NUL", 0) = [status |-> "error", cells |-> Blank]
    BY <2>7, <2>8, Refused
  <2> QED  BY <2>9 DEF other
<1>2. FileSpec => [](file \in Seq(Items))
  BY FileType
<1> QED  BY <1>1, <1>2, PTL
=============================================================================
