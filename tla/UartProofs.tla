----------------------------- MODULE UartProofs -----------------------------
(***************************************************************************)
(* The receiver keeps its word, for every script of every set of bytes,    *)
(* every size of Buffer, and pipes as well as terminals.  The types and    *)
(* the promise are inductive; that a status is fresh rests on two facts    *)
(* about the call under way: a byte that waited is still somewhere in      *)
(* front of the guest, and is in RxQueue once the loop is left.  That in   *)
(* turn needs the end of a pipe to mean what it should.                    *)
(***************************************************************************)
EXTENDS Uart, SequenceTheorems, TLAPS

Channels == RxQueue \o stdin

\* The next value of the receiver's queues under a read of n bytes.
LEMMA ReadMoves ==
  ASSUME NEW S, NEW q \in Seq(S), NEW s \in Seq(S), NEW n \in 0 .. Len(s)
  PROVE  LET front == SubSeq(s, 1, n)
             rest  == SubSeq(s, n + 1, Len(s))
         IN  /\ q \o front \in Seq(S) /\ rest \in Seq(S)
             /\ (q \o front) \o rest = q \o s
             /\ n > 0 => q \o front # <<>>
<1> DEFINE front == SubSeq(s, 1, n)
           rest  == SubSeq(s, n + 1, Len(s))
<1>0. Len(s) \in Nat /\ \A i \in 1 .. Len(s) : s[i] \in S
  BY LenProperties
<1>1. front \in Seq(S) /\ Len(front) = n
  BY <1>0, SubSeqProperties
<1>2. rest \in Seq(S)
  BY <1>0, SubSeqProperties
<1>3. front \o rest = s
  <2>1. 1 \in 1 .. Len(s) + 1 /\ n \in 1 - 1 .. Len(s) /\ Len(s) \in n .. Len(s)
    BY <1>0
  <2>2. front \o rest = SubSeq(s, 1, Len(s))
    BY <2>1, ConcatAdjacentSubSeq, Zenon
  <2> QED  BY <2>2, SubSeqFull
<1> HIDE DEF front, rest
<1>4. q \o front \in Seq(S) /\ Len(q \o front) = Len(q) + n
  BY <1>1, ConcatProperties
<1>5. (q \o front) \o rest = q \o s
  <2>1. (q \o front) \o rest = q \o (front \o rest)
    <3>1. front \in Seq(S) /\ rest \in Seq(S)
      BY <1>1, <1>2
    <3> QED  BY ONLY q \in Seq(S), <3>1, ConcatAssociative
  <2> QED  BY <2>1, <1>3
<1>6. n > 0 => q \o front # <<>>
  BY <1>1, ConcatEqualIffEmpty, EmptySeq
<1> QED  BY <1>2, <1>4, <1>5, <1>6 DEF front, rest

\* What arrives joins the channel at its end.
LEMMA ArrivalAppends ==
  ASSUME NEW S, NEW q \in Seq(S), NEW s \in Seq(S), NEW e \in S
  PROVE  q \o Append(s, e) = Append(q \o s, e)
<1>1. <<e>> \in Seq(S)
  OBVIOUS
<1>2. Append(s, e) = s \o <<e>>
  BY AppendIsConcat
<1>3. q \o s \in Seq(S)
  BY ConcatProperties
<1>4. Append(q \o s, e) = (q \o s) \o <<e>>
  BY <1>3, AppendIsConcat
<1> QED  BY <1>1, <1>2, <1>4, ConcatAssociative

\* The head of the queue is the head of the channel.
LEMMA TakeFromFront ==
  ASSUME NEW S, NEW q \in Seq(S), NEW s \in Seq(S), q # <<>>
  PROVE  /\ q \o s # <<>>
         /\ Head(q \o s) = Head(q)
         /\ Tail(q \o s) = Tail(q) \o s
<1>1. Len(q) \in Nat \ {0} /\ Len(s) \in Nat
  BY EmptySeq, LenProperties
<1>2. /\ q \o s \in Seq(S) /\ Len(q \o s) = Len(q) + Len(s)
      /\ \A i \in 1 .. Len(q) + Len(s) :
           (q \o s)[i] = IF i <= Len(q) THEN q[i] ELSE s[i - Len(q)]
  BY ConcatProperties
<1>3. q \o s # <<>>
  BY <1>1, <1>2, EmptySeq
<1>4. Head(q \o s) = Head(q)
  BY <1>1, <1>2, <1>3
<1>5. /\ Tail(q) \in Seq(S) /\ Len(Tail(q)) = Len(q) - 1
      /\ \A i \in 1 .. Len(Tail(q)) : Tail(q)[i] = q[i + 1]
  BY HeadTailProperties
<1>6. /\ Tail(q) \o s \in Seq(S) /\ Len(Tail(q) \o s) = Len(q) - 1 + Len(s)
      /\ \A i \in 1 .. Len(q) - 1 + Len(s) :
           (Tail(q) \o s)[i] =
             IF i <= Len(q) - 1 THEN Tail(q)[i] ELSE s[i - (Len(q) - 1)]
  BY <1>5, ConcatProperties
<1>7. /\ Tail(q \o s) \in Seq(S) /\ Len(Tail(q \o s)) = Len(q) + Len(s) - 1
      /\ \A i \in 1 .. Len(Tail(q \o s)) : Tail(q \o s)[i] = (q \o s)[i + 1]
  BY <1>2, <1>3, HeadTailProperties
<1>8. ASSUME NEW i \in 1 .. Len(Tail(q \o s))
      PROVE  Tail(q \o s)[i] = (Tail(q) \o s)[i]
  <2>1. i \in 1 .. Len(q) - 1 + Len(s) /\ i + 1 \in 1 .. Len(q) + Len(s)
    BY <1>1, <1>7
  <2>2. CASE i <= Len(q) - 1
    BY <1>1, <1>2, <1>5, <1>6, <1>7, <2>1, <2>2
  <2>3. CASE ~(i <= Len(q) - 1)
    <3>1. i + 1 - Len(q) = i - (Len(q) - 1) /\ ~(i + 1 <= Len(q))
      BY <1>1, <2>3
    <3> QED  BY <1>2, <1>6, <1>7, <2>1, <2>3, <3>1
  <2> QED  BY <2>2, <2>3
<1>9. Tail(q \o s) = Tail(q) \o s
  BY <1>1, <1>6, <1>7, <1>8, SeqEqual
<1> QED  BY <1>3, <1>4, <1>9

\* What a flush leaves is the queue, the channel without its end.
LEMMA FlushCutsEnd ==
  ASSUME NEW S, NEW q \in Seq(S), NEW s \in Seq(S), s # <<>>
  PROVE  /\ Len(q) \in 0 .. Len(q \o s) - 1
         /\ SubSeq(q \o s, 1, Len(q)) = q
<1>1. Len(q) \in Nat /\ Len(s) \in Nat \ {0} /\ Len(q \o s) = Len(q) + Len(s)
  BY EmptySeq, LenProperties, ConcatProperties
<1>2. Len(q) \in 0 .. Len(q \o s) - 1
  BY <1>1
<1>3. SubSeq(q \o s, 1, Len(q)) = q
  <2>1. CASE q = <<>>
    BY <1>1, <2>1, SubSeqEmpty, EmptySeq
  <2>2. CASE q # <<>>
    <3>1. 1 \in 1 .. Len(q) /\ Len(q) \in 1 .. Len(q)
      BY <1>1, <2>2, EmptySeq
    <3>2. SubSeq(q \o s, 1, Len(q)) = SubSeq(q, 1, Len(q))
      BY <3>1, SubSeqOfConcat1
    <3> QED  BY <3>2, SubSeqFull
  <2> QED  BY <2>1, <2>2
<1> QED  BY <1>2, <1>3

\* Count is a length read() can return.
LEMMA CountInRange ==
  ASSUME TypeOK
  PROVE  /\ Count \in 0 .. Len(stdin)
         /\ Count = 0 <=> stdin = <<>>
<1>1. Len(stdin) \in Nat /\ (stdin = <<>> <=> Len(stdin) = 0)
  BY EmptySeq DEF TypeOK
<1> QED  BY <1>1, UartAssumption DEF Count

-----------------------------------------------------------------------------
LEMMA InitType == Init => TypeOK
BY UartAssumption, EmptySeq DEF Init, TypeOK, Registers

LEMMA ReadType ==
  ASSUME TypeOK, ReadStdin
  PROVE  TypeOK'
<1>1. RxQueue \in Seq(Byte) /\ stdin \in Seq(Byte) /\ Count \in 0 .. Len(stdin)
  BY CountInRange DEF TypeOK
<1>2. RxQueue' \in Seq(Byte) /\ stdin' \in Seq(Byte)
  BY <1>1, ReadMoves, Zenon DEF ReadStdin
<1> QED  BY <1>2 DEF TypeOK, ReadStdin, history

LEMMA AnswerType ==
  ASSUME TypeOK, Reply
  PROVE  TypeOK'
<1>1. CASE AnswerStatus
  BY <1>1, UartAssumption DEF AnswerStatus, TypeOK, device, host
<1>2. CASE AnswerData
  <2>1. CASE RxQueue = <<>>
    BY <1>2, <2>1, UartAssumption DEF AnswerData, TypeOK, host
  <2>2. CASE RxQueue # <<>>
    <3>1. Head(RxQueue) \in Byte /\ Tail(RxQueue) \in Seq(Byte)
      BY <2>2, HeadTailProperties DEF TypeOK
    <3>2. Append(taken, Head(RxQueue)) \in Seq(Byte)
      BY <3>1, AppendProperties DEF TypeOK
    <3> QED  BY <1>2, <2>2, <3>1, <3>2 DEF AnswerData, TypeOK, host
  <2> QED  BY <2>1, <2>2
<1> QED  BY <1>1, <1>2 DEF Reply

LEMMA HostType ==
  ASSUME TypeOK, Host
  PROVE  TypeOK'
<1> USE DEF TypeOK, device, history
<1>1. CASE StdinArrives
  <2>1. Head(unsent) \in Byte /\ Tail(unsent) \in Seq(Byte)
    BY <1>1, HeadTailProperties DEF StdinArrives
  <2>2. Append(stdin, Head(unsent)) \in Seq(Byte)
    BY <2>1, AppendProperties
  <2> QED  BY <1>1, <2>1, <2>2 DEF StdinArrives
<1>2. CASE StdinCloses
  BY <1>2 DEF StdinCloses
<1>3. CASE TtyFlush
  BY <1>3, EmptySeq DEF TtyFlush
<1> QED  BY <1>1, <1>2, <1>3 DEF Host

LEMMA NextType ==
  ASSUME TypeOK, [Next]_vars
  PROVE  TypeOK'
<1>1. CASE Guest
  BY <1>1 DEF Guest, Call, TypeOK, Registers, device, host
<1>2. CASE Select \/ SelectFails
  BY <1>2 DEF Select, SelectFails, TypeOK, device, host, history
<1>3. CASE UNCHANGED vars
  BY <1>3 DEF vars, TypeOK, device, host, history
<1> QED  BY <1>1, <1>2, <1>3, ReadType, AnswerType, HostType DEF Next, Poll

\* Every variable of the receiver keeps its type: a data register hands out
\* bytes, whatever the host does.
THEOREM TypeCorrect == Spec => []TypeOK
BY InitType, NextType, PTL DEF Spec

-----------------------------------------------------------------------------
LEMMA NextPromise ==
  ASSUME TypeOK, PromiseIsKept, [Next]_vars
  PROVE  PromiseIsKept'
<1>1. CASE ReadStdin
  <2>1. RxQueue # <<>> => RxQueue' # <<>>
    <3>1. RxQueue \in Seq(Byte) /\ stdin \in Seq(Byte) /\ Len(stdin) \in Nat
      BY LenProperties DEF TypeOK
    <3>2. SubSeq(stdin, 1, Count) \in Seq(Byte)
      <4>1. \A i \in 1 .. Count : stdin[i] \in Byte
        BY <3>1, CountInRange, ElementOfSeq
      <4>2. Count \in Int
        BY <3>1, CountInRange
      <4> QED  BY <4>1, <4>2, SubSeqProperties
    <3> QED  BY <1>1, <3>1, <3>2, ConcatEqualIffEmpty DEF ReadStdin
  <2> QED  BY <1>1, <2>1 DEF ReadStdin, PromiseIsKept, history
<1>2. CASE Reply
  BY <1>2 DEF Reply, AnswerStatus, AnswerData, PromiseIsKept, device
<1>3. CASE Guest \/ Select \/ SelectFails
  BY <1>3 DEF Guest, Call, Select, SelectFails, PromiseIsKept, device, history
<1>4. CASE Host
  BY <1>4 DEF Host, StdinArrives, StdinCloses, TtyFlush, PromiseIsKept, device, history
<1>5. CASE UNCHANGED vars
  BY <1>5 DEF vars, PromiseIsKept, device, history
<1> QED  BY <1>1, <1>2, <1>3, <1>4, <1>5 DEF Next, Poll

\* A status of 1 is worth a byte, for every Buffer, script and host.
THEOREM PromiseKept == Spec => []PromiseIsKept
<1>1. Init => PromiseIsKept
  BY DEF Init, PromiseIsKept
<1>2. TypeOK /\ PromiseIsKept /\ [Next]_vars => PromiseIsKept'
  BY NextPromise
<1> QED  BY <1>1, <1>2, TypeCorrect, PTL DEF Spec

-----------------------------------------------------------------------------
LEMMA NextPipeEof ==
  ASSUME TypeOK, PipeEofMeansClosed, [Next]_vars
  PROVE  PipeEofMeansClosed'
<1> USE DEF PipeEofMeansClosed, EofMeansClosed
<1>1. CASE ReadStdin
  <2>1. ASSUME ~tty, RxEof'
        PROVE  closed' /\ stdin' = <<>>
    <3>1. Count = 0 /\ stdin = <<>> /\ closed
      <4>1. Count = 0
        BY <1>1, <2>1, Zenon DEF ReadStdin
      <4>2. Count > 0 \/ closed
        BY <1>1, <2>1, Zenon DEF ReadStdin
      <4> QED  BY <4>1, <4>2, CountInRange
    <3>2. stdin' = SubSeq(stdin, 1, Len(stdin))
      BY <1>1, <3>1 DEF ReadStdin
    <3>3. SubSeq(stdin, 1, Len(stdin)) = stdin
      BY SubSeqFull DEF TypeOK
    <3>4. closed' = closed
      BY <1>1 DEF ReadStdin
    <3> QED  BY <3>1, <3>2, <3>3, <3>4
  <2> QED  BY <1>1, <2>1 DEF ReadStdin
<1>2. CASE Reply
  BY <1>2 DEF Reply, AnswerStatus, AnswerData, device, host
<1>3. CASE Guest \/ Select \/ SelectFails
  BY <1>3 DEF Guest, Call, Select, SelectFails, device, host
<1>4. CASE Host
  BY <1>4 DEF Host, StdinArrives, StdinCloses, TtyFlush, device
<1>5. CASE UNCHANGED vars
  BY <1>5 DEF vars, device, host
<1> QED  BY <1>1, <1>2, <1>3, <1>4, <1>5 DEF Next, Poll

\* On a pipe the receiver gives up only when everything has been received.
THEOREM PipeEofIsTheEnd == Spec => []PipeEofMeansClosed
<1>1. Init => PipeEofMeansClosed
  BY DEF Init, PipeEofMeansClosed, EofMeansClosed
<1>2. TypeOK /\ PipeEofMeansClosed /\ [Next]_vars => PipeEofMeansClosed'
  BY NextPipeEof
<1> QED  BY <1>1, <1>2, TypeCorrect, PTL DEF Spec
-----------------------------------------------------------------------------
\* A byte that waited when the call began is in front of the guest, and in
\* RxQueue once the loop is left.
Kept ==
  waiting /\ ~failed /\ ~tty /\ pc # "idle" =>
    /\ Channels # <<>>
    /\ pc = "answer" => RxQueue # <<>>

FreshInv == PipeEofMeansClosed /\ Kept

LEMMA ChannelsEmpty ==
  ASSUME TypeOK
  PROVE  Channels = <<>> <=> RxQueue = <<>> /\ stdin = <<>>
BY ConcatEqualIffEmpty DEF TypeOK, Channels

\* A read moves bytes within the channel.
LEMMA ReadKeepsChannel ==
  ASSUME TypeOK, ReadStdin
  PROVE  Channels' = Channels
<1>1. RxQueue \in Seq(Byte) /\ stdin \in Seq(Byte) /\ Count \in 0 .. Len(stdin)
  BY CountInRange DEF TypeOK
<1>2. (RxQueue \o SubSeq(stdin, 1, Count)) \o SubSeq(stdin, Count + 1, Len(stdin))
        = RxQueue \o stdin
  BY <1>1, ReadMoves, Zenon
<1> QED  BY <1>2 DEF ReadStdin, Channels

LEMMA NextKept ==
  ASSUME TypeOK, TypeOK', FreshInv, [Next]_vars
  PROVE  Kept'
<1> USE DEF Kept, FreshInv
<1>1. CASE Guest
  <2>1. waiting' <=> Channels # <<>>
    BY <1>1 DEF Guest, Call, Channels
  <2>2. pc' = "answer" /\ ~tty => stdin = <<>>
    BY <1>1 DEF Guest, Call, PipeEofMeansClosed, EofMeansClosed
  <2>3. UNCHANGED <<RxQueue, stdin, tty>>
    BY <1>1 DEF Guest, Call, device, host
  <2> QED  BY <2>1, <2>2, <2>3, ChannelsEmpty DEF Channels
<1>2. CASE Select
  <2>1. /\ pc = "select" /\ pc' = "answer" => stdin = <<>>
        /\ UNCHANGED <<RxQueue, stdin, tty, waiting, failed>>
    BY <1>2 DEF Select, Readable, device, host, history
  <2>2. pc = "select"
    BY <1>2 DEF Select
  <2> QED  BY <2>1, <2>2, ChannelsEmpty DEF Channels
<1>3. CASE SelectFails
  BY <1>3 DEF SelectFails
<1>4. CASE ReadStdin
  <2>1. Channels' = Channels
    BY <1>4, ReadKeepsChannel
  <2>2. pc = "read" /\ UNCHANGED <<tty, waiting, failed>>
    BY <1>4 DEF ReadStdin, history
  <2>3. pc' = "answer" => stdin' = <<>>
    <3>1. SUFFICES ASSUME pc' = "answer" PROVE stdin' = <<>>
      OBVIOUS
    <3>2. Count = 0 /\ stdin' = SubSeq(stdin, Count + 1, Len(stdin))
      BY <1>4, <3>1 DEF ReadStdin
    <3>3. stdin = <<>> /\ Len(stdin) = 0
      BY <3>2, CountInRange, EmptySeq
    <3> QED  BY <3>2, <3>3, SubSeqEmpty
  <2>4. Channels' = <<>> <=> RxQueue' = <<>> /\ stdin' = <<>>
    BY ConcatEqualIffEmpty DEF TypeOK, Channels
  <2> QED  BY <2>1, <2>2, <2>3, <2>4
<1>5. CASE Reply
  BY <1>5 DEF Reply, AnswerStatus, AnswerData
<1>6. CASE Host
  <2>1. /\ ~tty /\ stdin # <<>> => stdin' # <<>>
        /\ UNCHANGED <<RxQueue, tty, pc, waiting, failed>>
    BY <1>6, AppendProperties, HeadTailProperties
       DEF Host, StdinArrives, StdinCloses, TtyFlush, TypeOK, device, history
  <2>2. Channels' = <<>> <=> RxQueue' = <<>> /\ stdin' = <<>>
    BY ConcatEqualIffEmpty DEF TypeOK, Channels
  <2> QED  BY <2>1, <2>2, ChannelsEmpty
<1>7. CASE UNCHANGED vars
  BY <1>7 DEF vars, device, host, history, Channels
<1> QED  BY <1>1, <1>2, <1>3, <1>4, <1>5, <1>6, <1>7 DEF Next, Poll

\* A status of 0 is never stale on a pipe, unless select was interrupted.
THEOREM StatusFresh == Spec => StatusIsFresh
<1>1. Init => FreshInv
  BY DEF Init, FreshInv, Kept, PipeEofMeansClosed, EofMeansClosed
<1>2. TypeOK /\ TypeOK' /\ FreshInv /\ [Next]_vars => FreshInv'
  BY NextPipeEof, NextKept DEF FreshInv
<1>3. FreshInv => (AnswerStatus /\ waiting /\ ~failed /\ ~tty => result' = 1)
  BY DEF FreshInv, Kept, AnswerStatus
<1> QED  BY <1>1, <1>2, <1>3, TypeCorrect, PTL DEF Spec, StatusIsFresh

-----------------------------------------------------------------------------
LEMMA ChannelStarts == Init => Channel!ChannelInit
BY UartAssumption, ConcatEmptySeq, EmptySeq DEF Init, Channel!ChannelInit

\* Every step is one of the channel's, or moves bytes inside it.
LEMMA ChannelSteps ==
  ASSUME TypeOK, [Next]_vars
  PROVE  [Channel!ChannelNext]_(Channel!channelVars)
<1> USE DEF Channel!channelVars
<1>0. RxQueue \in Seq(Byte) /\ stdin \in Seq(Byte) /\ unsent \in Seq(Byte)
  BY DEF TypeOK
<1>1. CASE Guest \/ Select \/ SelectFails \/ AnswerStatus \/ UNCHANGED vars
  BY <1>1 DEF Guest, Call, Select, SelectFails, AnswerStatus, vars, device, host, history
<1>2. CASE ReadStdin
  BY <1>2, ReadKeepsChannel DEF ReadStdin, Channels, history
<1>3. CASE AnswerData
  <2>1. CASE RxQueue = <<>>
    BY <1>3, <2>1 DEF AnswerData, host
  <2>2. CASE RxQueue # <<>>
    <3>1. /\ RxQueue \o stdin # <<>>
          /\ Head(RxQueue \o stdin) = Head(RxQueue)
          /\ Tail(RxQueue \o stdin) = Tail(RxQueue) \o stdin
      BY <1>0, <2>2, TakeFromFront
    <3>2. Channel!Take
      BY <1>3, <2>2, <3>1 DEF AnswerData, host, Channel!Take
    <3> QED  BY <3>2 DEF Channel!ChannelNext
  <2> QED  BY <2>1, <2>2
<1>4. CASE StdinArrives
  <2>1. Head(unsent) \in Byte
    BY <1>0, <1>4, HeadTailProperties DEF StdinArrives
  <2>2. RxQueue \o Append(stdin, Head(unsent)) = Append(RxQueue \o stdin, Head(unsent))
    BY <1>0, <2>1, ArrivalAppends
  <2>3. Channel!Put(Head(unsent))
    BY <1>4, <2>2 DEF StdinArrives, device, history, Channel!Put
  <2> QED  BY <2>1, <2>3 DEF Channel!ChannelNext
<1>5. CASE StdinCloses
  <2>1. Channel!End
    BY <1>5 DEF StdinCloses, device, history, Channel!End
  <2> QED  BY <2>1 DEF Channel!ChannelNext
<1>6. CASE TtyFlush
  <2>1. /\ Len(RxQueue) \in 0 .. Len(RxQueue \o stdin) - 1
        /\ SubSeq(RxQueue \o stdin, 1, Len(RxQueue)) = RxQueue
    BY <1>0, <1>6, FlushCutsEnd DEF TtyFlush
  <2>2. (RxQueue \o stdin)' = RxQueue
    BY <1>0, <1>6, ConcatEmptySeq DEF TtyFlush, device
  <2>3. Channel!Lose
    BY <1>6, <2>1, <2>2 DEF TtyFlush, history, Channel!Lose
  <2> QED  BY <2>3 DEF Channel!ChannelNext
<1> QED  BY <1>1, <1>2, <1>3, <1>4, <1>5, <1>6 DEF Next, Poll, Reply, Host

\* The receiver is one FIFO channel, for every Buffer, script and host.
THEOREM ChannelImplemented == Spec => ImplementsChannel
<1>1. TypeOK /\ [Next]_vars => [Channel!ChannelNext]_(Channel!channelVars)
  BY ChannelSteps
<1> QED  BY <1>1, ChannelStarts, TypeCorrect, PTL
         DEF Spec, ImplementsChannel, Channel!ChannelSpec
=============================================================================
