---------------------------- MODULE TrafficProofs ----------------------------
(***************************************************************************)
(* Proofs about Traffic: no byte of a stream is lost, doubled or moved, and *)
(* text that was read waits in full buffers only, for any streams, any     *)
(* size of the buffer and any number of requests and bytes.                *)
(***************************************************************************)
EXTENDS Traffic, SequenceTheorems, TLAPS

-----------------------------------------------------------------------------
(* Sequences. *)

(* What a read takes and what it leaves are what the pipe held. *)
LEMMA Cut ==
    ASSUME NEW S, NEW q \in Seq(S), NEW n \in 0..Len(q)
    PROVE  /\ SubSeq(q, 1, n) \in Seq(S) /\ SubSeq(q, n + 1, Len(q)) \in Seq(S)
           /\ SubSeq(q, 1, n) \o SubSeq(q, n + 1, Len(q)) = q
           /\ Len(SubSeq(q, 1, n)) = n
<1>1. \A i \in 1..n : q[i] \in S
    BY LenProperties
<1>2. \A i \in (n + 1)..Len(q) : q[i] \in S
    BY LenProperties
<1>3. SubSeq(q, 1, n) \in Seq(S) /\ Len(SubSeq(q, 1, n)) = n
    BY <1>1, SubSeqProperties
<1>4. SubSeq(q, n + 1, Len(q)) \in Seq(S)
    BY <1>2, SubSeqProperties, LenProperties
<1>5. SubSeq(q, 1, n) \o SubSeq(q, n + 1, Len(q)) = SubSeq(q, 1, Len(q))
    <2>1. Len(q) \in Nat
        BY LenProperties
    <2>2. 1 \in 1..Len(q) + 1 /\ n \in (1 - 1)..Len(q) /\ Len(q) \in n..Len(q)
        BY <2>1
    <2> QED
        BY <2>2, ConcatAdjacentSubSeq
<1> QED
    BY <1>3, <1>4, <1>5, SubSeqFull

(* Four pieces in a row, and how they regroup when one moves on. *)
LEMMA Regroup ==
    ASSUME NEW S, NEW a \in Seq(S), NEW b \in Seq(S), NEW c \in Seq(S), NEW d \in Seq(S)
    PROVE  /\ a \o b \in Seq(S) /\ a \o b \o c \in Seq(S)
           /\ a \o (b \o c) \o d = a \o b \o (c \o d)
           /\ a \o b \o c \o d = a \o b \o (c \o d)
           /\ a \o <<>> \o b \o c = a \o b \o <<>> \o c
<1>1. a \o b \in Seq(S) /\ b \o c \in Seq(S) /\ c \o d \in Seq(S) /\ a \o b \o c \in Seq(S)
    BY ConcatProperties
<1>2. (a \o b) \o c = a \o (b \o c)
    BY ConcatAssociative, SMTT(60)
<1>3. a \o b \o c \o d = a \o b \o (c \o d)
    BY <1>1, ConcatAssociative, SMTT(60)
<1>4. a \o <<>> = a /\ a \o b \o <<>> = a \o b
    BY <1>1, ConcatEmptySeq
<1> QED
    BY <1>1, <1>2, <1>3, <1>4

-----------------------------------------------------------------------------
(* What a reader takes. *)

LEMMA TakenBounds ==
    ASSUME NEW s, pipe[s] \in Seq(Bytes)
    PROVE  /\ Taken(s) \in 0..Len(pipe[s]) /\ Taken(s) <= BufferSize
           /\ Taken(s) = Len(pipe[s]) \/ Taken(s) = BufferSize
<1>1. Len(pipe[s]) \in Nat /\ BufferSize \in Nat
    BY LenProperties, TrafficAssumption
<1> DEFINE T == {Len(pipe[s]), BufferSize}
<1>2. \E x \in T : \A y \in T : x =< y
    BY <1>1
<1>3. Taken(s) \in T /\ \A y \in T : Taken(s) =< y
    BY <1>2 DEF Taken, Min
<1> QED
    BY <1>1, <1>3

(* Another full buffer keeps what is withheld full. *)
LEMMA FullAgain ==
    ASSUME NEW n \in Nat, NEW B \in Nat \ {0}, n % B = 0
    PROVE  (n + B) % B = 0
<1> DEFINE q == n \div B
           d == (n + B) \div B
           r == (n + B) % B
           k == q + 1 - d
<1>1. q \in Nat /\ n = B * q
    OBVIOUS
<1>2. d \in Nat /\ r \in 0..(B - 1) /\ n + B = B * d + r
    OBVIOUS
<1>3. k \in Int /\ r = B * k
    BY <1>1, <1>2
<1>4. CASE k >= 1
    <2>1. B * k >= B
        BY <1>3, <1>4
    <2> QED
        BY <2>1, <1>2, <1>3
<1>5. CASE k <= -1
    <2>1. B * k <= -B
        BY <1>3, <1>5
    <2> QED
        BY <2>1, <1>2, <1>3
<1>6. CASE k = 0
    BY <1>3, <1>6
<1> QED
    BY <1>3, <1>4, <1>5, <1>6

-----------------------------------------------------------------------------
(* The text of the streams. *)

(* A message is in hand only while it is sent, and then nothing is kept.   *)
TextType ==
    /\ asked \in Nat
    /\ pipe \in [Streams -> Seq(Bytes)] /\ wrote \in [Streams -> Seq(Bytes)]
    /\ buf \in [Streams -> Seq(Bytes)] /\ told \in [Streams -> Seq(Bytes)]
    /\ rpc \in [Streams -> {"read", "stamp", "send"}]
    /\ DOMAIN rmsg = Streams
    /\ \A s \in Streams : rmsg[s].content \in Seq(Bytes)

InHand(s) == /\ rpc[s] # "send" => rmsg[s] = NoMessage
             /\ rpc[s] = "send" => buf[s] = <<>>
Full(s) == rpc[s] = "read" => Len(buf[s]) % BufferSize = 0
Kept(s) == told[s] \o rmsg[s].content \o buf[s] \o pipe[s] = wrote[s]

TextInv == TextType /\ \A s \in Streams : InHand(s) /\ Full(s) /\ Kept(s)

(* The same of bytes. *)
LEMMA Associative ==
    \A a, b, c \in Seq(Bytes) : (a \o b) \o c = a \o (b \o c)
BY ConcatAssociative

LEMMA TextFresh ==
    ASSUME asked' = 0,
           pipe' = [s \in Streams |-> <<>>], buf' = [s \in Streams |-> <<>>],
           rpc' = [s \in Streams |-> "read"], rmsg' = [s \in Streams |-> NoMessage],
           wrote' = [s \in Streams |-> <<>>], told' = [s \in Streams |-> <<>>]
    PROVE  TextInv'
<1>1. <<>> \in Seq(Bytes) /\ <<>> \o <<>> = <<>> /\ Len(<<>>) = 0
    BY ConcatEmptySeq
<1>2. 0 % BufferSize = 0
    BY TrafficAssumption
<1>3. NoMessage.content = <<>>
    BY DEF NoMessage, Message
<1>4. TextType'
    BY <1>1, <1>3 DEF TextType
<1>5. ASSUME NEW s \in Streams
      PROVE  InHand(s)' /\ Full(s)' /\ Kept(s)'
    BY <1>1, <1>2, <1>3 DEF InHand, Full, Kept
<1> QED
    BY <1>4, <1>5 DEF TextInv

LEMMA TextFrame ==
    ASSUME TextInv, asked' \in Nat, UNCHANGED <<pipe, wrote, readerVars>>
    PROVE  TextInv'
<1>1. TextType'
    BY DEF TextInv, TextType, readerVars
<1> QED
    BY <1>1 DEF TextInv, InHand, Full, Kept, readerVars

LEMMA WrittenBytes ==
    ASSUME asked \in Nat, NEW parts \in Writes
    PROVE  [i \in DOMAIN parts |-> [cell |-> asked, part |-> parts[i]]] \in Seq(Bytes)
<1> DEFINE text == [i \in DOMAIN parts |-> [cell |-> asked, part |-> parts[i]]]
<1>1. parts \in Seq(Parts)
    <2>1. \A a, b \in Parts : <<a>> \in Seq(Parts) /\ <<a, b>> \in Seq(Parts)
        OBVIOUS
    <2>2. /\ <<"one">> \in Seq(Parts) /\ <<"lead">> \in Seq(Parts)
          /\ <<"trail">> \in Seq(Parts) /\ <<"lead", "trail">> \in Seq(Parts)
        BY <2>1 DEF Parts
    <2> QED
        BY <2>2 DEF Writes
<1>2. \A i \in DOMAIN parts : [cell |-> asked, part |-> parts[i]] \in Bytes
    BY <1>1 DEF Bytes
<1>3. Len(parts) \in Nat /\ DOMAIN parts = 1..Len(parts)
    BY <1>1, LenProperties
<1> HIDE DEF text
<1>4. text \in [1..Len(parts) -> Bytes]
    BY <1>2, <1>3 DEF text
<1>5. text \in Seq(Bytes)
    BY <1>3, <1>4
<1> QED
    BY <1>5 DEF text

LEMMA TextWrite ==
    ASSUME TextInv, NEW s \in Streams, NEW parts \in Writes, CellWrite(s, parts)
    PROVE  TextInv'
<1> DEFINE text == [i \in DOMAIN parts |-> [cell |-> asked, part |-> parts[i]]]
<1>1. text \in Seq(Bytes)
    BY WrittenBytes DEF TextInv, TextType
<1> HIDE DEF text
<1>2. /\ pipe' = [pipe EXCEPT ![s] = pipe[s] \o text]
      /\ wrote' = [wrote EXCEPT ![s] = wrote[s] \o text]
      /\ UNCHANGED <<asked, buf, rpc, rmsg, told>>
    BY DEF CellWrite, shellVars, readerVars, text
<1>3. pipe[s] \o text \in Seq(Bytes) /\ wrote[s] \o text \in Seq(Bytes)
    BY <1>1, ConcatProperties DEF TextInv, TextType
<1>4. TextType'
    BY <1>2, <1>3 DEF TextInv, TextType
<1>5. ASSUME NEW t \in Streams
      PROVE  InHand(t)' /\ Full(t)'
    BY <1>2 DEF TextInv, InHand, Full
<1>6. Kept(s)'
    <2> DEFINE front == told[s] \o rmsg[s].content \o buf[s]
    <2>1. front \in Seq(Bytes)
        BY Regroup DEF TextInv, TextType
    <2>2. (front \o pipe[s]) \o text = front \o (pipe[s] \o text)
        <3>1. pipe[s] \in Seq(Bytes)
            BY DEF TextInv, TextType
        <3> HIDE DEF front
        <3> QED
            BY <1>1, <2>1, <3>1, Associative, Zenon
    <2> QED
        BY <1>2, <2>2 DEF TextInv, TextType, Kept
<1>7. \A t \in Streams \ {s} : Kept(t)'
    BY <1>2 DEF TextInv, TextType, Kept
<1> QED
    BY <1>4, <1>5, <1>6, <1>7 DEF TextInv

LEMMA TextRead ==
    ASSUME TextInv, NEW s \in Streams, ReaderRead(s)
    PROVE  TextInv'
<1> DEFINE n == Taken(s)
           take == SubSeq(pipe[s], 1, n)
           rest == SubSeq(pipe[s], n + 1, Len(pipe[s]))
<1>1. /\ pipe[s] \in Seq(Bytes) /\ buf[s] \in Seq(Bytes) /\ told[s] \in Seq(Bytes)
      /\ rmsg[s].content \in Seq(Bytes)
      /\ InHand(s) /\ Full(s) /\ Kept(s)
    BY DEF TextInv, TextType
<1>2. n \in 0..Len(pipe[s])
    BY <1>1, TakenBounds
<1>3. /\ take \in Seq(Bytes) /\ rest \in Seq(Bytes) /\ take \o rest = pipe[s]
      /\ Len(take) = n
    BY <1>1, <1>2, Cut
<1>4. /\ rpc[s] = "read"
      /\ buf' = [buf EXCEPT ![s] = buf[s] \o take]
      /\ pipe' = [pipe EXCEPT ![s] = rest]
      /\ rpc' = [rpc EXCEPT ![s] = AfterRead(n)]
      /\ UNCHANGED <<asked, wrote, rmsg, told>>
    BY DEF ReaderRead, Extended, shellVars
<1> HIDE DEF n, take, rest
<1>5. buf[s] \o take \in Seq(Bytes) /\ Len(buf[s] \o take) = Len(buf[s]) + n
    BY <1>1, <1>3, ConcatProperties
<1>6. TextType'
    BY <1>3, <1>4, <1>5 DEF TextInv, TextType, AfterRead
<1>7. InHand(s)'
    BY <1>1, <1>4 DEF TextInv, TextType, InHand, AfterRead
<1>8. Full(s)'
    <2>1. Len(buf[s]) \in Nat /\ BufferSize \in Nat \ {0}
        BY <1>1, LenProperties, TrafficAssumption
    <2>2. Len(buf[s]) % BufferSize = 0
        BY <1>1, <1>4 DEF Full
    <2>3. (Len(buf[s]) + BufferSize) % BufferSize = 0
        BY <2>1, <2>2, FullAgain
    <2>4. rpc'[s] = "read" => n = BufferSize
        BY <1>4 DEF TextInv, TextType, AfterRead
    <2> QED
        BY <1>4, <1>5, <2>3, <2>4 DEF TextInv, TextType, Full
<1>9. Kept(s)'
    <2> DEFINE front == told[s] \o rmsg[s].content
    <2>1. front \in Seq(Bytes)
        BY <1>1, ConcatProperties
    <2>2. front \o (buf[s] \o take) \o rest = front \o buf[s] \o (take \o rest)
        <3>1. /\ front \in Seq(Bytes) /\ buf[s] \in Seq(Bytes)
              /\ take \in Seq(Bytes) /\ rest \in Seq(Bytes)
            BY <1>1, <1>3, <2>1
        <3> HIDE DEF front
        <3>2. front \o buf[s] \in Seq(Bytes)
            BY <3>1, ConcatProperties
        <3>3. front \o (buf[s] \o take) = (front \o buf[s]) \o take
            BY <3>1, Associative, Zenon
        <3>4. ((front \o buf[s]) \o take) \o rest = (front \o buf[s]) \o (take \o rest)
            BY <3>1, <3>2, Associative, Zenon
        <3> QED
            BY <3>3, <3>4, Zenon
    <2> QED
        BY <1>1, <1>3, <1>4, <2>2 DEF TextInv, TextType, Kept
<1>10. \A t \in Streams \ {s} : InHand(t)' /\ Full(t)' /\ Kept(t)'
    BY <1>4 DEF TextInv, TextType, InHand, Full, Kept
<1> QED
    BY <1>6, <1>7, <1>8, <1>9, <1>10 DEF TextInv

LEMMA TextStamp ==
    ASSUME TextInv, NEW s \in Streams, ReaderStamp(s)
    PROVE  TextInv'
<1> DEFINE m == Message(replyTo[s].ids, Header("kernel", counter, "stream"),
                        replyTo[s].parent, buf[s])
<1>1. m.content = buf[s]
    BY DEF Message
<1>2. /\ rpc[s] = "stamp"
      /\ rmsg' = [rmsg EXCEPT ![s] = m]
      /\ buf' = [buf EXCEPT ![s] = <<>>]
      /\ rpc' = [rpc EXCEPT ![s] = "send"]
      /\ UNCHANGED <<asked, pipe, wrote, told>>
    BY DEF ReaderStamp, shellVars, textVars
<1> HIDE DEF m
<1>3. <<>> \in Seq(Bytes)
    OBVIOUS
<1>4. TextType'
    BY <1>1, <1>2, <1>3 DEF TextInv, TextType
<1>5. Kept(s)'
    <2>1. rmsg[s].content = <<>>
        BY <1>2 DEF TextInv, InHand, NoMessage, Message
    <2>2. told[s] \o <<>> \o buf[s] \o pipe[s] = told[s] \o buf[s] \o <<>> \o pipe[s]
        <3>1. told[s] \o <<>> \o buf[s] = told[s] \o buf[s] \o <<>>
            BY <1>3, Regroup DEF TextInv, TextType
        <3> QED
            BY <3>1
    <2> QED
        BY <1>1, <1>2, <2>1, <2>2 DEF TextInv, TextType, Kept
<1>6. InHand(s)' /\ Full(s)'
    BY <1>2 DEF TextInv, TextType, InHand, Full
<1>7. \A t \in Streams \ {s} : InHand(t)' /\ Full(t)' /\ Kept(t)'
    BY <1>2 DEF TextInv, TextType, InHand, Full, Kept
<1> QED
    BY <1>4, <1>5, <1>6, <1>7 DEF TextInv

LEMMA TextSend ==
    ASSUME TextInv, NEW s \in Streams, ReaderSend(s)
    PROVE  TextInv'
<1>1. /\ rpc[s] = "send"
      /\ told' = [told EXCEPT ![s] = told[s] \o rmsg[s].content]
      /\ rmsg' = [rmsg EXCEPT ![s] = NoMessage]
      /\ rpc' = [rpc EXCEPT ![s] = "read"]
      /\ UNCHANGED <<asked, pipe, wrote, buf>>
    BY DEF ReaderSend, shellVars, textVars
<1>2. NoMessage.content = <<>> /\ <<>> \in Seq(Bytes)
    BY DEF NoMessage, Message
<1>3. told[s] \o rmsg[s].content \in Seq(Bytes)
    BY ConcatProperties DEF TextInv, TextType
<1>4. TextType'
    BY <1>1, <1>2, <1>3 DEF TextInv, TextType
<1>5. InHand(s)'
    BY <1>1 DEF TextInv, TextType, InHand
<1>6. Full(s)'
    <2>1. buf[s] = <<>> /\ Len(<<>>) = 0
        BY <1>1 DEF TextInv, InHand
    <2>2. 0 % BufferSize = 0
        BY TrafficAssumption
    <2> QED
        BY <1>1, <2>1, <2>2 DEF Full
<1>7. Kept(s)'
    <2>1. told[s] \o rmsg[s].content \o <<>> = told[s] \o rmsg[s].content
        BY <1>3, ConcatEmptySeq
    <2> QED
        BY <1>1, <1>2, <2>1 DEF TextInv, TextType, Kept
<1>8. \A t \in Streams \ {s} : InHand(t)' /\ Full(t)' /\ Kept(t)'
    BY <1>1 DEF TextInv, TextType, InHand, Full, Kept
<1> QED
    BY <1>4, <1>5, <1>6, <1>7, <1>8 DEF TextInv

LEMMA TextPanic ==
    ASSUME NEW cause, Panic(cause)
    PROVE  TextInv'
BY TextFresh, Zenon DEF Panic

LEMMA TextInit == Init => TextInv
<1> SUFFICES ASSUME Init PROVE TextInv
    OBVIOUS
<1>1. <<>> \in Seq(Bytes) /\ <<>> \o <<>> = <<>> /\ Len(<<>>) = 0
    BY ConcatEmptySeq
<1>2. 0 % BufferSize = 0
    BY TrafficAssumption
<1>3. NoMessage.content = <<>>
    BY DEF NoMessage, Message
<1>4. TextType
    BY <1>1, <1>3 DEF Init, TextType
<1>5. ASSUME NEW s \in Streams
      PROVE  InHand(s) /\ Full(s) /\ Kept(s)
    BY <1>1, <1>2, <1>3 DEF Init, InHand, Full, Kept
<1> QED
    BY <1>4, <1>5 DEF TextInv

LEMMA TextNext == TextInv /\ [Next]_vars => TextInv'
<1> SUFFICES ASSUME TextInv, [Next]_vars PROVE TextInv'
    OBVIOUS
<1>0. asked \in Nat /\ asked + 1 \in Nat
    BY DEF TextInv, TextType
<1>1. ASSUME NEW r \in ShellRequests, ShellRecv(r) PROVE TextInv'
    BY <1>0, <1>1, TextFrame DEF ShellRecv, textVars
<1>2. ASSUME NEW r \in ShellRequests, ShellRecvPanics(r) PROVE TextInv'
    BY <1>2, TextPanic DEF ShellRecvPanics
<1>3. CASE ShellStep
    <2>1. UNCHANGED <<asked, textVars, readerVars>>
        BY <1>3, Zenon DEF ShellStep, SendBusy, UpdateReply, StartCell, CellEnds, ShellReply,
                           SendIdle, ShellStops, shellVars
    <2> QED
        BY <1>0, <2>1, TextFrame DEF textVars
<1>4. ASSUME NEW s \in Streams, NEW parts \in Writes, CellWrite(s, parts) PROVE TextInv'
    BY <1>4, TextWrite
<1>5. ASSUME NEW r \in ControlRequests, ControlRecv(r) PROVE TextInv'
    <2>1. \/ UNCHANGED <<asked, textVars, readerVars>>
          \/ Panic("request")
        BY <1>5, Zenon DEF ControlRecv, shellVars
    <2> QED
        BY <1>0, <2>1, TextFrame, TextPanic DEF textVars
<1>6. CASE ControlReply
    BY <1>0, <1>6, TextFrame DEF ControlReply, shellVars, textVars
<1>7. ASSUME NEW s \in Streams, ReaderStep(s) PROVE TextInv'
    <2>1. CASE ReaderRead(s)
        BY <2>1, TextRead
    <2>2. CASE ReaderFlush(s)
        <3>1. /\ UNCHANGED <<asked, pipe, wrote, buf, rmsg, told>>
              /\ rpc[s] = "read" /\ rpc' = [rpc EXCEPT ![s] = "stamp"]
            BY <2>2 DEF ReaderFlush, AtEof, shellVars, textVars
        <3>2. TextType'
            BY <3>1 DEF TextInv, TextType
        <3> QED
            BY <3>1, <3>2 DEF TextInv, TextType, InHand, Full, Kept
    <2>3. CASE ReaderEof(s)
        BY <2>3, TextPanic DEF ReaderEof
    <2>4. CASE ReaderStamp(s)
        BY <2>4, TextStamp
    <2>5. CASE ReaderDecodePanics(s)
        BY <2>5, TextPanic DEF ReaderDecodePanics
    <2>6. CASE ReaderSend(s)
        BY <2>6, TextSend
    <2> QED
        BY <1>7, <2>1, <2>2, <2>3, <2>4, <2>5, <2>6 DEF ReaderStep
<1>8. CASE UNCHANGED vars
    BY <1>0, <1>8, TextFrame DEF vars, shellVars, textVars
<1> QED
    BY <1>1, <1>2, <1>3, <1>4, <1>5, <1>6, <1>7, <1>8 DEF Next

LEMMA TextAlways == Spec => []TextInv
<1> QED
    BY TextInit, TextNext, PTL DEF Spec

(* Every byte that a cell wrote is broadcast, about to be, read or still   *)
(* in the pipe, once and in order, whatever the sizes of writes, reads and *)
(* the buffer (the loop of stream.rs).                                     *)
THEOREM NoTextLost == Spec => []TextKept
<1>1. TextInv => TextKept
    BY DEF TextInv, Kept, TextKept
<1> QED
    BY <1>1, TextAlways, PTL

(* A reader that has text and reads on has had full buffers only           *)
(* (stream.rs, the branch of a full read).                                 *)
THEOREM OnlyFullWithheld == Spec => []WithheldFull
<1>1. TextInv => WithheldFull
    BY DEF TextInv, Full, Withheld, WithheldFull
<1> QED
    BY <1>1, TextAlways, PTL
=============================================================================
