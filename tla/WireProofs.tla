----------------------------- MODULE WireProofs -----------------------------
(***************************************************************************)
(* Proofs about Wire: whatever the kernel writes is read back as it was    *)
(* meant, along any route and with any header, parent and content.         *)
(***************************************************************************)
EXTENDS Wire, SequenceTheorems, TLAPS

(* The first delimiter, if there is one, is where the identities end.      *)
LEMMA DelimiterFound ==
    ASSUME NEW S, NEW f \in Seq(S), NEW k \in 1..(Len(f) + 1),
           \A i \in 1..(k - 1) : f[i].tag # "delimiter",
           k <= Len(f) => f[k].tag = "delimiter"
    PROVE  DelimiterAt(f) = k
<1> DEFINE g == f \o <<Delimiter>>
           I == {i \in 1..Len(g) : g[i].tag = "delimiter"}
<1>1. f \in Seq(S \cup {Delimiter}) /\ <<Delimiter>> \in Seq(S \cup {Delimiter})
    <2>1. \A i \in 1..Len(f) : f[i] \in S \cup {Delimiter}
        BY LenProperties
    <2>2. f \in [1..Len(f) -> S \cup {Delimiter}] /\ Len(f) \in Nat
        BY <2>1, LenProperties
    <2> QED
        BY <2>2
<1>2. /\ Len(f) \in Nat /\ Len(g) = Len(f) + 1
      /\ \A i \in 1..Len(f) : g[i] = f[i]
      /\ g[Len(f) + 1] = Delimiter
    <2>1. Len(<<Delimiter>>) = 1 /\ <<Delimiter>>[1] = Delimiter
        OBVIOUS
    <2>2. Len(f) \in Nat
        BY LenProperties
    <2>3. /\ Len(g) = Len(f) + 1
          /\ \A i \in 1..Len(f) + 1 : g[i] = IF i <= Len(f) THEN f[i] ELSE <<Delimiter>>[i - Len(f)]
        BY <1>1, <2>1, ConcatProperties
    <2> QED
        BY <2>1, <2>2, <2>3
<1> HIDE DEF g
<1>3. k \in I /\ \A i \in I : k <= i
    BY <1>2 DEF Delimiter, Frame
<1>4. DelimiterAt(f) = Min(I)
    BY <1>3 DEF DelimiterAt, SelectInSeq, g
<1> HIDE DEF I
<1>5. DelimiterAt(f) \in I /\ \A i \in I : DelimiterAt(f) <= i
    BY <1>3, <1>4 DEF Min
<1>6. \A i \in I : i \in Int
    BY DEF I
<1> DEFINE d == DelimiterAt(f)
<1>7. d \in Int /\ k \in Int /\ k <= d /\ d <= k
    BY <1>3, <1>5, <1>6, Zenon
<1> HIDE DEF d
<1>8. d = k
    BY <1>7
<1> QED
    BY <1>8 DEF d

(* Frames that follow identities start with a delimiter: the identities    *)
(* and the body are read back.                                             *)
Identities(ids) == [i \in DOMAIN ids |-> Frame("identity", ids[i])]
Joined(ids, rest) == Identities(ids) \o rest
After(ids, rest, i) == Joined(ids, rest)[Len(ids) + i]
IdentityFrames(ids) == {Frame("identity", ids[i]) : i \in DOMAIN ids}

LEMMA IdentitiesType ==
    ASSUME NEW S, NEW ids \in Seq(S)
    PROVE  /\ Identities(ids) \in Seq(IdentityFrames(ids)) /\ Len(Identities(ids)) = Len(ids)
           /\ \A i \in 1..Len(ids) : Identities(ids)[i] = Frame("identity", ids[i])
<1>1. Len(ids) \in Nat /\ DOMAIN ids = 1..Len(ids)
    BY LenProperties
<1>2. Identities(ids) \in [1..Len(ids) -> IdentityFrames(ids)]
    BY <1>1 DEF Identities, IdentityFrames
<1>3. Identities(ids) \in Seq(IdentityFrames(ids)) /\ Len(Identities(ids)) = Len(ids)
    <2>1. Identities(ids) \in Seq(IdentityFrames(ids))
        BY <1>1, <1>2
    <2> QED
        BY <1>1, <1>2, <2>1, LenProperties
<1> QED
    BY <1>1, <1>3 DEF Identities

LEMMA JoinedFrames ==
    ASSUME NEW S, NEW ids \in Seq(S), NEW T, NEW rest \in Seq(T)
    PROVE  /\ Joined(ids, rest) \in Seq(IdentityFrames(ids) \cup T)
           /\ Len(Joined(ids, rest)) = Len(ids) + Len(rest)
           /\ \A i \in 1..Len(ids) : Joined(ids, rest)[i] = Frame("identity", ids[i])
           /\ \A i \in 1..Len(rest) : After(ids, rest, i) = rest[i]
<1>1. /\ Identities(ids) \in Seq(IdentityFrames(ids)) /\ Len(Identities(ids)) = Len(ids)
      /\ \A i \in 1..Len(ids) : Identities(ids)[i] = Frame("identity", ids[i])
    BY IdentitiesType
<1> DEFINE U == IdentityFrames(ids) \cup T
           front == Identities(ids)
           f == front \o rest
<1>2. front \in Seq(U) /\ rest \in Seq(U)
    <2>1. front \in [1..Len(front) -> U] /\ Len(front) \in Nat
        BY <1>1, LenProperties
    <2>2. rest \in [1..Len(rest) -> U] /\ Len(rest) \in Nat
        BY LenProperties
    <2> QED
        BY <2>1, <2>2
<1>3. Len(ids) \in Nat /\ Len(rest) \in Nat
    BY LenProperties
<1> HIDE DEF U, front
<1>4. Len(front) = Len(ids)
    BY <1>1 DEF front
<1>5. /\ f \in Seq(U) /\ Len(f) = Len(front) + Len(rest)
      /\ \A i \in 1..Len(front) + Len(rest) : f[i] = IF i <= Len(front) THEN front[i]
                                                                    ELSE rest[i - Len(front)]
    BY <1>2, ConcatProperties
<1> HIDE DEF f
<1>6. /\ \A i \in 1..Len(ids) : f[i] = front[i]
      /\ \A i \in 1..Len(rest) : f[Len(ids) + i] = rest[i]
    <2>1. \A i \in 1..Len(ids) : f[i] = front[i]
        BY <1>3, <1>4, <1>5
    <2> SUFFICES ASSUME NEW i \in 1..Len(rest) PROVE f[Len(ids) + i] = rest[i]
        BY <2>1
    <2>2. /\ Len(ids) + i \in 1..Len(front) + Len(rest) /\ ~(Len(ids) + i <= Len(front))
          /\ Len(ids) + i - Len(front) = i
        BY <1>3, <1>4
    <2> QED
        BY <1>5, <2>2
<1>7. \A i \in 1..Len(ids) : f[i] = Frame("identity", ids[i])
    BY <1>1, <1>6 DEF front
<1> QED
    BY <1>4, <1>5, <1>6, <1>7 DEF f, front, Joined, U, After

LEMMA Apart ==
    ASSUME NEW S, NEW ids \in Seq(S), NEW T, NEW rest \in Seq(T)
    PROVE  rest # <<>> /\ rest[1].tag = "delimiter" =>
               /\ IdentitiesOf(Joined(ids, rest)) = ids
               /\ Len(BodyOf(Joined(ids, rest))) = Len(rest) - 1
               /\ \A i \in 1..(Len(rest) - 1) : BodyOf(Joined(ids, rest))[i] = rest[i + 1]
<1>1. Len(ids) \in Nat /\ ids = [i \in 1..Len(ids) |-> ids[i]]
    BY LenProperties
<1> DEFINE f == Joined(ids, rest)
           U == IdentityFrames(ids) \cup T
<1>3. /\ f \in Seq(U)
      /\ Len(f) = Len(ids) + Len(rest)
      /\ \A i \in 1..Len(ids) : f[i] = Frame("identity", ids[i])
      /\ \A i \in 1..Len(rest) : f[Len(ids) + i] = rest[i]
    <2>1. \A i \in 1..Len(rest) : After(ids, rest, i) = rest[i]
        BY JoinedFrames, ZenonT(60)
    <2>2. /\ f \in Seq(U)
          /\ Len(f) = Len(ids) + Len(rest)
          /\ \A i \in 1..Len(ids) : f[i] = Frame("identity", ids[i])
        BY JoinedFrames
    <2>3. \A i \in 1..Len(rest) : f[Len(ids) + i] = rest[i]
        BY <2>1, Zenon DEF After
    <2> QED
        BY <2>2, <2>3
<1> HAVE rest # <<>> /\ rest[1].tag = "delimiter"
<1>2. Len(rest) \in Nat /\ Len(rest) >= 1
    BY LenProperties
<1> DEFINE n == Len(ids)
           k == Len(rest)
<1>4. /\ n \in Nat /\ k \in Nat /\ k >= 1 /\ Len(f) = n + k
      /\ \A i \in 1..n : f[i].tag = "identity" /\ f[i].val = ids[i]
      /\ \A i \in 1..k : f[n + i] = rest[i]
    <2>1. \A i \in 1..n : f[i] = Frame("identity", ids[i])
        BY <1>3
    <2>2. \A i \in 1..k : f[n + i] = rest[i]
        BY <1>3
    <2>3. n \in Nat /\ k \in Nat /\ k >= 1 /\ Len(f) = n + k
        BY <1>1, <1>2, <1>3
    <2>4. \A i \in 1..n : f[i].tag = "identity" /\ f[i].val = ids[i]
        <3> TAKE i \in 1..n
        <3>1. Frame("identity", ids[i]).tag = "identity" /\ Frame("identity", ids[i]).val = ids[i]
            BY DEF Frame
        <3>2. f[i] = Frame("identity", ids[i])
            BY <2>1
        <3> QED
            BY <3>1, <3>2, Zenon
    <2> QED
        BY <2>2, <2>3, <2>4
<1>5. ids = [i \in 1..n |-> ids[i]]
    BY <1>1
<1> HIDE DEF n, k, f, U
<1>6. DelimiterAt(f) = n + 1
    <2> DEFINE p == n + 1
    <2>1. p \in 1..(Len(f) + 1) /\ p - 1 = n /\ 1 \in 1..k
        BY <1>4
    <2>2. \A i \in 1..(p - 1) : f[i].tag # "delimiter"
        BY <1>4, <2>1
    <2>3. f[p].tag = "delimiter"
        BY <1>4, <2>1
    <2> HIDE DEF p
    <2>4. DelimiterAt(f) = p
        BY <1>3, <2>1, <2>2, <2>3, DelimiterFound
    <2> QED
        BY <2>4 DEF p
<1>7. IdentitiesOf(f) = ids
    <2>1. IdentitiesOf(f) = [i \in 1..n |-> f[i].val]
        BY <1>4, <1>6 DEF IdentitiesOf
    <2>2. \A i \in 1..n : f[i].val = ids[i]
        BY <1>4
    <2> QED
        BY <1>5, <2>1, <2>2
<1>8. BodyOf(f) = SubSeq(f, n + 2, n + k)
    <2>1. n + 1 + 1 = n + 2
        BY <1>4
    <2> QED
        BY <1>4, <1>6, <2>1 DEF BodyOf
<1>9. \A i \in (n + 2)..(n + k) : f[i] \in T
    <2> TAKE i \in (n + 2)..(n + k)
    <2>1. i - n \in 1..k /\ n + (i - n) = i
        BY <1>4
    <2>2. rest[i - n] \in T
        BY <2>1, LenProperties DEF k
    <2> QED
        BY <1>4, <2>1, <2>2
<1>10. /\ Len(SubSeq(f, n + 2, n + k)) = k - 1
       /\ \A i \in 1..(k - 1) : SubSeq(f, n + 2, n + k)[i] = rest[i + 1]
    <2> DEFINE a == n + 2
               b == n + k
    <2>1. /\ a \in Int /\ b \in Int /\ b - a + 1 = k - 1
          /\ a <= b => k >= 2
          /\ ~(a <= b) => k = 1
        BY <1>4
    <2>2. \A i \in a..b : f[i] \in T
        BY <1>9
    <2>3. \A i \in 1..(k - 1) : f[a + i - 1] = rest[i + 1]
        <3> TAKE i \in 1..(k - 1)
        <3>1. i + 1 \in 1..k /\ a + i - 1 = n + (i + 1)
            BY <1>4
        <3> QED
            BY <1>4, <3>1
    <2> HIDE DEF a, b
    <2>4. /\ Len(SubSeq(f, a, b)) = IF a <= b THEN b - a + 1 ELSE 0
          /\ \A i \in 1..(b - a + 1) : SubSeq(f, a, b)[i] = f[a + i - 1]
        BY <2>1, <2>2, SubSeqProperties, SMTT(60)
    <2>5. Len(SubSeq(f, a, b)) = k - 1
        BY <1>4, <2>1, <2>4
    <2> QED
        BY <2>1, <2>3, <2>4, <2>5 DEF a, b
<1>11. /\ Len(BodyOf(f)) = k - 1
       /\ \A i \in 1..(k - 1) : BodyOf(f)[i] = rest[i + 1]
    BY <1>8, <1>10, Zenon
<1>12. /\ Len(BodyOf(f)) = Len(rest) - 1
       /\ \A i \in 1..(Len(rest) - 1) : BodyOf(f)[i] = rest[i + 1]
    BY <1>11, Zenon DEF k
<1> QED
    BY <1>7, <1>12, Zenon DEF f

(* What is written is read back as it was meant: the route, the header,    *)
(* the parent, or that there is none, and the content, under a signature   *)
(* that covers what was sent (Message::into_multipart, and the client's    *)
(* end of the protocol).                                                   *)
THEOREM RoundTrip ==
    ASSUME NEW S, NEW ids \in Seq(S), NEW header, NEW parent, NEW content
    PROVE  /\ ReadBack(Multipart(Message(ids, header, parent, content)))
                = Message(ids, header, parent, content)
           /\ Verifies(Multipart(Message(ids, header, parent, content)))
<1> DEFINE h == Frame("header", header)
           p == ParentFrame(parent)
           c == Frame("content", content)
           sig == Signature(h, p, EmptyObject, c)
           T == {Delimiter, sig, h, p, EmptyObject, c}
           rest == <<Delimiter, sig, h, p, EmptyObject, c>>
           m == Message(ids, header, parent, content)
           f == Joined(ids, rest)
<1>1. Multipart(m) = f
    BY DEF Multipart, Message, Joined, Identities
<1>2. /\ rest \in Seq(T) /\ Len(rest) = 6 /\ rest # <<>>
      /\ rest[1] = Delimiter /\ rest[2] = sig /\ rest[3] = h
      /\ rest[4] = p /\ rest[5] = EmptyObject /\ rest[6] = c
    <2> HIDE DEF sig, h, p, c
    <2> QED
        OBVIOUS
<1>3. Delimiter.tag = "delimiter"
    BY DEF Delimiter, Frame
<1> HIDE DEF T, rest, f
<1>4. /\ IdentitiesOf(f) = ids
      /\ Len(BodyOf(f)) = Len(rest) - 1
      /\ \A i \in 1..(Len(rest) - 1) : BodyOf(f)[i] = rest[i + 1]
    BY <1>2, <1>3, Apart DEF f
<1>5. /\ BodyOf(f)[1] = sig /\ BodyOf(f)[2] = h /\ BodyOf(f)[3] = p
      /\ BodyOf(f)[4] = EmptyObject /\ BodyOf(f)[5] = c
    <2> HIDE DEF sig, h, p, c
    <2>1. \A i \in 1..5 : BodyOf(f)[i] = rest[i + 1]
        BY <1>2, <1>4
    <2> QED
        BY <1>2, <2>1
<1>6. h.val = header /\ c.val = content /\ sig.val = <<h, p, EmptyObject, c>>
    BY DEF Frame, Signature
<1>7. (IF p.tag = "empty" THEN NoHeader ELSE p.val) = parent
    BY DEF ParentFrame, EmptyObject, Frame
<1> HIDE DEF h, p, c, sig
<1>8. ReadBack(f) = Message(ids, header, parent, content)
    BY <1>4, <1>5, <1>6, <1>7 DEF ReadBack
<1>9. Verifies(f)
    BY <1>5, <1>6 DEF Verifies
<1> QED
    BY <1>1, <1>8, <1>9
=============================================================================
