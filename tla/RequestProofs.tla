---------------------------- MODULE RequestProofs ----------------------------
(***************************************************************************)
(* Proofs about Traffic: which requests are served, where everything goes  *)
(* that is sent, and under which ids, for any number of requests, streams  *)
(* and bytes and whatever is wrong with the frames of a request.           *)
(***************************************************************************)
EXTENDS TrafficProofs, WireProofs

-----------------------------------------------------------------------------
(* The frames of a request, as Recv takes them apart. *)

Sources == {"shell", "control"}
KnownTypes(source) == IF source = "shell" THEN ShellTypes ELSE ControlTypes

(* The body of a request, and what its damages make of it. *)
Body(source, n, r) ==
    <<Frame("signature", 0), Frame("header", Header(source, n, r.type)), EmptyObject, EmptyObject,
      Frame("content", IF r.damage = "bad_content" THEN "bad" ELSE "good")>>

LEMMA ShortSequences ==
    ASSUME NEW S, NEW a \in S, NEW b \in S
    PROVE  <<a>> \in Seq(S) /\ <<a, b>> \in Seq(S)
OBVIOUS

LEMMA RouteType ==
    ASSUME NEW source \in Sources, NEW n
    PROVE  Route(source, n) \in Seq(Hops) /\ Route(source, n) # <<>>
<1>1. "shell" \in Hops /\ "control" \in Hops /\ "hop" \in Hops
    BY DEF Hops
<1>2. source \in Hops
    BY <1>1 DEF Sources
<1>3. <<source>> \in Seq(Hops) /\ <<source, "hop">> \in Seq(Hops)
    BY <1>1, <1>2, ShortSequences
<1>4. <<source>> # <<>> /\ <<source, "hop">> # <<>>
    OBVIOUS
<1> QED
    BY <1>3, <1>4 DEF Route

(* A delimiter in front of a body. *)
Follows(rest, body) == \A i \in 1..Len(body) : rest[i + 1] = body[i]

LEMMA Delimited ==
    ASSUME NEW S, NEW ids \in Seq(S), NEW T, NEW body \in Seq(T)
    PROVE  /\ Identities(ids) \o <<Delimiter>> \o body = Joined(ids, <<Delimiter>> \o body)
           /\ <<Delimiter>> \o body \in Seq(T \cup {Delimiter})
           /\ Len(<<Delimiter>> \o body) = Len(body) + 1
           /\ (<<Delimiter>> \o body)[1] = Delimiter
           /\ Follows(<<Delimiter>> \o body, body)
<1> DEFINE U == IdentityFrames(ids) \cup T \cup {Delimiter}
           V == T \cup {Delimiter}
<1>1. Len(body) \in Nat /\ body \in [1..Len(body) -> T]
    BY LenProperties
<1>2. body \in Seq(V) /\ body \in Seq(U)
    BY <1>1
<1>3. <<Delimiter>> \in Seq(V) /\ <<Delimiter>> \in Seq(U)
    <2>1. Delimiter \in U /\ Delimiter \in V
        OBVIOUS
    <2> HIDE DEF U, V
    <2> QED
        BY <2>1
<1>4. Identities(ids) \in Seq(U)
    <2>1. Identities(ids) \in Seq(IdentityFrames(ids))
        BY IdentitiesType
    <2>2. Len(Identities(ids)) \in Nat /\ Identities(ids) \in [1..Len(Identities(ids)) -> IdentityFrames(ids)]
        BY <2>1, LenProperties
    <2> QED
        BY <2>2
<1>5. Len(<<Delimiter>>) = 1 /\ <<Delimiter>>[1] = Delimiter
    OBVIOUS
<1> HIDE DEF U, V
<1>6. Identities(ids) \o <<Delimiter>> \o body = Identities(ids) \o (<<Delimiter>> \o body)
    BY <1>2, <1>3, <1>4, ConcatAssociative
<1> DEFINE d == <<Delimiter>>
<1> HIDE DEF d
<1>7. /\ d \o body \in Seq(V) /\ Len(d \o body) = Len(d) + Len(body)
      /\ \A i \in 1..Len(d) + Len(body) : (d \o body)[i] = IF i <= Len(d) THEN d[i] ELSE body[i - Len(d)]
    BY <1>2, <1>3, ConcatProperties DEF d
<1> DEFINE e == d \o body
<1> HIDE DEF e
<1>8. Len(d) = 1 /\ d[1] = Delimiter
    BY <1>5 DEF d
<1>9. /\ e \in Seq(V) /\ Len(e) = 1 + Len(body)
      /\ \A i \in 1..1 + Len(body) : e[i] = IF i <= 1 THEN d[i] ELSE body[i - 1]
    BY <1>7, <1>8 DEF e
<1>10. e[1] = Delimiter
    BY <1>1, <1>8, <1>9
<1>11. \A i \in 1..Len(body) : e[i + 1] = body[i]
    BY <1>1, <1>9
<1>12. Len(e) = Len(body) + 1
    BY <1>1, <1>9
<1>13. Follows(e, body)
    BY <1>11 DEF Follows
<1> QED
    BY <1>6, <1>9, <1>10, <1>12, <1>13 DEF e, d, V, Joined

(* Frames with a delimiter come apart into the route and the body. *)
Packed(ids, body) == Identities(ids) \o <<Delimiter>> \o body
Unpacks(f, ids, body) ==
    /\ IdentitiesOf(f) = ids
    /\ Len(BodyOf(f)) = Len(body)
    /\ \A i \in 1..Len(body) : BodyOf(f)[i] = body[i]

LEMMA Unpacked ==
    ASSUME NEW S, NEW ids \in Seq(S), NEW T, NEW body \in Seq(T)
    PROVE  Unpacks(Packed(ids, body), ids, body)
<1> DEFINE rest == <<Delimiter>> \o body
           f == Joined(ids, rest)
<1>1. Len(body) \in Nat
    BY LenProperties
<1>2. /\ Identities(ids) \o <<Delimiter>> \o body = f
      /\ rest \in Seq(T \cup {Delimiter}) /\ Len(rest) = Len(body) + 1
      /\ rest[1] = Delimiter
      /\ Follows(rest, body)
    BY Delimited
<1> HIDE DEF rest
<1>3. rest # <<>> /\ rest[1].tag = "delimiter"
    BY <1>1, <1>2 DEF Delimiter, Frame
<1>4. /\ IdentitiesOf(f) = ids
      /\ Len(BodyOf(f)) = Len(rest) - 1
      /\ \A i \in 1..(Len(rest) - 1) : BodyOf(f)[i] = rest[i + 1]
    BY <1>2, <1>3, Apart
<1> HIDE DEF f
<1>5. Len(rest) - 1 = Len(body)
    BY <1>1, <1>2
<1>6. \A i \in 1..Len(body) : BodyOf(f)[i] = body[i]
    BY <1>2, <1>4, <1>5 DEF Follows
<1>7. IdentitiesOf(f) = ids /\ Len(BodyOf(f)) = Len(body)
    BY <1>4, <1>5
<1> QED
    BY <1>2, <1>6, <1>7, Zenon DEF Unpacks, Packed

(* Without a delimiter every frame is an identity, and none is left.       *)
LEMMA NoBody ==
    ASSUME NEW S, NEW f \in Seq(S), \A i \in 1..Len(f) : f[i].tag # "delimiter"
    PROVE  Len(BodyOf(f)) = 0
<1> DEFINE n == Len(f)
           k == n + 1
<1>1. n \in Nat
    BY LenProperties
<1>2. k \in 1..(n + 1) /\ ~(k <= n) /\ k - 1 = n
    BY <1>1
<1> HIDE DEF k
<1>3. DelimiterAt(f) = k
    BY <1>2, DelimiterFound
<1>4. k + 1 = n + 2 /\ n < n + 2 /\ n \in Int /\ n + 2 \in Int
    BY <1>1 DEF k
<1>5. BodyOf(f) = SubSeq(f, n + 2, n)
    BY <1>3, <1>4 DEF BodyOf
<1>6. SubSeq(f, n + 2, n) = <<>>
    BY <1>4, SubSeqEmpty
<1> QED
    BY <1>5, <1>6

NoDelimiter(rest) == \A i \in 1..Len(rest) : rest[i].tag # "delimiter"

LEMMA NoBodyJoined ==
    ASSUME NEW S, NEW ids \in Seq(S), NEW T, NEW rest \in Seq(T),
           NoDelimiter(rest)
    PROVE  Len(BodyOf(Identities(ids) \o rest)) = 0
<1> DEFINE f == Joined(ids, rest)
           n == Len(ids)
           k == Len(rest)
<1>1. \A i \in 1..Len(rest) : After(ids, rest, i) = rest[i]
    BY JoinedFrames, ZenonT(60)
<1>2. /\ f \in Seq(IdentityFrames(ids) \cup T)
      /\ Len(f) = Len(ids) + Len(rest)
      /\ \A i \in 1..Len(ids) : f[i] = Frame("identity", ids[i])
    BY JoinedFrames
<1>3. n \in Nat /\ k \in Nat
    BY LenProperties
<1>4. \A i \in 1..k : f[n + i] = rest[i]
    BY <1>1, Zenon DEF After
<1>5. Len(f) = n + k
    BY <1>2
<1>6. \A i \in 1..n : f[i].tag = "identity"
    <2> TAKE i \in 1..n
    <2>1. Frame("identity", ids[i]).tag = "identity"
        BY DEF Frame
    <2> QED
        BY <1>2, <2>1, Zenon
<1>7. \A i \in 1..k : rest[i].tag # "delimiter"
    BY DEF NoDelimiter
<1> HIDE DEF f, n, k
<1>8. \A i \in 1..Len(f) : f[i].tag # "delimiter"
    <2> TAKE i \in 1..Len(f)
    <2>1. CASE i \in 1..n
        BY <1>6, <2>1
    <2>2. CASE i \in (n + 1)..(n + k)
        <3>1. i - n \in 1..k /\ n + (i - n) = i
            BY <1>3, <2>2
        <3>2. f[i] = rest[i - n]
            BY <1>4, <3>1
        <3> QED
            BY <1>7, <3>1, <3>2
    <2>3. i \in 1..n \/ i \in (n + 1)..(n + k)
        BY <1>3, <1>5
    <2> QED
        BY <2>1, <2>2, <2>3
<1>9. Len(BodyOf(f)) = 0
    BY <1>2, <1>8, NoBody
<1> QED
    BY <1>9 DEF f, Joined

(* A request that is served was complete: it comes with its own route and  *)
(* header.  Everything else is refused, or ends the process.               *)
LEMMA Served ==
    ASSUME NEW source \in Sources, NEW n, NEW type, NEW damage \in AllDamages,
           NEW got, got = Recv(RequestFrames(source, n, Request(type, damage)), source),
           got.result = "ok"
    PROVE  /\ damage \notin {"no_delimiter", "cut", "junk"}
           /\ type \in KnownTypes(source)
           /\ got.message.ids = Route(source, n)
           /\ got.message.header = Header(source, n, type)
<1> DEFINE r == Request(type, damage)
           f == RequestFrames(source, n, r)
           route == Route(source, n)
           body == Body(source, n, r)
<1>0. r.type = type /\ r.damage = damage /\ route \in Seq(Hops)
    BY RouteType DEF Request
<1>1. damage # "no_delimiter"
    <2> SUFFICES ASSUME damage = "no_delimiter" PROVE FALSE
        OBVIOUS
    <2>1. f = Identities(route) \o body
        BY <1>0 DEF RequestFrames, Identities, Body
    <2>2. NoDelimiter(body)
        BY DEF NoDelimiter, Body, Frame, EmptyObject
    <2>3. body \in Seq({body[i] : i \in 1..5})
        BY DEF Body
    <2> HIDE DEF body, f, route, r
    <2>4. Len(BodyOf(f)) = 0
        BY <1>0, <2>1, <2>2, <2>3, NoBodyJoined
    <2>5. ~Readable(BodyOf(f))
        BY <2>4 DEF Readable
    <2> QED
        BY <2>5 DEF Recv, f, r
<1> DEFINE T == {body[i] : i \in 1..5} \cup {Frame("junk", 0)}
<1>2. /\ body \in Seq(T) /\ Len(body) = 5
      /\ body[2] = Frame("header", Header(source, n, type)) /\ body[5].tag = "content"
    <2>1. Len(body) = 5 /\ body[2] = Frame("header", Header(source, n, r.type)) /\ body[5].tag = "content"
        BY DEF Body, Frame
    <2>2. body \in Seq(T)
        BY DEF Body
    <2> HIDE DEF T, body
    <2> QED
        BY <1>0, <2>1, <2>2
<1> HIDE DEF T, body
<1>3. /\ Readable(BodyOf(f))
      /\ ParseVariant(source, BodyOf(f)[2].val.type, ContentOf(BodyOf(f)[5])) = "ok"
      /\ got.message.ids = IdentitiesOf(f) /\ got.message.header = BodyOf(f)[2].val
    <2>1. got = Recv(f, source) /\ got.result = "ok"
        OBVIOUS
    <2> HIDE DEF f
    <2> QED
        BY <2>1 DEF Recv, Message
<1>4. damage # "cut"
    <2> SUFFICES ASSUME damage = "cut" PROVE FALSE
        OBVIOUS
    <2> DEFINE b == SubSeq(body, 1, 4)
    <2>1. f = Packed(route, b)
        BY <1>0 DEF RequestFrames, Packed, Identities, Body, body
    <2>2. b \in Seq(T) /\ Len(b) = 4
        <3>1. 4 \in 0..Len(body)
            BY <1>2
        <3> QED
            BY <1>2, <3>1, Cut
    <2> HIDE DEF b, f, route, r
    <2>3. Unpacks(f, route, b)
        BY <1>0, <2>1, <2>2, Unpacked
    <2>4. Len(BodyOf(f)) = 4
        BY <2>2, <2>3 DEF Unpacks
    <2> QED
        BY <1>3, <2>4 DEF Readable
<1>5. damage # "junk"
    <2> SUFFICES ASSUME damage = "junk" PROVE FALSE
        OBVIOUS
    <2> DEFINE b == [body EXCEPT ![2] = Frame("junk", 0)]
    <2>1. f = Packed(route, b)
        BY <1>0 DEF RequestFrames, Packed, Identities, Body, body
    <2>2. b \in Seq(T) /\ Len(b) = 5 /\ b[2] = Frame("junk", 0)
        <3>1. Frame("junk", 0) \in T
            BY DEF T
        <3>2. body \in [1..Len(body) -> T] /\ Len(body) \in Nat /\ 2 \in 1..Len(body)
            <4>1. body \in Seq(T)
                BY <1>2
            <4>2. body \in [1..Len(body) -> T] /\ Len(body) \in Nat
                BY <4>1, LenProperties
            <4>3. 2 \in 1..Len(body)
                BY <1>2
            <4> QED
                BY <4>2, <4>3
        <3>3. b \in [1..Len(body) -> T] /\ b[2] = Frame("junk", 0)
            BY <3>1, <3>2
        <3> HIDE DEF b
        <3>4. b \in Seq(T)
            BY <3>2, <3>3
        <3> QED
            BY <1>2, <3>2, <3>3, <3>4, LenProperties
    <2> HIDE DEF b, f, route, r
    <2>3. Unpacks(f, route, b)
        BY <1>0, <2>1, <2>2, Unpacked
    <2>4. BodyOf(f)[2].tag = "junk"
        BY <2>2, <2>3 DEF Frame, Unpacks
    <2> QED
        BY <1>3, <2>4 DEF Readable
<1>6. CASE damage \notin {"no_delimiter", "cut", "junk"}
    <2>1. f = Packed(route, body)
        BY <1>0, <1>6 DEF RequestFrames, Packed, Identities, Body, body
    <2> HIDE DEF f, route, r
    <2>2. IdentitiesOf(f) = route /\ BodyOf(f)[2] = body[2]
        <3>1. Unpacks(f, route, body)
            BY <1>0, <1>2, <2>1, Unpacked
        <3> QED
            BY <1>2, <3>1 DEF Unpacks
    <2>3. BodyOf(f)[2].val = Header(source, n, type)
        BY <1>2, <2>2 DEF Frame
    <2>4. Header(source, n, type).type = type
        BY DEF Header
    <2>5. type \in KnownTypes(source)
        BY <1>3, <2>3, <2>4 DEF ParseVariant, KnownTypes
    <2> QED
        BY <1>3, <1>6, <2>2, <2>3, <2>5 DEF route
<1> QED
    BY <1>1, <1>4, <1>5, <1>6

-----------------------------------------------------------------------------
(* The requests in hand. *)

ShellRequestOf(p, n) == \E type \in ShellTypes : p = Header("shell", n, type)
ControlRequestOf(p, n) == \E type \in ControlTypes : p = Header("control", n, type)
Broken == {"no_delimiter", "cut", "junk"}

HandInv ==
    /\ asked \in Nat /\ asking \in ShellRequests \cup {NoRequest}
    /\ pc \in {"recv", "busy", "prepare", "running", "reply", "idle", "done"}
    /\ hand = NoMessage <=> pc \in {"recv", "done"}
    /\ hand # NoMessage =>
         /\ asked >= 1 /\ asking.damage \notin Broken
         /\ hand.ids = Route("shell", asked) /\ ShellRequestOf(hand.header, asked)

ControlInv ==
    /\ ctlAsked \in Nat /\ ctlAsking \in ControlRequests \cup {NoRequest}
    /\ stop \in BOOLEAN
    /\ ctlHand # NoMessage =>
         /\ ctlAsked >= 1 /\ ctlAsking.damage \notin Broken
         /\ ctlHand.ids = Route("control", ctlAsked) /\ ControlRequestOf(ctlHand.header, ctlAsked)

LEMMA RequestIs ==
    ASSUME NEW D, NEW r \in [type : D, damage : AllDamages]
    PROVE  r = Request(r.type, r.damage) /\ r.damage \in AllDamages
BY DEF Request

LEMMA ShellServed ==
    ASSUME NEW r \in ShellRequests, NEW n,
           NEW got, got = Recv(RequestFrames("shell", n, r), "shell"), got.result = "ok"
    PROVE  /\ r.damage \notin Broken /\ got.message # NoMessage
           /\ got.message.ids = Route("shell", n) /\ ShellRequestOf(got.message.header, n)
<1>1. r = Request(r.type, r.damage) /\ r.damage \in AllDamages
    BY RequestIs DEF ShellRequests
<1>2. /\ r.damage \notin Broken /\ r.type \in ShellTypes
      /\ got.message.ids = Route("shell", n) /\ got.message.header = Header("shell", n, r.type)
    <2>1. "shell" \in Sources /\ KnownTypes("shell") = ShellTypes
        BY DEF Sources, KnownTypes
    <2> QED
        BY <1>1, <2>1, Served DEF Broken
<1>3. got.message # NoMessage
    BY <1>2 DEF NoMessage, NoHeader, Message, Header
<1> QED
    BY <1>2, <1>3 DEF ShellRequestOf

LEMMA ControlServed ==
    ASSUME NEW r \in ControlRequests, NEW n,
           NEW got, got = Recv(RequestFrames("control", n, r), "control"), got.result = "ok"
    PROVE  /\ r.damage \notin Broken
           /\ got.message.ids = Route("control", n) /\ ControlRequestOf(got.message.header, n)
<1>1. r = Request(r.type, r.damage) /\ r.damage \in AllDamages
    BY RequestIs DEF ControlRequests
<1>2. /\ r.damage \notin Broken /\ r.type \in ControlTypes
      /\ got.message.ids = Route("control", n) /\ got.message.header = Header("control", n, r.type)
    <2>1. "control" \in Sources /\ KnownTypes("control") = ControlTypes
        BY DEF Sources, KnownTypes
    <2> QED
        BY <1>1, <2>1, Served DEF Broken
<1> QED
    BY <1>2 DEF ControlRequestOf

LEMMA HandNext == HandInv /\ [Next]_vars => HandInv'
<1> SUFFICES ASSUME HandInv, [Next]_vars PROVE HandInv'
    OBVIOUS
<1>1. ASSUME NEW r \in ShellRequests, ShellRecv(r) PROVE HandInv'
    <2> DEFINE got == Recv(RequestFrames("shell", asked + 1, r), "shell")
    <2>1. /\ pc = "recv" /\ asked' = asked + 1
          /\ \/ got.result = "ok" /\ asking' = r /\ hand' = got.message /\ pc' = "busy"
             \/ UNCHANGED <<asking, hand, pc>>
        BY <1>1 DEF ShellRecv
    <2>2. asked' \in Nat /\ asked' >= 1
        BY <2>1 DEF HandInv
    <2>3. CASE got.result = "ok" /\ asking' = r /\ hand' = got.message /\ pc' = "busy"
        <3>1. /\ r.damage \notin Broken /\ got.message # NoMessage
              /\ got.message.ids = Route("shell", asked + 1)
              /\ ShellRequestOf(got.message.header, asked + 1)
            BY <2>3, ShellServed
        <3> HIDE DEF got
        <3> QED
            BY <2>1, <2>2, <2>3, <3>1 DEF HandInv
    <2>4. CASE UNCHANGED <<asking, hand, pc>>
        BY <2>1, <2>2, <2>4 DEF HandInv
    <2> QED
        BY <2>1, <2>3, <2>4
<1>2. ASSUME NEW cause, Panic(cause) PROVE HandInv'
    BY <1>2 DEF Panic, HandInv
<1>3. CASE ShellStep
    <2>1. CASE SendBusy \/ StartCell \/ ShellReply \/ \E s \in Streams : UpdateReply(s)
        BY <2>1 DEF SendBusy, StartCell, ShellReply, UpdateReply, shellVars, HandInv
    <2>2. ASSUME NEW type, CellEnds(type) PROVE HandInv'
        BY <2>2 DEF CellEnds, HandInv
    <2>3. CASE SendIdle \/ ShellStops
        BY <2>3 DEF SendIdle, ShellStops, HandInv
    <2> QED
        BY <1>3, <2>1, <2>2, <2>3 DEF ShellStep
<1>4. CASE UNCHANGED shellVars
    BY <1>4 DEF shellVars, HandInv
<1>5. \/ \E r \in ShellRequests : ShellRecv(r)
      \/ \E cause : Panic(cause)
      \/ ShellStep
      \/ UNCHANGED shellVars
    BY Zenon DEF Next, ShellRecvPanics, CellWrite, ControlRecv, ControlReply, ReaderStep, ReaderRead,
        ReaderFlush, ReaderEof, ReaderStamp, ReaderDecodePanics, ReaderSend, vars
<1> QED
    BY <1>1, <1>2, <1>3, <1>4, <1>5

LEMMA ControlNext == ControlInv /\ [Next]_vars => ControlInv'
<1> SUFFICES ASSUME ControlInv, [Next]_vars PROVE ControlInv'
    OBVIOUS
<1>1. ASSUME NEW r \in ControlRequests, ControlRecv(r) PROVE ControlInv' \/ Panic("request")
    <2> DEFINE got == Recv(RequestFrames("control", ctlAsked + 1, r), "control")
    <2>1. \/ /\ got.result = "ok" /\ ctlAsked' = ctlAsked + 1 /\ ctlAsking' = r
             /\ ctlHand' = got.message /\ stop' = (stop \/ r.type = "shutdown_request")
          \/ Panic("request")
        BY <1>1 DEF ControlRecv
    <2>2. CASE /\ got.result = "ok" /\ ctlAsked' = ctlAsked + 1 /\ ctlAsking' = r
               /\ ctlHand' = got.message /\ stop' = (stop \/ r.type = "shutdown_request")
        <3>1. /\ r.damage \notin Broken
              /\ got.message.ids = Route("control", ctlAsked + 1)
              /\ ControlRequestOf(got.message.header, ctlAsked + 1)
            BY <2>2, ControlServed
        <3>2. ctlAsked' \in Nat /\ ctlAsked' >= 1
            BY <2>2 DEF ControlInv
        <3>3. stop' \in BOOLEAN
            BY <2>2
        <3> HIDE DEF got
        <3> QED
            BY <2>2, <3>1, <3>2, <3>3 DEF ControlInv
    <2> QED
        BY <2>1, <2>2
<1>2. ASSUME NEW cause, Panic(cause) PROVE ControlInv'
    BY <1>2 DEF Panic, ControlInv
<1>3. CASE ControlReply
    BY <1>3 DEF ControlReply, ControlInv
<1>4. CASE UNCHANGED controlVars
    BY <1>4 DEF controlVars, ControlInv
<1>5. \/ \E r \in ControlRequests : ControlRecv(r)
      \/ \E cause : Panic(cause)
      \/ ControlReply
      \/ UNCHANGED controlVars
    BY Zenon DEF Next, ShellRecv, ShellRecvPanics, ShellStep, SendBusy, UpdateReply, StartCell, CellEnds,
        ShellReply, SendIdle, ShellStops, CellWrite, ReaderStep, ReaderRead, ReaderFlush, ReaderEof,
        ReaderStamp, ReaderDecodePanics, ReaderSend, vars
<1> QED
    BY <1>1, <1>2, <1>3, <1>4, <1>5

-----------------------------------------------------------------------------
(* Whom text is attributed to. *)

Nobody == [ids |-> <<>>, parent |-> NoHeader]
AimedAt(a, n) == \E type \in ShellTypes : a = [ids |-> Route("shell", n), parent |-> Header("shell", n, type)]
Aimed(a) == a = Nobody \/ \E n \in 1..asked : AimedAt(a, n)

(* Every byte of a text was written by the cell it would be attributed to, *)
(* or by an earlier one.                                                   *)
Older(text, n) == \A i \in DOMAIN text : text[i].cell \in 1..n

AddressInv ==
    /\ DOMAIN replyTo = Streams /\ \A s \in Streams : Aimed(replyTo[s])
    /\ pc = "running" => \A s \in Streams : replyTo[s].parent = hand.header
OlderInv ==
    \A s \in Streams : /\ Older(pipe[s], replyTo[s].parent.n) /\ Older(buf[s], replyTo[s].parent.n)
                       /\ rpc[s] = "stamp" => buf[s] # <<>>

LEMMA AimedNumber ==
    ASSUME HandInv, NEW a, Aimed(a)
    PROVE  a.parent.n \in 0..asked
<1>1. asked \in Nat
    BY DEF HandInv
<1>2. CASE a = Nobody
    BY <1>1, <1>2 DEF Nobody, NoHeader, Header
<1>3. ASSUME NEW n \in 1..asked, AimedAt(a, n) PROVE a.parent.n \in 0..asked
    BY <1>1, <1>3 DEF AimedAt, Header
<1> QED
    BY <1>2, <1>3 DEF Aimed

LEMMA AddressNext ==
    ASSUME HandInv, HandInv', AddressInv, [Next]_vars
    PROVE  AddressInv'
<1>0. asked \in Nat /\ asked' \in Nat
    BY DEF HandInv
<1>1. ASSUME NEW r \in ShellRequests, ShellRecv(r) PROVE AddressInv'
    <2>1. asked' = asked + 1 /\ replyTo' = replyTo /\ pc' # "running"
        BY <1>1 DEF ShellRecv
    <2>2. 1..asked \subseteq 1..asked'
        BY <1>0, <2>1
    <2> QED
        BY <2>1, <2>2 DEF AddressInv, Aimed
<1>2. ASSUME NEW cause, Panic(cause) PROVE AddressInv'
    BY <1>2 DEF Panic, AddressInv, Aimed, Nobody
<1>3. ASSUME NEW s \in Streams, UpdateReply(s) PROVE AddressInv'
    <2>1. /\ pc = "prepare" /\ pc' = "prepare" /\ asked' = asked
          /\ replyTo' = [replyTo EXCEPT ![s] = [ids |-> hand.ids, parent |-> hand.header]]
        BY <1>3 DEF UpdateReply, ReplyToHand, shellVars
    <2>2. AimedAt([ids |-> hand.ids, parent |-> hand.header], asked) /\ asked \in 1..asked
        BY <1>0, <2>1 DEF HandInv, AimedAt, ShellRequestOf
    <2> QED
        BY <2>1, <2>2 DEF AddressInv, Aimed
<1>4. CASE StartCell
    BY <1>4 DEF StartCell, Updated, AddressInv, Aimed
<1>5. CASE asked' = asked /\ replyTo' = replyTo /\ (pc' # "running" \/ UNCHANGED <<pc, hand>>)
    BY <1>5 DEF AddressInv, Aimed
<1>6. \/ \E r \in ShellRequests : ShellRecv(r)
      \/ \E cause : Panic(cause)
      \/ \E s \in Streams : UpdateReply(s)
      \/ StartCell
      \/ asked' = asked /\ replyTo' = replyTo /\ (pc' # "running" \/ UNCHANGED <<pc, hand>>)
    <2>1. ASSUME ShellStep PROVE \/ \E s \in Streams : UpdateReply(s)
                                 \/ StartCell
                                 \/ asked' = asked /\ replyTo' = replyTo /\ pc' # "running"
        BY <2>1 DEF ShellStep, SendBusy, CellEnds, ShellReply, SendIdle, ShellStops
    <2>2. ASSUME NEW r \in ControlRequests, ControlRecv(r)
          PROVE  \/ \E cause : Panic(cause)
                 \/ UNCHANGED <<asked, replyTo, pc, hand>>
        BY <2>2, Zenon DEF ControlRecv, shellVars
    <2> QED
        BY <2>1, <2>2, Zenon DEF Next, ShellRecvPanics, CellWrite, ControlReply, ReaderStep, ReaderRead,
            ReaderFlush, ReaderEof, ReaderStamp, ReaderDecodePanics, ReaderSend, vars, shellVars
<1> QED
    BY <1>1, <1>2, <1>3, <1>4, <1>5, <1>6

LEMMA HandNumber ==
    ASSUME HandInv, pc \in {"prepare", "running"}
    PROVE  hand.header.n = asked /\ asked >= 1
<1>1. asked >= 1 /\ ShellRequestOf(hand.header, asked)
    BY DEF HandInv
<1>2. PICK type \in ShellTypes : hand.header = Header("shell", asked, type)
    BY <1>1 DEF ShellRequestOf
<1> QED
    BY <1>1, <1>2 DEF Header

LEMMA OlderUp ==
    ASSUME NEW text, NEW n \in Nat, NEW m \in Nat, n <= m, Older(text, n)
    PROVE  Older(text, m)
<1>1. 1..n \subseteq 1..m
    OBVIOUS
<1> QED
    BY <1>1 DEF Older

LEMMA OlderConcat ==
    ASSUME NEW a \in Seq(Bytes), NEW b \in Seq(Bytes), NEW n, Older(a, n), Older(b, n)
    PROVE  Older(a \o b, n)
<1>1. Len(a) \in Nat /\ Len(b) \in Nat /\ DOMAIN a = 1..Len(a) /\ DOMAIN b = 1..Len(b)
    BY LenProperties
<1> DEFINE c == a \o b
<1>2. /\ c \in Seq(Bytes) /\ Len(c) = Len(a) + Len(b)
      /\ \A i \in 1..Len(a) + Len(b) : c[i] = IF i <= Len(a) THEN a[i] ELSE b[i - Len(a)]
    BY ConcatProperties
<1> HIDE DEF c
<1>3. DOMAIN c = 1..Len(a) + Len(b)
    BY <1>2, LenProperties
<1>4. ASSUME NEW i \in DOMAIN c PROVE c[i].cell \in 1..n
    <2>1. CASE i <= Len(a)
        <3>1. i \in DOMAIN a /\ c[i] = a[i]
            BY <1>1, <1>2, <1>3, <2>1
        <3> QED
            BY <3>1 DEF Older
    <2>2. CASE ~(i <= Len(a))
        <3>1. i - Len(a) \in DOMAIN b /\ c[i] = b[i - Len(a)]
            BY <1>1, <1>2, <1>3, <2>2
        <3> QED
            BY <3>1 DEF Older
    <2> QED
        BY <2>1, <2>2
<1> QED
    BY <1>4 DEF Older, c

LEMMA OlderCut ==
    ASSUME NEW q \in Seq(Bytes), NEW k \in 0..Len(q), NEW n, Older(q, n)
    PROVE  Older(SubSeq(q, 1, k), n) /\ Older(SubSeq(q, k + 1, Len(q)), n)
<1>1. Len(q) \in Nat /\ DOMAIN q = 1..Len(q)
    BY LenProperties
<1>2. ASSUME NEW a \in Nat \ {0}, NEW b \in Nat, b <= Len(q)
      PROVE  Older(SubSeq(q, a, b), n)
    <2> DEFINE c == SubSeq(q, a, b)
    <2>1. \A i \in a..b : q[i] \in Bytes
        <3>1. a..b \subseteq 1..Len(q)
            BY <1>1, <1>2
        <3> QED
            BY <3>1, LenProperties
    <2>2. /\ c \in Seq(Bytes) /\ Len(c) = IF a <= b THEN b - a + 1 ELSE 0
          /\ \A i \in 1..b - a + 1 : c[i] = q[a + i - 1]
        BY <2>1, SubSeqProperties
    <2> HIDE DEF c
    <2>3. DOMAIN c = 1..Len(c)
        BY <2>2, LenProperties
    <2>4. ASSUME NEW i \in DOMAIN c PROVE c[i].cell \in 1..n
        <3>1. i \in 1..b - a + 1 /\ a + i - 1 \in 1..Len(q)
            BY <1>1, <1>2, <2>2, <2>3
        <3>2. c[i] = q[a + i - 1] /\ a + i - 1 \in DOMAIN q
            BY <1>1, <2>2, <3>1
        <3> QED
            BY <3>2 DEF Older
    <2> QED
        BY <2>4 DEF Older, c
<1> QED
    BY <1>1, <1>2

LEMMA OlderNext ==
    ASSUME TextInv, HandInv, AddressInv, OlderInv, [Next]_vars
    PROVE  OlderInv'
<1>0. /\ asked \in Nat
      /\ \A s \in Streams : /\ pipe[s] \in Seq(Bytes) /\ buf[s] \in Seq(Bytes)
                            /\ replyTo[s].parent.n \in 0..asked
    BY AimedNumber DEF TextInv, TextType, HandInv, AddressInv
<1>1. ASSUME NEW cause, Panic(cause) PROVE OlderInv'
    BY <1>1 DEF Panic, OlderInv, Older
<1>2. ASSUME NEW s \in Streams, UpdateReply(s) PROVE OlderInv'
    <2>1. /\ pc = "prepare" /\ UNCHANGED <<pipe, buf, rpc>>
          /\ replyTo' = [replyTo EXCEPT ![s] = [ids |-> hand.ids, parent |-> hand.header]]
        BY <1>2 DEF UpdateReply, ReplyToHand, textVars, readerVars
    <2>2. replyTo'[s].parent.n = asked
        BY <2>1, HandNumber DEF AddressInv
    <2>3. Older(pipe[s], asked) /\ Older(buf[s], asked)
        BY <1>0, OlderUp DEF OlderInv
    <2> QED
        BY <2>1, <2>2, <2>3 DEF OlderInv, AddressInv
<1>3. ASSUME NEW s \in Streams, NEW parts \in Writes, CellWrite(s, parts) PROVE OlderInv'
    <2> DEFINE text == [i \in DOMAIN parts |-> [cell |-> asked, part |-> parts[i]]]
    <2>1. /\ pc = "running" /\ UNCHANGED <<buf, rpc, replyTo>>
          /\ pipe' = [pipe EXCEPT ![s] = pipe[s] \o text]
        BY <1>3 DEF CellWrite, readerVars
    <2>2. replyTo[s].parent.n = asked /\ asked >= 1
        BY <2>1, HandNumber DEF AddressInv
    <2>3. Older(text, asked)
        BY <1>0, <2>2 DEF Older
    <2>4. text \in Seq(Bytes)
        BY <1>0, WrittenBytes
    <2> HIDE DEF text
    <2>5. Older(pipe[s] \o text, asked)
        BY <1>0, <2>2, <2>3, <2>4, OlderConcat DEF OlderInv
    <2> QED
        BY <2>1, <2>2, <2>5 DEF OlderInv, TextInv, TextType
<1>4. ASSUME NEW s \in Streams, ReaderRead(s) PROVE OlderInv'
    <2> DEFINE k == Taken(s)
               take == SubSeq(pipe[s], 1, k)
               rest == SubSeq(pipe[s], k + 1, Len(pipe[s]))
               n == replyTo[s].parent.n
    <2>1. /\ pipe[s] # <<>>
          /\ buf' = [buf EXCEPT ![s] = buf[s] \o take]
          /\ pipe' = [pipe EXCEPT ![s] = rest]
          /\ rpc' = [rpc EXCEPT ![s] = AfterRead(k)]
          /\ UNCHANGED replyTo
        BY <1>4 DEF ReaderRead, Extended
    <2>2. k \in 0..Len(pipe[s]) /\ (k = Len(pipe[s]) \/ k = BufferSize)
        BY <1>0, TakenBounds
    <2>3. k > 0
        <3>1. Len(pipe[s]) \in Nat /\ Len(pipe[s]) # 0
            BY <1>0, <2>1, LenProperties
        <3> QED
            BY <2>2, <3>1, TrafficAssumption
    <2> HIDE DEF k
    <2>4. Older(take, n) /\ Older(rest, n)
        BY <1>0, <2>2, OlderCut DEF OlderInv
    <2>5. take \in Seq(Bytes) /\ Len(take) = k
        BY <1>0, <2>2, Cut
    <2> HIDE DEF take, rest, n
    <2>6. Older(buf[s] \o take, n)
        BY <1>0, <2>4, <2>5, OlderConcat DEF OlderInv, n
    <2>7. buf[s] \o take # <<>>
        <3>1. take # <<>>
            BY <2>3, <2>5
        <3> QED
            BY <1>0, <2>5, <3>1, ConcatEqualIffEmpty
    <2> QED
        BY <2>1, <2>4, <2>6, <2>7 DEF OlderInv, TextInv, TextType, n
<1>5. ASSUME NEW s \in Streams, ReaderStamp(s) PROVE OlderInv'
    BY <1>5 DEF ReaderStamp, textVars, OlderInv, Older, TextInv, TextType
<1>6. CASE /\ UNCHANGED <<pipe, buf, replyTo>>
           /\ \A s \in Streams : rpc'[s] = "stamp" => rpc[s] = "stamp" \/ buf[s] # <<>>
    BY <1>6 DEF OlderInv
<1>7. \/ \E cause : Panic(cause)
      \/ \E s \in Streams : UpdateReply(s)
      \/ \E s \in Streams, parts \in Writes : CellWrite(s, parts)
      \/ \E s \in Streams : ReaderRead(s) \/ ReaderStamp(s) \/ ReaderFlush(s) \/ ReaderSend(s)
      \/ UNCHANGED <<pipe, buf, replyTo, rpc>>
    BY Zenon DEF Next, ShellRecv, ShellRecvPanics, ShellStep, SendBusy, StartCell, CellEnds, ShellReply,
        SendIdle, ShellStops, ControlRecv, ControlReply, ReaderStep, ReaderEof, ReaderDecodePanics,
        vars, textVars, readerVars
<1>8. ASSUME NEW s \in Streams, ReaderFlush(s) \/ ReaderSend(s) PROVE OlderInv'
    <2>1. /\ UNCHANGED <<pipe, buf, replyTo>>
          /\ \/ buf[s] # <<>> /\ rpc' = [rpc EXCEPT ![s] = "stamp"]
             \/ rpc' = [rpc EXCEPT ![s] = "read"]
        BY <1>8 DEF ReaderFlush, ReaderSend, AtEof, textVars
    <2> QED
        BY <1>6, <2>1 DEF TextInv, TextType
<1> QED
    BY <1>1, <1>2, <1>3, <1>4, <1>5, <1>6, <1>7, <1>8

-----------------------------------------------------------------------------
(* What is sent, and under which ids. *)

TextMessage(m) ==
    /\ m = Message(m.ids, m.header, m.parent, m.content)
    /\ m.header.type = "stream"
    /\ \E n \in Nat \ {0} : AimedAt([ids |-> m.ids, parent |-> m.parent], n) /\ Older(m.content, n)

IdsInv ==
    /\ counter \in Nat /\ \A n \in seen : n \in Nat /\ n < counter
    /\ \A s \in Streams : rpc[s] = "send" =>
          /\ rmsg[s].header.n \in Nat /\ rmsg[s].header.n < counter /\ rmsg[s].header.n \notin seen
          /\ \A t \in Streams : rpc[t] = "send" /\ t # s => rmsg[s].header.n # rmsg[t].header.n

MessageInv == \A s \in Streams : rpc[s] = "send" => TextMessage(rmsg[s])

OutInv == FramesReadBack /\ AttributedLater

(* What a message must be for the client to be able to use it. *)
Usable(socket, m) ==
    /\ m.ids \in Seq(Hops) /\ m = Message(m.ids, m.header, m.parent, m.content)
    /\ m.parent.maker \in {"shell", "control"} /\ socket \in {"iopub", m.parent.maker}
    /\ m.ids = IF m.header.type = "status" THEN <<>> ELSE Route(m.parent.maker, m.parent.n)
    /\ m.header.type = "stream" => \A j \in DOMAIN m.content : m.content[j].cell <= m.parent.n

LEMMA UsableSent ==
    ASSUME NEW socket, NEW m, Usable(socket, m), Sends(socket, m)
    PROVE  OutInv' /\ ReadBack(out'.frames).header.n = m.header.n
<1>1. out' = [socket |-> socket, frames |-> Multipart(m)]
    BY DEF Sends
<1>2. out'.socket = socket /\ out'.frames = Multipart(m)
    BY <1>1
<1>3. ReadBack(Multipart(m)) = m /\ Verifies(Multipart(m))
    <2>1. m.ids \in Seq(Hops) /\ m = Message(m.ids, m.header, m.parent, m.content)
        BY DEF Usable
    <2>2. /\ ReadBack(Multipart(Message(m.ids, m.header, m.parent, m.content)))
              = Message(m.ids, m.header, m.parent, m.content)
          /\ Verifies(Multipart(Message(m.ids, m.header, m.parent, m.content)))
        BY <2>1, RoundTrip
    <2> QED
        BY <2>1, <2>2, Zenon
<1>4. FramesReadBack'
    BY <1>2, <1>3 DEF Usable, FramesReadBack
<1>5. AttributedLater'
    BY <1>2, <1>3 DEF Usable, AttributedLater
<1> QED
    BY <1>2, <1>3, <1>4, <1>5 DEF OutInv

LEMMA HandAnswers ==
    ASSUME HandInv, hand # NoMessage, NEW content, NEW type, type \notin {"status", "stream"}
    PROVE  /\ Usable("shell", Reply(hand, counter, content))
           /\ Usable("iopub", Status(hand, counter, content))
           /\ Usable("iopub", Output(hand, counter, type, content))
           /\ Reply(hand, counter, content).header.n = counter
           /\ Status(hand, counter, content).header.n = counter
           /\ Output(hand, counter, type, content).header.n = counter
<1>1. hand.ids = Route("shell", asked) /\ ShellRequestOf(hand.header, asked)
    BY DEF HandInv
<1>2. PICK t \in ShellTypes : hand.header = Header("shell", asked, t)
    BY <1>1 DEF ShellRequestOf
<1>3. hand.header.maker = "shell" /\ hand.header.n = asked /\ hand.header.type = t
    BY <1>2 DEF Header
<1>4. ReplyType(t) \notin {"status", "stream"}
    BY DEF ReplyType, ShellTypes
<1>5. hand.ids \in Seq(Hops) /\ <<>> \in Seq(Hops)
    BY <1>1, RouteType DEF Sources
<1>6. Usable("shell", Reply(hand, counter, content))
    BY <1>1, <1>3, <1>4, <1>5 DEF Usable, Reply, Message, Header
<1>7. Usable("iopub", Status(hand, counter, content))
    BY <1>1, <1>3, <1>5 DEF Usable, Status, Message, Header
<1>8. Usable("iopub", Output(hand, counter, type, content))
    BY <1>1, <1>3, <1>5 DEF Usable, Output, Message, Header
<1> QED
    BY <1>6, <1>7, <1>8 DEF Reply, Status, Output, Message, Header

LEMMA ControlAnswers ==
    ASSUME ControlInv, ctlHand # NoMessage, NEW content
    PROVE  /\ Usable("control", Reply(ctlHand, counter, content))
           /\ Reply(ctlHand, counter, content).header.n = counter
<1>1. ctlHand.ids = Route("control", ctlAsked) /\ ControlRequestOf(ctlHand.header, ctlAsked)
    BY DEF ControlInv
<1>2. PICK t \in ControlTypes : ctlHand.header = Header("control", ctlAsked, t)
    BY <1>1 DEF ControlRequestOf
<1>3. ctlHand.header.maker = "control" /\ ctlHand.header.n = ctlAsked /\ ctlHand.header.type = t
    BY <1>2 DEF Header
<1>4. ReplyType(t) \notin {"status", "stream"}
    BY DEF ReplyType, ControlTypes
<1>5. ctlHand.ids \in Seq(Hops)
    BY <1>1, RouteType DEF Sources
<1>6. Usable("control", Reply(ctlHand, counter, content))
    BY <1>1, <1>3, <1>4, <1>5 DEF Usable, Reply, Message, Header
<1>7. Reply(ctlHand, counter, content).header.n = counter
    BY DEF Reply, Message, Header
<1> QED
    BY <1>6, <1>7

LEMMA TextSends ==
    ASSUME NEW m, TextMessage(m)
    PROVE  Usable("iopub", m)
<1>1. PICK n \in Nat \ {0} : AimedAt([ids |-> m.ids, parent |-> m.parent], n) /\ Older(m.content, n)
    BY DEF TextMessage
<1>2. PICK t \in ShellTypes :
         [ids |-> m.ids, parent |-> m.parent] = [ids |-> Route("shell", n), parent |-> Header("shell", n, t)]
    BY <1>1 DEF AimedAt
<1>3. m.ids = Route("shell", n) /\ m.parent = Header("shell", n, t)
    BY <1>2
<1>4. m.parent.maker = "shell" /\ m.parent.n = n
    BY <1>3 DEF Header
<1>5. m.ids \in Seq(Hops)
    BY <1>3, RouteType DEF Sources
<1>6. \A j \in DOMAIN m.content : m.content[j].cell <= n
    BY <1>1 DEF Older
<1> QED
    BY <1>3, <1>4, <1>5, <1>6 DEF Usable, TextMessage

SendInv == IdsInv /\ MessageInv /\ OutInv
FreshStep == out' \in {out, Nothing} \/ ReadBack(out'.frames).header.n \notin seen

(* The shell and control tasks take an id and use it at once. *)
LEMMA SendsNow ==
    ASSUME SendInv, NEW socket, NEW m, Usable(socket, m), m.header.n = counter,
           Sends(socket, m), NextId, UNCHANGED <<rpc, rmsg>>
    PROVE  SendInv' /\ FreshStep
<1>1. OutInv' /\ ReadBack(out'.frames).header.n = m.header.n
    BY UsableSent
<1>2. counter \notin seen
    BY DEF SendInv, IdsInv
<1>3. seen' = seen \cup {counter} /\ counter' = counter + 1
    BY DEF Sends, NextId
<1>4. IdsInv'
    BY <1>3 DEF SendInv, IdsInv
<1>5. MessageInv'
    BY DEF SendInv, MessageInv
<1> QED
    BY <1>1, <1>2, <1>4, <1>5 DEF SendInv, FreshStep

LEMMA SendKept ==
    ASSUME SendInv, UNCHANGED wireVars,
           \A s \in Streams : rpc'[s] = "send" => rpc[s] = "send" /\ rmsg'[s] = rmsg[s]
    PROVE  SendInv' /\ FreshStep
<1>1. out' = out /\ seen' = seen /\ counter' = counter
    BY DEF wireVars
<1>2. IdsInv'
    BY <1>1 DEF SendInv, IdsInv
<1>3. MessageInv'
    BY DEF SendInv, MessageInv
<1>4. OutInv'
    BY <1>1 DEF SendInv, OutInv, FramesReadBack, AttributedLater
<1> QED
    BY <1>1, <1>2, <1>3, <1>4 DEF SendInv, FreshStep

LEMMA SendPanic ==
    ASSUME NEW cause, Panic(cause)
    PROVE  SendInv' /\ FreshStep
<1>1. /\ out' = Nothing /\ seen' = {} /\ counter' = 0
      /\ rpc' = [s \in Streams |-> "read"]
    BY DEF Panic
<1> QED
    BY <1>1 DEF SendInv, IdsInv, MessageInv, OutInv, FramesReadBack, AttributedLater, FreshStep

LEMMA SendStamp ==
    ASSUME TextInv, AddressInv, OlderInv, SendInv, NEW s \in Streams, ReaderStamp(s)
    PROVE  SendInv' /\ FreshStep
<1> DEFINE m == Message(replyTo[s].ids, Header("kernel", counter, "stream"),
                        replyTo[s].parent, buf[s])
<1>1. /\ rpc[s] = "stamp" /\ UNCHANGED <<out, seen>> /\ counter' = counter + 1
      /\ rmsg' = [rmsg EXCEPT ![s] = m] /\ rpc' = [rpc EXCEPT ![s] = "send"]
    BY DEF ReaderStamp, NextId
<1>2. m.header.n = counter /\ m.header.type = "stream" /\ m = Message(m.ids, m.header, m.parent, m.content)
    BY DEF Message, Header
<1>3. m.ids = replyTo[s].ids /\ m.parent = replyTo[s].parent /\ m.content = buf[s]
    BY DEF Message
<1>4. buf[s] # <<>> /\ Older(buf[s], replyTo[s].parent.n)
    BY <1>1 DEF OlderInv
<1>5. replyTo[s] # Nobody
    <2> SUFFICES ASSUME replyTo[s] = Nobody PROVE FALSE
        OBVIOUS
    <2>1. replyTo[s].parent.n = 0
        BY DEF Nobody, NoHeader, Header
    <2>2. 1 \in DOMAIN buf[s]
        <3>1. buf[s] \in Seq(Bytes)
            BY DEF TextInv, TextType
        <3> QED
            BY <1>4, <3>1
    <2>3. buf[s][1].cell \in 1..0
        BY <1>4, <2>1, <2>2 DEF Older
    <2> QED
        BY <2>3
<1>6. PICK n \in 1..asked : AimedAt(replyTo[s], n)
    BY <1>5 DEF AddressInv, Aimed
<1>7. PICK t \in ShellTypes : replyTo[s] = [ids |-> Route("shell", n), parent |-> Header("shell", n, t)]
    BY <1>6 DEF AimedAt
<1>8. /\ replyTo[s].parent.n = n
      /\ AimedAt([ids |-> replyTo[s].ids, parent |-> replyTo[s].parent], n)
    BY <1>7 DEF Header, AimedAt
<1>9. n \in Nat \ {0}
    OBVIOUS
<1> HIDE DEF m
<1>10. TextMessage(m)
    BY <1>2, <1>3, <1>4, <1>8, <1>9 DEF TextMessage
<1>11. MessageInv'
    BY <1>1, <1>10 DEF SendInv, MessageInv, TextInv, TextType
<1>12. IdsInv'
    <2>1. /\ counter \in Nat /\ counter' = counter + 1 /\ seen' = seen
          /\ \A n0 \in seen : n0 \in Nat /\ n0 < counter
        BY <1>1 DEF SendInv, IdsInv
    <2>2. counter' \in Nat /\ counter \notin seen /\ \A n0 \in seen' : n0 \in Nat /\ n0 < counter'
        BY <2>1
    <2>3. rmsg'[s].header.n = counter
        BY <1>1, <1>2 DEF TextInv, TextType
    <2>4. ASSUME NEW u \in Streams \ {s}, rpc'[u] = "send"
          PROVE  /\ rpc[u] = "send" /\ rmsg'[u] = rmsg[u]
                 /\ rmsg[u].header.n \in Nat /\ rmsg[u].header.n < counter
                 /\ rmsg[u].header.n \notin seen
        BY <1>1, <2>4 DEF SendInv, IdsInv, TextInv, TextType
    <2>5. ASSUME NEW u \in Streams, rpc'[u] = "send"
          PROVE  /\ rmsg'[u].header.n \in Nat /\ rmsg'[u].header.n < counter'
                 /\ rmsg'[u].header.n \notin seen'
        BY <2>1, <2>2, <2>3, <2>4, <2>5
    <2>6. ASSUME NEW u \in Streams, rpc'[u] = "send", NEW v \in Streams, rpc'[v] = "send", u # v
          PROVE  rmsg'[u].header.n # rmsg'[v].header.n
        <3>1. CASE u = s \/ v = s
            BY <2>1, <2>3, <2>4, <2>6, <3>1
        <3>2. CASE u # s /\ v # s
            BY <2>4, <2>6, <3>2 DEF SendInv, IdsInv
        <3> QED
            BY <3>1, <3>2
    <2> QED
        BY <2>2, <2>5, <2>6 DEF IdsInv
<1>13. OutInv' /\ FreshStep
    BY <1>1 DEF SendInv, OutInv, FramesReadBack, AttributedLater, FreshStep
<1> QED
    BY <1>11, <1>12, <1>13 DEF SendInv

LEMMA SendText ==
    ASSUME TextInv, SendInv, NEW s \in Streams, ReaderSend(s)
    PROVE  SendInv' /\ FreshStep
<1>1. /\ rpc[s] = "send" /\ Sends("iopub", rmsg[s]) /\ counter' = counter
      /\ rmsg' = [rmsg EXCEPT ![s] = NoMessage] /\ rpc' = [rpc EXCEPT ![s] = "read"]
    BY DEF ReaderSend
<1>2. TextMessage(rmsg[s]) /\ rmsg[s].header.n \notin seen
    BY <1>1 DEF SendInv, MessageInv, IdsInv
<1>3. OutInv' /\ ReadBack(out'.frames).header.n = rmsg[s].header.n
    BY <1>1, <1>2, TextSends, UsableSent
<1>4. seen' = seen \cup {rmsg[s].header.n}
    BY <1>1 DEF Sends
<1>5. IdsInv'
    BY <1>1, <1>4 DEF SendInv, IdsInv, TextInv, TextType
<1>6. MessageInv'
    BY <1>1 DEF SendInv, MessageInv, TextInv, TextType
<1> QED
    BY <1>2, <1>3, <1>5, <1>6 DEF SendInv, FreshStep

LEMMA SendShell ==
    ASSUME HandInv, SendInv, ShellStep
    PROVE  SendInv' /\ FreshStep
<1>1. CASE SendBusy
    <2>1. /\ Sends("iopub", Status(hand, counter, "busy")) /\ NextId /\ UNCHANGED <<rpc, rmsg>>
          /\ hand # NoMessage
        BY <1>1 DEF SendBusy, readerVars, HandInv
    <2> QED
        BY <2>1, HandAnswers, SendsNow
<1>2. ASSUME NEW type \in {"none", "execute_result", "display_data"}, CellEnds(type)
      PROVE  SendInv' /\ FreshStep
    <2>1. hand # NoMessage /\ UNCHANGED <<rpc, rmsg>>
        BY <1>2 DEF CellEnds, readerVars, HandInv
    <2>2. CASE type = "none"
        BY <1>2, <2>1, <2>2, SendKept DEF CellEnds
    <2>3. CASE type # "none"
        <3>1. Sends("iopub", Output(hand, counter, type, "data")) /\ NextId
            BY <1>2, <2>3 DEF CellEnds
        <3>2. type \notin {"status", "stream"}
            OBVIOUS
        <3> QED
            BY <2>1, <3>1, <3>2, HandAnswers, SendsNow
    <2> QED
        BY <2>2, <2>3
<1>3. CASE ShellReply
    <2>1. /\ Sends("shell", Reply(hand, counter, "content")) /\ NextId /\ UNCHANGED <<rpc, rmsg>>
          /\ hand # NoMessage
        BY <1>3 DEF ShellReply, readerVars, HandInv
    <2> QED
        BY <2>1, HandAnswers, SendsNow
<1>4. CASE SendIdle
    <2>1. /\ Sends("iopub", Status(hand, counter, "idle")) /\ NextId /\ UNCHANGED <<rpc, rmsg>>
          /\ hand # NoMessage
        BY <1>4 DEF SendIdle, readerVars, HandInv
    <2> QED
        BY <2>1, HandAnswers, SendsNow
<1>5. CASE StartCell \/ ShellStops \/ \E s \in Streams : UpdateReply(s)
    <2>1. UNCHANGED <<wireVars, rpc, rmsg>>
        BY <1>5 DEF StartCell, ShellStops, UpdateReply, readerVars
    <2> QED
        BY <2>1, SendKept
<1> QED
    BY <1>1, <1>2, <1>3, <1>4, <1>5 DEF ShellStep

LEMMA SendNext ==
    ASSUME TextInv, HandInv, ControlInv, AddressInv, OlderInv, SendInv, [Next]_vars
    PROVE  SendInv' /\ FreshStep
<1>1. ASSUME NEW s \in Streams, ReaderStep(s) PROVE SendInv' /\ FreshStep
    <2>1. CASE ReaderRead(s)
        <3>1. UNCHANGED <<wireVars, rmsg>> /\ rpc' = [rpc EXCEPT ![s] = AfterRead(Taken(s))]
            BY <2>1 DEF ReaderRead
        <3>2. AfterRead(Taken(s)) # "send"
            BY DEF AfterRead
        <3> HIDE DEF Taken
        <3> QED
            BY <3>1, <3>2, SendKept DEF TextInv, TextType
    <2>2. CASE ReaderFlush(s)
        <3>1. UNCHANGED <<wireVars, rmsg>> /\ rpc' = [rpc EXCEPT ![s] = "stamp"]
            BY <2>2 DEF ReaderFlush
        <3> QED
            BY <3>1, SendKept DEF TextInv, TextType
    <2>3. CASE ReaderEof(s) \/ ReaderDecodePanics(s)
        BY <2>3, SendPanic DEF ReaderEof, ReaderDecodePanics
    <2>4. CASE ReaderStamp(s)
        BY <2>4, SendStamp
    <2>5. CASE ReaderSend(s)
        BY <2>5, SendText
    <2> QED
        BY <1>1, <2>1, <2>2, <2>3, <2>4, <2>5 DEF ReaderStep
<1>2. CASE ControlReply
    <2>1. /\ Sends("control", Reply(ctlHand, counter, "content")) /\ NextId /\ UNCHANGED <<rpc, rmsg>>
          /\ ctlHand # NoMessage
        BY <1>2 DEF ControlReply, readerVars
    <2> QED
        BY <2>1, ControlAnswers, SendsNow
<1>3. CASE ShellStep
    BY <1>3, SendShell
<1>4. \/ ShellStep \/ ControlReply \/ \E s \in Streams : ReaderStep(s)
      \/ \E cause : Panic(cause)
      \/ UNCHANGED <<wireVars, rpc, rmsg>>
    BY Zenon DEF Next, ShellRecv, ShellRecvPanics, CellWrite, ControlRecv, vars, readerVars
<1> QED
    BY <1>1, <1>2, <1>3, <1>4, SendPanic, SendKept

-----------------------------------------------------------------------------
(* The invariants together. *)

RequestInv == TextInv /\ HandInv /\ ControlInv /\ AddressInv /\ OlderInv /\ SendInv

LEMMA RequestInit == Init => RequestInv
<1> SUFFICES ASSUME Init PROVE RequestInv
    OBVIOUS
<1>1. TextInv
    BY TextInit
<1>2. HandInv /\ ControlInv
    BY DEF Init, HandInv, ControlInv
<1>3. AddressInv
    BY DEF Init, AddressInv, Aimed, Nobody
<1>4. OlderInv
    BY DEF Init, OlderInv, Older
<1>5. SendInv
    BY DEF Init, SendInv, IdsInv, MessageInv, OutInv, FramesReadBack, AttributedLater
<1> QED
    BY <1>1, <1>2, <1>3, <1>4, <1>5 DEF RequestInv

LEMMA RequestNext == RequestInv /\ [Next]_vars => RequestInv' /\ FreshStep
<1> SUFFICES ASSUME RequestInv, [Next]_vars PROVE RequestInv' /\ FreshStep
    OBVIOUS
<1>1. TextInv /\ HandInv /\ ControlInv /\ AddressInv /\ OlderInv /\ SendInv
    BY DEF RequestInv
<1>2. TextInv' /\ HandInv' /\ ControlInv'
    BY <1>1, TextNext, HandNext, ControlNext
<1>3. AddressInv'
    BY <1>1, <1>2, AddressNext
<1>4. OlderInv'
    BY <1>1, OlderNext
<1>5. SendInv' /\ FreshStep
    BY <1>1, SendNext
<1> QED
    BY <1>2, <1>3, <1>4, <1>5 DEF RequestInv

LEMMA RequestAlways == Spec => []RequestInv
<1> QED
    BY RequestInit, RequestNext, PTL DEF Spec

(* A request whose frames are cut off, garbled or lack their delimiter is  *)
(* never served, and one that is served knows its own route (Message::recv *)
(* with every unwrap of it).                                               *)
THEOREM OnlyCompleteServed == Spec => []WellFormedServed
<1>1. RequestInv => WellFormedServed
    BY DEF RequestInv, HandInv, ControlInv, Broken, WellFormedServed
<1> QED
    BY <1>1, RequestAlways, PTL

(* Everything the client gets verifies, has a request of the client as its *)
(* parent, and comes along the route of that request.                      *)
THEOREM EverythingReadsBack == Spec => []FramesReadBack
<1>1. RequestInv => FramesReadBack
    BY DEF RequestInv, SendInv, OutInv
<1> QED
    BY <1>1, RequestAlways, PTL

(* Text is attributed to the cell that wrote it or to a later one: to one  *)
(* that has been asked for, and never to an earlier one.                   *)
THEOREM TextNeverEarly == Spec => []AttributedLater
<1>1. RequestInv => AttributedLater
    BY DEF RequestInv, SendInv, OutInv
<1> QED
    BY <1>1, RequestAlways, PTL

(* No two messages of the kernel have the same id, whichever tasks and     *)
(* threads make them (Header::new, one fetch_add).                         *)
THEOREM IdsAreUnique == Spec => UniqueIds
<1>1. RequestInv /\ [Next]_vars => [out' \in {out, Nothing} \/ ReadBack(out'.frames).header.n \notin seen]_vars
    BY RequestNext DEF FreshStep
<1> QED
    BY <1>1, RequestAlways, PTL DEF Spec, UniqueIds

-----------------------------------------------------------------------------
(* Characters. *)

Settled(s) == /\ Whole(buf[s] \o pipe[s])
              /\ rpc[s] = "stamp" => Whole(buf[s]) /\ Whole(pipe[s])
WholeInv == \A s \in Streams \ torn : Settled(s)

LEMMA WholeConcat ==
    ASSUME NEW a \in Seq(Bytes), NEW b \in Seq(Bytes), Whole(a), Whole(b)
    PROVE  Whole(a \o b)
<1> DEFINE c == a \o b
           n == Len(a)
           k == Len(b)
<1>1. n \in Nat /\ k \in Nat /\ DOMAIN a = 1..n /\ DOMAIN b = 1..k
    BY LenProperties
<1>2. /\ c \in Seq(Bytes) /\ Len(c) = n + k
      /\ \A i \in 1..n + k : c[i] = IF i <= n THEN a[i] ELSE b[i - n]
    BY ConcatProperties
<1> HIDE DEF c, n, k
<1>3. DOMAIN c = 1..n + k
    BY <1>2, LenProperties
<1>4. ASSUME NEW i \in 1..n
      PROVE  /\ c[i] = a[i]
             /\ i < n => c[i + 1] = a[i + 1]
             /\ i > 1 => c[i - 1] = a[i - 1]
    BY <1>1, <1>2
<1>5. ASSUME NEW i \in DOMAIN c, NEW j \in 1..k, i = n + j
      PROVE  /\ c[i] = b[j]
             /\ j < k => c[i + 1] = b[j + 1]
             /\ j > 1 => c[i - 1] = b[j - 1]
    <2>1. i \in 1..n + k /\ ~(i <= n) /\ i - n = j
        BY <1>1, <1>5
    <2>2. c[i] = b[j]
        BY <1>2, <2>1
    <2>3. ASSUME j < k PROVE c[i + 1] = b[j + 1]
        <3> DEFINE x == i + 1
        <3>1. x \in 1..n + k /\ ~(x <= n) /\ x - n = j + 1
            BY <1>1, <1>5, <2>3
        <3> HIDE DEF x
        <3>2. c[x] = b[j + 1]
            BY <1>2, <3>1
        <3> QED
            BY <3>2 DEF x
    <2>4. ASSUME j > 1 PROVE c[i - 1] = b[j - 1]
        <3> DEFINE x == i - 1
        <3>1. x \in 1..n + k /\ ~(x <= n) /\ x - n = j - 1
            BY <1>1, <1>5, <2>4
        <3> HIDE DEF x
        <3>2. c[x] = b[j - 1]
            BY <1>2, <3>1
        <3> QED
            BY <3>2 DEF x
    <2> QED
        BY <2>2, <2>3, <2>4
<1>6. ASSUME NEW i \in DOMAIN c
      PROVE  /\ c[i].part = "lead"  => i < Len(c) /\ c[i + 1].part = "trail"
             /\ c[i].part = "trail" => i > 1 /\ c[i - 1].part = "lead"
    <2>1. CASE i \in 1..n
        <3>1. /\ a[i].part = "lead"  => i < n /\ a[i + 1].part = "trail"
              /\ a[i].part = "trail" => i > 1 /\ a[i - 1].part = "lead"
            BY <1>1, <2>1 DEF Whole, n
        <3> QED
            BY <1>1, <1>2, <1>4, <2>1, <3>1, SMTT(60)
    <2>2. CASE ~(i \in 1..n)
        <3> DEFINE j == i - n
        <3>1. j \in 1..k /\ i = n + j
            BY <1>1, <1>3, <2>2
        <3>2. /\ b[j].part = "lead"  => j < k /\ b[j + 1].part = "trail"
              /\ b[j].part = "trail" => j > 1 /\ b[j - 1].part = "lead"
            BY <1>1, <3>1 DEF Whole, k
        <3> HIDE DEF j
        <3>3. /\ c[i] = b[j]
              /\ j < k => c[i + 1] = b[j + 1]
              /\ j > 1 => c[i - 1] = b[j - 1]
            BY <1>5, <3>1
        <3>4. (j < k => i < Len(c)) /\ (j > 1 => i > 1)
            BY <1>1, <1>2, <3>1
        <3>5. c[i].part = "lead" => i < Len(c) /\ c[i + 1].part = "trail"
            BY <3>2, <3>3, <3>4
        <3>6. c[i].part = "trail" => i > 1 /\ c[i - 1].part = "lead"
            BY <3>2, <3>3, <3>4
        <3> QED
            BY <3>5, <3>6
    <2> QED
        BY <2>1, <2>2
<1> QED
    BY <1>6 DEF Whole, c

LEMMA WholeEmpty == Whole(<<>>)
BY DEF Whole

LEMMA WholeNext ==
    ASSUME TextInv, WholeInv, [Next]_vars
    PROVE  WholeInv'
<1>0. \A s \in Streams : pipe[s] \in Seq(Bytes) /\ buf[s] \in Seq(Bytes)
    BY DEF TextInv, TextType
<1>1. ASSUME NEW cause, Panic(cause) PROVE WholeInv'
    <2>1. <<>> \o <<>> = <<>>
        OBVIOUS
    <2> QED
        BY <1>1, <2>1, WholeEmpty DEF Panic, WholeInv, Settled
<1>2. ASSUME NEW s \in Streams, NEW parts \in Writes, CellWrite(s, parts) PROVE WholeInv'
    <2> DEFINE text == [i \in DOMAIN parts |-> [cell |-> asked, part |-> parts[i]]]
    <2>1. /\ UNCHANGED <<buf, rpc>> /\ pipe' = [pipe EXCEPT ![s] = pipe[s] \o text]
          /\ torn' = IF Whole(text) THEN torn ELSE torn \cup {s}
        BY <1>2 DEF CellWrite, readerVars
    <2>2. text \in Seq(Bytes)
        BY WrittenBytes DEF TextInv, TextType
    <2> HIDE DEF text
    <2>3. Streams \ torn' \subseteq Streams \ torn /\ (s \in Streams \ torn' => Whole(text))
        BY <2>1
    <2>4. ASSUME s \in Streams \ torn' PROVE Settled(s)'
        <3>1. Whole(buf[s] \o pipe[s]) /\ Whole(text)
            BY <2>3, <2>4 DEF WholeInv, Settled
        <3>2. buf[s] \o pipe[s] \in Seq(Bytes)
            BY <1>0, ConcatProperties
        <3>3. Whole((buf[s] \o pipe[s]) \o text)
            BY <2>2, <3>1, <3>2, WholeConcat
        <3>4. buf[s] \o (pipe[s] \o text) = (buf[s] \o pipe[s]) \o text
            BY <1>0, <2>2, Associative, Zenon
        <3>5. rpc[s] = "stamp" => Whole(buf[s]) /\ Whole(pipe[s] \o text)
            BY <1>0, <2>2, <2>3, <2>4, <3>1, WholeConcat DEF WholeInv, Settled
        <3>6. pipe'[s] = pipe[s] \o text /\ buf'[s] = buf[s] /\ rpc'[s] = rpc[s]
            BY <2>1 DEF TextInv, TextType
        <3>7. Whole(buf[s] \o (pipe[s] \o text))
            BY <3>3, <3>4, Zenon
        <3> QED
            BY <3>5, <3>6, <3>7 DEF Settled
    <2>5. ASSUME NEW t \in (Streams \ torn') \ {s} PROVE Settled(t)'
        BY <2>1, <2>3 DEF WholeInv, Settled, TextInv, TextType
    <2> QED
        BY <2>4, <2>5 DEF WholeInv
<1>3. ASSUME NEW s \in Streams, ReaderRead(s) PROVE WholeInv'
    <2> DEFINE k == Taken(s)
               take == SubSeq(pipe[s], 1, k)
               rest == SubSeq(pipe[s], k + 1, Len(pipe[s]))
    <2>1. /\ buf' = [buf EXCEPT ![s] = buf[s] \o take] /\ pipe' = [pipe EXCEPT ![s] = rest]
          /\ rpc' = [rpc EXCEPT ![s] = AfterRead(k)] /\ torn' = torn
        BY <1>3 DEF ReaderRead, Extended
    <2>2. k \in 0..Len(pipe[s]) /\ (k = Len(pipe[s]) \/ k = BufferSize)
        BY <1>0, TakenBounds
    <2> HIDE DEF k
    <2>3. take \in Seq(Bytes) /\ rest \in Seq(Bytes) /\ take \o rest = pipe[s]
        BY <1>0, <2>2, Cut
    <2>4. k = Len(pipe[s]) => rest = <<>> /\ take = pipe[s]
        <3>1. Len(pipe[s]) \in Nat
            BY <1>0, LenProperties
        <3> QED
            BY <1>0, <3>1, SubSeqFull, SubSeqEmpty
    <2> HIDE DEF take, rest
    <2>5. (buf[s] \o take) \o rest = buf[s] \o (take \o rest)
        BY <1>0, <2>3, Associative, Zenon
    <2>6. (buf[s] \o take) \o rest = buf[s] \o pipe[s]
        BY <2>3, <2>5, Zenon
    <2>7. AfterRead(k) = "stamp" => k = Len(pipe[s])
        BY <2>2 DEF AfterRead
    <2>8. buf'[s] = buf[s] \o take /\ pipe'[s] = rest /\ rpc'[s] = AfterRead(k)
        BY <2>1 DEF TextInv, TextType
    <2>9. ASSUME s \notin torn PROVE Settled(s)'
        <3>1. Whole(buf[s] \o pipe[s])
            BY <2>9 DEF WholeInv, Settled
        <3>2. Whole(buf'[s] \o pipe'[s])
            BY <2>6, <2>8, <3>1, Zenon
        <3>3. rpc'[s] = "stamp" => Whole(buf'[s]) /\ Whole(pipe'[s])
            BY <2>4, <2>7, <2>8, <3>1, WholeEmpty, Zenon
        <3> QED
            BY <3>2, <3>3, Zenon DEF Settled
    <2>10. ASSUME NEW t \in (Streams \ torn) \ {s} PROVE Settled(t)'
        BY <2>1 DEF WholeInv, Settled, TextInv, TextType
    <2> QED
        BY <2>1, <2>9, <2>10 DEF WholeInv
<1>4. ASSUME NEW s \in Streams, ReaderFlush(s) PROVE WholeInv'
    <2>1. /\ UNCHANGED <<buf, pipe, torn>> /\ rpc' = [rpc EXCEPT ![s] = "stamp"] /\ pipe[s] = <<>>
        BY <1>4 DEF ReaderFlush, AtEof, textVars
    <2>2. buf[s] \o <<>> = buf[s]
        BY <1>0, ConcatEmptySeq
    <2> QED
        BY <2>1, <2>2, WholeEmpty DEF WholeInv, Settled, TextInv, TextType
<1>5. ASSUME NEW s \in Streams, ReaderStamp(s) PROVE WholeInv'
    <2>1. /\ rpc[s] = "stamp" /\ UNCHANGED <<pipe, torn>>
          /\ buf' = [buf EXCEPT ![s] = <<>>] /\ rpc' = [rpc EXCEPT ![s] = "send"]
        BY <1>5 DEF ReaderStamp, textVars
    <2>2. <<>> \o pipe[s] = pipe[s]
        BY <1>0, ConcatEmptySeq
    <2> QED
        BY <2>1, <2>2 DEF WholeInv, Settled, TextInv, TextType
<1>6. ASSUME NEW s \in Streams, ReaderSend(s) PROVE WholeInv'
    <2>1. UNCHANGED <<pipe, buf, torn>> /\ rpc' = [rpc EXCEPT ![s] = "read"]
        BY <1>6 DEF ReaderSend, textVars
    <2> QED
        BY <2>1 DEF WholeInv, Settled, TextInv, TextType
<1>7. CASE UNCHANGED <<pipe, buf, torn, rpc>>
    BY <1>7 DEF WholeInv, Settled
<1>8. \/ \E cause : Panic(cause)
      \/ \E s \in Streams, parts \in Writes : CellWrite(s, parts)
      \/ \E s \in Streams : ReaderRead(s) \/ ReaderStamp(s) \/ ReaderFlush(s) \/ ReaderSend(s)
      \/ UNCHANGED <<pipe, buf, torn, rpc>>
    BY Zenon DEF Next, ShellRecv, ShellRecvPanics, ShellStep, SendBusy, UpdateReply, StartCell, CellEnds,
        ShellReply, SendIdle, ShellStops, ControlRecv, ControlReply, ReaderStep, ReaderEof,
        ReaderDecodePanics, vars, textVars, readerVars
<1> QED
    BY <1>1, <1>2, <1>3, <1>4, <1>5, <1>6, <1>7, <1>8

(* Where only whole characters are written, only whole ones are decoded,   *)
(* whatever the size of the buffer: a reader decodes when it has all that  *)
(* there was, and never after a full buffer.                               *)
THEOREM WholeDecoded == Spec => []DecodesWhole
<1>1. Init => WholeInv
    <2>1. <<>> \o <<>> = <<>>
        OBVIOUS
    <2> QED
        BY <2>1, WholeEmpty DEF Init, WholeInv, Settled
<1>2. TextInv /\ WholeInv /\ [Next]_vars => WholeInv'
    BY WholeNext
<1>3. WholeInv => DecodesWhole
    BY DEF WholeInv, Settled, DecodesWhole
<1> QED
    BY <1>1, <1>2, <1>3, TextAlways, PTL DEF Spec

-----------------------------------------------------------------------------
(* Types. *)

ExitInv == exit \in {"no", "request", "utf8", "eof"} /\ torn \subseteq Streams

LEMMA ExitNext == ExitInv /\ [Next]_vars => ExitInv'
<1> SUFFICES ASSUME ExitInv, [Next]_vars PROVE ExitInv'
    OBVIOUS
<1>1. ASSUME NEW cause \in {"request", "utf8", "eof"}, Panic(cause) PROVE ExitInv'
    BY <1>1 DEF Panic, ExitInv
<1>2. ASSUME NEW s \in Streams, NEW parts \in Writes, CellWrite(s, parts) PROVE ExitInv'
    BY <1>2 DEF CellWrite, Alive, ExitInv
<1>3. CASE UNCHANGED <<exit, torn>>
    BY <1>3 DEF ExitInv
<1>4. \/ Panic("request") \/ Panic("utf8") \/ Panic("eof")
      \/ \E s \in Streams, parts \in Writes : CellWrite(s, parts)
      \/ UNCHANGED <<exit, torn>>
    BY Zenon DEF Next, ShellRecv, ShellRecvPanics, ShellStep, SendBusy, UpdateReply, StartCell, CellEnds,
        ShellReply, SendIdle, ShellStops, ControlRecv, ControlReply, ReaderStep, ReaderEof, ReaderRead,
        ReaderFlush, ReaderStamp, ReaderSend, ReaderDecodePanics, Alive, vars, textVars
<1>5. "request" \in {"request", "utf8", "eof"} /\ "utf8" \in {"request", "utf8", "eof"}
      /\ "eof" \in {"request", "utf8", "eof"}
    OBVIOUS
<1> QED
    BY <1>1, <1>2, <1>3, <1>4, <1>5

LEMMA AimedType ==
    ASSUME HandInv, NEW a, Aimed(a)
    PROVE  /\ a.ids \in Seq(Hops) /\ a.parent \in Headers
           /\ a.ids = <<>> <=> a.parent = NoHeader
<1>1. asked \in Nat
    BY DEF HandInv
<1>2. CASE a = Nobody
    <2>1. a.ids = <<>> /\ a.parent = NoHeader /\ <<>> \in Seq(Hops)
        BY <1>2 DEF Nobody
    <2>2. NoHeader \in Headers
        BY DEF NoHeader, Header, Headers
    <2> QED
        BY <2>1, <2>2
<1>3. ASSUME NEW n \in 1..asked, AimedAt(a, n)
      PROVE  /\ a.ids \in Seq(Hops) /\ a.parent \in Headers
             /\ a.ids # <<>> /\ a.parent # NoHeader
    <2>1. PICK t \in ShellTypes : a = [ids |-> Route("shell", n), parent |-> Header("shell", n, t)]
        BY <1>3 DEF AimedAt
    <2>2. a.ids = Route("shell", n) /\ a.parent = Header("shell", n, t)
        BY <2>1
    <2>3. Route("shell", n) \in Seq(Hops) /\ Route("shell", n) # <<>>
        BY RouteType DEF Sources
    <2>4. Header("shell", n, t) \in Headers /\ Header("shell", n, t) # NoHeader
        BY <1>1 DEF Header, Headers, NoHeader
    <2> QED
        BY <2>2, <2>3, <2>4
<1> QED
    BY <1>2, <1>3 DEF Aimed

(* The state of Traffic has its types; a stream knows whom to answer       *)
(* entirely or not at all, a message waits only where a reader sends, and  *)
(* every id that was used lies behind the counter.                         *)
THEOREM TrafficType == Spec => []TypeOK
<1>1. Init => ExitInv
    BY DEF Init, ExitInv
<1>2. ExitInv /\ [Next]_vars => ExitInv'
    BY ExitNext
<1>3. ExitInv /\ RequestInv => TypeOK
    <2> SUFFICES ASSUME ExitInv, RequestInv PROVE TypeOK
        OBVIOUS
    <2>1. TextInv /\ HandInv /\ ControlInv /\ AddressInv /\ OlderInv /\ SendInv
        BY DEF RequestInv
    <2>2. ASSUME NEW s \in Streams
          PROVE  /\ replyTo[s].ids \in Seq(Hops) /\ replyTo[s].parent \in Headers
                 /\ replyTo[s].ids = <<>> <=> replyTo[s].parent = NoHeader
                 /\ pipe[s] \in Seq(Bytes) /\ buf[s] \in Seq(Bytes)
                 /\ rpc[s] \in {"read", "stamp", "send"}
        BY <2>1, AimedType DEF AddressInv, TextInv, TextType
    <2>3. ASSUME NEW s \in Streams
          PROVE  rmsg[s] # NoMessage <=> rpc[s] = "send"
        <3>1. rpc[s] # "send" => rmsg[s] = NoMessage
            BY <2>1 DEF TextInv, InHand
        <3>2. rpc[s] = "send" => rmsg[s].header.type = "stream"
            BY <2>1 DEF SendInv, MessageInv, TextMessage
        <3>3. NoMessage.header.type = "none"
            BY DEF NoMessage, Message, NoHeader, Header
        <3> QED
            BY <3>1, <3>2, <3>3
    <2> QED
        BY <2>1, <2>2, <2>3 DEF TypeOK, ExitInv, HandInv, ControlInv, SendInv, IdsInv
<1> QED
    BY <1>1, <1>2, <1>3, RequestAlways, PTL DEF Spec
=============================================================================
