------------------------------- MODULE Traffic -------------------------------
(***************************************************************************)
(* What the kernel puts on the wire for a client: shell requests and       *)
(* control requests come in as frames, statuses, results and replies go    *)
(* out as frames, and so does the text that cells write into the captured  *)
(* streams, byte by byte through a pipe and a reader thread.               *)
(*                                                                         *)
(* Kernel.tla has the scheduling of the same tasks, with text in chunks;   *)
(* here the tasks, the thread of the cell and the readers run freely, and  *)
(* the bytes, the buffer of the reader, the frames and the message ids are *)
(* what matters.                                                           *)
(***************************************************************************)
EXTENDS Wire, FiniteSetsExt, Functions

CONSTANTS
    Streams,          \* the captured streams
    BufferSize,       \* bytes one read can return: BUFFER_SIZE
    MaxRequests,      \* bound: shell requests
    MaxControl,       \* bound: control requests
    MaxText,          \* bound: bytes one stream carries
    ShellSends,       \* bound: types of the shell requests that are sent
    ControlSends,     \* bound: types of the control requests that are sent
    Damages           \* what may be wrong with the frames of a request

ASSUME TrafficAssumption ==
    /\ BufferSize \in Nat \ {0}
    /\ MaxRequests \in Nat /\ MaxControl \in Nat /\ MaxText \in Nat
    /\ Damages \subseteq {"no_delimiter", "cut", "junk", "bad_content"}

VARIABLES
    exit,       \* "no", or what the panic was about
    asked,      \* how many requests the shell socket delivered
    asking,     \* history: the request in hand, as it was sent
    pc, hand,   \* the shell task: where it is, and the request in hand
    ctlAsked, ctlAsking, ctlHand,   \* the same of the control task
    stop,       \* whether a shutdown was broadcast
    counter,    \* MESSAGE_COUNTER
    out,        \* what was sent last: the socket and the multipart
    seen,       \* history: the ids of all messages sent
    replyTo,    \* per stream: message_data, whom to attribute text to
    pipe, buf,  \* per stream: bytes in the pipe; bytes read so far (s_buf)
    rpc, rmsg,  \* per stream: where its reader is; the message it sends
    wrote, told,   \* history, per stream: bytes written, bytes broadcast
    torn        \* history: the streams that got a piece of a character

shellVars   == <<asked, asking, pc, hand>>
controlVars == <<ctlAsked, ctlAsking, ctlHand, stop>>
wireVars    == <<counter, out, seen>>
textVars    == <<pipe, wrote, torn>>
readerVars  == <<buf, rpc, rmsg, told>>
vars == <<exit, shellVars, controlVars, wireVars, replyTo, textVars, readerVars>>

-----------------------------------------------------------------------------
(* Requests.  The n-th request of a socket comes with the socket and its    *)
(* number in its header, and along a route of its own: the first through    *)
(* one more hop.                                                            *)
Route(source, n) == IF n = 1 THEN <<source, "hop">> ELSE <<source>>

Request(type, damage) == [type |-> type, damage |-> damage]
AllDamages == Damages \cup {"none"}
NoRequest == Request("none", "none")
Nothing == [socket |-> "none", frames |-> <<>>]

RequestFrames(source, n, r) ==
    LET header == Frame("header", Header(source, n, r.type))
        content == Frame("content", IF r.damage = "bad_content" THEN "bad" ELSE "good")
        body == <<Frame("signature", 0), header, EmptyObject, EmptyObject, content>>
        route == Route(source, n)
        ids == [i \in DOMAIN route |-> Frame("identity", route[i])]
    IN  CASE r.damage = "no_delimiter" -> ids \o body
          [] r.damage = "cut"  -> ids \o <<Delimiter>> \o SubSeq(body, 1, 4)
          [] r.damage = "junk" -> ids \o <<Delimiter>> \o [body EXCEPT ![2] = Frame("junk", 0)]
          [] OTHER             -> ids \o <<Delimiter>> \o body

-----------------------------------------------------------------------------
Init ==
    /\ exit = "no"
    /\ asked = 0 /\ asking = NoRequest /\ pc = "recv" /\ hand = NoMessage
    /\ ctlAsked = 0 /\ ctlAsking = NoRequest /\ ctlHand = NoMessage /\ stop = FALSE
    /\ counter = 0 /\ out = Nothing /\ seen = {}
    /\ replyTo = [s \in Streams |-> [ids |-> <<>>, parent |-> NoHeader]]
    /\ pipe = [s \in Streams |-> <<>>] /\ buf = [s \in Streams |-> <<>>]
    /\ rpc = [s \in Streams |-> "read"] /\ rmsg = [s \in Streams |-> NoMessage]
    /\ wrote = [s \in Streams |-> <<>>] /\ told = [s \in Streams |-> <<>>]
    /\ torn = {}

Alive == exit = "no" /\ UNCHANGED exit

(* The panic hook ends the process, whoever panics: nothing of it is left, *)
(* and what it sent is not followed any further.                           *)
Panic(cause) ==
    /\ exit = "no" /\ exit' = cause
    /\ asked' = 0 /\ asking' = NoRequest /\ pc' = "recv" /\ hand' = NoMessage
    /\ ctlAsked' = 0 /\ ctlAsking' = NoRequest /\ ctlHand' = NoMessage /\ stop' = FALSE
    /\ counter' = 0 /\ out' = Nothing /\ seen' = {}
    /\ replyTo' = [s \in Streams |-> [ids |-> <<>>, parent |-> NoHeader]]
    /\ pipe' = [s \in Streams |-> <<>>] /\ buf' = [s \in Streams |-> <<>>]
    /\ rpc' = [s \in Streams |-> "read"] /\ rmsg' = [s \in Streams |-> NoMessage]
    /\ wrote' = [s \in Streams |-> <<>>] /\ told' = [s \in Streams |-> <<>>]
    /\ torn' = {}

(* Header::new: the counter is read and advanced in one atomic step. *)
NextIdKept == counter' = counter       \* mutant: the id is not used up
NextId == counter' = counter + 1

Sends(socket, m) == /\ out' = [socket |-> socket, frames |-> Multipart(m)]
                    /\ seen' = seen \cup {m.header.n}

-----------------------------------------------------------------------------
(* The shell task. *)

ShellRecv(r) ==
    LET got == Recv(RequestFrames("shell", asked + 1, r), "shell")
    IN  /\ pc = "recv" /\ asked < MaxRequests
        /\ got.result # "panic"
        /\ asked' = asked + 1
        /\ IF got.result = "ok" THEN asking' = r /\ hand' = got.message /\ pc' = "busy"
                                ELSE UNCHANGED <<asking, hand, pc>>
        /\ Alive
        /\ UNCHANGED <<controlVars, wireVars, replyTo, textVars, readerVars>>

ShellRecvPanics(r) ==
    /\ pc = "recv" /\ asked < MaxRequests
    /\ Recv(RequestFrames("shell", asked + 1, r), "shell").result = "panic"
    /\ Panic("request")

Executing == hand.header.type = "execute_request"


SendBusy ==
    /\ pc = "busy"
    /\ Sends("iopub", Status(hand, counter, "busy")) /\ NextId
    /\ pc' = IF Executing THEN "prepare" ELSE "reply"
    /\ Alive
    /\ UNCHANGED <<asked, asking, hand, controlVars, replyTo, textVars, readerVars>>

(* update_reply on one stream after the other, each under its lock. *)
ReplyToHeaderOnly(s) == [replyTo[s] EXCEPT !.parent = hand.header]  \* mutant
ReplyToHand(s) == [ids |-> hand.ids, parent |-> hand.header]

UpdateReply(s) ==
    /\ pc = "prepare"
    /\ replyTo[s].parent # hand.header
    /\ replyTo' = [replyTo EXCEPT ![s] = ReplyToHand(s)]
    /\ Alive
    /\ UNCHANGED <<shellVars, controlVars, wireVars, textVars, readerVars>>

UpdatedAnyhow == TRUE                  \* mutant: the cell starts before the updates
Updated == \A s \in Streams : replyTo[s].parent = hand.header

StartCell ==
    /\ pc = "prepare" /\ Updated
    /\ pc' = "running"
    /\ Alive
    /\ UNCHANGED <<asked, asking, hand, controlVars, wireVars, replyTo, textVars, readerVars>>

(* The code of a cell writes characters of one or two bytes.  What reaches *)
(* the pipe at once need not end where a character ends: external commands *)
(* write what they like, and the system splits a write the pipe has no     *)
(* room for.                                                               *)
Whole(bytes) == \A i \in DOMAIN bytes :
    /\ bytes[i].part = "lead"  => i < Len(bytes) /\ bytes[i + 1].part = "trail"
    /\ bytes[i].part = "trail" => i > 1 /\ bytes[i - 1].part = "lead"

Writes == {<<"one">>, <<"lead", "trail">>, <<"lead">>, <<"trail">>}

CellWrite(s, parts) ==
    LET text == [i \in DOMAIN parts |-> [cell |-> asked, part |-> parts[i]]]
    IN  /\ pc = "running" /\ Len(wrote[s]) + Len(parts) <= MaxText
        /\ pipe' = [pipe EXCEPT ![s] = @ \o text]
        /\ wrote' = [wrote EXCEPT ![s] = @ \o text]
        /\ torn' = IF Whole(text) THEN torn ELSE torn \cup {s}
        /\ Alive
        /\ UNCHANGED <<shellVars, controlVars, wireVars, replyTo, readerVars>>

(* The cell returns nothing, or something to show. *)
CellEnds(type) ==
    /\ pc = "running"
    /\ IF type = "none" THEN UNCHANGED wireVars
       ELSE Sends("iopub", Output(hand, counter, type, "data")) /\ NextId
    /\ pc' = "reply"
    /\ Alive
    /\ UNCHANGED <<asked, asking, hand, controlVars, replyTo, textVars, readerVars>>

ShellReply ==
    /\ pc = "reply"
    /\ Sends("shell", Reply(hand, counter, "content")) /\ NextId
    /\ pc' = "idle"
    /\ Alive
    /\ UNCHANGED <<asked, asking, hand, controlVars, replyTo, textVars, readerVars>>

SendIdle ==
    /\ pc = "idle"
    /\ Sends("iopub", Status(hand, counter, "idle")) /\ NextId
    /\ pc' = "recv"
    /\ asking' = NoRequest /\ hand' = NoMessage
    /\ Alive
    /\ UNCHANGED <<asked, controlVars, replyTo, textVars, readerVars>>

(* A shutdown: the task returns, and the writing ends of the pipes go with *)
(* the stack it owns.                                                      *)
ShellStops ==
    /\ pc = "recv" /\ stop
    /\ pc' = "done"
    /\ Alive
    /\ UNCHANGED <<asked, asking, hand, controlVars, wireVars, replyTo, textVars, readerVars>>

-----------------------------------------------------------------------------
(* The control task receives with an unwrap of its own, until a shutdown.  *)

ControlRecv(r) ==
    LET got == Recv(RequestFrames("control", ctlAsked + 1, r), "control")
    IN  /\ ctlHand = NoMessage /\ ctlAsked < MaxControl /\ ~stop
        /\ IF got.result = "ok"
           THEN /\ ctlAsked' = ctlAsked + 1 /\ ctlAsking' = r
                /\ ctlHand' = got.message
                /\ stop' = (stop \/ r.type = "shutdown_request")
                /\ Alive
                /\ UNCHANGED <<shellVars, wireVars, replyTo, textVars, readerVars>>
           ELSE Panic("request")

ControlReply ==
    /\ ctlHand # NoMessage
    /\ Sends("control", Reply(ctlHand, counter, "content")) /\ NextId
    /\ ctlAsking' = NoRequest /\ ctlHand' = NoMessage
    /\ Alive
    /\ UNCHANGED <<shellVars, ctlAsked, stop, replyTo, textVars, readerVars>>

-----------------------------------------------------------------------------
(* The reader thread of a stream. *)

(* A read returns what the pipe holds, up to the size of the buffer.       *)
Taken(s) == Min({Len(pipe[s]), BufferSize})

(* A full buffer may not be all there is: the text is kept and read again. *)
AfterReadAlways(n) == "stamp"          \* mutant: every read ends a message
AfterReadNever(n) == "read"            \* mutant: text is read to its end
AfterRead(n) == IF n = BufferSize THEN "read" ELSE "stamp"

ExtendedAnew(s) == SubSeq(pipe[s], 1, Taken(s))   \* mutant: s_buf is overwritten
Extended(s) == buf[s] \o SubSeq(pipe[s], 1, Taken(s))

ReaderRead(s) ==
    /\ rpc[s] = "read" /\ pipe[s] # <<>>
    /\ buf' = [buf EXCEPT ![s] = Extended(s)]
    /\ pipe' = [pipe EXCEPT ![s] = SubSeq(@, Taken(s) + 1, Len(@))]
    /\ rpc' = [rpc EXCEPT ![s] = AfterRead(Taken(s))]
    /\ Alive
    /\ UNCHANGED <<shellVars, controlVars, wireVars, replyTo, wrote, torn, rmsg, told>>

AtEof(s) == rpc[s] = "read" /\ pipe[s] = <<>> /\ pc = "done"

(* Ok(0) after a full buffer: what was kept is sent. *)
ReaderFlush(s) ==
    /\ AtEof(s) /\ buf[s] # <<>>
    /\ rpc' = [rpc EXCEPT ![s] = "stamp"]
    /\ Alive
    /\ UNCHANGED <<shellVars, controlVars, wireVars, replyTo, textVars, buf, rmsg, told>>

ReaderEof(s) == AtEof(s) /\ buf[s] = <<>> /\ Panic("eof")

(* The text is decoded, then the request of the hour is looked up. *)
ReaderStamp(s) ==
    /\ rpc[s] = "stamp" /\ Whole(buf[s])
    /\ rmsg' = [rmsg EXCEPT ![s] = Message(replyTo[s].ids, Header("kernel", counter, "stream"),
                                           replyTo[s].parent, buf[s])]
    /\ buf' = [buf EXCEPT ![s] = <<>>]
    /\ NextId
    /\ rpc' = [rpc EXCEPT ![s] = "send"]
    /\ Alive
    /\ UNCHANGED <<shellVars, controlVars, out, seen, replyTo, textVars, told>>

ReaderDecodePanics(s) == rpc[s] = "stamp" /\ ~Whole(buf[s]) /\ Panic("utf8")

ReaderSend(s) ==
    /\ rpc[s] = "send"
    /\ Sends("iopub", rmsg[s])
    /\ told' = [told EXCEPT ![s] = @ \o rmsg[s].content]
    /\ rmsg' = [rmsg EXCEPT ![s] = NoMessage]
    /\ rpc' = [rpc EXCEPT ![s] = "read"]
    /\ Alive
    /\ UNCHANGED <<shellVars, controlVars, counter, replyTo, textVars, buf>>

-----------------------------------------------------------------------------
ShellRequests == [type : ShellSends, damage : AllDamages]
ControlRequests == [type : ControlSends, damage : AllDamages]

ShellStep == \/ SendBusy \/ \E s \in Streams : UpdateReply(s)
             \/ StartCell \/ \E type \in {"none", "execute_result", "display_data"} : CellEnds(type)
             \/ ShellReply \/ SendIdle \/ ShellStops
ReaderStep(s) == \/ ReaderRead(s) \/ ReaderFlush(s) \/ ReaderEof(s)
                 \/ ReaderStamp(s) \/ ReaderDecodePanics(s) \/ ReaderSend(s)

Next == \/ \E r \in ShellRequests : ShellRecv(r) \/ ShellRecvPanics(r)
        \/ ShellStep
        \/ \E s \in Streams, parts \in Writes : CellWrite(s, parts)
        \/ \E r \in ControlRequests : ControlRecv(r)
        \/ ControlReply
        \/ \E s \in Streams : ReaderStep(s)

Spec == Init /\ [][Next]_vars

(* The operating system runs every thread, and a cell ends; nothing is     *)
(* assumed of the client, nor of what cells write.                         *)
FairSpec == Spec /\ WF_vars(ShellStep) /\ WF_vars(ControlReply)
                 /\ \A s \in Streams : WF_vars(ReaderStep(s))
-----------------------------------------------------------------------------
Parts == {"one", "lead", "trail"}
Bytes == [cell : Nat, part : Parts]
Hops == {"shell", "control", "hop"}
Headers == [maker : {"shell", "nobody"}, n : Nat, type : ShellTypes \cup {"none"}]

(* The values the state takes; a stream knows whom to answer entirely or   *)
(* not at all, and a message waits to be sent only where a reader sends.   *)
TypeOK ==
    /\ exit \in {"no", "request", "utf8", "eof"}
    /\ asked \in Nat /\ asking \in ShellRequests \cup {NoRequest}
    /\ ctlAsked \in Nat /\ ctlAsking \in ControlRequests \cup {NoRequest} /\ stop \in BOOLEAN
    /\ pc \in {"recv", "busy", "prepare", "running", "reply", "idle", "done"}
    /\ counter \in Nat /\ \A n \in seen : n < counter
    /\ \A s \in Streams :
        /\ replyTo[s].ids \in Seq(Hops) /\ replyTo[s].parent \in Headers
        /\ replyTo[s].ids = <<>> <=> replyTo[s].parent = NoHeader
        /\ pipe[s] \in Seq(Bytes) /\ buf[s] \in Seq(Bytes)
        /\ rpc[s] \in {"read", "stamp", "send"}
        /\ rmsg[s] # NoMessage <=> rpc[s] = "send"
    /\ torn \subseteq Streams

(* Every byte a cell has written is broadcast, about to be, read, or still *)
(* in the pipe, once and in order (stream.rs, the loop of the reader).     *)
TextKept == \A s \in Streams : told[s] \o rmsg[s].content \o buf[s] \o pipe[s] = wrote[s]

(* As long as whole characters reach the pipe at once, whole characters    *)
(* are what a reader decodes, wherever the end of its buffer falls.        *)
DecodesWhole == \A s \in Streams \ torn : rpc[s] = "stamp" => Whole(buf[s])

(* Text that has been read waits for more only in full buffers.            *)
Withheld(s) == rpc[s] = "read" /\ buf[s] # <<>>
WithheldFull == \A s \in Streams : Withheld(s) => Len(buf[s]) % BufferSize = 0

(* Late text may be attributed to a later cell, never to an earlier one    *)
(* nor to none.                                                            *)
AttributedLater ==
    out # Nothing =>
        LET m == ReadBack(out.frames)
        IN  m.header.type = "stream" => \A j \in DOMAIN m.content : m.content[j].cell <= m.parent.n

(* Everything the client gets carries a signature over its own frames, has *)
(* a request of the client as its parent, and comes along the route of     *)
(* that same request and, if a reply, through the socket it came by; only  *)
(* statuses go without a route.                                            *)
FramesReadBack ==
    out # Nothing =>
        LET m == ReadBack(out.frames)
        IN  /\ Verifies(out.frames)
            /\ m.parent.maker \in {"shell", "control"}
            /\ out.socket \in {"iopub", m.parent.maker}
            /\ m.ids = IF m.header.type = "status" THEN <<>>
                       ELSE Route(m.parent.maker, m.parent.n)

(* No message goes out under the id of an earlier one, although the shell  *)
(* task, the control task and the readers all make them.                   *)
UniqueIds == [][out' \in {out, Nothing} \/ ReadBack(out'.frames).header.n \notin seen]_vars

(* A request is served only when its frames were complete, and then along  *)
(* its own route: one whose delimiter is missing is never half understood. *)
WellFormedServed ==
    /\ hand # NoMessage =>
         /\ asking.damage \notin {"no_delimiter", "cut", "junk"}
         /\ hand.ids = Route("shell", asked)
    /\ ctlHand # NoMessage =>
         /\ ctlAsking.damage \notin {"no_delimiter", "cut", "junk"}
         /\ ctlHand.ids = Route("control", ctlAsked)

(* Text arrives in the end, unless the process ends or what is missing     *)
(* fills whole buffers and nothing more is written.                        *)
TextArrives ==
    \A s \in Streams :
        []<>(\/ told[s] = wrote[s]
            \/ exit # "no"
            \/ (Withheld(s) /\ pipe[s] = <<>> /\ Len(buf[s]) % BufferSize = 0))
=============================================================================
