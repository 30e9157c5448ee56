-------------------------------- MODULE Wire --------------------------------
(***************************************************************************)
(* Messages as they travel: the frames of a multipart message, how a       *)
(* request is read from them and how a reply or a broadcast is written.    *)
(*                                                                         *)
(*   identities, "<IDS|MSG>", signature, header, parent, metadata, content *)
(*                                                                         *)
(* A frame is tagged with what its bytes are; "junk" is no UTF-8, "other"  *)
(* is UTF-8 but no JSON of the kind asked for.  The fields of a header     *)
(* that nothing depends on (session, user, date, version) are left out.    *)
(***************************************************************************)
EXTENDS Naturals, Sequences, SequencesExt

Frame(tag, val) == [tag |-> tag, val |-> val]
Delimiter == Frame("delimiter", 0)
EmptyObject == Frame("empty", 0)       \* the two bytes of an empty JSON object

(* A header: who made it, its number there, and the type of the message.   *)
Header(maker, n, type) == [maker |-> maker, n |-> n, type |-> type]
NoHeader == Header("nobody", 0, "none")

Message(ids, header, parent, content) ==
    [ids |-> ids, header |-> header, parent |-> parent, content |-> content]
NoMessage == Message(<<>>, NoHeader, NoHeader, <<>>)

-----------------------------------------------------------------------------
(* Reading a request. *)

(* Where the identities end: at the first delimiter, or after the last     *)
(* frame when there is none.                                               *)
DelimiterAtFirst(frames) ==            \* mutant: one identity, come what may
    IF \E i \in DOMAIN frames : frames[i].tag = "delimiter"
    THEN SelectInSeq(frames, LAMBDA f : f.tag = "delimiter") ELSE 1
DelimiterAt(frames) == SelectInSeq(frames \o <<Delimiter>>, LAMBDA f : f.tag = "delimiter")

IdentitiesOf(frames) == [i \in 1..(DelimiterAt(frames) - 1) |-> frames[i].val]
BodyOf(frames) == SubSeq(frames, DelimiterAt(frames) + 1, Len(frames))

(* Five frames of text must follow, with JSON of the right kind in them.   *)
(* Everything is unwrapped: anything else ends the process.  What the      *)
(* signature says is not looked at.                                        *)
Readable(body) ==
    /\ Len(body) >= 5
    /\ \A i \in 1..5 : body[i].tag # "junk"
    /\ body[2].tag = "header"
    /\ body[3].tag \in {"empty", "header"}
    /\ body[4].tag \in {"empty", "header", "content"}

ShellTypes == {"execute_request", "is_complete_request", "kernel_info_request"}
ControlTypes == {"kernel_info_request", "shutdown_request", "interrupt_request"}

(* parse_variant: what becomes of a request of this type with this body.   *)
ParseVariant(source, type, content) ==
    LET known == IF source = "shell" THEN ShellTypes ELSE ControlTypes
        reads == {"execute_request", "is_complete_request", "shutdown_request"}
    IN  CASE type \in known /\ type \in reads /\ content # "good" -> "panic"
          [] type \in known /\ (type \notin reads \/ content = "good") -> "ok"
          [] type \notin known /\ source = "control" /\ type = "debug_request" -> "panic"
          [] OTHER -> "err"

ContentOf(frame) == IF frame.tag = "content" THEN frame.val ELSE "bad"

(* Message::recv: ends the process, fails, or returns the message. *)
Recv(frames, source) ==
    LET body == BodyOf(frames)
        parsed == IF Readable(body)
                  THEN ParseVariant(source, body[2].val.type, ContentOf(body[5]))
                  ELSE "panic"
    IN  [result |-> parsed,
         message |-> IF parsed # "ok" THEN NoMessage
                     ELSE Message(IdentitiesOf(frames), body[2].val,
                                  IF body[3].tag = "empty" THEN NoHeader ELSE body[3].val,
                                  body[5].val)]

-----------------------------------------------------------------------------
(* Writing a message. *)

(* The HMAC runs over these four frames, in this order. *)
Signature(header, parent, metadata, content) ==
    Frame("signature", <<header, parent, metadata, content>>)

ParentFrame(parent) == IF parent = NoHeader THEN EmptyObject ELSE Frame("header", parent)

MultipartUnrouted(m) ==                \* mutant: the identities are left out
    LET header == Frame("header", m.header)
        content == Frame("content", m.content)
    IN  <<Delimiter, Signature(header, ParentFrame(m.parent), EmptyObject, content),
          header, ParentFrame(m.parent), EmptyObject, content>>
Multipart(m) ==
    LET header == Frame("header", m.header)
        parent == ParentFrame(m.parent)
        content == Frame("content", m.content)
    IN  [i \in DOMAIN m.ids |-> Frame("identity", m.ids[i])]
          \o <<Delimiter, Signature(header, parent, EmptyObject, content),
               header, parent, EmptyObject, content>>

(* The types of replies, by the type of the request they answer. *)
ReplyType(request) ==
    CASE request = "kernel_info_request" -> "kernel_info_reply"
      [] request = "execute_request"     -> "execute_reply"
      [] request = "is_complete_request" -> "is_complete_reply"
      [] request = "shutdown_request"    -> "shutdown_reply"
      [] request = "interrupt_request"   -> "interrupt_reply"
      [] request = "debug_request"       -> "debug_reply"

(* A reply goes back along the identities of its request. *)
Reply(request, n, content) ==
    Message(request.ids, Header("kernel", n, ReplyType(request.header.type)),
            request.header, content)

(* So does output, although it is broadcast; a status carries none. *)
Output(request, n, type, content) ==
    Message(request.ids, Header("kernel", n, type), request.header, content)
Status(request, n, state) ==
    Message(<<>>, Header("kernel", n, "status"), request.header, state)

-----------------------------------------------------------------------------
(* What the other end makes of frames it gets, by the protocol.            *)
ReadBack(frames) ==
    LET body == BodyOf(frames)
    IN  Message(IdentitiesOf(frames), body[2].val,
                IF body[3].tag = "empty" THEN NoHeader ELSE body[3].val, body[5].val)
Verifies(frames) ==
    LET body == BodyOf(frames)
    IN  body[1].val = <<body[2], body[3], body[4], body[5]>>
=============================================================================
