--------------------------- MODULE FrontendProofs ---------------------------
(***************************************************************************)
(* Proofs about Kernel: what the client sees is a behaviour of Frontend,   *)
(* and no request is forgotten, for every value of the constants.          *)
(***************************************************************************)
EXTENDS KernelProofs, SequenceTheorems

-----------------------------------------------------------------------------
(* The invariant. *)

(* Everything that was put in the channel and has not been lost with it.   *)
Flow == published \o held \o chan

(* A request of a known type is in hand from its receipt to its idle       *)
(* status; between two requests the shell task is in its select, or gone.  *)
Known(r) == r \in 1..taken /\ asked[r] # "unknown"
Between == {"poll", "recv", "parked", "done"}
Opened(r)   == Known(r) /\ (r = taken => pc["shell"] # "busy")
Replied(r)  == Known(r) /\ (r = taken => pc["shell"] \in Between \cup {"reset", "idle"})
Closed(r)   == Known(r) /\ (r = taken => pc["shell"] \in Between)

(* The shell task is at work on a request of a known type only.            *)
HandInv == Len(asked) <= MaxShell /\ (pc["shell"] \notin Between => Known(taken))

(* Statuses are under way or published for exactly the requests that had   *)
(* them sent, as long as the iopub task has not taken the channel with it. *)
StatusInv == ~IopubGone => \A r \in Nat : /\ Message("busy", r) \in ToSet(Flow) <=> Opened(r)
                                          /\ Message("idle", r) \in ToSet(Flow) <=> Closed(r)

(* Replies are those to the requests that got so far. *)
ReplyInv == \A r \in Nat : r \in ToSet(replies) <=> Replied(r)

(* The iopub task has a message in hand exactly between its two calls.     *)
HeldInv == IF pc["iopub"] = "send" THEN Len(held) = 1 ELSE held = <<>>

(* Text is written while a cell runs, which the streams then answer.       *)
CellLoaded == {"running", "print", "printed", "render"}
StreamInv == \A s \in Streams :
    /\ pc["shell"] \in CellLoaded => hdr[s] = taken
    /\ hdr[s] # 0 => Opened(hdr[s])
    /\ pipe[s] > 0 \/ rpc[s] # "read" => hdr[s] # 0
    /\ rpc[s] = "send" => Opened(rparent[s])

(* The i-th message of a sequence comes where it may come, given those     *)
(* before it and the replies; this says nothing of what follows it.        *)
Earlier(q, i, type, r) == \E j \in 1..(i - 1) : q[j] = Message(type, r)
InPlace(q, i, done) ==
    LET r == q[i].parent
    IN  /\ r \in 1..MaxShell
        /\ q[i].type = "busy" =>
             \A j \in 1..(i - 1) : q[j].type = "busy" =>
                 q[j].parent < r /\ Earlier(q, i, "idle", q[j].parent)
        /\ q[i].type # "busy" => Earlier(q, i, "busy", r)
        /\ q[i].type \in {"output", "idle"} => ~Earlier(q, i, "idle", r)
        /\ q[i].type = "idle" => r \in done

OrderInv == \A i \in 1..Len(Flow) : InPlace(Flow, i, ToSet(replies))

FlowInv == HandInv /\ StatusInv /\ ReplyInv /\ HeldInv /\ StreamInv /\ OrderInv

-----------------------------------------------------------------------------
(* Sequences and sets of messages. *)

LEMMA ToSetAppend ==
    ASSUME NEW S, NEW q \in Seq(S), NEW m \in S
    PROVE  ToSet(Append(q, m)) = ToSet(q) \cup {m}
<1> DEFINE p == Append(q, m)
           n == Len(q)
<1>1. /\ n \in Nat /\ DOMAIN q = 1..n /\ DOMAIN p = 1..n + 1
      /\ \A i \in 1..n : p[i] = q[i]
      /\ p[n + 1] = m
    OBVIOUS
<1> HIDE DEF p, n
<1>2. ToSet(p) \subseteq ToSet(q) \cup {m}
    <2> SUFFICES ASSUME NEW i \in 1..n + 1 PROVE p[i] \in ToSet(q) \cup {m}
        BY <1>1 DEF ToSet
    <2>1. CASE i \in 1..n
        BY <1>1, <2>1 DEF ToSet
    <2>2. CASE i = n + 1
        BY <1>1, <2>2
    <2> QED
        BY <1>1, <2>1, <2>2
<1>3. ToSet(q) \subseteq ToSet(p)
    <2> SUFFICES ASSUME NEW i \in 1..n PROVE q[i] \in ToSet(p)
        BY <1>1 DEF ToSet
    <2>1. i \in 1..n + 1 /\ p[i] = q[i]
        BY <1>1
    <2> QED
        BY <1>1, <2>1 DEF ToSet
<1>4. m \in ToSet(p)
    <2>1. n + 1 \in 1..n + 1
        BY <1>1
    <2> QED
        BY <1>1, <2>1 DEF ToSet
<1> QED
    BY <1>2, <1>3, <1>4 DEF p

LEMMA ToSetMember ==
    ASSUME NEW S, NEW q \in Seq(S), NEW m
    PROVE  m \in ToSet(q) <=> \E j \in 1..Len(q) : q[j] = m
BY DEF ToSet

LEMMA MessageParts ==
    /\ \A type, r : Message(type, r).type = type /\ Message(type, r).parent = r
    /\ \A m \in Messages : m = Message(m.type, m.parent) /\ m.parent \in Nat
    /\ \A type, r, t, q : Message(type, r) = Message(t, q) <=> type = t /\ r = q
<1>1. \A type, r : Message(type, r).type = type /\ Message(type, r).parent = r
    BY DEF Message
<1>2. \A m \in Messages : m = Message(m.type, m.parent) /\ m.parent \in Nat
    BY DEF Message, Messages
<1> QED
    BY <1>1, <1>2

(* Where a message may come depends on what comes before it alone. *)
LEMMA InPlaceKept ==
    ASSUME NEW p, NEW q, NEW i \in Nat \ {0}, NEW D, NEW E,
           \A j \in 1..i : q[j] = p[j], D \subseteq E, InPlace(p, i, D)
    PROVE  InPlace(q, i, E)
<1>1. \A j \in 1..(i - 1) : q[j] = p[j]
    OBVIOUS
<1>2. q[i] = p[i]
    OBVIOUS
<1>3. \A type, r : Earlier(q, i, type, r) <=> Earlier(p, i, type, r)
    BY <1>1 DEF Earlier
<1> QED
    BY <1>1, <1>2, <1>3 DEF InPlace

LEMMA InPlaceNew ==
    ASSUME NEW q \in Seq(Messages), NEW D, NEW r \in 1..MaxShell,
           NEW type \in {"busy", "output", "idle", "stream"},
           type = "busy" => \A k \in Nat : Message("busy", k) \in ToSet(q) =>
                                k < r /\ Message("idle", k) \in ToSet(q),
           type # "busy" => Message("busy", r) \in ToSet(q),
           type \in {"output", "idle"} => Message("idle", r) \notin ToSet(q),
           type = "idle" => r \in D
    PROVE  InPlace(Append(q, Message(type, r)), Len(q) + 1, D)
<1> DEFINE m == Message(type, r)
           p == Append(q, m)
           n == Len(q)
<1>1. m.type = type /\ m.parent = r
    BY MessageParts
<1>2. n \in Nat /\ p[n + 1] = m /\ (\A i \in 1..n : p[i] = q[i] /\ q[i] \in Messages)
    OBVIOUS
<1>3. \A t, k : Message(t, k) \in ToSet(q) <=> \E j \in 1..n : q[j] = Message(t, k)
    BY ToSetMember
<1> HIDE DEF m, p, n
<1>4. 1..((n + 1) - 1) = 1..n
    BY <1>2
<1>5. \A t, k : Earlier(p, n + 1, t, k) <=> Message(t, k) \in ToSet(q)
    BY <1>2, <1>3, <1>4 DEF Earlier
<1>6. ASSUME type = "busy", NEW j \in 1..n, p[j].type = "busy"
      PROVE  p[j].parent < r /\ Earlier(p, n + 1, "idle", p[j].parent)
    <2>1. p[j] = Message("busy", p[j].parent) /\ p[j].parent \in Nat
        BY <1>2, <1>6, MessageParts
    <2>2. Message("busy", p[j].parent) \in ToSet(q)
        BY <1>2, <1>3, <2>1
    <2> QED
        BY <1>5, <1>6, <2>1, <2>2
<1>7. InPlace(p, n + 1, D)
    BY <1>1, <1>2, <1>4, <1>5, <1>6 DEF InPlace
<1> QED
    BY <1>7 DEF p, n, m

-----------------------------------------------------------------------------
(* The flow of messages. *)

LEMMA FlowType ==
    ASSUME ChannelTypeOK
    PROVE  /\ published \o held \in Seq(Messages) /\ Flow \in Seq(Messages)
           /\ Len(Flow) = Len(published \o held) + Len(chan)
           /\ \A i \in 1..Len(published \o held) : Flow[i] = (published \o held)[i]
<1> DEFINE p == published \o held
<1>1. p \in Seq(Messages) /\ chan \in Seq(Messages)
    BY ConcatProperties DEF ChannelTypeOK
<1> HIDE DEF p
<1>2. /\ p \o chan \in Seq(Messages) /\ Len(p \o chan) = Len(p) + Len(chan)
      /\ \A i \in 1..Len(p) : (p \o chan)[i] = p[i]
    BY <1>1, ConcatProperties
<1> QED
    BY <1>1, <1>2 DEF p, Flow

(* What a sender adds goes to the end. *)
LEMMA FlowEnqueue ==
    ASSUME ChannelTypeOK, NEW m \in Messages, chan' = Append(chan, m), UNCHANGED <<held, published>>
    PROVE  Flow' = Append(Flow, m)
<1> DEFINE p == published \o held
<1>1. p \in Seq(Messages) /\ chan \in Seq(Messages)
    BY FlowType DEF ChannelTypeOK
<1> HIDE DEF p
<1>2. p \o Append(chan, m) = Append(p \o chan, m)
    BY <1>1
<1>3. Flow' = p \o Append(chan, m)
    BY DEF Flow, p
<1> QED
    BY <1>2, <1>3 DEF Flow, p

(* The iopub task hands messages on and keeps their order. *)
LEMMA FlowReceive ==
    ASSUME ChannelTypeOK, HeldInv, IopubReceive
    PROVE  Flow' = Flow
<1>1. /\ held = <<>> /\ published' = published
      /\ held' = <<Head(chan)>> /\ chan' = Tail(chan)
      /\ chan \in Seq(Messages) /\ chan # <<>> /\ published \in Seq(Messages)
    BY DEF IopubReceive, HeldInv, ChannelTypeOK
<1>2. published \o <<>> = published
    BY <1>1
<1>3. Head(chan) \in Messages /\ Tail(chan) \in Seq(Messages)
      /\ <<Head(chan)>> \in Seq(Messages) /\ <<Head(chan)>> \o Tail(chan) = chan
    BY <1>1
<1>4. \A a, b, c \in Seq(Messages) : (a \o b) \o c = a \o (b \o c)
    BY ConcatAssociative
<1>5. published \o <<Head(chan)>> \o Tail(chan) = published \o chan
    BY <1>1, <1>3, <1>4
<1> QED
    BY <1>1, <1>2, <1>5 DEF Flow

LEMMA FlowPublish ==
    ASSUME ChannelTypeOK, IopubPublish
    PROVE  Flow' = Flow
<1>1. /\ published' = published \o held /\ held' = <<>> /\ chan' = chan
      /\ published \o held \in Seq(Messages)
    BY FlowType DEF IopubPublish
<1>2. (published \o held) \o <<>> = published \o held
    BY <1>1
<1> QED
    BY <1>1, <1>2 DEF Flow

LEMMA FlowUnchanged ==
    UNCHANGED chanVars => Flow' = Flow
BY DEF chanVars, Flow

-----------------------------------------------------------------------------
(* Steps that change no request's standing. *)

Standing == /\ taken' = taken
            /\ \A r \in 1..taken : asked'[r] = asked[r]
            /\ Len(asked') <= MaxShell
            /\ pc'["shell"] = "busy" <=> pc["shell"] = "busy"
            /\ pc'["shell"] \in {"reset", "idle"} <=> pc["shell"] \in {"reset", "idle"}
            /\ pc'["shell"] \in Between <=> pc["shell"] \in Between

LEMMA StandingKept ==
    ASSUME Standing
    PROVE  \A r : /\ Opened(r)' <=> Opened(r)
                  /\ Replied(r)' <=> Replied(r)
                  /\ Closed(r)' <=> Closed(r)
                  /\ Known(r)' <=> Known(r)
BY DEF Standing, Opened, Replied, Closed, Known

LEMMA StreamKept ==
    ASSUME TypeOK, StreamInv, Standing, UNCHANGED <<pipe, readVars>>,
           pc'["shell"] \in CellLoaded => pc["shell"] \in CellLoaded
    PROVE  StreamInv'
<1>1. \A r : Opened(r)' <=> Opened(r)
    BY StandingKept
<1>2. UNCHANGED <<pipe, hdr, rpc, rparent>>
    BY DEF readVars
<1> QED
    BY <1>1, <1>2 DEF StreamInv, Standing

LEMMA HeldKept ==
    ASSUME HeldInv, held' = held, pc'["iopub"] = "send" <=> pc["iopub"] = "send"
    PROVE  HeldInv'
BY DEF HeldInv

LEMMA OrderKept ==
    ASSUME ChannelTypeOK, OrderInv, Flow' = Flow, ToSet(replies) \subseteq ToSet(replies')
    PROVE  OrderInv'
<1>1. Len(Flow) \in Nat
    BY FlowType
<1>2. \A i \in 1..Len(Flow) : i \in Nat \ {0} /\ (\A j \in 1..i : Flow[j] = Flow[j])
    BY <1>1
<1>3. \A i \in 1..Len(Flow) : InPlace(Flow, i, ToSet(replies'))
    BY <1>2, InPlaceKept DEF OrderInv
<1>4. Len(Flow') = Len(Flow)
    OBVIOUS
<1> QED
    BY <1>3 DEF OrderInv

LEMMA FlowKept ==
    ASSUME TypeOK, FlowInv, Standing, Flow' = Flow, replies' = replies,
           IopubGone => IopubGone', HeldInv', StreamInv'
    PROVE  FlowInv'
<1>1. \A r : /\ Opened(r)' <=> Opened(r)
             /\ Replied(r)' <=> Replied(r)
             /\ Closed(r)' <=> Closed(r)
             /\ Known(r)' <=> Known(r)
    BY StandingKept
<1>2. HandInv'
    BY <1>1 DEF FlowInv, HandInv, Standing
<1>3. StatusInv'
    BY <1>1 DEF FlowInv, StatusInv
<1>4. ReplyInv'
    BY <1>1 DEF FlowInv, ReplyInv
<1>5. OrderInv'
    BY OrderKept DEF FlowInv, TypeOK
<1> QED
    BY <1>2, <1>3, <1>4, <1>5 DEF FlowInv

(* A step that leaves the channel, the streams and the shell task alone.   *)
LEMMA FlowAside ==
    ASSUME TypeOK, FlowInv, UNCHANGED <<taken, asked, replies, outVars>>,
           pc'["shell"] = pc["shell"], pc'["iopub"] = pc["iopub"]
    PROVE  FlowInv'
<1>1. Standing
    BY DEF Standing, FlowInv, HandInv
<1>2. UNCHANGED <<chanVars, pipe, readVars, held>>
    BY DEF outVars, chanVars
<1>3. HeldInv' /\ StreamInv' /\ Flow' = Flow
    BY <1>1, <1>2, HeldKept, StreamKept, FlowUnchanged DEF FlowInv
<1> QED
    BY <1>1, <1>3, FlowKept DEF IopubGone

(* A move of the shell task that changes the standing of no request.       *)
LEMMA FlowMove ==
    ASSUME TypeOK, FlowInv, NEW l, Goto("shell", l), UNCHANGED <<asked, taken, replies, chanVars>>,
           l = "busy" <=> pc["shell"] = "busy",
           l \in {"reset", "idle"} <=> pc["shell"] \in {"reset", "idle"},
           l \in Between <=> pc["shell"] \in Between,
           StreamInv' \/ (UNCHANGED <<pipe, readVars>> /\ (l \in CellLoaded => pc["shell"] \in CellLoaded))
    PROVE  FlowInv'
<1>1. pc'["shell"] = l /\ pc'["iopub"] = pc["iopub"]
    BY GotoAt, TaskNames
<1>2. Standing
    BY <1>1 DEF Standing, FlowInv, HandInv
<1>3. HeldInv' /\ StreamInv' /\ Flow' = Flow
    BY <1>1, <1>2, HeldKept, StreamKept, FlowUnchanged DEF FlowInv, chanVars
<1> QED
    BY <1>1, <1>2, <1>3, FlowKept DEF IopubGone

LEMMA FlowDie ==
    ASSUME TypeOK, FlowInv, NEW c, Die(c)
    PROVE  FlowInv'
BY FlowAside DEF Die, shellVars, clientVars

-----------------------------------------------------------------------------
(* The invariant holds at first, and every action keeps it. *)

LEMMA FlowInit == Init => FlowInv
<1> SUFFICES ASSUME Init PROVE FlowInv
    OBVIOUS
<1>1. /\ pc["shell"] = "poll" /\ pc["iopub"] = "poll"
      /\ taken = 0 /\ asked = <<>> /\ replies = <<>>
      /\ published = <<>> /\ held = <<>> /\ chan = <<>>
    BY TaskNames DEF Init
<1>2. Flow = <<>>
    BY <1>1 DEF Flow
<1>3. /\ \A m : m \notin ToSet(Flow)
      /\ \A r : r \notin ToSet(replies)
    BY <1>1, <1>2 DEF ToSet
<1>4. \A r : ~Known(r)
    BY <1>1 DEF Known
<1>5. HandInv
    BY <1>1, BoundAssumption DEF HandInv, Between
<1>6. StatusInv /\ ReplyInv
    BY <1>3, <1>4 DEF StatusInv, ReplyInv, Opened, Closed, Replied
<1>7. HeldInv
    BY <1>1 DEF HeldInv
<1>8. StreamInv
    BY <1>1 DEF Init, StreamInv, CellLoaded
<1>9. OrderInv
    BY <1>2 DEF OrderInv
<1> QED
    BY <1>5, <1>6, <1>7, <1>8, <1>9 DEF FlowInv

LEMMA FlowClient ==
    ASSUME TypeOK, FlowInv, ClientStep
    PROVE  FlowInv'
<1>1. ASSUME NEW k \in ShellKinds, ClientShell(k) PROVE FlowInv'
    <2>1. /\ Len(asked') = Len(asked) + 1 /\ Len(asked) \in Nat /\ Len(asked) < MaxShell
          /\ taken \in 0..Len(asked)
          /\ \A r \in 1..Len(asked) : asked'[r] = asked[r]
        BY <1>1 DEF ClientShell, TypeOK, ClientTypeOK, ShellTypeOK
    <2>2. Standing
        BY <1>1, <2>1, BoundAssumption DEF ClientShell, Standing, shellVars
    <2>3. UNCHANGED <<chanVars, pipe, readVars, held, replies>> /\ pc' = pc
        BY <1>1 DEF ClientShell, outVars, chanVars, shellVars
    <2>4. HeldInv' /\ StreamInv' /\ Flow' = Flow
        BY <2>2, <2>3, HeldKept, StreamKept, FlowUnchanged DEF FlowInv
    <2> QED
        BY <2>2, <2>3, <2>4, FlowKept DEF IopubGone
<1>2. CASE (\E k \in ControlKinds : ClientControl(k)) \/ ClientPing \/ ClientLeaves
    BY <1>2, FlowAside DEF ClientControl, ClientPing, ClientLeaves, shellVars
<1> QED
    BY <1>1, <1>2 DEF ClientStep

(* The iopub task leaves, and what was in the channel is lost. *)
LEMMA FlowIopubStops ==
    ASSUME TypeOK, FlowInv, ObeyStop("iopub")
    PROVE  FlowInv'
<1>1. /\ pc'["iopub"] = "done" /\ pc'["shell"] = pc["shell"]
      /\ pc["iopub"] = "poll"
      /\ chan' = <<>> /\ UNCHANGED <<published, held, asked, taken, replies, pipe, readVars>>
    BY GotoAt, TaskNames DEF ObeyStop, shellVars, clientVars
<1>2. Standing
    BY <1>1 DEF Standing, FlowInv, HandInv
<1>3. HeldInv' /\ StreamInv'
    BY <1>1, <1>2, HeldKept, StreamKept DEF FlowInv
<1>4. \A r : Opened(r)' <=> Opened(r) /\ (Replied(r)' <=> Replied(r)) /\ (Known(r)' <=> Known(r))
    BY <1>2, StandingKept
<1>5. HandInv' /\ ReplyInv' /\ StatusInv'
    BY <1>1, <1>2, StandingKept DEF FlowInv, HandInv, ReplyInv, StatusInv, IopubGone, Standing
<1>6. OrderInv'
    <2> DEFINE p == published \o held
    <2>1. /\ p \in Seq(Messages) /\ Len(p) \in Nat /\ Len(chan) \in Nat
          /\ Len(Flow) = Len(p) + Len(chan) /\ \A i \in 1..Len(p) : Flow[i] = p[i]
        BY FlowType, LenProperties DEF TypeOK, ChannelTypeOK
    <2>2. Flow' = p
        <3>1. Flow' = p \o <<>>
            BY <1>1 DEF Flow
        <3> HIDE DEF p
        <3> QED
            BY <2>1, <3>1
    <2> HIDE DEF p
    <2>3. ASSUME NEW i \in 1..Len(p) PROVE InPlace(p, i, ToSet(replies))
        <3>1. i \in Nat \ {0} /\ i \in 1..Len(Flow) /\ \A j \in 1..i : p[j] = Flow[j]
            BY <2>1
        <3> QED
            BY <3>1, InPlaceKept DEF FlowInv, OrderInv
    <2> QED
        BY <1>1, <2>2, <2>3 DEF OrderInv
<1> QED
    BY <1>3, <1>5, <1>6 DEF FlowInv

LEMMA FlowSelect ==
    ASSUME TypeOK, FlowInv, NEW t \in Receivers, SelectStep(t)
    PROVE  FlowInv'
<1>1. t \in Tasks
    BY TaskNames
<1>2. ASSUME NEW l \in Between, Goto(t, l), pc[t] \in Between, UNCHANGED <<taken, asked, replies, outVars>>,
             t = "iopub" => l # "done" /\ pc[t] # "done"
      PROVE  FlowInv'
    <2>1. \A u \in Tasks : pc'[u] = IF u = t THEN l ELSE pc[u]
        BY <1>1, <1>2, GotoAt
    <2>2. Standing
        BY <1>1, <1>2, <2>1, TaskNames DEF Standing, FlowInv, HandInv, Between
    <2>3. UNCHANGED <<chanVars, pipe, readVars, held>>
        BY <1>2 DEF outVars, chanVars
    <2>4. HeldInv' /\ StreamInv' /\ Flow' = Flow
        BY <1>2, <2>1, <2>2, <2>3, HeldKept, StreamKept, FlowUnchanged, TaskNames
        DEF FlowInv, CellLoaded, Between
    <2> QED
        BY <1>2, <2>1, <2>2, <2>4, FlowKept, TaskNames DEF IopubGone
<1>3. CASE ObeyRestart(t)
    BY <1>3, FlowAside DEF ObeyRestart, clientVars
<1>4. CASE ObeyStop(t)
    <2>1. CASE t = "iopub"
        BY <1>4, <2>1, FlowIopubStops
    <2>2. CASE t # "iopub"
        BY <1>2, <1>4, <2>2 DEF ObeyStop, Between, shellVars, clientVars, outVars, chanVars
    <2> QED
        BY <2>1, <2>2
<1>5. CASE NothingBroadcast(t) \/ Park(t) \/ Wake(t)
    BY <1>2, <1>5 DEF NothingBroadcast, Park, Wake, OnlyPc, Between, shellVars, clientVars
<1> QED
    BY <1>3, <1>4, <1>5 DEF SelectStep

LEMMA FlowIopub ==
    ASSUME TypeOK, FlowInv, IopubStep
    PROVE  FlowInv'
<1>1. CASE IopubReceive \/ IopubPublish
    <2>1. Flow' = Flow
        BY <1>1, FlowReceive, FlowPublish DEF TypeOK, FlowInv
    <2>2. /\ pc'["iopub"] \in {"send", "poll"} /\ pc'["shell"] = pc["shell"] /\ pc["iopub"] # "done"
          /\ UNCHANGED <<asked, taken, replies, pipe, readVars>>
        BY <1>1, GotoAt, TaskNames DEF IopubReceive, IopubPublish, shellVars, clientVars
    <2>3. HeldInv'
        BY <1>1, GotoAt, TaskNames DEF IopubReceive, IopubPublish, HeldInv
    <2>4. Standing
        BY <2>2 DEF Standing, FlowInv, HandInv
    <2>5. StreamInv'
        BY <2>2, <2>4, StreamKept DEF FlowInv
    <2> QED
        BY <2>1, <2>2, <2>3, <2>4, <2>5, FlowKept DEF IopubGone
<1>2. CASE IopubPublishFails
    BY <1>2, FlowDie DEF IopubPublishFails
<1> QED
    BY <1>1, <1>2, FlowSelect, TaskNames DEF IopubStep

LEMMA FlowHeartbeat ==
    ASSUME TypeOK, FlowInv, HeartbeatStep
    PROVE  FlowInv'
<1>1. CASE HeartbeatEcho /\ "heartbeat" \in Receivers
    <2>1. pc'["shell"] = pc["shell"] /\ pc'["iopub"] = pc["iopub"]
        BY <1>1, GotoAt, TaskNames DEF HeartbeatEcho
    <2> QED
        BY <1>1, <2>1, FlowAside DEF HeartbeatEcho, shellVars, clientVars
<1>2. CASE HeartbeatFails
    BY <1>2, FlowDie DEF HeartbeatFails
<1> QED
    BY <1>1, <1>2, FlowSelect, TaskNames DEF HeartbeatStep

LEMMA FlowControl ==
    ASSUME TypeOK, FlowInv, ControlStep
    PROVE  FlowInv'
<1>1. ASSUME NEW l, Goto("control", l), UNCHANGED <<taken, asked, replies, outVars>> PROVE FlowInv'
    <2>1. pc'["shell"] = pc["shell"] /\ pc'["iopub"] = pc["iopub"]
        BY <1>1, GotoAt, TaskNames
    <2> QED
        BY <1>1, <2>1, FlowAside
<1>2. CASE ControlInfo \/ (\E k \in {"stop", "restart"} : ControlShutdown(k)) \/ ControlInterrupt
    BY <1>1, <1>2 DEF ControlInfo, ControlShutdown, ControlInterrupt, ControlTake, shellVars, clientVars
<1>3. CASE InterruptSeen \/ ControlReply
    BY <1>1, <1>3 DEF InterruptSeen, ControlReply, OnlyPc, shellVars, clientVars
<1>4. CASE ControlReplyFails \/ ControlUnsupported
    BY <1>4, FlowDie DEF ControlReplyFails, ControlUnsupported
<1> QED
    BY <1>2, <1>3, <1>4 DEF ControlStep

-----------------------------------------------------------------------------
(* The shell task and the code of a cell. *)

LEMMA FlowTake ==
    ASSUME TypeOK, FlowInv, ShellTake
    PROVE  FlowInv'
<1>1. /\ taken \in Nat /\ taken' = taken + 1 /\ taken' \in 1..Len(asked) /\ asked' = asked
      /\ pc["shell"] = "recv"
      /\ pc'["shell"] = (IF asked[taken'] = "unknown" THEN "poll" ELSE "busy")
      /\ pc'["iopub"] = pc["iopub"]
      /\ UNCHANGED <<replies, pipe, readVars, chanVars, held, hdr>>
    BY GotoAt, TaskNames
    DEF ShellTake, SourceReady, AfterTake, TypeOK, ClientTypeOK, ShellTypeOK, clientVars, outVars, chanVars, readVars
<1>2. \A r \in Nat : /\ Opened(r)' <=> Opened(r)
                     /\ Replied(r)' <=> Replied(r)
                     /\ Closed(r)' <=> Closed(r)
    BY <1>1 DEF Opened, Replied, Closed, Known, Between
<1>3. Flow' = Flow /\ HeldInv'
    BY <1>1, FlowUnchanged, HeldKept DEF FlowInv
<1>4. HandInv'
    BY <1>1 DEF FlowInv, HandInv, Known, Between
<1>5. StatusInv' /\ ReplyInv'
    BY <1>1, <1>2, <1>3 DEF FlowInv, StatusInv, ReplyInv, IopubGone
<1>6. StreamInv'
    <2>1. \A s \in Streams : hdr[s] \in Nat /\ rparent[s] \in Nat
        BY DEF TypeOK, StreamTypeOK
    <2>2. UNCHANGED <<hdr, rpc, rparent>>
        BY <1>1 DEF readVars
    <2> QED
        BY <1>1, <1>2, <2>1, <2>2 DEF FlowInv, StreamInv, CellLoaded
<1>7. OrderInv'
    BY <1>1, <1>3, OrderKept DEF FlowInv, TypeOK
<1> QED
    BY <1>3, <1>4, <1>5, <1>6, <1>7 DEF FlowInv

LEMMA FlowPrepare ==
    ASSUME TypeOK, FlowInv, PrepareCell
    PROVE  FlowInv'
<1>1. /\ pc["shell"] = "prepare" /\ Goto("shell", "running") /\ pc'["shell"] = "running"
      /\ UNCHANGED <<asked, taken, replies, chanVars, pipe, rpc, rparent>>
      /\ \A s \in Streams : hdr'[s] = taken
    BY GotoAt, TaskNames DEF PrepareCell, clientVars, shellVars
<1>2. Known(taken) /\ Opened(taken) /\ Opened(taken)' /\ taken \in Nat \ {0}
    BY <1>1 DEF FlowInv, HandInv, Opened, Known, Between, TypeOK, ShellTypeOK
<1>3. Standing
    BY <1>1 DEF Standing, FlowInv, HandInv, Between
<1>4. StreamInv'
    BY <1>1, <1>2, <1>3, StandingKept DEF FlowInv, StreamInv
<1> QED
    BY <1>1, <1>4, FlowMove DEF Between

LEMMA FlowReply ==
    ASSUME TypeOK, FlowInv, ShellReply
    PROVE  FlowInv'
<1>1. /\ pc["shell"] = "reply" /\ pc'["shell"] \in {"reset", "idle"} /\ pc'["iopub"] = pc["iopub"]
      /\ replies' = Append(replies, taken) /\ replies \in Seq(Nat) /\ taken \in Nat
      /\ UNCHANGED <<asked, taken, chanVars, pipe, readVars, held>>
    BY GotoAt, TaskNames
    DEF ShellReply, AfterReply, clientVars, outVars, chanVars, TypeOK, ShellTypeOK
<1>2. ToSet(replies') = ToSet(replies) \cup {taken}
    BY <1>1, ToSetAppend
<1>3. Known(taken)
    BY <1>1 DEF FlowInv, HandInv, Between
<1>4. \A r \in Nat : /\ Opened(r)' <=> Opened(r)
                     /\ Closed(r)' <=> Closed(r)
                     /\ Replied(r)' <=> Replied(r) \/ r = taken
    BY <1>1, <1>3 DEF Opened, Replied, Closed, Known, Between
<1>5. Flow' = Flow /\ HeldInv'
    BY <1>1, FlowUnchanged, HeldKept DEF FlowInv
<1>6. HandInv' /\ StatusInv' /\ ReplyInv'
    BY <1>1, <1>2, <1>3, <1>4, <1>5
    DEF FlowInv, HandInv, StatusInv, ReplyInv, IopubGone, Known
<1>7. StreamInv'
    <2>1. \A s \in Streams : hdr[s] \in Nat /\ rparent[s] \in Nat
        BY DEF TypeOK, StreamTypeOK
    <2>2. UNCHANGED <<hdr, rpc, rparent>>
        BY <1>1 DEF readVars
    <2> QED
        BY <1>1, <1>4, <2>1, <2>2 DEF FlowInv, StreamInv, CellLoaded
<1>8. OrderInv'
    BY <1>2, <1>5, OrderKept DEF FlowInv, TypeOK
<1> QED
    BY <1>5, <1>6, <1>7, <1>8 DEF FlowInv

(* What the shell task and the cell's own code do without the channel.     *)
LEMMA FlowWork ==
    ASSUME TypeOK, FlowInv, ShellWork \/ CellStep
    PROVE  FlowInv'
<1> USE TaskNames DEF Between, CellLoaded
<1>1. CASE SelectStep("shell") \/ ShellTake \/ PrepareCell \/ ShellReply
    BY <1>1, FlowSelect, FlowTake, FlowPrepare, FlowReply
<1>2. ASSUME NEW o \in {"error", "nothing", "value", "stream"}, FinishCell(o)
      PROVE  FlowInv'
    <2>1. /\ pc["shell"] = "running" /\ Goto("shell", AfterCell(o))
          /\ AfterCell(o) \in {"render", "output", "reply"}
          /\ UNCHANGED <<asked, taken, replies, chanVars, pipe, readVars>>
        BY <1>2 DEF FinishCell, AfterCell, clientVars, outVars
    <2> QED
        BY <2>1, FlowMove
<1>3. CASE RenderResult \/ RenderPrinted \/ LazyDisplay \/ CellPrint \/ ResetSignals
    BY <1>3, FlowMove
    DEF RenderResult, RenderPrinted, LazyDisplay, CellPrint, ResetSignals, OnlyPc, clientVars,
        shellVars, outVars
<1>4. ASSUME NEW s \in Streams, CellWrite(s) PROVE FlowInv'
    <2>1. /\ pc["shell"] \in {"running", "print", "render"} /\ pc' = pc
          /\ pipe' = [pipe EXCEPT ![s] = @ + 1] /\ pipe \in [Streams -> 0..MaxPipe]
          /\ UNCHANGED <<asked, taken, replies, chanVars, held, readVars>>
        BY <1>4 DEF CellWrite, CellActive, clientVars, chanVars, TypeOK, StreamTypeOK
    <2>2. Standing
        BY <2>1 DEF Standing, FlowInv, HandInv
    <2>3. Known(taken) /\ taken # 0
        BY <2>1 DEF FlowInv, HandInv, Known
    <2>4. StreamInv'
        BY <2>1, <2>2, <2>3, StandingKept DEF FlowInv, StreamInv, readVars
    <2>5. HeldInv' /\ Flow' = Flow
        BY <2>1, HeldKept, FlowUnchanged DEF FlowInv
    <2> QED
        BY <2>1, <2>2, <2>4, <2>5, FlowKept DEF IopubGone
<1>5. CASE RenderFails \/ RenderInterrupted \/ ShellReplyFails \/ ShellSendFails \/ LazyPrint
    BY <1>5, FlowDie DEF RenderFails, RenderInterrupted, ShellReplyFails, ShellSendFails, LazyPrint
<1> QED
    BY <1>1, <1>2, <1>3, <1>4, <1>5 DEF ShellWork, CellStep

-----------------------------------------------------------------------------
(* What is sent on the channel. *)

(* A message may be sent if it may come after all that was sent before. *)
MaySend(type, r) ==
    /\ type \in {"busy", "output", "idle", "stream"} /\ r \in 1..MaxShell
    /\ type = "busy" => \A k \in Nat : Message("busy", k) \in ToSet(Flow) =>
                            k < r /\ Message("idle", k) \in ToSet(Flow)
    /\ type # "busy" => Message("busy", r) \in ToSet(Flow)
    /\ type \in {"output", "idle"} => Message("idle", r) \notin ToSet(Flow)
    /\ type = "idle" => r \in ToSet(replies)

LEMMA FlowSent ==
    ASSUME TypeOK, FlowInv, NEW type, NEW r, MaySend(type, r),
           Enqueue(Message(type, r)), UNCHANGED <<held, published, replies>>
    PROVE  OrderInv' /\ ToSet(Flow') = ToSet(Flow) \cup {Message(type, r)}
<1> DEFINE m == Message(type, r)
<1>1. m \in Messages /\ r \in 1..MaxShell
    BY BoundAssumption DEF MaySend, Message, Messages
<1>2. Flow' = Append(Flow, m) /\ Flow \in Seq(Messages) /\ Len(Flow) \in Nat
    BY <1>1, FlowEnqueue, FlowType, LenProperties DEF TypeOK, Enqueue
<1>3. ToSet(Flow') = ToSet(Flow) \cup {m}
    BY <1>1, <1>2, ToSetAppend
<1>4. InPlace(Append(Flow, m), Len(Flow) + 1, ToSet(replies))
    BY <1>2, InPlaceNew DEF MaySend
<1>5. /\ Len(Append(Flow, m)) = Len(Flow) + 1
      /\ \A i \in 1..Len(Flow) : Append(Flow, m)[i] = Flow[i]
    BY <1>1, <1>2
<1> HIDE DEF m
<1>6. ASSUME NEW i \in 1..Len(Flow) PROVE InPlace(Append(Flow, m), i, ToSet(replies))
    <2>1. i \in Nat \ {0} /\ \A j \in 1..i : Append(Flow, m)[j] = Flow[j]
        BY <1>2, <1>5
    <2> QED
        BY <2>1, InPlaceKept DEF FlowInv, OrderInv
<1>7. \A i \in 1..Len(Flow) + 1 : InPlace(Append(Flow, m), i, ToSet(replies))
    BY <1>2, <1>4, <1>6
<1>8. OrderInv'
    BY <1>2, <1>5, <1>7 DEF OrderInv
<1> QED
    BY <1>3, <1>8 DEF m

(* Where the shell task sends a message from, which, and where it goes on. *)
Sending(label, type, next) ==
    \/ label = "busy"   /\ type = "busy"   /\ next \in {"prepare", "reply"}
    \/ label = "printed" /\ type = "output" /\ next = "running"
    \/ label = "output" /\ type = "output" /\ next = "reply"
    \/ label = "idle"   /\ type = "idle"   /\ next = "poll"

LEMMA FlowShellSend ==
    ASSUME TypeOK, FlowInv, NEW label, NEW type, NEW next,
           Sending(label, type, next), ShellSend(label, type, next)
    PROVE  FlowInv'
<1>0. /\ label \in {"busy", "printed", "output", "idle"} /\ type \in {"busy", "output", "idle"}
      /\ type = "busy"   => label = "busy" /\ next \in {"prepare", "reply"}
      /\ type = "output" => (label = "printed" /\ next = "running") \/ (label = "output" /\ next = "reply")
      /\ type = "idle"   => label = "idle" /\ next = "poll"
    BY DEF Sending
<1>1. /\ pc["shell"] = label /\ pc'["shell"] = next /\ pc'["iopub"] = pc["iopub"] /\ ~IopubGone
      /\ Enqueue(Message(type, taken)) /\ taken \in Nat
      /\ UNCHANGED <<asked, taken, replies, held, published, pipe, hdr, rpc, rparent>>
    BY <1>0, GotoAt, TaskNames
    DEF ShellSend, Enqueue, HasRoom, clientVars, readVars, TypeOK, ShellTypeOK
<1>2. Known(taken) /\ taken \in 1..MaxShell /\ Len(asked) <= MaxShell
    <2>1. Known(taken) /\ Len(asked) <= MaxShell
        BY <1>0, <1>1 DEF FlowInv, HandInv, Between
    <2>2. taken <= Len(asked) /\ Len(asked) \in Nat /\ MaxShell \in Nat
        BY BoundAssumption DEF TypeOK, ClientTypeOK, ShellTypeOK
    <2> QED
        BY <1>1, <2>1, <2>2 DEF Known
<1>3. \A r \in Nat : /\ Message("busy", r) \in ToSet(Flow) <=> Opened(r)
                     /\ Message("idle", r) \in ToSet(Flow) <=> Closed(r)
                     /\ r \in ToSet(replies) <=> Replied(r)
    BY <1>0, <1>1 DEF FlowInv, StatusInv, ReplyInv
<1>4. MaySend(type, taken)
    <2>1. CASE type = "busy"
        BY <1>0, <1>1, <1>2, <1>3, <2>1 DEF MaySend, Opened, Closed, Known
    <2>2. CASE type # "busy"
        BY <1>0, <1>1, <1>2, <1>3, <2>2 DEF MaySend, Opened, Closed, Replied, Between
    <2> QED
        BY <2>1, <2>2
<1>5. OrderInv' /\ ToSet(Flow') = ToSet(Flow) \cup {Message(type, taken)}
    BY <1>0, <1>1, <1>4, FlowSent
<1>6. \A r \in Nat : /\ Opened(r)' <=> Opened(r) \/ (type = "busy" /\ r = taken)
                     /\ Closed(r)' <=> Closed(r) \/ (type = "idle" /\ r = taken)
                     /\ Replied(r)' <=> Replied(r)
    BY <1>0, <1>1, <1>2 DEF Opened, Closed, Replied, Known, Between
<1>7. StatusInv'
    BY <1>3, <1>5, <1>6, MessageParts DEF StatusInv
<1>8. ReplyInv' /\ HandInv' /\ HeldInv'
    <2>1. ReplyInv'
        BY <1>0, <1>1, <1>3, <1>6 DEF ReplyInv
    <2>2. Known(taken)'
        BY <1>0, <1>1, <1>2 DEF Known
    <2>3. HandInv'
        BY <1>0, <1>1, <1>2, <2>2 DEF HandInv
    <2>4. HeldInv'
        BY <1>0, <1>1, HeldKept DEF FlowInv
    <2> QED
        BY <2>1, <2>3, <2>4
<1>9. StreamInv'
    <2>1. \A s \in Streams : hdr[s] \in Nat /\ rparent[s] \in Nat
        BY DEF TypeOK, StreamTypeOK
    <2>2. next \in CellLoaded => label \in CellLoaded
        BY <1>0 DEF CellLoaded
    <2> QED
        BY <1>0, <1>1, <1>6, <2>1, <2>2 DEF FlowInv, StreamInv
<1> QED
    BY <1>5, <1>7, <1>8, <1>9 DEF FlowInv

LEMMA FlowShellSends ==
    ASSUME TypeOK, FlowInv, ShellSends
    PROVE  FlowInv'
<1>1. PICK label, type, next : Sending(label, type, next) /\ ShellSend(label, type, next)
    <2>1. CASE SendBusy
        <3> DEFINE next == IF Executing THEN "prepare" ELSE "reply"
        <3>1. ShellSend("busy", "busy", next) /\ Sending("busy", "busy", next)
            BY <2>1 DEF SendBusy, Sending
        <3> QED
            BY <3>1
    <2>2. CASE SendPrinted
        <3>1. ShellSend("printed", "output", "running") /\ Sending("printed", "output", "running")
            BY <2>2 DEF SendPrinted, Sending
        <3> QED
            BY <3>1
    <2>3. CASE SendOutput
        <3>1. ShellSend("output", "output", "reply") /\ Sending("output", "output", "reply")
            BY <2>3 DEF SendOutput, Sending
        <3> QED
            BY <3>1
    <2>4. CASE SendIdle
        <3>1. ShellSend("idle", "idle", "poll") /\ Sending("idle", "idle", "poll")
            BY <2>4 DEF SendIdle, Sending
        <3> QED
            BY <3>1
    <2> QED
        BY <2>1, <2>2, <2>3, <2>4 DEF ShellSends
<1> QED
    BY <1>1, FlowShellSend

LEMMA FlowReader ==
    ASSUME TypeOK, FlowInv, NEW s \in Streams, ReaderWork(s) \/ ReaderSend(s)
    PROVE  FlowInv'
<1>0. /\ pipe \in [Streams -> 0..MaxPipe] /\ hdr \in [Streams -> Nat] /\ rparent \in [Streams -> Nat]
      /\ rpc \in [Streams -> {"read", "stamp", "send"}] /\ MaxPipe \in Nat
    BY BoundAssumption DEF TypeOK, StreamTypeOK
<1>1. CASE ReaderRead(s) \/ ReaderStamp(s)
    <2>1. /\ pc' = pc /\ UNCHANGED <<asked, taken, replies, chanVars, held, hdr>>
        BY <1>1 DEF ReaderRead, ReaderStamp, shellVars, clientVars, chanVars
    <2>2. Standing
        BY <2>1 DEF Standing, FlowInv, HandInv
    <2>3. \A r : Opened(r)' <=> Opened(r)
        BY <2>2, StandingKept
    <2>4. ASSUME ReaderRead(s) PROVE StreamInv'
        <3>1. PICK n \in 1..pipe[s] : pipe' = [pipe EXCEPT ![s] = @ - n]
            BY <2>4 DEF ReaderRead
        <3>2. hdr[s] # 0
            BY <1>0, <3>1 DEF FlowInv, StreamInv
        <3>3. /\ \A u \in Streams : pipe'[u] > 0 => pipe[u] > 0
              /\ \A u \in Streams : rpc'[u] = IF u = s THEN "stamp" ELSE rpc[u]
              /\ rparent' = rparent
            BY <1>0, <2>4, <3>1 DEF ReaderRead
        <3> QED
            BY <2>1, <2>3, <3>2, <3>3 DEF FlowInv, StreamInv
    <2>5. ASSUME ReaderStamp(s) PROVE StreamInv'
        <3>1. hdr[s] # 0 /\ Opened(hdr[s])
            BY <1>0, <2>5 DEF ReaderStamp, FlowInv, StreamInv
        <3>2. /\ \A u \in Streams : rpc'[u] = IF u = s THEN "send" ELSE rpc[u]
              /\ \A u \in Streams : rparent'[u] = IF u = s THEN hdr[s] ELSE rparent[u]
              /\ pipe' = pipe
            BY <1>0, <2>5 DEF ReaderStamp
        <3> QED
            BY <2>1, <2>3, <2>5, <3>1, <3>2 DEF ReaderStamp, FlowInv, StreamInv
    <2>6. HeldInv' /\ Flow' = Flow
        BY <2>1, HeldKept, FlowUnchanged DEF FlowInv
    <2> QED
        BY <1>1, <2>1, <2>2, <2>4, <2>5, <2>6, FlowKept DEF IopubGone
<1>2. CASE ReaderSend(s)
    <2>1. /\ rpc[s] = "send" /\ Enqueue(Message("stream", rparent[s])) /\ ~IopubGone
          /\ pc' = pc /\ UNCHANGED <<asked, taken, replies, held, published, pipe, hdr, rparent>>
          /\ \A u \in Streams : rpc'[u] = IF u = s THEN "read" ELSE rpc[u]
        BY <1>0, <1>2 DEF ReaderSend, Enqueue, HasRoom, shellVars, clientVars
    <2>2. Opened(rparent[s]) /\ rparent[s] \in 1..MaxShell
        <3>1. Opened(rparent[s])
            BY <2>1 DEF FlowInv, StreamInv
        <3>2. taken <= Len(asked) /\ Len(asked) \in Nat /\ Len(asked) <= MaxShell /\ taken \in Nat
            BY DEF TypeOK, ClientTypeOK, ShellTypeOK, FlowInv, HandInv
        <3> QED
            BY <3>1, <3>2, BoundAssumption DEF Opened, Known
    <2>3. MaySend("stream", rparent[s])
        BY <2>1, <2>2 DEF MaySend, FlowInv, StatusInv
    <2>4. OrderInv' /\ ToSet(Flow') = ToSet(Flow) \cup {Message("stream", rparent[s])}
        BY <2>1, <2>3, FlowSent
    <2>5. Standing
        BY <2>1 DEF Standing, FlowInv, HandInv
    <2>6. \A r : /\ Opened(r)' <=> Opened(r)
                 /\ Replied(r)' <=> Replied(r)
                 /\ Closed(r)' <=> Closed(r)
                 /\ Known(r)' <=> Known(r)
        BY <2>5, StandingKept
    <2>7. StatusInv'
        BY <2>1, <2>4, <2>6, MessageParts DEF StatusInv, FlowInv
    <2>8. ReplyInv' /\ HandInv' /\ HeldInv'
        BY <2>1, <2>5, <2>6, HeldKept DEF FlowInv, ReplyInv, HandInv, Standing
    <2>9. StreamInv'
        BY <2>1, <2>6 DEF FlowInv, StreamInv
    <2> QED
        BY <2>4, <2>7, <2>8, <2>9 DEF FlowInv
<1>3. CASE ReaderSendFails(s) \/ ReaderEof(s)
    BY <1>3, FlowDie DEF ReaderSendFails, ReaderEof
<1> QED
    BY <1>1, <1>2, <1>3 DEF ReaderWork

LEMMA FlowStep == TypeOK /\ FlowInv /\ [Next]_vars => FlowInv'
<1> SUFFICES ASSUME TypeOK, FlowInv, [Next]_vars PROVE FlowInv'
    OBVIOUS
<1>1. CASE Step
    <2>1. CASE MainReturns
        BY <2>1, FlowDie DEF MainReturns
    <2> QED
        BY <1>1, <2>1, FlowClient, FlowIopub, FlowHeartbeat, FlowWork, FlowShellSends,
           FlowReader, FlowControl
        DEF Step
<1>2. CASE UNCHANGED vars
    BY <1>2, FlowAside DEF vars, shellVars, clientVars
<1> QED
    BY <1>1, <1>2 DEF Next, Rest

LEMMA FlowAlways == Spec => [](TypeOK /\ FlowInv)
<1>1. Init => TypeOK /\ FlowInv
    BY TypeInit, FlowInit
<1>2. TypeOK /\ FlowInv /\ [Next]_vars => (TypeOK /\ FlowInv)'
    BY TypeStep, FlowStep
<1> QED
    BY <1>1, <1>2, PTL DEF Spec

-----------------------------------------------------------------------------
(* Every request received of a known type is answered and bracketed by its *)
(* statuses once the shell and iopub tasks are at rest, and one of an      *)
(* unknown type gets nothing (shell.rs:71-134, mod.rs:14-33).              *)
THEOREM EverythingAnswered == Spec => []NothingForgotten
<1>1. ASSUME TypeOK, FlowInv, Quiet, NEW r \in 1..taken
      PROVE  LET known == asked[r] # "unknown"
             IN  /\ r \in ToSet(replies) <=> known
                 /\ Message("busy", r) \in ToSet(published) <=> known
                 /\ Message("idle", r) \in ToSet(published) <=> known
    <2>1. /\ pc["shell"] = "parked" /\ pc["iopub"] = "parked" /\ chan = <<>> /\ held = <<>>
        BY <1>1 DEF Quiet, SourceReady, FlowInv, HeldInv
    <2>2. Flow = published
        <3>1. published \in Seq(Messages) /\ Flow = published \o <<>> \o <<>>
            BY <1>1, <2>1 DEF Flow, TypeOK, ChannelTypeOK
        <3> QED
            BY <3>1
    <2>3. ~IopubGone
        BY <2>1 DEF IopubGone
    <2>4. r \in Nat /\ (Opened(r) <=> Known(r)) /\ (Replied(r) <=> Known(r)) /\ (Closed(r) <=> Known(r))
        BY <1>1, <2>1 DEF Opened, Replied, Closed, Between, TypeOK, ShellTypeOK
    <2>5. Known(r) <=> asked[r] # "unknown"
        BY DEF Known
    <2> QED
        BY <1>1, <2>2, <2>3, <2>4, <2>5 DEF FlowInv, StatusInv, ReplyInv
<1>2. TypeOK /\ FlowInv => NothingForgotten
    BY <1>1, Zenon DEF NothingForgotten
<1> QED
    BY <1>2, FlowAlways, PTL

-----------------------------------------------------------------------------
(* The refinement: each step of the kernel is one of the frontend's view,  *)
(* or invisible to it.                                                     *)

LEMMA ViewMembers == \A q : FE!ToSet(q) = ToSet(q)
BY DEF FE!ToSet, ToSet

LEMMA ViewInit == Init => FE!FeInit
BY DEF Init, FE!FeInit

LEMMA ConcatOne ==
    ASSUME NEW S, NEW q \in Seq(S), NEW h \in Seq(S), Len(h) = 1
    PROVE  /\ h[1] \in S
           /\ q \o h = Append(q, h[1])
           /\ Len(q \o h) = Len(q) + 1
           /\ (q \o h)[Len(q) + 1] = h[1]
           /\ \A i \in 1..Len(q) : (q \o h)[i] = q[i]
<1>1. h[1] \in S
    OBVIOUS
<1>2. /\ q \o h \in Seq(S) /\ Append(q, h[1]) \in Seq(S)
      /\ Len(q \o h) = Len(q) + 1 /\ Len(Append(q, h[1])) = Len(q) + 1
      /\ (q \o h)[Len(q) + 1] = h[1] /\ Append(q, h[1])[Len(q) + 1] = h[1]
      /\ \A i \in 1..Len(q) : (q \o h)[i] = q[i] /\ Append(q, h[1])[i] = q[i]
    <2>1. Len(q) \in Nat /\ Len(q) + 1 \in 1..Len(q) + Len(h) /\ ~(Len(q) + 1 <= Len(q))
          /\ (Len(q) + 1) - Len(q) = 1
        OBVIOUS
    <2>2. \A i \in 1..Len(q) : i \in 1..Len(q) + Len(h) /\ i <= Len(q)
        BY <2>1
    <2>3. /\ Append(q, h[1]) \in Seq(S) /\ Len(Append(q, h[1])) = Len(q) + 1
          /\ Append(q, h[1])[Len(q) + 1] = h[1]
          /\ \A i \in 1..Len(q) : Append(q, h[1])[i] = q[i]
        BY <1>1
    <2>4. /\ q \o h \in Seq(S) /\ Len(q \o h) = Len(q) + Len(h)
          /\ \A i \in 1..Len(q) + Len(h) :
               (q \o h)[i] = IF i <= Len(q) THEN q[i] ELSE h[i - Len(q)]
        BY ConcatProperties, SMTT(60)
    <2>5. (q \o h)[Len(q) + 1] = h[1]
        BY <2>1, <2>4
    <2>6. \A i \in 1..Len(q) : (q \o h)[i] = q[i]
        BY <2>2, <2>4
    <2> QED
        BY <2>1, <2>3, <2>4, <2>5, <2>6
<1>3. \A i \in 1..Len(q) + 1 : (q \o h)[i] = Append(q, h[1])[i]
    BY <1>2
<1>4. q \o h = Append(q, h[1])
    BY <1>2, <1>3, SeqEqual
<1> QED
    BY <1>1, <1>2, <1>4

LEMMA ViewPublish ==
    ASSUME TypeOK, FlowInv, IopubPublish
    PROVE  FE!FeNext
<1> DEFINE n == Len(published)
           m == held[1]
           r == m.parent
<1>1. /\ Len(held) = 1 /\ held \in Seq(Messages) /\ published \in Seq(Messages) /\ chan \in Seq(Messages)
      /\ published' = published \o held /\ replies' = replies
    BY DEF IopubPublish, FlowInv, HeldInv, TypeOK, ChannelTypeOK, shellVars
<1>2. m \in Messages /\ published' = Append(published, m) /\ n \in Nat
    BY <1>1, ConcatOne
<1>3. /\ Len(Flow) \in Nat /\ n + 1 \in 1..Len(Flow) /\ Flow[n + 1] = m
      /\ \A i \in 1..n : Flow[i] = published[i]
    <2>1. /\ Len(published \o held) = n + 1 /\ (published \o held)[n + 1] = m
          /\ \A i \in 1..n : (published \o held)[i] = published[i]
        BY <1>1, ConcatOne
    <2>2. /\ Len(Flow) = Len(published \o held) + Len(chan) /\ Len(chan) \in Nat
          /\ \A i \in 1..Len(published \o held) : Flow[i] = (published \o held)[i]
        BY <1>1, FlowType, LenProperties DEF TypeOK
    <2> QED
        BY <1>2, <2>1, <2>2
<1>4. m = Message(m.type, r) /\ m.type \in {"busy", "output", "idle", "stream"}
    BY <1>2, MessageParts DEF Messages
<1>5. InPlace(Flow, n + 1, ToSet(replies))
    BY <1>3 DEF FlowInv, OrderInv
<1>6. 1..((n + 1) - 1) = 1..n
    BY <1>2
<1>7. \A t, k : Earlier(Flow, n + 1, t, k) <=> Message(t, k) \in ToSet(published)
    <2> SUFFICES ASSUME NEW t, NEW k
                 PROVE  Earlier(Flow, n + 1, t, k) <=> Message(t, k) \in ToSet(published)
        OBVIOUS
    <2>1. Message(t, k) \in ToSet(published) <=> \E j \in 1..n : published[j] = Message(t, k)
        BY <1>1, ToSetMember
    <2>2. Earlier(Flow, n + 1, t, k) <=> \E j \in 1..n : Flow[j] = Message(t, k)
        BY <1>6 DEF Earlier
    <2> HIDE DEF n
    <2> QED
        BY <1>3, <2>1, <2>2
<1>8. \A t, k : FE!Seen(t, k) <=> Message(t, k) \in ToSet(published)
    BY ViewMembers DEF FE!Seen, Message
<1> HIDE DEF n, m
<1>9. r \in 1..MaxShell
    BY <1>3, <1>5 DEF InPlace
<1>10. CASE m.type = "busy"
    <2>1. ASSUME NEW q \in 1..MaxShell, FE!Seen("busy", q)
          PROVE  FE!Seen("idle", q) /\ q < r
        <3>1. PICK j \in 1..n : Flow[j] = Message("busy", q)
            BY <1>1, <1>3, <1>8, <2>1, ToSetMember DEF n
        <3>2. Flow[j].type = "busy" /\ Flow[j].parent = q
            BY <3>1, MessageParts
        <3> QED
            BY <1>3, <1>5, <1>6, <1>7, <1>8, <1>10, <3>2 DEF InPlace
    <2>2. FE!See("busy", r)
        BY <1>1, <1>2, <1>4, <1>10 DEF FE!See, Message
    <2> QED
        BY <1>9, <2>1, <2>2 DEF FE!FeNext, FE!SeeBusy
<1>11. CASE m.type = "output"
    <2>1. FE!IsOpen(r)
        BY <1>3, <1>5, <1>7, <1>8, <1>11 DEF InPlace, FE!IsOpen
    <2>2. FE!See("output", r)
        BY <1>1, <1>2, <1>4, <1>11 DEF FE!See, Message
    <2> QED
        BY <1>9, <2>1, <2>2 DEF FE!FeNext, FE!SeeOutput
<1>12. CASE m.type = "idle"
    <2>1. FE!IsOpen(r) /\ r \in ToSet(replies)
        BY <1>3, <1>5, <1>7, <1>8, <1>12 DEF InPlace, FE!IsOpen
    <2>2. FE!See("idle", r)
        BY <1>1, <1>2, <1>4, <1>12 DEF FE!See, Message
    <2> QED
        BY <1>9, <2>1, <2>2, ViewMembers DEF FE!FeNext, FE!SeeIdle
<1>13. CASE m.type = "stream"
    <2>1. FE!Seen("busy", r)
        BY <1>3, <1>5, <1>7, <1>8, <1>13 DEF InPlace
    <2>2. FE!See("stream", r)
        BY <1>1, <1>2, <1>4, <1>13 DEF FE!See, Message
    <2> QED
        BY <1>9, <2>1, <2>2 DEF FE!FeNext, FE!SeeStream
<1> QED
    BY <1>4, <1>10, <1>11, <1>12, <1>13

LEMMA ViewReply ==
    ASSUME TypeOK, FlowInv, ShellReply
    PROVE  FE!FeNext
<1>1. /\ pc["shell"] = "reply" /\ replies' = Append(replies, taken) /\ published' = published
      /\ replies \in Seq(Nat) /\ taken \in Nat
    BY DEF ShellReply, outVars, chanVars, TypeOK, ShellTypeOK
<1>2. taken \in 1..MaxShell
    <2>1. Known(taken) /\ Len(asked) <= MaxShell
        BY <1>1 DEF FlowInv, HandInv, Between
    <2>2. taken <= Len(asked) /\ Len(asked) \in Nat
        BY DEF TypeOK, ClientTypeOK, ShellTypeOK
    <2> QED
        BY <1>1, <2>1, <2>2, BoundAssumption DEF Known
<1>3. ASSUME NEW q \in ToSet(replies) PROVE q < taken
    <2>1. q \in Nat
        BY <1>1 DEF ToSet
    <2>2. Replied(q)
        BY <2>1 DEF FlowInv, ReplyInv
    <2> QED
        BY <1>1, <2>2 DEF Replied, Known, Between
<1> QED
    BY <1>1, <1>2, <1>3, ViewMembers DEF FE!FeNext, FE!SeeReply

LEMMA ViewStep == TypeOK /\ FlowInv /\ [Next]_vars => [FE!FeNext]_(FE!feVars)
<1> SUFFICES ASSUME TypeOK, FlowInv, [Next]_vars,
                    ~(IopubPublish \/ ShellReply)
             PROVE  UNCHANGED <<published, replies>>
    BY ViewPublish, ViewReply DEF FE!feVars
<1> USE DEF shellVars, outVars, chanVars
<1>1. ASSUME NEW c, Die(c) PROVE UNCHANGED <<published, replies>>
    BY <1>1 DEF Die
<1>2. ASSUME NEW t, SelectStep(t) PROVE UNCHANGED <<published, replies>>
    BY <1>2 DEF SelectStep, ObeyRestart, ObeyStop, NothingBroadcast, Park, Wake, OnlyPc
<1>3. CASE ClientStep
    BY <1>3 DEF ClientStep, ClientShell, ClientControl, ClientPing, ClientLeaves
<1>4. CASE IopubStep \/ HeartbeatStep
    BY <1>1, <1>2, <1>4
    DEF IopubStep, IopubReceive, IopubPublishFails, HeartbeatStep, HeartbeatEcho, HeartbeatFails
<1>5. CASE ShellWork
    BY <1>1, <1>2, <1>5
    DEF ShellWork, ShellTake, PrepareCell, FinishCell, RenderResult, RenderPrinted, RenderFails,
        RenderInterrupted, ShellReplyFails, ResetSignals, ShellSendFails, OnlyPc
<1>6. CASE ShellSends
    BY <1>6 DEF ShellSends, SendBusy, SendPrinted, SendOutput, SendIdle, ShellSend
<1>7. CASE CellStep
    BY <1>1, <1>7 DEF CellStep, CellPrint, LazyPrint, LazyDisplay, CellWrite, OnlyPc
<1>8. ASSUME NEW s \in Streams, ReaderWork(s) \/ ReaderSend(s)
      PROVE  UNCHANGED <<published, replies>>
    BY <1>1, <1>8
    DEF ReaderWork, ReaderRead, ReaderStamp, ReaderSend, ReaderSendFails, ReaderEof
<1>9. CASE ControlStep
    BY <1>1, <1>9
    DEF ControlStep, ControlInfo, ControlShutdown, ControlInterrupt, ControlTake, InterruptSeen,
        ControlReply, ControlReplyFails, ControlUnsupported, OnlyPc
<1>10. CASE MainReturns
    BY <1>1, <1>10 DEF MainReturns
<1>11. CASE UNCHANGED vars
    BY <1>11 DEF vars
<1> QED
    BY <1>3, <1>4, <1>5, <1>6, <1>7, <1>8, <1>9, <1>10, <1>11 DEF Next, Step, Rest

(* What the client sees is a behaviour of Frontend, for any number of      *)
(* requests, streams and outputs and any capacity of the channel: busy,    *)
(* outputs, idle of one request at a time, in order, each after its reply. *)
THEOREM KernelImplementsFrontend == Spec => FrontendView
BY ViewInit, ViewStep, FlowAlways, PTL DEF Spec, FrontendView, FE!FeSpec
=============================================================================
