------------------------------- MODULE Kernel -------------------------------
(***************************************************************************)
(* The running kernel: the four tokio tasks that start_kernel spawns       *)
(* (shell, iopub, heartbeat, control), the reader threads of the captured  *)
(* streams, the thread a cell is evaluated on, the channels between them,  *)
(* and the client at the other end of the sockets.                         *)
(*                                                                         *)
(*   client --asked--> shell --chan--> iopub --published--> client        *)
(*   client --ctlAsked-> control --broadcast--> shell, iopub, heartbeat     *)
(*   cell --pipe--> reader --chan--> iopub                                 *)
(*                                                                         *)
(* A panic anywhere ends the process (set_avalanche_panic_hook), so it is  *)
(* an action that sets `exit` to its cause.                                *)
(***************************************************************************)
EXTENDS Naturals, Sequences, SequencesExt

CONSTANTS
    ShellKinds,     \* kinds of shell requests the client sends
    ControlKinds,   \* kinds of control requests the client sends
    Outcomes,       \* how the evaluation of a cell may end
    Receivers,      \* tasks subscribed to the shutdown broadcast: an instance
                    \* without pings may leave the heartbeat task out
    Streams,        \* the captured streams, each with its reader thread
    IopubCap,       \* capacity of the iopub channel: mpsc::channel(1)
    MaxPipe,        \* chunks of text a pipe holds before its writer blocks
    MayLeave,       \* whether the client may disconnect
    MaxShell, MaxControl, MaxPings,   \* bounds: requests the client sends
    MaxOutputs      \* bound: prints and writes of one cell

ASSUME KindAssumption ==
    /\ ShellKinds \subseteq {"execute", "info", "is_complete", "unknown"}
    /\ ControlKinds \subseteq {"info", "interrupt", "stop", "restart", "unsupported"}
    /\ Outcomes \subseteq {"error", "nothing", "value", "stream"}
    /\ {"shell", "iopub"} \subseteq Receivers
    /\ Receivers \subseteq {"shell", "iopub", "heartbeat"}
    /\ MayLeave \in BOOLEAN

ASSUME BoundAssumption ==
    /\ IopubCap \in Nat \ {0}
    /\ MaxPipe \in Nat
    /\ MaxShell \in Nat /\ MaxControl \in Nat /\ MaxPings \in Nat
    /\ MaxOutputs \in Nat

VARIABLES
    exit,         \* "no", "clean" (main returned), or the cause of the panic
    connected,    \* the client is still there to receive replies
    asked, ctlAsked,  \* kinds of the requests sent on each socket, in order
    pings,        \* heartbeats sent
    taken, ctlTaken,  \* how many of them the kernel has received: the last
                      \* one is in hand, and a request is known by its place
    replies,      \* history: ids of the shell requests answered, in order
    pongs,        \* heartbeats echoed
    sent, last,   \* shutdown broadcast: how many values, and the latest one
    pos,          \* how many of them each receiver has consumed
    pc,           \* where each task is
    outcome, outs,  \* how the cell in hand ended; its prints and writes
    stale,        \* history: requests taken since an unheeded broadcast
    chan,         \* the mpsc channel to the iopub task
    held,         \* the message the iopub task has received, as <<>> or <<m>>
    published,    \* history: everything sent on the iopub socket, in order
    ctlAnswered,  \* history: the control requests answered
    signal,       \* the interrupt signal shared with the engine
    pipe, hdr,    \* per stream: chunks in the pipe; parent header to use
    rpc, rparent  \* per stream: where its reader is; header it has taken

clientVars == <<connected, asked, ctlAsked, pings>>
busVars    == <<sent, last, pos>>
cellVars   == <<outcome, outs>>
shellVars  == <<taken, replies, cellVars, stale>>
chanVars   == <<chan, held, published>>
ctlVars    == <<ctlTaken, ctlAnswered>>
readVars   == <<hdr, rpc, rparent>>
outVars    == <<chanVars, pipe, readVars>>
vars == <<exit, clientVars, shellVars, ctlVars, pongs, busVars, pc, outVars, signal>>

Tasks == Receivers \cup {"control"}

Message(type, parent) == [type |-> type, parent |-> parent]

Init ==
    /\ exit = "no"
    /\ connected = TRUE
    /\ asked = <<>> /\ ctlAsked = <<>> /\ pings = 0
    /\ taken = 0 /\ ctlTaken = 0
    /\ replies = <<>> /\ pongs = 0
    /\ sent = 0 /\ last = "none" /\ pos = [t \in Receivers |-> 0]
    /\ pc = [t \in Tasks |-> IF t = "control" THEN "recv" ELSE "poll"]
    /\ outcome = "none" /\ outs = 0
    /\ stale = 0
    /\ chan = <<>> /\ held = <<>> /\ published = <<>>
    /\ ctlAnswered = {}
    /\ signal = FALSE
    /\ pipe = [s \in Streams |-> 0]
    /\ hdr = [s \in Streams |-> 0]
    /\ rpc = [s \in Streams |-> "read"]
    /\ rparent = [s \in Streams |-> 0]

Goto(t, label) == pc' = [pc EXCEPT ![t] = label]

(* The process is alive, and the step does not end it. *)
GoesOn == exit = "no" /\ exit' = "no"

Die(cause) == /\ exit = "no"
              /\ exit' = cause
              /\ UNCHANGED <<clientVars, shellVars, ctlVars, pongs, busVars, pc,
                             outVars, signal>>

-----------------------------------------------------------------------------
(* The client. *)

ClientShell(k) ==
    /\ connected /\ Len(asked) < MaxShell
    /\ asked' = Append(asked, k)
    /\ GoesOn
    /\ UNCHANGED <<connected, ctlAsked, pings, shellVars, ctlVars, pongs, busVars,
                   pc, outVars, signal>>

ClientControl(k) ==
    /\ connected /\ Len(ctlAsked) < MaxControl
    /\ ctlAsked' = Append(ctlAsked, k)
    /\ GoesOn
    /\ UNCHANGED <<connected, asked, pings, shellVars, ctlVars, pongs, busVars, pc,
                   outVars, signal>>

ClientPing ==
    /\ connected /\ pings < MaxPings
    /\ pings' = pings + 1
    /\ GoesOn
    /\ UNCHANGED <<connected, asked, ctlAsked, shellVars, ctlVars, pongs, busVars,
                   pc, outVars, signal>>

ClientLeaves ==
    /\ MayLeave /\ connected
    /\ connected' = FALSE
    /\ GoesOn
    /\ UNCHANGED <<asked, ctlAsked, pings, shellVars, ctlVars, pongs, busVars, pc,
                   outVars, signal>>

-----------------------------------------------------------------------------
(* The biased select! that heads the loops of the shell, iopub and         *)
(* heartbeat tasks: first the broadcast is polled, then the task's own     *)
(* source, and with nothing in either the task is parked until one of      *)
(* them has something.                                                     *)

(* The broadcast has a value this receiver has not consumed, or it is      *)
(* closed: the control task, which owns the sender, has returned.          *)
BusReady(t) == pos[t] < sent \/ pc["control"] = "done"

(* The channel keeps one value: a receiver that missed one gets            *)
(* Err(Lagged), and a receiver of a closed channel Err(Closed).            *)
GetsRestartNever(t) == FALSE       \* mutant: a restart is taken for a shutdown
GetsRestart(t) == pos[t] + 1 = sent /\ last = "restart"

SourceReady(t) == CASE t = "shell"     -> taken < Len(asked)
                    [] t = "iopub"     -> chan # <<>>
                    [] t = "heartbeat" -> pongs < pings

ObeyRestart(t) ==
    /\ pc[t] = "poll" /\ BusReady(t) /\ GetsRestart(t)
    /\ pos' = [pos EXCEPT ![t] = sent]
    /\ stale' = IF t = "shell" THEN 0 ELSE stale
    /\ GoesOn
    /\ UNCHANGED <<clientVars, taken, ctlVars, replies, pongs, sent, last, pc,
                   cellVars, outVars, signal>>

(* Shutdown, Err(Lagged) and Err(Closed) all break the loop.  The iopub    *)
(* task takes the receiving end of the channel with it.                    *)
ObeyStop(t) ==
    /\ pc[t] = "poll" /\ BusReady(t) /\ ~GetsRestart(t)
    /\ pos' = [pos EXCEPT ![t] = sent]
    /\ Goto(t, "done")
    /\ chan' = IF t = "iopub" THEN <<>> ELSE chan
    /\ GoesOn
    /\ UNCHANGED <<clientVars, shellVars, ctlVars, pongs, sent, last, held,
                   published, signal, pipe, readVars>>

OnlyPc == /\ GoesOn
          /\ UNCHANGED <<clientVars, shellVars, ctlVars, pongs, busVars, outVars,
                         signal>>

NothingBroadcastUnbiased(t) ==     \* mutant: no `biased;`
    pc[t] = "poll" /\ Goto(t, "recv") /\ OnlyPc
NothingBroadcast(t) == pc[t] = "poll" /\ ~BusReady(t) /\ Goto(t, "recv") /\ OnlyPc

Park(t) == pc[t] = "recv" /\ ~SourceReady(t) /\ Goto(t, "parked") /\ OnlyPc

AwaitedBus(t) == BusReady(t)       \* mutant: no wake-up for new input
AwaitedSource(t) == SourceReady(t) \* mutant: no wake-up for a broadcast
Awaited(t) == BusReady(t) \/ SourceReady(t)

Wake(t) == pc[t] = "parked" /\ Awaited(t) /\ Goto(t, "poll") /\ OnlyPc

-----------------------------------------------------------------------------
(* The iopub task: what it has received it sends on its socket. *)

IopubReceive ==
    /\ pc["iopub"] = "recv" /\ chan # <<>>
    /\ held' = <<Head(chan)>>
    /\ chan' = Tail(chan)
    /\ Goto("iopub", "send")
    /\ GoesOn
    /\ UNCHANGED <<clientVars, shellVars, ctlVars, pongs, busVars, published,
                   signal, pipe, readVars>>

IopubPublish ==
    /\ pc["iopub"] = "send"
    /\ published' = published \o held
    /\ held' = <<>>
    /\ Goto("iopub", "poll")
    /\ GoesOn
    /\ UNCHANGED <<clientVars, shellVars, ctlVars, pongs, busVars, chan, signal,
                   pipe, readVars>>

(* The send is unwrapped.  With the client there it goes through; whether  *)
(* it does without a subscriber is the socket's business.                  *)
IopubPublishFails == pc["iopub"] = "send" /\ ~connected /\ Die("publish")

(* Every other part of the kernel publishes through the channel: a sender  *)
(* waits for room, and fails once the receiver is gone.                    *)
IopubGone == pc["iopub"] = "done"
HasRoomAlways == ~IopubGone        \* mutant: an unbounded channel
HasRoom   == ~IopubGone /\ Len(chan) < IopubCap
Enqueue(m) == HasRoom /\ chan' = Append(chan, m)

-----------------------------------------------------------------------------
(* The heartbeat task echoes what it gets. *)

HeartbeatEcho ==
    /\ pc["heartbeat"] = "recv" /\ pongs < pings /\ connected
    /\ pongs' = pongs + 1
    /\ Goto("heartbeat", "poll")
    /\ GoesOn
    /\ UNCHANGED <<clientVars, shellVars, ctlVars, busVars, outVars, signal>>

HeartbeatFails ==
    /\ pc["heartbeat"] = "recv" /\ pongs < pings /\ ~connected
    /\ Die("reply")

-----------------------------------------------------------------------------
(* The shell task. *)

(* Receiving a request whose type is not known fails, and the loop goes    *)
(* on without a word to the client.                                        *)
AfterTakeNoBusy(kind) ==           \* mutant: no busy status
    IF kind = "execute" THEN "prepare" ELSE "poll"
AfterTake(kind) == IF kind = "unknown" THEN "poll" ELSE "busy"

ShellTake ==
    /\ pc["shell"] = "recv" /\ SourceReady("shell")
    /\ taken' = taken + 1
    /\ stale' = IF pos["shell"] < sent THEN stale + 1 ELSE stale
    /\ Goto("shell", AfterTake(asked[taken']))
    /\ GoesOn
    /\ UNCHANGED <<clientVars, ctlVars, replies, pongs, busVars, cellVars, outVars,
                   signal>>

Executing == asked[taken] = "execute"

(* send(..).await on the channel, from one label to the next. *)
ShellSend(label, type, next) ==
    /\ pc["shell"] = label
    /\ Enqueue(Message(type, taken))
    /\ Goto("shell", next)
    /\ GoesOn
    /\ UNCHANGED <<clientVars, taken, ctlVars, replies, pongs, busVars, stale, held,
                   published, signal, pipe, readVars>>

SendBusy == /\ ShellSend("busy", "busy", IF Executing THEN "prepare" ELSE "reply")
            /\ UNCHANGED cellVars

(* update_reply: what the streams carry from here on belongs to this cell. *)
PrepareCell ==
    /\ pc["shell"] = "prepare"
    /\ hdr' = [s \in Streams |-> taken]
    /\ Goto("shell", "running")
    /\ GoesOn
    /\ UNCHANGED <<clientVars, shellVars, ctlVars, pongs, busVars, chanVars, signal,
                   pipe, rpc, rparent>>

(* Code of the cell may run: while it is evaluated, which includes the     *)
(* collecting of a stream it prints, and while the lazy stream it returned *)
(* is rendered.                                                            *)
CellActive == \/ pc["shell"] \in {"running", "print"}
              \/ pc["shell"] = "render" /\ outcome = "stream"

CellWrite(s) ==
    /\ CellActive
    /\ outs < MaxOutputs /\ pipe[s] < MaxPipe
    /\ outs' = outs + 1
    /\ pipe' = [pipe EXCEPT ![s] = @ + 1]
    /\ GoesOn
    /\ UNCHANGED <<clientVars, taken, ctlVars, replies, pongs, busVars, pc, outcome,
                   stale, chanVars, signal, readVars>>

(* nuju print renders its value, and then sends it from the thread of the  *)
(* cell; or it returns an error to the cell, when the nuju constant is not *)
(* among the variables where it was called.                                *)
CellPrint ==
    /\ pc["shell"] = "running"
    /\ outs < MaxOutputs
    /\ outs' = outs + 1
    /\ Goto("shell", "print")
    /\ GoesOn
    /\ UNCHANGED <<clientVars, taken, ctlVars, replies, pongs, busVars, outcome,
                   stale, outVars, signal>>

RenderPrinted == /\ pc["shell"] = "print"
                 /\ \E next \in {"printed", "running"} : Goto("shell", next)
                 /\ OnlyPc

SendPrinted == ShellSend("printed", "output", "running") /\ UNCHANGED cellVars

(* An interrupt makes evaluation fail where the engine checks the signal,  *)
(* which code near its end need not reach.                                 *)
Endings == IF signal THEN Outcomes \cup {"error"} ELSE Outcomes

AfterCellSilent(o) ==              \* mutant: no reply when there is no result
    IF o = "nothing" THEN "reset" ELSE "output"
AfterCell(o) == CASE o \in {"value", "stream"} -> "render"
                  [] o = "error"               -> "output"
                  [] o = "nothing"             -> "reply"

FinishCell(o) ==
    /\ pc["shell"] = "running"
    /\ o \in Endings
    /\ outcome' = o
    /\ Goto("shell", AfterCell(o))
    /\ GoesOn
    /\ UNCHANGED <<clientVars, taken, ctlVars, replies, pongs, busVars, outs, stale,
                   outVars, signal>>

RenderResult == pc["shell"] = "render" /\ Goto("shell", "output") /\ OnlyPc

(* Rendering collects the value and runs engine code on it.  Whatever the  *)
(* value, this may fail: a stream may end in an error, to text may refuse, *)
(* a chart without series is a todo!().  The callers unwrap.               *)
Rendering == pc["shell"] \in {"render", "print"}
RenderFails == Rendering /\ Die("render")

(* It also fails where the engine sees the interrupt signal.               *)
RenderInterrupted == Rendering /\ signal /\ Die("interrupt")

(* The closures of a lazy stream run on the task's own thread: there the   *)
(* blocking_send of a print (one that finds the nuju constant among the    *)
(* variables of its closure) panics, and nuju display waits for the lock   *)
(* of RENDER_FILTER, which this very thread holds.                         *)
LazyPrint == /\ pc["shell"] = "render" /\ outcome = "stream" /\ outs < MaxOutputs
             /\ Die("blocking_send")

LazyDisplay == /\ pc["shell"] = "render" /\ outcome = "stream"
               /\ Goto("shell", "stuck")
               /\ OnlyPc

SendOutput == ShellSend("output", "output", "reply") /\ UNCHANGED cellVars

AfterReplyNoIdle == "poll"         \* mutant: no idle status
AfterReply == IF Executing THEN "reset" ELSE "idle"

ShellReply ==
    /\ pc["shell"] = "reply" /\ connected
    /\ replies' = Append(replies, taken)
    /\ Goto("shell", AfterReply)
    /\ GoesOn
    /\ UNCHANGED <<clientVars, taken, ctlVars, pongs, busVars, cellVars, stale,
                   outVars, signal>>

ShellReplyFails == pc["shell"] = "reply" /\ ~connected /\ Die("reply")

SignalKeptOnError == signal /\ outcome = "error"   \* mutant: reset on success only
SignalAfterCell == FALSE

ResetSignals ==
    /\ pc["shell"] = "reset"
    /\ signal' = SignalAfterCell
    /\ Goto("shell", "idle")
    /\ GoesOn
    /\ UNCHANGED <<clientVars, shellVars, ctlVars, pongs, busVars, outVars>>

SendIdle == /\ ShellSend("idle", "idle", "poll")
            /\ outcome' = "none" /\ outs' = 0

ShellSendFails ==
    /\ pc["shell"] \in {"busy", "printed", "output", "idle"} /\ IopubGone
    /\ Die("iopub_closed")

-----------------------------------------------------------------------------
(* The reader thread of a stream.  The writing ends of the pipes live in   *)
(* the stacks of the shell task: when it returns they are closed.          *)

ReaderRead(s) ==
    /\ rpc[s] = "read"
    /\ \E n \in 1..pipe[s] : pipe' = [pipe EXCEPT ![s] = @ - n]
    /\ rpc' = [rpc EXCEPT ![s] = "stamp"]
    /\ GoesOn
    /\ UNCHANGED <<clientVars, shellVars, ctlVars, pongs, busVars, pc, chanVars,
                   signal, hdr, rparent>>

ReaderStamp(s) ==
    /\ rpc[s] = "stamp"
    /\ rparent' = [rparent EXCEPT ![s] = hdr[s]]
    /\ rpc' = [rpc EXCEPT ![s] = "send"]
    /\ GoesOn
    /\ UNCHANGED <<clientVars, shellVars, ctlVars, pongs, busVars, pc, chanVars,
                   signal, pipe, hdr>>

ReaderSend(s) ==
    /\ rpc[s] = "send"
    /\ Enqueue(Message("stream", rparent[s]))
    /\ rpc' = [rpc EXCEPT ![s] = "read"]
    /\ GoesOn
    /\ UNCHANGED <<clientVars, shellVars, ctlVars, pongs, busVars, pc, held,
                   published, signal, pipe, hdr, rparent>>

ReaderSendFails(s) == rpc[s] = "send" /\ IopubGone /\ Die("iopub_closed")

ReaderEof(s) == /\ rpc[s] = "read" /\ pipe[s] = 0 /\ pc["shell"] = "done"
                /\ Die("eof")

-----------------------------------------------------------------------------
(* The control task, one request at a time. *)

ControlGets(k) == /\ pc["control"] = "recv" /\ ctlTaken < Len(ctlAsked)
                  /\ ctlAsked[ctlTaken + 1] = k

ControlTake(k, next) ==
    /\ ControlGets(k)
    /\ ctlTaken' = ctlTaken + 1
    /\ Goto("control", next)
    /\ GoesOn
    /\ UNCHANGED <<clientVars, shellVars, ctlAnswered, pongs, pos, outVars>>

ControlInfo == ControlTake("info", "reply") /\ UNCHANGED <<sent, last, signal>>

(* The broadcast is sent before the reply. *)
ControlShutdown(k) ==
    /\ ControlTake(k, "reply")
    /\ sent' = sent + 1
    /\ last' = k
    /\ UNCHANGED signal

ControlInterruptNoWait ==          \* mutant: the reply does not wait
    ControlTake("interrupt", "reply") /\ signal' = TRUE /\ UNCHANGED <<sent, last>>
ControlInterrupt ==
    /\ ControlTake("interrupt", "wait")
    /\ signal' = TRUE
    /\ UNCHANGED <<sent, last>>

(* The signal is polled until somebody has reset it. *)
InterruptSeen == /\ pc["control"] = "wait" /\ ~signal
                 /\ Goto("control", "reply")
                 /\ OnlyPc

ControlReply ==
    /\ pc["control"] = "reply" /\ connected
    /\ ctlAnswered' = ctlAnswered \cup {ctlTaken}
    /\ Goto("control", IF ctlAsked[ctlTaken] = "stop" THEN "done" ELSE "recv")
    /\ GoesOn
    /\ UNCHANGED <<clientVars, shellVars, ctlTaken, pongs, busVars, outVars,
                   signal>>

ControlReplyFails == pc["control"] = "reply" /\ ~connected /\ Die("reply")

(* recv() of an unknown request type is unwrapped, debug requests are todo!() *)
ControlUnsupported ==
    /\ ControlGets("unsupported")
    /\ Die("control")

-----------------------------------------------------------------------------
(* start_kernel has joined all four tasks: the process ends. *)
MainReturns == /\ \A t \in Tasks : pc[t] = "done"
               /\ Die("clean")

ClientStep == \/ \E k \in ShellKinds : ClientShell(k)
              \/ \E k \in ControlKinds : ClientControl(k)
              \/ ClientPing
              \/ ClientLeaves

SelectStep(t) == ObeyRestart(t) \/ ObeyStop(t) \/ NothingBroadcast(t) \/ Park(t) \/ Wake(t)

IopubStep == SelectStep("iopub") \/ IopubReceive \/ IopubPublish \/ IopubPublishFails

HeartbeatStep == \E t \in Receivers \ {"shell", "iopub"} :
                     SelectStep(t) \/ HeartbeatEcho \/ HeartbeatFails

(* What the shell task does apart from sending on the channel. *)
ShellWork ==
    \/ SelectStep("shell") \/ ShellTake \/ PrepareCell
    \/ \E o \in {"error", "nothing", "value", "stream"} : FinishCell(o)
    \/ RenderPrinted \/ RenderResult \/ RenderFails \/ RenderInterrupted
    \/ ShellReply \/ ShellReplyFails \/ ResetSignals \/ ShellSendFails

ShellSends == SendBusy \/ SendPrinted \/ SendOutput \/ SendIdle

(* What the code of a cell may do, and need not. *)
CellStep == CellPrint \/ LazyPrint \/ LazyDisplay \/ \E s \in Streams : CellWrite(s)

ReaderWork(s) == ReaderRead(s) \/ ReaderStamp(s) \/ ReaderSendFails(s) \/ ReaderEof(s)

ControlStep ==
    \/ ControlInfo \/ \E k \in {"stop", "restart"} : ControlShutdown(k)
    \/ ControlInterrupt \/ InterruptSeen
    \/ ControlReply \/ ControlReplyFails \/ ControlUnsupported

Step == \/ ClientStep \/ IopubStep \/ HeartbeatStep \/ ShellWork \/ ShellSends \/ CellStep
        \/ \E s \in Streams : ReaderWork(s) \/ ReaderSend(s)
        \/ ControlStep \/ MainReturns

(* Where the system may stand still: the process is gone, the shell thread *)
(* waits for itself, or the client has sent everything it will and every   *)
(* task waits for more (or, with a second restart missed, has ended on its *)
(* own).  TLC's deadlock check covers every other state.                   *)
AtRest == \/ exit # "no"
          \/ pc["shell"] = "stuck"
          \/ /\ pc["shell"] = "parked"
             /\ \A t \in Receivers : pc[t] = "done" \/ (pc[t] = "parked" /\ ~Awaited(t))
             /\ pc["control"] \in {"recv", "wait"}
Rest == AtRest /\ UNCHANGED vars

Next == Step \/ Rest

Spec == Init /\ [][Next]_vars

-----------------------------------------------------------------------------
(* Fairness.  The runtime polls every task that can make progress and the  *)
(* operating system runs every thread; the code of a cell ends; a waiter   *)
(* for room in the channel gets it, since tokio queues waiters in order.   *)
(* Nothing is assumed of the client, nor of what a cell prints or writes.  *)
Fairness ==
    /\ WF_vars(IopubStep) /\ WF_vars(HeartbeatStep)
    /\ WF_vars(ShellWork) /\ SF_vars(ShellSends)
    /\ \A s \in Streams : WF_vars(ReaderWork(s)) /\ SF_vars(ReaderSend(s))
    /\ WF_vars(ControlStep) /\ WF_vars(MainReturns)

FairSpec == Spec /\ Fairness

-----------------------------------------------------------------------------
CellLabels == {"prepare", "running", "print", "printed", "render", "output", "reply", "reset"}
Labels == {"poll", "recv", "parked", "busy", "idle", "stuck", "send", "wait", "done"}
              \cup CellLabels
Causes == {"iopub_closed", "eof", "reply", "publish", "render", "interrupt", "blocking_send",
           "control"}
Messages == [type : {"busy", "output", "idle", "stream"}, parent : Nat]

ClientTypeOK == /\ asked \in Seq(ShellKinds) /\ ctlAsked \in Seq(ControlKinds)
                /\ pings \in Nat /\ pongs \in 0..pings
ShellTypeOK ==  /\ taken \in 0..Len(asked) /\ replies \in Seq(Nat)
                /\ outcome \in {"none", "error", "nothing", "value", "stream"}
                /\ outs \in 0..MaxOutputs /\ stale \in Nat
ControlTypeOK == ctlTaken \in 0..Len(ctlAsked) /\ ctlAnswered \subseteq Nat
BusTypeOK ==    /\ sent \in Nat /\ last \in {"none", "stop", "restart"}
                /\ pos \in [Receivers -> Nat] /\ \A t \in Receivers : pos[t] <= sent
ChannelTypeOK == /\ chan \in Seq(Messages) /\ Len(chan) <= IopubCap
                 /\ held \in Seq(Messages) /\ published \in Seq(Messages)
StreamTypeOK == /\ pipe \in [Streams -> 0..MaxPipe]
                /\ hdr \in [Streams -> Nat] /\ rparent \in [Streams -> Nat]
                /\ rpc \in [Streams -> {"read", "stamp", "send"}]
FlagTypeOK ==   connected \in BOOLEAN /\ signal \in BOOLEAN
TaskTypeOK ==   exit \in {"no", "clean"} \cup Causes /\ pc \in [Tasks -> Labels]

(* The values the state takes; the channel and the pipes never hold more   *)
(* than their capacity, and no task is ahead of what was sent to it.       *)
TypeOK == /\ ClientTypeOK /\ ShellTypeOK /\ ControlTypeOK /\ BusTypeOK
          /\ ChannelTypeOK /\ StreamTypeOK /\ FlagTypeOK /\ TaskTypeOK

(* What the client sees is a behaviour of Frontend: statuses bracket the   *)
(* outputs of one request at a time, requests are answered once and in     *)
(* order, the reply precedes idle, and late stream text belongs to a       *)
(* request already seen busy.                                              *)
FE == INSTANCE Frontend WITH Ids <- 1..MaxShell, view <- published, answered <- replies
FrontendView == FE!FeSpec

(* A receiver breaks its loop only for a shutdown, or when a second        *)
(* restart overtook the first one.                                         *)
StopOrLag == sent > 0 /\ (last = "stop" \/ sent > 1)

(* Nobody leaves the others alone without cause: the channel is closed or  *)
(* the pipes end only after a shutdown or two restarts, and main returns   *)
(* only after a shutdown.  And an interrupt ends the process only before   *)
(* it is answered: none reaches the rendering of a later cell.  (Rendering *)
(* may fail on its own account at any time, and so may replies to a client *)
(* that has left.)                                                         *)
KnownDeaths ==
    /\ exit \in {"iopub_closed", "eof"} => StopOrLag
    /\ exit = "clean" => last = "stop"
    /\ exit = "interrupt" => pc["control"] = "wait" /\ ctlAsked[ctlTaken] = "interrupt"

(* Between the broadcast of a restart and the reset of the engine the      *)
(* shell task takes at most one more request: only the second poll of its  *)
(* select can miss the broadcast.                                          *)
StaleAtMostOne == stale <= 1

(* When the shell and iopub tasks have nothing left to do, every request   *)
(* received has been answered, its busy and idle statuses are out, and a   *)
(* request of an unknown type got nothing at all.                          *)
Quiet == /\ exit = "no"
         /\ \A t \in {"shell", "iopub"} : pc[t] = "parked" /\ ~SourceReady(t)
NothingForgotten ==
    Quiet => \A r \in 1..taken :
        LET known == asked[r] # "unknown"
        IN  /\ r \in ToSet(replies) <=> known
            /\ Message("busy", r) \in ToSet(published) <=> known
            /\ Message("idle", r) \in ToSet(published) <=> known

-----------------------------------------------------------------------------
Ended == exit # "no" \/ pc["shell"] = "stuck"

(* A request of a known type is closed in the end, unless the process ends *)
(* or the iopub task has gone.                                             *)
RequestsClosed ==
    \A r \in 1..MaxShell :
        (r <= Len(asked) /\ asked[r] # "unknown")
            ~> (Message("idle", r) \in ToSet(published) \/ Ended \/ IopubGone)

(* Once a shutdown has been broadcast the process ends, one way or another,*)
(* also without its client; or every task has left but a shell task that   *)
(* waits for itself, which holds up nobody else.                           *)
StopEnds ==
    (last = "stop") ~> \/ exit # "no"
                       \/ /\ pc["shell"] = "stuck"
                          /\ \A t \in Tasks \ {"shell"} : pc[t] = "done"

(* An interrupt that arrives while a cell is executed gets its reply. *)
InterruptDuringCell ==
    (pc["control"] = "wait" /\ pc["shell"] \in CellLabels /\ Executing)
        ~> (pc["control"] # "wait" \/ Ended)

(* Heartbeats are echoed whatever the other tasks wait for, until the      *)
(* heartbeat task is stopped.                                              *)
HeartbeatLives == (pongs < pings) ~> (pongs = pings \/ exit # "no" \/ StopOrLag)

-----------------------------------------------------------------------------
(* Claims of the repository that the code does not keep. *)

(* control.rs: "according to docs, we first shut our kernel and then reply *)
(* to the client".                                                         *)
ShutdownBeforeReply ==
    \A i \in ctlAnswered : ctlAsked[i] = "stop" => pc["shell"] = "done"

(* control.rs: "poll the interrupt signal to check when the engine is      *)
(* successfully interrupted": the poll comes to an end.                    *)
InterruptAnswered == (pc["control"] = "wait") ~> (pc["control"] # "wait" \/ Ended)

(* README: "Easily print values at any point during cell execution". *)
PrintAnywhere == exit # "blocking_send"
=============================================================================
