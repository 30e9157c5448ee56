---------------------------- MODULE KernelProofs ----------------------------
(***************************************************************************)
(* Theorems about Kernel, for every value of its constants.                *)
(***************************************************************************)
EXTENDS Kernel, TLAPS

LEMMA TaskNames == /\ {"shell", "iopub"} \subseteq Receivers
                   /\ Receivers \subseteq {"shell", "iopub", "heartbeat"}
                   /\ Receivers \subseteq Tasks
                   /\ "control" \in Tasks
                   /\ "control" \notin Receivers
                   /\ Tasks \subseteq {"shell", "iopub", "heartbeat", "control"}
BY KindAssumption DEF Tasks

-----------------------------------------------------------------------------
(* Type correctness. *)

LEMMA TypeInit == Init => TypeOK
<1> SUFFICES ASSUME Init PROVE TypeOK
    OBVIOUS
<1> USE BoundAssumption, KindAssumption
<1>1. ClientTypeOK
    BY DEF Init, ClientTypeOK
<1>2. ShellTypeOK
    BY DEF Init, ShellTypeOK
<1>3. ControlTypeOK
    BY DEF Init, ControlTypeOK
<1>4. BusTypeOK
    BY DEF Init, BusTypeOK
<1>5. ChannelTypeOK
    BY DEF Init, ChannelTypeOK, Messages
<1>6. StreamTypeOK
    BY DEF Init, StreamTypeOK
<1>7. TaskTypeOK
    BY TaskNames DEF Init, TaskTypeOK, Labels, CellLabels, Causes
<1>8. FlagTypeOK
    BY Zenon DEF Init, FlagTypeOK
<1> QED
    BY <1>1, <1>2, <1>3, <1>4, <1>5, <1>6, <1>7, <1>8 DEF TypeOK

(* A part of the state that a step leaves alone keeps its type. *)
LEMMA TypeFrame ==
    ASSUME TypeOK
    PROVE  /\ UNCHANGED <<asked, ctlAsked, pings, pongs>> => ClientTypeOK'
           /\ UNCHANGED <<asked, shellVars>> => ShellTypeOK'
           /\ UNCHANGED <<ctlAsked, ctlVars>> => ControlTypeOK'
           /\ UNCHANGED busVars => BusTypeOK'
           /\ UNCHANGED chanVars => ChannelTypeOK'
           /\ UNCHANGED <<pipe, readVars>> => StreamTypeOK'
           /\ UNCHANGED <<connected, signal>> => FlagTypeOK'
           /\ UNCHANGED <<exit, pc>> => TaskTypeOK'
<1>1. UNCHANGED <<asked, ctlAsked, pings, pongs>> => ClientTypeOK'
    BY DEF TypeOK, ClientTypeOK
<1>2. UNCHANGED <<asked, shellVars>> => ShellTypeOK'
    BY DEF TypeOK, ShellTypeOK, shellVars, cellVars
<1>3. UNCHANGED <<ctlAsked, ctlVars>> => ControlTypeOK'
    BY DEF TypeOK, ControlTypeOK, ctlVars
<1>4. UNCHANGED busVars => BusTypeOK'
    BY DEF TypeOK, BusTypeOK, busVars
<1>5. UNCHANGED chanVars => ChannelTypeOK'
    BY DEF TypeOK, ChannelTypeOK, chanVars
<1>6. UNCHANGED <<pipe, readVars>> => StreamTypeOK'
    BY DEF TypeOK, StreamTypeOK, readVars
<1>7. UNCHANGED <<connected, signal>> => FlagTypeOK'
    BY DEF TypeOK, FlagTypeOK
<1>8. UNCHANGED <<exit, pc>> => TaskTypeOK'
    BY DEF TypeOK, TaskTypeOK
<1> QED
    BY <1>1, <1>2, <1>3, <1>4, <1>5, <1>6, <1>7, <1>8

LEMMA TypeGoto ==
    ASSUME TypeOK, GoesOn, NEW t \in Tasks, NEW l \in Labels, Goto(t, l)
    PROVE  TaskTypeOK'
BY DEF TypeOK, TaskTypeOK, GoesOn, Goto

(* A step that only moves a task from one label to another. *)
LEMMA TypeOnlyPc ==
    ASSUME TypeOK, OnlyPc, NEW t \in Tasks, NEW l \in Labels, Goto(t, l)
    PROVE  TypeOK'
<1>1. TaskTypeOK'
    BY TypeGoto DEF OnlyPc
<1> QED
    BY <1>1, TypeFrame DEF OnlyPc, TypeOK, clientVars, outVars

(* A step that ends the process. *)
LEMMA TypeDie ==
    ASSUME TypeOK, NEW c \in Causes \cup {"clean"}, Die(c)
    PROVE  TypeOK'
<1>1. TaskTypeOK'
    BY DEF Die, TypeOK, TaskTypeOK
<1> QED
    BY <1>1, TypeFrame DEF Die, TypeOK, clientVars, outVars

LEMMA TypeEnqueue ==
    ASSUME ChannelTypeOK, NEW type \in {"busy", "output", "idle", "stream"},
           NEW r \in Nat, Enqueue(Message(type, r)), UNCHANGED <<held, published>>
    PROVE  ChannelTypeOK'
<1>1. Message(type, r) \in Messages
    BY DEF Message, Messages
<1>2. /\ chan' \in Seq(Messages)
      /\ Len(chan') = Len(chan) + 1
      /\ Len(chan) < IopubCap
    BY <1>1 DEF ChannelTypeOK, Enqueue, HasRoom
<1> QED
    BY <1>2, BoundAssumption DEF ChannelTypeOK

LEMMA TypeClient ==
    ASSUME TypeOK, ClientStep
    PROVE  TypeOK'
<1>1. ASSUME NEW k \in ShellKinds, ClientShell(k) PROVE TypeOK'
    <2>1. asked' \in Seq(ShellKinds) /\ Len(asked') = Len(asked) + 1
        BY <1>1 DEF ClientShell, TypeOK, ClientTypeOK
    <2>2. ClientTypeOK'
        BY <1>1, <2>1 DEF ClientShell, TypeOK, ClientTypeOK
    <2>3. ShellTypeOK'
        BY <1>1, <2>1 DEF ClientShell, TypeOK, ClientTypeOK, ShellTypeOK, shellVars, cellVars
    <2> QED
        BY <1>1, <2>2, <2>3, TypeFrame DEF ClientShell, GoesOn, TypeOK, outVars
<1>2. ASSUME NEW k \in ControlKinds, ClientControl(k) PROVE TypeOK'
    <2>1. ctlAsked' \in Seq(ControlKinds) /\ Len(ctlAsked') = Len(ctlAsked) + 1
        BY <1>2 DEF ClientControl, TypeOK, ClientTypeOK
    <2>2. ClientTypeOK'
        BY <1>2, <2>1 DEF ClientControl, TypeOK, ClientTypeOK
    <2>3. ControlTypeOK'
        BY <1>2, <2>1 DEF ClientControl, TypeOK, ClientTypeOK, ControlTypeOK, ctlVars
    <2> QED
        BY <1>2, <2>2, <2>3, TypeFrame DEF ClientControl, GoesOn, TypeOK, outVars
<1>3. CASE ClientPing
    <2>1. ClientTypeOK'
        BY <1>3 DEF ClientPing, TypeOK, ClientTypeOK
    <2> QED
        BY <1>3, <2>1, TypeFrame DEF ClientPing, GoesOn, TypeOK, outVars
<1>4. CASE ClientLeaves
    <2>1. FlagTypeOK'
        BY <1>4, Zenon DEF ClientLeaves, TypeOK, FlagTypeOK
    <2> QED
        BY <1>4, <2>1, TypeFrame DEF ClientLeaves, GoesOn, TypeOK, outVars
<1> QED
    BY <1>1, <1>2, <1>3, <1>4 DEF ClientStep

LEMMA TypeSelect ==
    ASSUME TypeOK, NEW t \in Receivers, SelectStep(t)
    PROVE  TypeOK'
<1> USE TaskNames DEF Labels, CellLabels
<1>1. CASE ObeyRestart(t)
    <2>1. BusTypeOK'
        BY <1>1 DEF ObeyRestart, TypeOK, BusTypeOK
    <2>2. ShellTypeOK'
        BY <1>1 DEF ObeyRestart, TypeOK, ShellTypeOK, clientVars, cellVars
    <2> QED
        BY <1>1, <2>1, <2>2, TypeFrame DEF ObeyRestart, GoesOn, TypeOK, clientVars, outVars
<1>2. CASE ObeyStop(t)
    <2>1. BusTypeOK'
        BY <1>2 DEF ObeyStop, TypeOK, BusTypeOK
    <2>2. ChannelTypeOK'
        BY <1>2, BoundAssumption DEF ObeyStop, TypeOK, ChannelTypeOK
    <2>3. TaskTypeOK'
        BY <1>2, TypeGoto DEF ObeyStop
    <2> QED
        BY <1>2, <2>1, <2>2, <2>3, TypeFrame DEF ObeyStop, GoesOn, TypeOK, clientVars
<1>3. CASE NothingBroadcast(t)
    BY <1>3, TypeOnlyPc DEF NothingBroadcast
<1>4. CASE Park(t)
    BY <1>4, TypeOnlyPc DEF Park
<1>5. CASE Wake(t)
    BY <1>5, TypeOnlyPc DEF Wake
<1> QED
    BY <1>1, <1>2, <1>3, <1>4, <1>5 DEF SelectStep

LEMMA TypeIopub ==
    ASSUME TypeOK, IopubStep
    PROVE  TypeOK'
<1> USE TaskNames DEF Labels, CellLabels
<1>1. CASE SelectStep("iopub")
    BY <1>1, TypeSelect
<1>2. CASE IopubReceive
    <2>1. /\ Head(chan) \in Messages
          /\ Tail(chan) \in Seq(Messages) /\ Len(Tail(chan)) < Len(chan)
        BY <1>2 DEF IopubReceive, TypeOK, ChannelTypeOK
    <2>2. ChannelTypeOK'
        BY <1>2, <2>1, BoundAssumption DEF IopubReceive, TypeOK, ChannelTypeOK
    <2>3. TaskTypeOK'
        BY <1>2, TypeGoto DEF IopubReceive
    <2> QED
        BY <1>2, <2>2, <2>3, TypeFrame DEF IopubReceive, GoesOn, TypeOK, clientVars
<1>3. CASE IopubPublish
    <2>1. ChannelTypeOK'
        BY <1>3 DEF IopubPublish, TypeOK, ChannelTypeOK
    <2>2. TaskTypeOK'
        BY <1>3, TypeGoto DEF IopubPublish
    <2> QED
        BY <1>3, <2>1, <2>2, TypeFrame DEF IopubPublish, GoesOn, TypeOK, clientVars
<1>4. CASE IopubPublishFails
    BY <1>4, TypeDie DEF IopubPublishFails, Causes
<1> QED
    BY <1>1, <1>2, <1>3, <1>4 DEF IopubStep

LEMMA TypeHeartbeat ==
    ASSUME TypeOK, HeartbeatStep
    PROVE  TypeOK'
<1>1. PICK t \in Receivers \ {"shell", "iopub"} :
          SelectStep(t) \/ HeartbeatEcho \/ HeartbeatFails
    BY DEF HeartbeatStep
<1>2. t = "heartbeat" /\ t \in Tasks
    BY TaskNames
<1>3. CASE SelectStep(t)
    BY <1>3, TypeSelect
<1>4. CASE HeartbeatEcho
    <2>1. ClientTypeOK'
        BY <1>4 DEF HeartbeatEcho, TypeOK, ClientTypeOK, clientVars
    <2>2. TaskTypeOK'
        BY <1>2, <1>4, TypeGoto DEF HeartbeatEcho, Labels
    <2> QED
        BY <1>4, <2>1, <2>2, TypeFrame DEF HeartbeatEcho, TypeOK, clientVars, outVars
<1>5. CASE HeartbeatFails
    BY <1>5, TypeDie DEF HeartbeatFails, Causes
<1> QED
    BY <1>1, <1>3, <1>4, <1>5

LEMMA TypeShellSend ==
    ASSUME TypeOK, NEW label, NEW type \in {"busy", "output", "idle"},
           NEW next \in Labels, ShellSend(label, type, next)
    PROVE  /\ ClientTypeOK' /\ ControlTypeOK' /\ BusTypeOK' /\ ChannelTypeOK'
           /\ StreamTypeOK' /\ FlagTypeOK' /\ TaskTypeOK'
<1>1. ChannelTypeOK'
    BY TypeEnqueue DEF ShellSend, TypeOK, ShellTypeOK, ClientTypeOK
<1>2. TaskTypeOK'
    BY TypeGoto, TaskNames DEF ShellSend
<1> QED
    BY <1>1, <1>2, TypeFrame DEF ShellSend, clientVars

LEMMA TypeShellSends ==
    ASSUME TypeOK, ShellSends
    PROVE  TypeOK'
<1> USE DEF Labels, CellLabels
<1>1. CASE SendBusy
    <2>1. ShellTypeOK'
        BY <1>1 DEF SendBusy, ShellSend, TypeOK, ShellTypeOK, clientVars, cellVars
    <2> QED
        BY <1>1, <2>1, TypeShellSend DEF SendBusy, TypeOK
<1>2. CASE SendPrinted
    <2>1. ShellTypeOK'
        BY <1>2 DEF SendPrinted, ShellSend, TypeOK, ShellTypeOK, clientVars, cellVars
    <2> QED
        BY <1>2, <2>1, TypeShellSend DEF SendPrinted, TypeOK
<1>3. CASE SendOutput
    <2>1. ShellTypeOK'
        BY <1>3 DEF SendOutput, ShellSend, TypeOK, ShellTypeOK, clientVars, cellVars
    <2> QED
        BY <1>3, <2>1, TypeShellSend DEF SendOutput, TypeOK
<1>4. CASE SendIdle
    <2>1. ShellTypeOK'
        BY <1>4, BoundAssumption
        DEF SendIdle, ShellSend, TypeOK, ShellTypeOK, clientVars
    <2> QED
        BY <1>4, <2>1, TypeShellSend DEF SendIdle, TypeOK
<1> QED
    BY <1>1, <1>2, <1>3, <1>4 DEF ShellSends

LEMMA TypeShellWork ==
    ASSUME TypeOK, ShellWork
    PROVE  TypeOK'
<1> USE TaskNames DEF Labels, CellLabels
<1>1. CASE SelectStep("shell")
    BY <1>1, TypeSelect
<1>2. CASE ShellTake
    <2>1. ShellTypeOK'
        BY <1>2
        DEF ShellTake, SourceReady, TypeOK, ClientTypeOK, ShellTypeOK, clientVars, cellVars
    <2>2. TaskTypeOK'
        BY <1>2, TypeGoto DEF ShellTake, AfterTake
    <2> QED
        BY <1>2, <2>1, <2>2, TypeFrame DEF ShellTake, TypeOK, clientVars, outVars
<1>3. CASE PrepareCell
    <2>1. StreamTypeOK'
        BY <1>3 DEF PrepareCell, TypeOK, ClientTypeOK, ShellTypeOK, StreamTypeOK
    <2>2. TaskTypeOK'
        BY <1>3, TypeGoto DEF PrepareCell
    <2> QED
        BY <1>3, <2>1, <2>2, TypeFrame DEF PrepareCell, TypeOK, clientVars
<1>4. ASSUME NEW o \in {"error", "nothing", "value", "stream"}, FinishCell(o)
      PROVE  TypeOK'
    <2>1. ShellTypeOK'
        BY <1>4 DEF FinishCell, TypeOK, ShellTypeOK, clientVars
    <2>2. TaskTypeOK'
        BY <1>4, TypeGoto DEF FinishCell, AfterCell
    <2> QED
        BY <1>4, <2>1, <2>2, TypeFrame DEF FinishCell, TypeOK, clientVars, outVars
<1>5. CASE RenderResult \/ RenderPrinted
    BY <1>5, TypeOnlyPc DEF RenderResult, RenderPrinted
<1>6. CASE RenderFails \/ RenderInterrupted
    BY <1>6, TypeDie DEF RenderFails, RenderInterrupted, Causes
<1>7. CASE ShellReply
    <2>1. ShellTypeOK'
        BY <1>7 DEF ShellReply, TypeOK, ClientTypeOK, ShellTypeOK, clientVars, cellVars
    <2>2. TaskTypeOK'
        BY <1>7, TypeGoto DEF ShellReply, AfterReply
    <2> QED
        BY <1>7, <2>1, <2>2, TypeFrame DEF ShellReply, TypeOK, clientVars, outVars
<1>8. CASE ShellReplyFails
    BY <1>8, TypeDie DEF ShellReplyFails, Causes
<1>9. CASE ResetSignals
    <2>1. FlagTypeOK'
        BY <1>9, Zenon
        DEF ResetSignals, SignalAfterCell, TypeOK, FlagTypeOK, clientVars
    <2>2. TaskTypeOK'
        BY <1>9, TypeGoto DEF ResetSignals
    <2> QED
        BY <1>9, <2>1, <2>2, TypeFrame DEF ResetSignals, TypeOK, clientVars, outVars
<1>10. CASE ShellSendFails
    BY <1>10, TypeDie DEF ShellSendFails, Causes
<1> QED
    BY <1>1, <1>2, <1>3, <1>4, <1>5, <1>6, <1>7, <1>8, <1>9, <1>10 DEF ShellWork

LEMMA TypeCell ==
    ASSUME TypeOK, CellStep
    PROVE  TypeOK'
<1> USE TaskNames DEF Labels, CellLabels
<1>1. CASE CellPrint
    <2>1. ShellTypeOK'
        BY <1>1, BoundAssumption DEF CellPrint, TypeOK, ShellTypeOK, clientVars
    <2>2. TaskTypeOK'
        BY <1>1, TypeGoto DEF CellPrint
    <2> QED
        BY <1>1, <2>1, <2>2, TypeFrame DEF CellPrint, TypeOK, clientVars, outVars
<1>2. CASE LazyPrint
    BY <1>2, TypeDie DEF LazyPrint, Causes
<1>3. CASE LazyDisplay
    BY <1>3, TypeOnlyPc DEF LazyDisplay
<1>4. ASSUME NEW s \in Streams, CellWrite(s) PROVE TypeOK'
    <2>1. ShellTypeOK'
        BY <1>4, BoundAssumption DEF CellWrite, TypeOK, ShellTypeOK, clientVars
    <2>2. pipe[s] \in Nat /\ pipe[s] + 1 \in 0..MaxPipe
        BY <1>4, BoundAssumption DEF CellWrite, TypeOK, StreamTypeOK
    <2>3. StreamTypeOK'
        BY <1>4, <2>2 DEF CellWrite, TypeOK, StreamTypeOK, readVars
    <2> QED
        BY <1>4, <2>1, <2>3, TypeFrame DEF CellWrite, GoesOn, TypeOK, clientVars
<1> QED
    BY <1>1, <1>2, <1>3, <1>4 DEF CellStep

LEMMA TypeReader ==
    ASSUME TypeOK, NEW s \in Streams, ReaderWork(s) \/ ReaderSend(s)
    PROVE  TypeOK'
<1>1. CASE ReaderRead(s)
    <2>1. PICK n \in 1..pipe[s] : pipe' = [pipe EXCEPT ![s] = @ - n]
        BY <1>1 DEF ReaderRead
    <2>2. pipe[s] - n \in 0..MaxPipe
        BY <2>1, BoundAssumption DEF TypeOK, StreamTypeOK
    <2>3. StreamTypeOK'
        BY <1>1, <2>1, <2>2 DEF ReaderRead, TypeOK, StreamTypeOK
    <2> QED
        BY <1>1, <2>3, TypeFrame DEF ReaderRead, GoesOn, TypeOK, clientVars
<1>2. CASE ReaderStamp(s)
    <2>1. StreamTypeOK'
        BY <1>2 DEF ReaderStamp, TypeOK, StreamTypeOK
    <2> QED
        BY <1>2, <2>1, TypeFrame DEF ReaderStamp, GoesOn, TypeOK, clientVars
<1>3. CASE ReaderSend(s)
    <2>1. StreamTypeOK'
        BY <1>3 DEF ReaderSend, TypeOK, StreamTypeOK
    <2>2. ChannelTypeOK'
        BY <1>3, TypeEnqueue DEF ReaderSend, TypeOK, StreamTypeOK
    <2> QED
        BY <1>3, <2>1, <2>2, TypeFrame DEF ReaderSend, GoesOn, TypeOK, clientVars
<1>4. CASE ReaderSendFails(s)
    BY <1>4, TypeDie DEF ReaderSendFails, Causes
<1>5. CASE ReaderEof(s)
    BY <1>5, TypeDie DEF ReaderEof, Causes
<1> QED
    BY <1>1, <1>2, <1>3, <1>4, <1>5 DEF ReaderWork

LEMMA TypeControlTake ==
    ASSUME TypeOK, NEW k, NEW next \in Labels, ControlTake(k, next)
    PROVE  /\ ClientTypeOK' /\ ShellTypeOK' /\ ControlTypeOK' /\ ChannelTypeOK'
           /\ StreamTypeOK' /\ TaskTypeOK'
<1>1. ControlTypeOK'
    BY DEF ControlTake, ControlGets, TypeOK, ClientTypeOK, ControlTypeOK, clientVars
<1>2. TaskTypeOK'
    BY TypeGoto, TaskNames DEF ControlTake
<1> QED
    BY <1>1, <1>2, TypeFrame DEF ControlTake, clientVars, outVars

LEMMA TypeControl ==
    ASSUME TypeOK, ControlStep
    PROVE  TypeOK'
<1> USE TaskNames DEF Labels, CellLabels
<1>1. CASE ControlInfo
    <2>1. BusTypeOK'
        BY <1>1 DEF ControlInfo, ControlTake, TypeOK, BusTypeOK
    <2>2. FlagTypeOK'
        BY <1>1, TypeFrame DEF ControlInfo, ControlTake, clientVars
    <2> QED
        BY <1>1, <2>1, <2>2, TypeControlTake DEF ControlInfo, TypeOK
<1>2. ASSUME NEW k \in {"stop", "restart"}, ControlShutdown(k) PROVE TypeOK'
    <2>1. BusTypeOK'
        BY <1>2 DEF ControlShutdown, ControlTake, TypeOK, BusTypeOK
    <2>2. FlagTypeOK'
        BY <1>2, TypeFrame DEF ControlShutdown, ControlTake, clientVars
    <2> QED
        BY <1>2, <2>1, <2>2, TypeControlTake DEF ControlShutdown, TypeOK
<1>3. CASE ControlInterrupt
    <2>1. BusTypeOK'
        BY <1>3 DEF ControlInterrupt, ControlTake, TypeOK, BusTypeOK
    <2>2. FlagTypeOK'
        BY <1>3, Zenon DEF ControlInterrupt, ControlTake, TypeOK, FlagTypeOK, clientVars
    <2> QED
        BY <1>3, <2>1, <2>2, TypeControlTake DEF ControlInterrupt, TypeOK
<1>4. CASE InterruptSeen
    BY <1>4, TypeOnlyPc DEF InterruptSeen
<1>5. CASE ControlReply
    <2>1. ControlTypeOK'
        BY <1>5 DEF ControlReply, TypeOK, ClientTypeOK, ControlTypeOK, clientVars
    <2>2. TaskTypeOK'
        BY <1>5, TypeGoto DEF ControlReply
    <2> QED
        BY <1>5, <2>1, <2>2, TypeFrame DEF ControlReply, TypeOK, clientVars, outVars
<1>6. CASE ControlReplyFails
    BY <1>6, TypeDie DEF ControlReplyFails, Causes
<1>7. CASE ControlUnsupported
    BY <1>7, TypeDie DEF ControlUnsupported, Causes
<1> QED
    BY <1>1, <1>2, <1>3, <1>4, <1>5, <1>6, <1>7 DEF ControlStep

LEMMA TypeStep == TypeOK /\ [Next]_vars => TypeOK'
<1> SUFFICES ASSUME TypeOK, [Next]_vars PROVE TypeOK'
    OBVIOUS
<1>1. CASE Step
    <2>1. CASE MainReturns
        BY <2>1, TypeDie DEF MainReturns
    <2> QED
        BY <1>1, <2>1, TypeClient, TypeIopub, TypeHeartbeat, TypeShellWork,
           TypeShellSends, TypeCell, TypeReader, TypeControl
        DEF Step
<1>2. CASE UNCHANGED vars
    BY <1>2, TypeFrame DEF vars, TypeOK, clientVars, outVars
<1> QED
    BY <1>1, <1>2 DEF Next, Rest

(* The state always has its type: whatever the number of streams, requests *)
(* and outputs, no channel or pipe exceeds its capacity (main.rs:149) and  *)
(* no task is ahead of what was sent to it.                                *)
THEOREM TypeCorrect == Spec => []TypeOK
BY TypeInit, TypeStep, PTL DEF Spec

-----------------------------------------------------------------------------
(* At most one stale request.  The bound itself is not inductive: it needs *)
(* that the shell task reaches the second poll of its select with a clean  *)
(* slate, and that after a stale request the broadcast is still there for  *)
(* the first poll to find.                                                 *)
StaleInv == /\ StaleAtMostOne
            /\ pc["shell"] = "recv" => stale = 0
            /\ stale > 0 => pos["shell"] < sent \/ pc["shell"] = "done"

LEMMA GotoAt ==
    ASSUME TypeOK, NEW t \in Tasks, NEW l, Goto(t, l)
    PROVE  \A u \in Tasks : pc'[u] = IF u = t THEN l ELSE pc[u]
BY DEF Goto, TypeOK, TaskTypeOK

LEMMA StaleInit == Init => StaleInv
BY TaskNames DEF Init, StaleInv, StaleAtMostOne

(* A step that does not touch what the invariant is about, nor lets the    *)
(* shell task pass its first poll.                                         *)
LEMMA StaleKept ==
    ASSUME TypeOK, StaleInv, stale' = stale, pos' = pos,
           sent' \in Nat, sent <= sent',
           \/ pc'["shell"] = pc["shell"]
           \/ pc["shell"] # "done" /\ pc'["shell"] # "recv"
    PROVE  StaleInv'
<1>1. stale \in Nat /\ sent \in Nat /\ pos["shell"] \in Nat
    BY TaskNames DEF TypeOK, ShellTypeOK, BusTypeOK
<1> QED
    BY <1>1 DEF StaleInv, StaleAtMostOne

LEMMA StaleDie ==
    ASSUME TypeOK, StaleInv, NEW c, Die(c)
    PROVE  StaleInv'
BY StaleKept DEF Die, shellVars, busVars, TypeOK, BusTypeOK

(* A move of the shell task that is not to its second poll. *)
LEMMA StaleMove ==
    ASSUME TypeOK, StaleInv, NEW l, l # "recv", pc["shell"] # "done", Goto("shell", l),
           UNCHANGED <<stale, busVars>>
    PROVE  StaleInv'
<1>1. pc'["shell"] = l
    BY GotoAt, TaskNames
<1> QED
    BY <1>1, StaleKept DEF busVars, TypeOK, BusTypeOK

(* A move of any other task. *)
LEMMA StaleOther ==
    ASSUME TypeOK, StaleInv, NEW t \in Tasks, t # "shell", NEW l, Goto(t, l),
           stale' = stale, pos' = pos, sent' \in Nat, sent <= sent'
    PROVE  StaleInv'
<1>1. pc'["shell"] = pc["shell"]
    BY GotoAt, TaskNames
<1> QED
    BY <1>1, StaleKept

LEMMA StaleSelect ==
    ASSUME TypeOK, StaleInv, NEW t \in Receivers, SelectStep(t)
    PROVE  StaleInv'
<1> DEFINE moved == \A u \in Tasks : u # t => pc'[u] = pc[u]
<1>0. /\ "shell" \in Receivers /\ "shell" \in Tasks /\ t \in Tasks
      /\ stale \in Nat /\ sent \in Nat /\ pos \in [Receivers -> Nat]
      /\ pos["shell"] <= sent
    BY TaskNames DEF TypeOK, ShellTypeOK, BusTypeOK
<1>1. CASE ObeyRestart(t)
    <2>1. CASE t = "shell"
        BY <1>0, <1>1, <2>1 DEF ObeyRestart, StaleInv, StaleAtMostOne
    <2>2. CASE t # "shell"
        <3>1. pos'["shell"] = pos["shell"] /\ sent' = sent /\ stale' = stale /\ pc' = pc
            BY <1>0, <1>1, <2>2 DEF ObeyRestart
        <3> QED
            BY <3>1 DEF StaleInv, StaleAtMostOne
    <2> QED
        BY <2>1, <2>2
<1>2. CASE ObeyStop(t)
    <2>1. pc'["shell"] = IF t = "shell" THEN "done" ELSE pc["shell"]
        BY <1>0, <1>2, GotoAt DEF ObeyStop
    <2>2. /\ stale' = stale /\ sent' = sent
          /\ t # "shell" => pos'["shell"] = pos["shell"]
        BY <1>0, <1>2 DEF ObeyStop, shellVars
    <2> QED
        BY <2>1, <2>2 DEF StaleInv, StaleAtMostOne
<1>3. CASE NothingBroadcast(t)
    <2>1. CASE t = "shell"
        <3>1. pc'["shell"] = "recv"
            BY <1>0, <1>3, <2>1, GotoAt DEF NothingBroadcast
        <3>2. stale = 0
            BY <1>0, <1>3, <2>1 DEF NothingBroadcast, BusReady, StaleInv
        <3> QED
            BY <1>3, <3>1, <3>2
            DEF NothingBroadcast, OnlyPc, StaleInv, StaleAtMostOne, shellVars
    <2>2. CASE t # "shell"
        BY <1>0, <1>3, <2>2, StaleOther DEF NothingBroadcast, OnlyPc, shellVars, busVars
    <2> QED
        BY <2>1, <2>2
<1>4. CASE Park(t)
    BY <1>0, <1>4, StaleOther, StaleMove DEF Park, OnlyPc, shellVars, busVars
<1>5. CASE Wake(t)
    BY <1>0, <1>5, StaleOther, StaleMove DEF Wake, OnlyPc, shellVars, busVars
<1> QED
    BY <1>1, <1>2, <1>3, <1>4, <1>5 DEF SelectStep

LEMMA StaleShell ==
    ASSUME TypeOK, StaleInv, ShellWork \/ ShellSends \/ CellStep
    PROVE  StaleInv'
<1> USE TaskNames DEF shellVars
<1>1. CASE SelectStep("shell")
    BY <1>1, StaleSelect
<1>2. CASE ShellTake
    <2>1. stale = 0 /\ pos["shell"] \in Nat /\ sent \in Nat
        BY <1>2 DEF ShellTake, StaleInv, TypeOK, BusTypeOK
    <2>2. pc'["shell"] \in {"poll", "busy"}
        BY <1>2, GotoAt DEF ShellTake, AfterTake
    <2>3. stale' = (IF pos["shell"] < sent THEN 1 ELSE 0) /\ pos' = pos /\ sent' = sent
        BY <1>2, <2>1 DEF ShellTake, busVars
    <2> QED
        BY <2>1, <2>2, <2>3 DEF StaleInv, StaleAtMostOne
<1>3. CASE PrepareCell
    BY <1>3, StaleMove DEF PrepareCell
<1>4. ASSUME NEW o \in {"error", "nothing", "value", "stream"}, FinishCell(o)
      PROVE  StaleInv'
    BY <1>4, StaleMove DEF FinishCell, AfterCell
<1>5. CASE RenderResult \/ RenderPrinted
    BY <1>5, StaleMove DEF RenderResult, RenderPrinted, OnlyPc
<1>6. CASE ShellReply
    BY <1>6, StaleMove DEF ShellReply, AfterReply
<1>7. CASE ResetSignals
    BY <1>7, StaleMove DEF ResetSignals
<1>8. CASE RenderFails \/ RenderInterrupted \/ ShellReplyFails \/ ShellSendFails \/ LazyPrint
    BY <1>8, StaleDie DEF RenderFails, RenderInterrupted, ShellReplyFails, ShellSendFails, LazyPrint
<1>9. CASE ShellSends
    BY <1>9, StaleMove
    DEF ShellSends, SendBusy, SendPrinted, SendOutput, SendIdle, ShellSend
<1>10. CASE CellPrint
    BY <1>10, StaleMove DEF CellPrint
<1>11. CASE LazyDisplay
    BY <1>11, StaleMove DEF LazyDisplay, OnlyPc
<1>12. ASSUME NEW s \in Streams, CellWrite(s) PROVE StaleInv'
    BY <1>12, StaleKept DEF CellWrite, busVars, TypeOK, BusTypeOK
<1> QED
    BY <1>1, <1>2, <1>3, <1>4, <1>5, <1>6, <1>7, <1>8, <1>9, <1>10, <1>11, <1>12
    DEF ShellWork, CellStep

LEMMA StaleStep == TypeOK /\ StaleInv /\ [Next]_vars => StaleInv'
<1> SUFFICES ASSUME TypeOK, StaleInv, [Next]_vars PROVE StaleInv'
    OBVIOUS
<1> USE TaskNames DEF shellVars, busVars
<1>0. sent \in Nat
    BY DEF TypeOK, BusTypeOK
<1>1. CASE ClientStep
    BY <1>0, <1>1, StaleKept
    DEF ClientStep, ClientShell, ClientControl, ClientPing, ClientLeaves
<1>2. CASE IopubStep
    BY <1>0, <1>2, StaleSelect, StaleOther, StaleDie
    DEF IopubStep, IopubReceive, IopubPublish, IopubPublishFails
<1>3. CASE HeartbeatStep
    BY <1>0, <1>3, StaleSelect, StaleOther, StaleDie
    DEF HeartbeatStep, HeartbeatEcho, HeartbeatFails
<1>4. ASSUME NEW s \in Streams, ReaderWork(s) \/ ReaderSend(s) PROVE StaleInv'
    BY <1>0, <1>4, StaleKept, StaleDie
    DEF ReaderWork, ReaderRead, ReaderStamp, ReaderSend, ReaderSendFails, ReaderEof
<1>5. CASE ControlStep
    <2>1. CASE ControlReplyFails \/ ControlUnsupported
        BY <2>1, StaleDie DEF ControlReplyFails, ControlUnsupported
    <2>2. ASSUME NEW k \in {"stop", "restart"}, ControlShutdown(k) PROVE StaleInv'
        BY <1>0, <2>2, StaleOther DEF ControlShutdown, ControlTake
    <2>3. CASE ControlInfo \/ ControlInterrupt \/ InterruptSeen \/ ControlReply
        BY <1>0, <2>3, StaleOther
        DEF ControlInfo, ControlInterrupt, ControlTake, InterruptSeen, ControlReply, OnlyPc
    <2> QED
        BY <1>5, <2>1, <2>2, <2>3 DEF ControlStep
<1>6. CASE MainReturns
    BY <1>6, StaleDie DEF MainReturns
<1>7. CASE UNCHANGED vars
    BY <1>0, <1>7, StaleKept DEF vars
<1> QED
    BY <1>1, <1>2, <1>3, <1>4, <1>5, <1>6, <1>7, StaleShell DEF Next, Step, Rest

(* However many restarts and requests meet, between the broadcast of a     *)
(* restart (control.rs:60) and the reset of the engine (shell.rs:57-62)    *)
(* the shell task takes at most one request.                               *)
THEOREM OneStaleRequest == Spec => []StaleAtMostOne
<1>1. Init => TypeOK /\ StaleInv
    BY TypeInit, StaleInit
<1>2. TypeOK /\ StaleInv /\ [Next]_vars => (TypeOK /\ StaleInv)'
    BY TypeStep, StaleStep
<1>3. StaleInv => StaleAtMostOne
    BY DEF StaleInv
<1> QED
    BY <1>1, <1>2, <1>3, PTL DEF Spec

-----------------------------------------------------------------------------
(* Known deaths.  What the causes rest on: who may have left its loop, and *)
(* what the control task has in hand.                                      *)
BusInv == /\ sent > 0 => last \in {"stop", "restart"}
          /\ \A t \in Receivers : pc[t] = "done" => StopOrLag

Stopped == sent > 0 /\ last = "stop"

ControlInv ==
    /\ pc["control"] \in {"wait", "reply"} => ctlTaken > 0
    /\ pc["control"] = "wait" => ctlAsked[ctlTaken] = "interrupt"
    /\ pc["control"] = "reply" /\ ctlAsked[ctlTaken] = "stop" => Stopped
    /\ pc["control"] = "done" => Stopped
    /\ signal => pc["control"] = "wait"

DeathInv == BusInv /\ ControlInv /\ KnownDeaths

LEMMA DeathInit == Init => DeathInv
<1> SUFFICES ASSUME Init PROVE DeathInv
    OBVIOUS
<1>1. \A t \in Receivers : pc[t] = "poll"
    BY TaskNames DEF Init
<1>2. pc["control"] = "recv"
    BY TaskNames DEF Init
<1>3. BusInv
    BY <1>1 DEF Init, BusInv
<1>4. ~signal
    BY Zenon DEF Init
<1>5. ControlInv
    BY <1>2, <1>4 DEF ControlInv
<1>6. KnownDeaths
    BY DEF Init, KnownDeaths
<1> QED
    BY <1>3, <1>5, <1>6 DEF DeathInv

(* While the process goes on it has not died of anything. *)
LEMMA AliveNow == ASSUME GoesOn PROVE KnownDeaths'
BY DEF GoesOn, KnownDeaths

(* Nobody joins those who have left. *)
LEMMA BusKept ==
    ASSUME BusInv, UNCHANGED <<sent, last>>,
           \A t \in Receivers : pc'[t] = "done" => pc[t] = "done"
    PROVE  BusInv'
BY DEF BusInv, StopOrLag

LEMMA ControlKept ==
    ASSUME TypeOK, ControlInv, UNCHANGED <<ctlTaken, sent, last>>,
           pc'["control"] = pc["control"],
           ctlTaken > 0 => ctlAsked'[ctlTaken] = ctlAsked[ctlTaken],
           signal' => signal
    PROVE  ControlInv'
BY DEF ControlInv, Stopped

(* A step of a receiver, or of the cell or a reader, that goes on. *)
LEMMA DeathKept ==
    ASSUME TypeOK, DeathInv, GoesOn, UNCHANGED <<ctlAsked, ctlVars, busVars>>,
           signal' => signal, pc'["control"] = pc["control"],
           \A t \in Receivers : pc'[t] = "done" => pc[t] = "done"
    PROVE  DeathInv'
BY AliveNow, BusKept, ControlKept DEF DeathInv, ctlVars, busVars

LEMMA DeathMove ==
    ASSUME TypeOK, DeathInv, GoesOn, UNCHANGED <<ctlAsked, ctlVars, busVars>>,
           signal' => signal,
           NEW t \in Receivers, NEW l, l # "done", Goto(t, l)
    PROVE  DeathInv'
<1>1. /\ pc'["control"] = pc["control"]
      /\ \A u \in Receivers : pc'[u] = "done" => pc[u] = "done"
    BY GotoAt, TaskNames
<1> QED
    BY <1>1, DeathKept

(* A death leaves everything else as it was: it only has to be a known one. *)
LEMMA DeathDie ==
    ASSUME TypeOK, DeathInv, NEW c, Die(c),
           c \in {"iopub_closed", "eof"} => StopOrLag,
           c = "clean" => last = "stop",
           c = "interrupt" => signal
    PROVE  DeathInv'
<1> USE DEF Die, clientVars, shellVars, cellVars, ctlVars, busVars
<1>1. BusInv'
    BY BusKept DEF DeathInv
<1>2. ControlInv'
    BY ControlKept DEF DeathInv
<1>3. signal => pc["control"] = "wait" /\ ctlAsked[ctlTaken] = "interrupt"
    BY DEF DeathInv, ControlInv
<1>4. c = "interrupt" => pc'["control"] = "wait" /\ ctlAsked'[ctlTaken'] = "interrupt"
    BY <1>3
<1>5. KnownDeaths'
    BY <1>4 DEF KnownDeaths, StopOrLag
<1> QED
    BY <1>1, <1>2, <1>5 DEF DeathInv

LEMMA IopubGoneKnown == ASSUME TypeOK, DeathInv, IopubGone PROVE StopOrLag
BY TaskNames DEF IopubGone, DeathInv, BusInv

(* Whoever leaves its loop has got a shutdown, has missed a restart, or    *)
(* finds the broadcast closed, which only a shutdown does.                 *)
LEMMA DeathSelect ==
    ASSUME TypeOK, DeathInv, NEW t \in Receivers, SelectStep(t)
    PROVE  DeathInv'
<1> USE DEF clientVars, shellVars, ctlVars
<1>1. CASE ObeyRestart(t)
    <2>1. BusInv'
        BY <1>1 DEF ObeyRestart, DeathInv, BusInv, StopOrLag
    <2>2. ControlInv'
        BY <1>1, ControlKept DEF ObeyRestart, DeathInv
    <2> QED
        BY <1>1, <2>1, <2>2, AliveNow DEF ObeyRestart, DeathInv
<1>2. CASE ObeyStop(t)
    <2>1. sent \in Nat /\ pos[t] \in Nat /\ pos[t] <= sent
        BY DEF TypeOK, BusTypeOK
    <2>2. ASSUME pos[t] < sent PROVE StopOrLag
        BY <1>2, <2>1, <2>2 DEF ObeyStop, GetsRestart, DeathInv, BusInv, StopOrLag
    <2>3. ASSUME pc["control"] = "done" PROVE StopOrLag
        BY <2>3 DEF DeathInv, ControlInv, Stopped, StopOrLag
    <2>4. StopOrLag
        BY <1>2, <2>2, <2>3 DEF ObeyStop, BusReady
    <2>5. BusInv'
        BY <1>2, <2>4 DEF ObeyStop, DeathInv, BusInv, StopOrLag
    <2>6. ControlInv'
        BY <1>2, ControlKept, GotoAt, TaskNames DEF ObeyStop, DeathInv
    <2> QED
        BY <1>2, <2>5, <2>6, AliveNow DEF ObeyStop, DeathInv
<1>3. CASE NothingBroadcast(t)
    BY <1>3, DeathMove DEF NothingBroadcast, OnlyPc
<1>4. CASE Park(t)
    BY <1>4, DeathMove DEF Park, OnlyPc
<1>5. CASE Wake(t)
    BY <1>5, DeathMove DEF Wake, OnlyPc
<1> QED
    BY <1>1, <1>2, <1>3, <1>4, <1>5 DEF SelectStep

LEMMA DeathShell ==
    ASSUME TypeOK, DeathInv, ShellWork \/ ShellSends \/ CellStep
    PROVE  DeathInv'
<1> USE TaskNames DEF clientVars
<1>1. CASE SelectStep("shell")
    BY <1>1, DeathSelect
<1>2. CASE ShellTake \/ PrepareCell
    BY <1>2, DeathMove DEF ShellTake, AfterTake, PrepareCell
<1>3. ASSUME NEW o \in {"error", "nothing", "value", "stream"}, FinishCell(o)
      PROVE  DeathInv'
    BY <1>3, DeathMove DEF FinishCell, AfterCell
<1>4. CASE RenderResult \/ RenderPrinted \/ LazyDisplay
    BY <1>4, DeathMove DEF RenderResult, RenderPrinted, LazyDisplay, OnlyPc
<1>5. CASE ShellReply
    BY <1>5, DeathMove DEF ShellReply, AfterReply
<1>6. CASE ResetSignals
    BY <1>6, DeathMove DEF ResetSignals, SignalAfterCell
<1>7. CASE ShellSends
    BY <1>7, DeathMove
    DEF ShellSends, SendBusy, SendPrinted, SendOutput, SendIdle, ShellSend
<1>8. CASE CellPrint
    BY <1>8, DeathMove DEF CellPrint
<1>9. ASSUME NEW s \in Streams, CellWrite(s) PROVE DeathInv'
    BY <1>9, DeathKept DEF CellWrite
<1>10. CASE RenderFails \/ RenderInterrupted
    BY <1>10, DeathDie DEF RenderFails, RenderInterrupted
<1>11. CASE ShellReplyFails \/ LazyPrint
    BY <1>11, DeathDie DEF ShellReplyFails, LazyPrint
<1>12. CASE ShellSendFails
    BY <1>12, DeathDie, IopubGoneKnown DEF ShellSendFails
<1> QED
    BY <1>1, <1>2, <1>3, <1>4, <1>5, <1>6, <1>7, <1>8, <1>9, <1>10, <1>11, <1>12
    DEF ShellWork, CellStep

LEMMA DeathReader ==
    ASSUME TypeOK, DeathInv, NEW s \in Streams, ReaderWork(s) \/ ReaderSend(s)
    PROVE  DeathInv'
<1>1. CASE ReaderRead(s) \/ ReaderStamp(s) \/ ReaderSend(s)
    BY <1>1, DeathKept DEF ReaderRead, ReaderStamp, ReaderSend, clientVars
<1>2. CASE ReaderSendFails(s)
    BY <1>2, DeathDie, IopubGoneKnown DEF ReaderSendFails
<1>3. CASE ReaderEof(s)
    <2>1. StopOrLag
        BY <1>3, TaskNames DEF ReaderEof, DeathInv, BusInv
    <2> QED
        BY <1>3, <2>1, DeathDie DEF ReaderEof
<1> QED
    BY <1>1, <1>2, <1>3 DEF ReaderWork

LEMMA DeathControl ==
    ASSUME TypeOK, DeathInv, ControlStep
    PROVE  DeathInv'
<1>0. /\ ctlTaken \in Nat /\ sent \in Nat
      /\ pc["control"] # "wait" => ~signal
    BY DEF TypeOK, ControlTypeOK, BusTypeOK, DeathInv, ControlInv
<1>1. ASSUME NEW t \in Receivers, NEW l, Goto("control", l) PROVE pc'[t] = pc[t]
    BY <1>1, GotoAt, TaskNames
<1>2. ASSUME NEW l, Goto("control", l) PROVE pc'["control"] = l
    BY <1>2, GotoAt, TaskNames
<1>3. CASE ControlInfo
    <2>1. /\ ctlTaken' = ctlTaken + 1 /\ ctlAsked'[ctlTaken'] = "info"
          /\ pc'["control"] = "reply"
          /\ signal' = signal /\ ~signal
        BY <1>0, <1>2, <1>3 DEF ControlInfo, ControlTake, ControlGets, clientVars
    <2>2. BusInv'
        BY <1>1, <1>3, BusKept DEF ControlInfo, ControlTake, DeathInv
    <2>3. ControlInv'
        BY <1>0, <2>1 DEF ControlInv
    <2> QED
        BY <1>3, <2>2, <2>3, AliveNow DEF ControlInfo, ControlTake, DeathInv
<1>4. ASSUME NEW k \in {"stop", "restart"}, ControlShutdown(k) PROVE DeathInv'
    <2>1. /\ ctlTaken' = ctlTaken + 1 /\ ctlAsked'[ctlTaken'] = k
          /\ pc'["control"] = "reply"
          /\ sent' = sent + 1 /\ last' = k
          /\ signal' = signal /\ ~signal
        BY <1>0, <1>2, <1>4 DEF ControlShutdown, ControlTake, ControlGets, clientVars
    <2>2. \A t \in Receivers : pc'[t] = "done" => pc[t] = "done"
        BY <1>1, <1>4 DEF ControlShutdown, ControlTake
    <2>3. BusInv'
        BY <1>0, <2>1, <2>2 DEF DeathInv, BusInv, StopOrLag
    <2>4. ControlInv'
        BY <1>0, <2>1 DEF ControlInv, Stopped
    <2> QED
        BY <1>4, <2>3, <2>4, AliveNow DEF ControlShutdown, ControlTake, DeathInv
<1>5. CASE ControlInterrupt
    <2>1. /\ ctlTaken' = ctlTaken + 1 /\ ctlAsked'[ctlTaken'] = "interrupt"
          /\ pc'["control"] = "wait"
        BY <1>0, <1>2, <1>5 DEF ControlInterrupt, ControlTake, ControlGets, clientVars
    <2>2. BusInv'
        BY <1>1, <1>5, BusKept DEF ControlInterrupt, ControlTake, DeathInv
    <2>3. ControlInv'
        BY <1>0, <2>1 DEF ControlInv
    <2> QED
        BY <1>5, <2>2, <2>3, AliveNow DEF ControlInterrupt, ControlTake, DeathInv
<1>6. CASE InterruptSeen
    <2>1. /\ pc'["control"] = "reply" /\ signal' = signal /\ ~signal
          /\ ctlTaken > 0 /\ ctlAsked[ctlTaken] = "interrupt"
        BY <1>2, <1>6 DEF InterruptSeen, OnlyPc, DeathInv, ControlInv
    <2>2. BusInv'
        BY <1>1, <1>6, BusKept DEF InterruptSeen, OnlyPc, busVars, DeathInv
    <2>3. ControlInv'
        BY <1>6, <2>1 DEF InterruptSeen, OnlyPc, clientVars, ctlVars, ControlInv
    <2> QED
        BY <1>6, <2>2, <2>3, AliveNow DEF InterruptSeen, OnlyPc, DeathInv
<1>7. CASE ControlReply
    <2>1. /\ pc["control"] = "reply" /\ signal' = signal /\ ~signal
          /\ pc'["control"] = IF ctlAsked[ctlTaken] = "stop" THEN "done" ELSE "recv"
        BY <1>0, <1>2, <1>7 DEF ControlReply
    <2>2. BusInv'
        BY <1>1, <1>7, BusKept DEF ControlReply, busVars, DeathInv
    <2>3. ControlInv'
        BY <1>7, <2>1 DEF ControlReply, busVars, DeathInv, ControlInv, Stopped
    <2> QED
        BY <1>7, <2>2, <2>3, AliveNow DEF ControlReply, DeathInv
<1>8. CASE ControlReplyFails \/ ControlUnsupported
    BY <1>8, DeathDie DEF ControlReplyFails, ControlUnsupported
<1> QED
    BY <1>3, <1>4, <1>5, <1>6, <1>7, <1>8 DEF ControlStep

LEMMA DeathClient ==
    ASSUME TypeOK, DeathInv, ClientStep
    PROVE  DeathInv'
<1>1. ASSUME NEW k \in ControlKinds, ClientControl(k) PROVE DeathInv'
    <2>1. ctlTaken > 0 => ctlAsked'[ctlTaken] = ctlAsked[ctlTaken]
        BY <1>1 DEF ClientControl, TypeOK, ClientTypeOK, ControlTypeOK
    <2>2. ControlInv'
        BY <1>1, <2>1, ControlKept DEF ClientControl, ctlVars, busVars, DeathInv
    <2>3. BusInv'
        BY <1>1, BusKept DEF ClientControl, busVars, DeathInv
    <2> QED
        BY <1>1, <2>2, <2>3, AliveNow DEF ClientControl, DeathInv
<1>2. CASE ClientPing \/ ClientLeaves \/ \E k \in ShellKinds : ClientShell(k)
    BY <1>2, DeathKept DEF ClientPing, ClientLeaves, ClientShell
<1> QED
    BY <1>1, <1>2 DEF ClientStep

LEMMA DeathStep == TypeOK /\ DeathInv /\ [Next]_vars => DeathInv'
<1> SUFFICES ASSUME TypeOK, DeathInv, [Next]_vars PROVE DeathInv'
    OBVIOUS
<1> USE TaskNames DEF clientVars
<1>1. CASE IopubStep
    BY <1>1, DeathSelect, DeathMove, DeathDie
    DEF IopubStep, IopubReceive, IopubPublish, IopubPublishFails
<1>2. CASE HeartbeatStep
    BY <1>2, DeathSelect, DeathMove, DeathDie
    DEF HeartbeatStep, HeartbeatEcho, HeartbeatFails
<1>3. CASE MainReturns
    <2>1. last = "stop"
        BY <1>3 DEF MainReturns, DeathInv, ControlInv, Stopped
    <2> QED
        BY <1>3, <2>1, DeathDie DEF MainReturns
<1>4. CASE UNCHANGED vars
    <2>1. BusInv' /\ ControlInv'
        BY <1>4, BusKept, ControlKept DEF vars, ctlVars, busVars, DeathInv
    <2>2. KnownDeaths'
        BY <1>4 DEF vars, ctlVars, busVars, DeathInv, KnownDeaths, StopOrLag
    <2> QED
        BY <2>1, <2>2 DEF DeathInv
<1> QED
    BY <1>1, <1>2, <1>3, <1>4, DeathClient, DeathShell, DeathReader, DeathControl
    DEF Next, Step, Rest

(* The iopub channel is closed and the pipes end only after a shutdown or  *)
(* a missed restart, main returns only after a shutdown (main.rs:204-207), *)
(* and an interrupt makes rendering fail (shell.rs:288-299,                *)
(* print.rs:112-120) only while it waits for its reply (control.rs:81-93). *)
THEOREM DeathsAreKnown == Spec => []KnownDeaths
<1>1. Init => TypeOK /\ DeathInv
    BY TypeInit, DeathInit
<1>2. TypeOK /\ DeathInv /\ [Next]_vars => (TypeOK /\ DeathInv)'
    BY TypeStep, DeathStep
<1>3. DeathInv => KnownDeaths
    BY DEF DeathInv
<1> QED
    BY <1>1, <1>2, <1>3, PTL DEF Spec
=============================================================================
