# A TLA+ model of nu-jupyter-kernel

nu-jupyter-kernel is a Jupyter kernel for nushell: a process of four tokio tasks
that talks to a frontend over ZeroMQ sockets, evaluates cells with the nushell
engine and sends results, printed values and captured text back. This directory
models what runs concurrently in it, what travels on its wires and what its
plotting plugin computes, checks the model with TLC on small instances, and
proves the main safety properties for every instance with TLAPS.

    tlc -config KernelCells.cfg Kernel       one of the runs below
    tlc -config Session.cfg SessionMC
    tlc -config Traffic.cfg Traffic
    tlc -config Display.cfg DisplayMC
    tlapm FrontendProofs.tla                 the proofs: after KernelProofs.tla
    tlapm SessionProofs.tla
    tlapm RequestProofs.tla                  after WireProofs.tla and TrafficProofs.tla
    tlapm DisplayProofs.tla                  after PlotProofs.tla

Paths below are relative to the repository.

## 1. Inventory

### The kernel process

| Component | State it keeps | Operations |
|---|---|---|
| Process (`src/main.rs`) | the four tasks' handles, the two channels | `start_kernel`: bind sockets, spawn tasks, join them; `set_avalanche_panic_hook`: any panic exits with status 1 |
| Shell task (`src/handlers/shell.rs`) | engine state, stack, cell counters, `nuju` constant, the writing ends of the pipes | receive a request, busy, kernel info / execute / is-complete, reply, idle; reset on restart; leave on shutdown |
| Control task (`src/handlers/control.rs`) | the sender of the shutdown broadcast, the interrupt signal | kernel info, interrupt (set the signal, poll until it is reset), shutdown and restart (broadcast, reply); debug requests are `todo!()` |
| Iopub task (`src/handlers/mod.rs`) | the receiver of the iopub channel (one slot) | receive, send on the socket |
| Heartbeat task (`src/handlers/mod.rs`) | - | echo |
| Stream readers (`src/handlers/stream.rs`) | an OS thread per captured stream: buffer, pipe, shared parent header | read, decode, stamp with the parent, send on the channel; end of file is `todo!()` |
| Engine (`src/nu/mod.rs`, `konst.rs`) | declarations, variables, environment, the interrupt signal | initialise, parse, merge, evaluate |
| Jupyter commands (`src/nu/commands/`) | `RENDER_FILTER`, `EXTERNAL_STATE` (process-wide) | `nuju print` (render, then `blocking_send`), `nuju display` (set the filter), `nuju external` (switch on external commands) |
| Rendering (`src/nu/render.rs`) | - | a value to text, HTML, markdown, CSV, JSON, SVG, PNG by filter and type |
| Messages (`src/jupyter/messages/`) | the connection's key, digester | frames to messages and back, signatures, headers |
| Kernel info, connection file, registration | - | one-shot |

### The plotting plugin (`crates/nu_plugin_plotters`)

Pure functions from nushell values to pictures: series (`commands/series`),
charts and their margins (`commands/chart_2d.rs`), coordinates and ranges of
mixed numbers (`value/coords`), colours in four notations (`value/color.rs`),
drawing (`commands/draw`). They are registered with the kernel's own engine, so
they run on the thread of a cell or, when a chart is rendered as SVG, on the
thread of the shell task, and a panic of theirs is one of the kernel.

### How they interact

    client --shell socket---> shell task --iopub channel--> iopub task --> client
    client --control socket-> control task --broadcast(1)--> shell, iopub, heartbeat
    cell thread --pipe--> reader thread --iopub channel--> iopub task
    control task --interrupt signal--> engine --reset after a cell--> control task

The iopub channel has one slot and four kinds of senders. The shutdown broadcast
keeps one value: a receiver that is busy when a second one is sent gets
`Lagged`, which the tasks treat as a shutdown. The interrupt signal is an
`AtomicBool` shared by the control task, the engine and the shell task.

### What is hard

* **Ordering.** Everything a frontend sees of a request crosses two sockets, a
  one-slot channel and several threads, and still has to arrive as busy,
  outputs, idle of one request at a time.
* **Shutdown.** Four tasks, two reader threads and a cell thread learn of it at
  different moments, and who leaves first closes a channel or a pipe under the
  others.
* **Interrupts.** The signal is level-triggered and has a life of its own: it may
  be set before, during or after a cell, or while a value is rendered.
* **Lazy results.** A stream returned by a cell is evaluated while it is rendered,
  on the async task's own thread and under the lock of the render filter.
* **State that outlives a cell or a restart**: filters, counters, the
  external-command switch.
* **Byte boundaries** in the stream readers; **number boundaries** in the plots.

What makes each component correct:

* shell and iopub: each request of a known type is answered once, in order,
  bracketed by its statuses, and never forgotten; nothing dies except for known
  reasons; on a restart no more than one request runs on the old engine;
* control: every request is answered, a shutdown ends the process, an interrupt
  of a running cell returns;
* heartbeat: echoes whatever the others wait for;
* readers: all text gets out, in order, whole, under a request already opened;
* engine and commands: names of cells stay unique and counts follow successes, a
  filter acts on the cell that set it, a restart leaves nothing behind;
* framing: a request is served only if all of its frames were there, everything
  sent verifies, is told apart by its id and belongs to a request of the client;
* rendering: a value comes as text and in each format its type and the filter
  allow, whichever of the others fail;
* plotting: what is drawn lies within its axes, every notation of a colour or a
  side means the same, an option that is not given again stays.

`PROJECT.json` lists the hazards one by one, each at its line.

## 2. Modules

| Module | What it is |
|---|---|
| `Frontend` | abstract specification: what a frontend may rely on, in two variables (`view`, what it saw on iopub; `answered`, the replies it got) |
| `Kernel` | the four tasks, the reader threads, the cell thread, the channels and the client |
| `KernelProofs` | theorems about `Kernel`: its type, its deaths, stale requests |
| `FrontendProofs` | `Kernel` implements `Frontend` and forgets no request; extends `KernelProofs` |
| `Session` | what is kept from one cell to the next: counters, engine, stack, `RENDER_FILTER`, `EXTERNAL_STATE` |
| `SessionMC` | `Session` with a symmetry set for TLC |
| `SessionProofs` | theorems about `Session` |
| `Wire` | frames: reading a request, writing replies, broadcasts and statuses (operators only) |
| `Traffic` | what goes over the sockets and through the pipes, byte by byte and frame by frame; extends `Wire` |
| `WireProofs` | what `Multipart` writes, `ReadBack` and `Verifies` read back |
| `TrafficProofs` | theorems about the text of the streams; extends `Traffic` |
| `RequestProofs` | theorems about requests, attribution, ids and characters; extends both |
| `Coords`, `Colors`, `Charts` | numbers and ranges, colours, series and charts and what is drawn of them (operators only, each extends the one before) |
| `Display` | cells that plot and show, one command after the other; extends `Charts` |
| `DisplayMC` | `Display` with the values TLC uses |
| `PlotProofs` | lemmas about what `Coords`, `Colors` and `Charts` compute: bytes, digits, rounding, growing ranges |
| `DisplayProofs` | theorems about `Display`; extends `PlotProofs` |

### `Kernel`: state

| Variable | Code |
|---|---|
| `exit` | whether the process is alive, or what ended it; every panic is an exit because of the panic hook |
| `asked`, `taken` | requests on the shell socket and how many the task has received; request `r` is the r-th sent, so an id is also its order |
| `ctlAsked`, `ctlTaken`, `pings`, `pongs` | the same for the control and heartbeat sockets |
| `sent`, `last`, `pos` | the broadcast: number of values sent, the one kept, what each receiver has consumed |
| `pc` | the `.await` or call each task is at |
| `outcome`, `outs` | the evaluation in hand: how it ended, how much it has printed |
| `chan`, `held` | the iopub channel, and the message between `recv` and `send` in the iopub task |
| `signal` | the interrupt flag |
| `pipe`, `hdr`, `rpc`, `rparent` | per stream: unread chunks, the shared parent header, where the reader is and the header it took |
| `replies`, `published`, `ctlAnswered`, `stale` | history, read by properties only |

### `Kernel`: actions

A step of the model is what the code does between two points where another
task or thread can be noticed: an `.await`, a blocking call, an access to shared
state.

* `ObeyRestart`, `ObeyStop`, `NothingBroadcast`, `Park`, `Wake` are the `biased`
  `select!` shared by three loops (`mod.rs:14-28`, `mod.rs:41-54`,
  `shell.rs:48-69`). The two polls are two steps: a broadcast sent between
  them is missed, which is what `StaleAtMostOne` counts.
* `ShellTake`, `SendBusy`, `PrepareCell`, `FinishCell`, `RenderResult`,
  `SendOutput`, `ShellReply`, `ResetSignals`, `SendIdle` follow a request through
  `shell.rs`; `ShellReplyFails` and `ShellSendFails` are its `unwrap`s.
  `AfterCell` says what a cell that ended with a value, with nothing
  or with an error leads to.
* `CellPrint`, `RenderPrinted`, `SendPrinted` are one `nuju print`: it is called, has
  rendered its value, has sent it.
* `RenderFails` is the `unwrap` of what the renderer returned, or a panic in it,
  for a result (`shell.rs:299`) and for a print (`print.rs:120`). It may happen to any
  value: a stream may end in an error, `to text` may refuse, a chart may have no
  series; which value does so is `Display`'s business. `RenderInterrupted` is the
  same end when the engine fails the rendering because of the interrupt signal.
* `CellPrint`, `CellWrite`, `LazyPrint`, `LazyDisplay` are what the code of a cell
  may do, `CellWrite` also while a stream it prints or returns is collected. Evaluating nushell code is the nushell crates' business: the model
  only knows how it may end (`Outcomes`) and that the engine fails calls while
  the interrupt signal is set.
* `ReaderRead`, `ReaderStamp`, `ReaderSend`: one turn of a reader's loop, which
  looks at the parent header after it has read the text.
* `Control...`: one action per request kind, plus the poll of the signal and the
  reply. `ControlUnsupported` is the unwrapped `recv` and the `todo!()`s.
* `IopubReceive`, `IopubPublish`: one message of the iopub task; `IopubPublishFails` is the
  `unwrap` of its send, which may fail once the client has left.
* `MainReturns`: all four tasks joined.

`Rest` is a stuttering step for the states in which the system may stand still;
TLC's deadlock check is on in every run and so proves that it stands still
nowhere else.

### `Session`

One step per call that changes what is kept: `TakeCell` is `handle_execute_request`
up to the evaluation thread (apply the external switch, name the cell, set the
constant), `ParseFails` and `Merge` are the two ways out of the parser in
`nu::execute`, `Assign`, `Display` and `RunExternal` what the code of a cell does,
`EvaluationFails` and `Succeeds` the two handlers of its outcome, `Restart` the
branch of the select that puts the first engine and stack back. Nothing here runs
concurrently: the shell task has the context, and lends it to one evaluation thread
at a time. Which request comes when is `Kernel`'s concern.

A variable is its id, the place it has in the engine, and its value is the number
of the cell that assigned it. A restart makes ids start over, as in the engine, so
a stack that outlived its engine would show up as a value assigned by a cell of
an earlier session. A cell declares at most one variable; two declarations are two
cells. That merging makes a name stand for a new variable without a value is
nushell's behaviour and is taken as given.

| Variable | Code |
|---|---|
| `counter` | `Cell` |
| `scope`, `decls`, `runExternal` | `ctx.engine_state`: names, variables, the command `run-external` |
| `stack`, `konst` | `ctx.stack`: values, and the one of the `nuju` constant |
| `external`, `filter` | the statics `EXTERNAL_STATE` and `RENDER_FILTER`; the filter is known by the cell that set it |
| `phase`, `declares` | the cell in hand |
| `names`, `replies`, `shown`, `enabled`, `restarts` | history |

### `Wire` and `Traffic`

`Kernel` knows when a message is sent, `Traffic` what is in it. A frame is a
tag for what its bytes are (a delimiter, a header, an empty object, something that
is no UTF-8) and the value they encode, so a conversion may fail where it fails in the code.
`Recv` reads a request with every `unwrap` of `Message::recv` and
`parse_variant` and says whether it panics, is refused or yields a message;
`Multipart` writes one; `ReadBack` and `Verifies` are the client's end, by the
protocol. The signature is the tuple it is computed over: equal digests stand for
equal frames.

The shell task, the control task, the thread of a cell and the readers run
freely here; the select, the channels and the interrupt are `Kernel`'s, and a
message that `Kernel` lets wait in the channel is simply sent later. Text is a
sequence of bytes, each with the cell that wrote it and its part in a character (whole, first or
second of two). A cell writes whole characters or torn ones, `torn` remembers
which stream has got a torn one.

| Variable | Code |
|---|---|
| `asked`, `asking`, `pc`, `hand` | the loop of `shell.rs` and its `message`; `asking` is the request as it was sent |
| `ctlAsked`, `ctlAsking`, `ctlHand`, `stop` | the same of `control.rs`, and that a shutdown was broadcast |
| `counter` | `MESSAGE_COUNTER` |
| `out`, `seen` | the socket and multipart sent last, the ids of all |
| `replyTo` | `message_data` of a `StreamHandler` |
| `pipe`, `buf`, `rpc`, `rmsg` | the pipe, `s_buf`, where the reader is, the message it sends |
| `wrote`, `told`, `torn` | history |

`ReaderRead` returns what the pipe holds up to `BufferSize`, and the reader reads on
after a full buffer (`AfterRead`). `ReaderStamp` decodes, looks up whom to
answer and takes a message id, `ReaderSend` sends. `NextId` is the one
`fetch_add` of `Header::new`. `UpdateReply` is one `update_reply`, a step of its
own for each stream because each takes its own lock.

### `Coords`, `Colors`, `Charts` and `Display`

A nushell value is a record tagged with its type. A conversion (`from_value`)
returns the set of what it yields, empty for an error; a command returns an `Outcome`:
it fails, panics or yields. Numbers are counted in tenths, and floats are exact
up to a limit and then get coarser in three steps (`Ulp`, `Rounded`), which is
what doubles do from 2^50 on; `Exact` stands for 2^53. The pixel buffer is counted
modulo `Wrap`, which stands for 2^32.

`Display` has the commands of a cell as actions: `MakeSeries` (`series line`,
`series bar`), `MakeChart` (`chart 2d`, with a chart to extend or without),
`DrawPixels` (`draw png`, `draw terminal`) and `Show`, the renderer of
`render.rs` with the filter it is given. Its state is what a cell has in hand: `series`,
`chart`, and as history what was last `written` for each option and what came of the
`last` command. `Dies` is the panic hook. The formats a type is rendered in
(`Takes`) are the input types of the nushell commands.

Sockets and nushell are not under `src/`. ZeroMQ is taken to deliver in order
and without loss to a connected client; a client that has left makes a reply
fail. The capacity of tokio's channels and what a lagging or closed receiver gets
are modelled from how the code uses them.

## 3. Runs

| Run | Instance | Question | States |
|---|---|---|---|
| `kernel_cells` | 2 shell requests of 3 kinds, up to 2 prints or writes each, 1 stream | `NothingForgotten`, `FrontendView`: is every request bracketed, answered and closed in order while four senders compete for one slot? | 322 000 |
| `kernel_control` | 2 cells, 2 of interrupt / stop / restart, all 3 receivers, 1 stream | the same two, and `KnownDeaths`, `StaleAtMostOne`: what can control requests break? | 255 000 |
| `kernel_edges` | 1 request, 1 control request of every kind, 1 heartbeat, failing and lazy cells, a client that may leave | `TypeOK`, `KnownDeaths`, and `HeartbeatLives` under fairness | 343 000 |
| `kernel_live` | 1 cell with a lazy result, 2 control requests, a client that may leave | `RequestsClosed`, `StopEnds`, `InterruptDuringCell` under fairness | 236 000 |
| `session` | 4 cells, 2 names of variables, 1 restart | `TypeOK`, `UniqueNames`, `CountsInOrder`, `ValuesAreCurrent`, `StateSharing`, `FilterOnce`, `ExternalSubsequent`: what does a cell find of the ones before it? | 1 007 000 |
| `traffic` | 2 shell requests, 1 control request, each undamaged or damaged in one of four ways; 3 bytes of text, a buffer of 2 | `TypeOK`, `TextKept`, `DecodesWhole`, `WithheldFull`, `AttributedLater`, `FramesReadBack`, `WellFormedServed`, `UniqueIds`, and `TextArrives` under fairness: does all text arrive once, whole and under a sensible parent, and can the client use every message? | 327 000 |
| `display` | series and charts with 2 parts (series or options), 27 inputs, 90 colours, 30 options | `TypeOK`, `InsideAxes`, `LastWins`, `SidesAgree`, `PictureWhole`, `ColoursReadBack`, `ShownAsAsked`: do plots show what was written, and values what was asked? | 23 000 |
| `filter_leak` | 2 cells | `FilterOfThisCell`, violated | |
| `external_restart` | 4 cells, 1 restart | `ExternalEnabled`, violated | |
| `interrupt_idle` | 1 cell, 1 interrupt | `InterruptAnswered`, violated | |
| `shutdown_reply` | 1 cell, 1 stop | `ShutdownBeforeReply`, violated | |
| `lazy_print` | 1 cell that returns a lazy stream | `PrintAnywhere`, violated | |

**Bounds.** `MaxShell = 2` has a request behind another one, which ordering,
attribution of late text and the stale request after a restart need. `MaxControl =
2` is needed for a receiver to lag behind the one-value broadcast and for a
request to queue behind an interrupt. `MaxPipe = 1` and `IopubCap = 1` (the
code's own capacity) make writers and senders block. One stream stands for two: the
readers share nothing but the channel, where the shell task competes already.
In `kernel_live` a cell ends in a lazy stream, which has every step a value has and
`LazyDisplay` besides, or in an error when it is interrupted.
A run without pings may leave the heartbeat task out of `Receivers`. The
heartbeat's interplay with the broadcast is in `kernel_control` and
`kernel_edges`.

`Session` needs two cells on each side of a restart (one that enables or declares
and one that finds out), hence four; two names so that a name can be declared
anew and another one take over its id. The names are interchangeable, so the
run uses them as a symmetry set; it checks no liveness.

`Traffic` needs two requests for late text to meet another parent, and three bytes
with a buffer of two for a full read, a read that goes on after it, and a
character of two bytes on the boundary. Two streams were checked with a smaller
buffer; they share the counter only, which the shell and control tasks
contend for already. The control socket carries one request because a second one
follows the same path with another number.

`Display` needs two series, or a series and an option, or two options in two calls.
Among the inputs are integers on both sides of `Exact`, lists that change
their kind, and everything that is no coordinate; among the colours the
limits of channels and alphas, signs and wide characters in hexadecimal digits.
`Wrap` lies between the bytes of the default chart and those of the largest one.

**Fairness.** Weak fairness for each task and each thread: the runtime polls a
woken task, the operating system runs a runnable thread, and the evaluation of a
cell ends (`ShellWork` contains `FinishCell`; a cell that loops for ever is
outside the liveness claims). Strong fairness for sends on the iopub channel:
room comes and goes while others send, and tokio's semaphore serves waiters in
order. No fairness for the client, nor for what a cell prints, writes or displays.
`Traffic` assumes weak fairness of the shell task, of the control task's reply and of
each reader. `Session` and `Display` check safety only.

**Liveness claims and their limits.** `RequestsClosed` excepts the end of the
process, a shell thread stuck on its own lock (`LazyDisplay`) and an iopub task
that left because it lagged; `InterruptDuringCell` excepts the first two. `StopEnds` says the process ends, cleanly or not
and with its client or without:
the reader threads and closed channels often make it exit with status 1, which
`KnownDeaths` allows after a shutdown or a missed restart only. Where the shell thread is stuck the process
does not end, since `start_kernel` joins the shell task; there `StopEnds` says that
every other task has left, and `HeartbeatLives` makes no exception for it at all: the lock
holds up the shell task and nobody else.

`KnownDeaths` says nothing of a rendering that fails on its own account, of a reply to a client
that has left, or of a control request the kernel does not support: the code ends the
process there at any time, and nothing in the repository says it should not.

`TextArrives` excepts the end of the process and what `WithheldFull` describes: text
that fills whole buffers waits for the next byte, for ever if none comes.

**What the plot properties leave out.** `InsideAxes` says nothing of axes the
user has set, and asks for the tick of a bar only below `Exact`: beyond it
neighbouring integers compare equal, the axis may begin at the wrong one of them, and
a bar may stand without its tick. `SidesAgree` leaves out the shorthand of
three values, where the code disagrees with CSS (section 5).

**Refinement.** `FrontendView` is `Frontend!FeSpec` with `view` mapped to
`published` and `answered` to `replies`: every step of the kernel is a step of the
abstract specification or leaves it unchanged.

## 4. Proofs

`KernelProofs` and `FrontendProofs` show, for all constants that satisfy `KindAssumption` and
`BoundAssumption` (any number of requests, any channel capacity, any set of
streams), `SessionProofs` for all that satisfy `SessionAssumption` (any number
of cells, names and restarts), and the proofs about `Traffic` for all that satisfy
`TrafficAssumption` (any size of the buffer but zero, any number of requests and
bytes, any set of streams, any damages of those listed). The theorems about `Display`
assume `DisplayAssumption`, `WrapAssumption` and `ExactAssumption` and otherwise hold
for any values, colours and options that can be written and any number of series.
`DisplayAssumption` says of the inputs what nushell's types say: a list and a string are
sequences, a number has a size, which is whole for an integer, the ends of a range are
numbers, and widths, heights and sides have no sign (`Chart2dOptions` has `u32`).
`WrapAssumption` asks for a positive modulus, `ExactAssumption` for an `Exact` that
is a multiple of four, so that the limits at which floats get coarser, `Exact` and its half
and quarter, are whole numbers (2^53 is such a multiple). What is proved of numbers is
proved of the model's rounding, which gets no coarser beyond twice `Exact`.

| Theorem | Statement | Inductive invariant |
|---|---|---|
| `KernelImplementsFrontend` | `Spec => FrontendView` | `FlowInv` |
| `EverythingAnswered` | `Spec => []NothingForgotten` | `FlowInv` |
| `TypeCorrect` | `Spec => []TypeOK` | `TypeOK` itself |
| `OneStaleRequest` | `Spec => []StaleAtMostOne` | `StaleInv` |
| `DeathsAreKnown` | `Spec => []KnownDeaths` | `DeathInv` |
| `SessionType` | `Spec => []TypeOK` (of `Session`) | `TypeOK` itself |
| `NamesAreUnique` | `Spec => []UniqueNames` | `NamesInv` |
| `CountsFollowSuccess` | `Spec => []CountsInOrder` | `CountsInv` |
| `NothingSurvivesRestart`, `StateIsShared` | `Spec => []ValuesAreCurrent`, `Spec => []StateSharing` | `EngineInv` |
| `FilterActsOnce` | `Spec => []FilterOnce` | `FilterInv` |
| `ExternalFollows` | `Spec => []ExternalSubsequent` | `ExternalInv` |
| `RoundTrip` | what is written along any route is read back as it was meant | - |
| `NoTextLost`, `OnlyFullWithheld` | `Spec => []TextKept`, `Spec => []WithheldFull` | `TextInv` |
| `OnlyCompleteServed` | `Spec => []WellFormedServed` | `RequestInv`: `HandInv`, `ControlInv` |
| `TextNeverEarly` | `Spec => []AttributedLater` | `RequestInv`: `AddressInv`, `OlderInv`, `SendInv` |
| `EverythingReadsBack` | `Spec => []FramesReadBack` | `RequestInv`: `SendInv` |
| `IdsAreUnique` | `Spec => UniqueIds` | `RequestInv`: `IdsInv` |
| `WholeDecoded` | `Spec => []DecodesWhole` | `WholeInv` |
| `TrafficType` | `Spec => []TypeOK` (of `Traffic`) | `TypeOK` with the invariants above |
| `DisplayType` | `Spec => []TypeOK` (of `Display`) | `HandInv` |
| `DrawnInsideAxes` | `Spec => []InsideAxes` | `HandInv` |
| `OptionsLastWins` | `Spec => []LastWins` | `OptionInv` |
| `SidesAreCss` | `Spec => []SidesAgree` | `SidesAgree` with `HandInv` |
| `PicturesAreWhole`, `ShownInEveryFormat`, `ColoursRoundTrip` | `Spec => []PictureWhole`, `Spec => []ShownAsAsked`, `Spec => []ColoursReadBack` | themselves, each by what one command computes |

`FlowInv` is about `Flow`, everything published, in the hands of the iopub task and in the
channel, one after the other: a send appends to it, the iopub task only moves
messages along it, and its death cuts off its end. The shell task's place in its loop says how far each
request has come (`Opened`, `Replied`, `Closed`), and `FlowInv` ties the rest to that:
`StatusInv` says that the statuses in the flow are those of the requests opened and closed,
as long as the iopub task lives; `ReplyInv` the same of the replies; `StreamInv` that
a pipe with text, or a reader with some, has the header of a request already opened; and
`OrderInv` that each message in the flow stands in its place given those *before* it
and the replies. That `OrderInv` says nothing of what follows is what makes it survive
both the growth of the flow and the iopub task's death, where `StatusInv` is given up and
a prefix remains. The refinement then needs only the first message the iopub task
publishes: it is in its place, and that is the guard of `SeeBusy`, `SeeOutput`, `SeeIdle`
or `SeeStream`. `NothingForgotten` follows from `StatusInv` and `ReplyInv` where nothing
is under way, so that the flow is what was published.

`StaleAtMostOne` is not inductive: from a state with one stale request and the
shell task about to receive, a step would make it two. `StaleInv` says where the
task can be: a stale request is only counted while a value waits unread, and the
task can then reach its receive only through a poll of the broadcast, which
it does not survive without reading it.

`KnownDeaths` speaks of the moment of death, so its invariant describes the
living: `BusInv` (whoever has left its loop had a shutdown or lagged) and
`ControlInv` (what the control task has in hand; a signal that is set has the
control task waiting for it; the task ends only after broadcasting a stop). Its
use is in these deaths: `IopubGone`, and a shell task that has returned, imply a shutdown or a missed restart by
`BusInv`, a finished main implies a stop by `ControlInv`, and a rendering that is interrupted has
its interrupt unanswered by the second and the last conjunct of `ControlInv`: a signal
that is set has the control task waiting, and what it waits with is an interrupt. So the
signal of an interrupt that was answered never ends a later rendering.

`UniqueNames` says nothing of the counter that makes the names. `NamesInv` adds
that every name given out lies before the counter in the order of executions and
then of retries: a retry moves it up in the second place, a success in the first,
nothing moves it back. `CountsInv` ties the counter to the last reply in the same way.
`EngineInv` says who may have declared a variable: a cell that has been answered,
or the one that runs, and then it is the engine's last variable and the name in scope
for it. That is what makes an assignment hit the variable its own cell declared.
`FilterInv` adds to `FilterOnce` that a filter that waits has rendered nothing yet, and that
what was rendered was asked for before the cell in hand: setting a filter again does not
bring an old one back. `ExternalInv` relates the static to the history: just enabled means by the last
cell taken, enabled already means by an earlier one, and only then has the engine the command.
It holds until a restart, which resets the engine and not the static; what that leads
to is the run `external_restart`.

`TextKept` is kept by a stamp only because the reader has no other message then, and by
a read only because the same bytes leave the pipe; `TextInv` adds that a message
is in hand only while it is sent and that nothing is buffered at that time. Its
`Full` is where `OnlyFullWithheld` comes from: a reader that reads again has
either an empty buffer or whole buffers, and a read on top of that adds a whole one or
goes to the stamp.

`RequestInv` follows a request from its frames. `HandInv` and `ControlInv` say that
the one in hand had all its frames and is known by its own route and header, which
the lemmas about `Recv` show damage by damage. `AddressInv` says that a stream
answers nobody or a request that has been asked, and the one that runs while a cell
runs; `OlderInv` that every byte in the pipe and in the buffer was written by
that request or by an earlier one. Both together are needed: the stamp looks the
address up long after the text was written. `SendInv` says the same of the messages
in readers' hands (`MessageInv`) and of their ids (`IdsInv`: used ids lie behind
the counter, those in readers' hands are unused and distinct), since a message is sent
some time after its id was drawn. Everything about frames then goes through
`RoundTrip`, which needs nothing but a route without a delimiter in it.

`WholeInv` says that what is left in buffer and pipe together is whole characters, so
that what is decoded is whole as soon as the pipe has been emptied; it rests on the
concatenation of whole texts being whole.

`HandInv` of `Display` says what a command hands on: series with at least one point, all of
whose coordinates are numbers with a size, and charts of such series with four sides each.
`TypeOK` follows (a first series with a point has a span, so there is a range to draw in),
and so does `InsideAxes`: a range that has grown by one span after the other covers each of
them (`GrownByCovers`); a span of half a unit to each side covers the corners of its narrower
bar, however large the numbers, since rounding keeps their order (`RoundedMonotone`); and the ticks
below `Exact` are where the bars are, since it leaves those integers alone (`RoundedExact`). `OptionInv` is `LastWins` with a chart
that may be absent.

What walks over a list there (spans, bytes of strings, formats) is a recursive function, whose
value at each place the lemmas get from `NatSetInduction`: a set of naturals with
zero and all successors has no least counterexample. The library's own induction rules take
an operator as their parameter and cannot be used here.

Each invariant is proved along the same lines: one lemma per group of actions,
with frame lemmas (`TypeFrame`, `StaleKept`, `DeathKept`, ...) for what a step leaves
alone.

Every invariant that a passing run checks and the refinement are proved. Only
model-checked are the liveness properties `HeartbeatLives`, `RequestsClosed`,
`StopEnds`, `InterruptDuringCell` and `TextArrives`, which need fairness and `ENABLED`,
and those are out of this prover's reach. The properties of the five runs that expect a violation
are false, and are not proved.

## 5. Where the code and its documentation disagree

1. An interrupt that arrives while no cell runs is never answered, and no later
   control request is read until a cell has ended (`control.rs:84`).
   `InterruptDuringCell` is what does hold.
2. The reply to a shutdown request does not wait for the shutdown
   (`control.rs:60`), although the comment above it says so.
3. `nuju print` inside a lazy result ends the process (`print.rs:142`), although
   the README allows it "at any point during cell execution". (The closure must
   carry the `nuju` constant, which `nuju print` reads first.)
4. A filter set by a cell that fails or returns nothing is applied to the next
   result, which is not "the current cell's output" (`shell.rs:297`).
5. After a restart `nuju external` no longer enables external commands
   (`external.rs:74`).
6. The shorthand of three values for `--margin` and `--label-area` gives top, right,
   bottom, left as `[a, b, b, c]` (`chart_2d.rs:287`); the help says "refer to
   css margin shorthands", where it is `[a, b, c, b]`. No run shows it:
   `SidesAgree` states where they do agree.

Found on the way, and documented by the model rather than contradicted by the
repository: extending a chart switches its mesh on again unless the call says
otherwise (`chart_2d.rs:275`); a chart without series as the result of a cell ends the
kernel (`draw/mod.rs:22`), and so do `chart 2d` without input, which its signature
declares (`chart_2d.rs:256`), a list whose first element is no coordinate
(`series/mod.rs:56`), an empty margin (`chart_2d.rs:289`), a hexadecimal colour cut
through a wide character (`color.rs:85`) and a request with a frame missing
(`messages/mod.rs:143`); at a shutdown the first reader to see the end of its pipe
ends the process before the other has sent its text (`stream.rs:42`); text of a
cell may carry a later cell as its parent (`stream.rs:57`); two restarts in quick succession can end a task (`GetsRestart`);
any value that cannot be rendered ends the process, as a result and when it is printed
(`shell.rs:299`, `print.rs:120`, `RenderFails`), and so does an interrupt during rendering
(`RenderInterrupted`); a `nuju display` in a closure of a lazy result locks up the shell
task (`display.rs:66`, `LazyDisplay`); an unknown request
type is dropped in silence (`AfterTake`).

## 6. Not modelled, and why

* Evaluation of nushell code, strokes, fonts and image encodings: other crates.
* Connection file, kernel registration, command line, looking up the ids of the format
  commands: run once, before or instead of the tasks.
* Kernel info, module description, error and utility types: constant data.
* The cryptography of signatures: a keyed digest is opaque to a model, which keeps
  what it is computed over. The kernel never verifies one, and the model shows that.
* Fields of headers and replies that nothing depends on (session, user, date, version), and
  buffers, which are received and dropped.
* How the plugin's two entry points parse their flags: the kernel uses the one where
  the nushell parser has checked them.
* `DiscreteRanged` and the ticks of axes without bars: they hand on to the
  plotters crate. Numbers near the limits of 64-bit integers.
* A panic of the thread that evaluates a cell, beyond the causes listed in
  `Causes`: whatever nushell itself may panic on.

## 7. Plan

1. `Kernel`, `Frontend`, `Session` and their proofs, the refinement included (done).
2. `Wire`, `Traffic` and the proofs of all their safety properties (done).
3. `Coords`, `Colors`, `Charts`, `Display` and theirs (done).
4. To prove, as the lemmas behind the liveness that TLC checks: what a task that waits
   waits for (no state in which the channel is full and the iopub task at rest, no parked
   task with its source ready), as invariants.
