------------------------------ MODULE Session ------------------------------
(***************************************************************************)
(* What the kernel keeps from one cell to the next: the cell counters, the *)
(* engine and the stack of the shell task, and the two process-wide        *)
(* statics RENDER_FILTER and EXTERNAL_STATE, through cells that succeed,   *)
(* fail to parse or fail to evaluate, and through restarts.                *)
(*                                                                         *)
(* Cells are numbered in the order in which they are taken.  The value of  *)
(* a variable is the number of the cell that assigned it, and the id of a  *)
(* variable is its place among the variables of the engine.  How a cell    *)
(* gets to run, and what ends the process, is the business of Kernel.tla.  *)
(***************************************************************************)
EXTENDS Naturals, Sequences

CONSTANTS
    Names,        \* names of variables that cells declare
    NoName,       \* what a cell declares that declares none
    MaxCells,     \* bound: cells the client sends
    MaxRestarts   \* bound: restarts the client asks for

ASSUME SessionAssumption == /\ NoName \notin Names
                            /\ MaxCells \in Nat /\ MaxRestarts \in Nat

VARIABLES
    counter,      \* Cell: execution and retry counter
    scope,        \* engine: the id each name stands for, 0 when there is none
    decls,        \* engine: its variables, each with the cell that declared it
    runExternal,  \* engine: whether it has the command run-external
    stack,        \* stack: values of variables, from ids to cells
    konst,        \* stack: the cell name in the nuju constant, <<>> or <<name>>
    external,     \* EXTERNAL_STATE
    filter,       \* RENDER_FILTER, as the cell that set it; 0 is None
    phase,        \* where the shell task is with the cell in hand
    declares,     \* what the cell in hand declares
    names,        \* history: the names given to cells, in order
    replies,      \* history: the reply to each cell
    shown,        \* history: results, each with the filter it was rendered under
    enabled,      \* history: first cell since the restart to run nuju external
    restarts      \* history: how many restarts there were

engineVars  == <<scope, decls, runExternal>>
stackVars   == <<stack, konst>>
historyVars == <<names, shown, enabled>>
vars == <<counter, engineVars, stackVars, external, filter, phase, declares,
          historyVars, replies, restarts>>

NoValues == [v \in {} |-> 0]

Init ==
    /\ counter = [execution |-> 1, retry |-> 1]
    /\ scope = [n \in Names |-> 0] /\ decls = <<>> /\ runExternal = FALSE
    /\ stack = NoValues /\ konst = <<>>
    /\ external = "disabled" /\ filter = 0
    /\ phase = "idle" /\ declares = NoName
    /\ names = <<>> /\ replies = <<>> /\ shown = {} /\ enabled = 0 /\ restarts = 0

(* The cell in hand. *)
Current == Len(names)

-----------------------------------------------------------------------------
(* A restart puts back clones of the first engine state and stack.  The    *)
(* counters and the statics stay as they are.                              *)
StackAfterRestartKept == stack     \* mutant: only the engine is reset
StackAfterRestart == NoValues

Restart ==
    /\ phase = "idle" /\ restarts < MaxRestarts
    /\ scope' = [n \in Names |-> 0] /\ decls' = <<>> /\ runExternal' = FALSE
    /\ stack' = StackAfterRestart /\ konst' = <<>>
    /\ enabled' = 0
    /\ restarts' = restarts + 1
    /\ UNCHANGED <<counter, external, filter, phase, declares, names, replies, shown>>

-----------------------------------------------------------------------------
(* handle_execute_request up to the evaluation thread: External::apply,    *)
(* next_name, and the nuju constant on the stack.                          *)
Raised(e) == IF e = "justEnabled" THEN "alreadyEnabled" ELSE e

AfterNameKept(c) == c              \* mutant: a retry does not count
AfterName(c) == [c EXCEPT !.retry = @ + 1]

TakeCell(d) ==
    /\ phase = "idle" /\ Len(names) < MaxCells
    /\ runExternal' = (runExternal \/ external = "justEnabled")
    /\ external' = Raised(external)
    /\ names' = Append(names, counter)
    /\ counter' = AfterName(counter)
    /\ konst' = <<counter>>
    /\ declares' = d
    /\ phase' = "parsing"
    /\ UNCHANGED <<scope, decls, stack, filter, replies, shown, enabled, restarts>>

(* The reply to a cell ends it.  An error carries the count of the next    *)
(* success.                                                                *)
Answer(kind) ==
    /\ replies' = Append(replies, [kind |-> kind, count |-> counter.execution])
    /\ declares' = NoName
    /\ phase' = "idle"

(* A parse or compile error returns before the delta is merged. *)
DeclsAfterParseErrorMerged ==      \* mutant: the delta is merged at once
    IF declares = NoName THEN decls ELSE Append(decls, Current)
DeclsAfterParseError == decls

ParseFails ==
    /\ phase = "parsing"
    /\ decls' = DeclsAfterParseError
    /\ Answer("parse")
    /\ UNCHANGED <<counter, scope, runExternal, stackVars, external, filter,
                   historyVars, restarts>>

(* merge_delta: a declared name stands for a new variable from here on,    *)
(* which has no value yet.                                                 *)
Merge ==
    /\ phase = "parsing"
    /\ IF declares = NoName
         THEN UNCHANGED <<scope, decls>>
         ELSE /\ decls' = Append(decls, Current)
              /\ scope' = [scope EXCEPT ![declares] = Len(decls')]
    /\ phase' = "running"
    /\ UNCHANGED <<counter, runExternal, stackVars, external, filter, declares,
                   historyVars, replies, restarts>>

-----------------------------------------------------------------------------
(* What the code of the cell does while it is evaluated. *)

Assigned == declares # NoName => scope[declares] \in DOMAIN stack

(* let *)
Assign ==
    /\ phase = "running" /\ ~Assigned
    /\ stack' = [v \in DOMAIN stack \cup {scope[declares]} |->
                     IF v = scope[declares] THEN Current ELSE stack[v]]
    /\ UNCHANGED <<counter, engineVars, konst, external, filter, phase, declares,
                   historyVars, replies, restarts>>

(* nuju display *)
Display ==
    /\ phase = "running"
    /\ filter' = Current
    /\ UNCHANGED <<counter, engineVars, stackVars, external, phase, declares,
                   historyVars, replies, restarts>>

(* nuju external: fetch_max(JustEnabled) *)
RaisedAtOnce(e) == "alreadyEnabled"   \* mutant: the state is raised too far
RaisedByCommand(e) == IF e = "disabled" THEN "justEnabled" ELSE e

RunExternal ==
    /\ phase = "running"
    /\ external' = RaisedByCommand(external)
    /\ enabled' = IF enabled = 0 THEN Current ELSE enabled
    /\ UNCHANGED <<counter, engineVars, stackVars, filter, phase, declares, names,
                   replies, shown, restarts>>

(* handle_execute_error: the filter is left where it is. *)
EvaluationFails ==
    /\ phase = "running"
    /\ Answer("failed")
    /\ UNCHANGED <<counter, engineVars, stackVars, external, filter, historyVars,
                   restarts>>

(* handle_execute_results: success() returns the count it increments; only *)
(* a result that is not nothing takes the filter.                          *)
SuccessUncounted(c) == [c EXCEPT !.retry = 1]   \* mutant: no increment
Success(c) == [execution |-> c.execution + 1, retry |-> 1]

FilterLeft == filter               \* mutant: the filter is cloned
FilterTaken == 0

Succeeds(isNothing) ==
    /\ phase = "running" /\ Assigned
    /\ counter' = Success(counter)
    /\ IF isNothing
         THEN UNCHANGED <<filter, shown>>
         ELSE /\ shown' = shown \cup {[cell |-> Current, by |-> filter]}
              /\ filter' = FilterTaken
    /\ Answer("ok")
    /\ UNCHANGED <<engineVars, stackVars, external, names, enabled, restarts>>

-----------------------------------------------------------------------------
Step == \/ Restart
        \/ \E d \in Names \cup {NoName} : TakeCell(d)
        \/ ParseFails \/ Merge
        \/ Assign \/ Display \/ RunExternal
        \/ EvaluationFails \/ \E isNothing \in BOOLEAN : Succeeds(isNothing)

(* The client may send nothing more. *)
Rest == phase = "idle" /\ UNCHANGED vars

Next == Step \/ Rest

Spec == Init /\ [][Next]_vars

-----------------------------------------------------------------------------
CellNames == [execution : Nat \ {0}, retry : Nat \ {0}]
Replies   == [kind : {"ok", "parse", "failed"}, count : Nat \ {0}]

CellTypeOK ==   /\ counter \in CellNames
                /\ names \in Seq(CellNames) /\ konst \in Seq(CellNames)
EngineTypeOK == /\ decls \in Seq(Nat \ {0}) /\ scope \in [Names -> 0..Len(decls)]
                /\ DOMAIN stack \subseteq 1..Len(decls)
                /\ phase = "running" /\ declares # NoName => scope[declares] # 0
FlagTypeOK ==   runExternal \in BOOLEAN
StaticTypeOK == /\ external \in {"disabled", "justEnabled", "alreadyEnabled"}
                /\ filter \in 0..Len(names) /\ enabled \in 0..Len(names)
                /\ shown \subseteq [cell : 1..Len(names), by : 0..Len(names)]
                /\ restarts \in Nat
ReplyTypeOK ==  /\ phase \in {"idle", "parsing", "running"}
                /\ declares \in Names \cup {NoName}
                /\ replies \in Seq(Replies)
                /\ Len(names) = IF phase = "idle" THEN Len(replies) ELSE Len(replies) + 1

(* The values the state takes; every cell but the one in hand has been     *)
(* answered, only variables of the engine are on the stack, and the name   *)
(* that a running cell declares stands for one of them.                    *)
TypeOK == CellTypeOK /\ EngineTypeOK /\ FlagTypeOK /\ StaticTypeOK /\ ReplyTypeOK

(* No two cells share a name, over retries, successes and restarts, and    *)
(* the nuju constant names the cell in hand: nuju print and error reports  *)
(* point at one cell.                                                      *)
UniqueNames ==
    /\ \A i, j \in 1..Len(names) : i # j => names[i] # names[j]
    /\ phase # "idle" => konst = <<names[Len(names)]>>

(* The counts the notebook shows start at 1 and move with every success    *)
(* and with nothing else.                                                  *)
CountsInOrder ==
    \A i \in 1..Len(replies) :
        replies[i].count = IF i = 1 THEN 1
                           ELSE IF replies[i - 1].kind = "ok" THEN replies[i - 1].count + 1
                           ELSE replies[i - 1].count

(* Every value on the stack was assigned by the cell that declared its     *)
(* variable in the engine there is now: nothing is left of the session     *)
(* before a restart, whose variables had the same ids.                     *)
ValuesAreCurrent == \A v \in DOMAIN stack : v <= Len(decls) /\ stack[v] = decls[v]

(* State is shared across cells: what a successful cell declared has its   *)
(* value, and a cell that failed to parse has declared nothing.            *)
StateSharing ==
    \A v \in 1..Len(decls) :
        decls[v] <= Len(replies) =>
            /\ replies[decls[v]].kind # "parse"
            /\ replies[decls[v]].kind = "ok" => v \in DOMAIN stack

(* A filter set by a cell acts on one result at most. *)
FilterOnce == \A r, s \in shown : r.by = s.by /\ r.by # 0 => r = s

(* Until there is a restart, external commands are available to exactly    *)
(* the cells after the first one that ran nuju external.                   *)
ExternalSubsequent ==
    (phase # "idle" /\ restarts = 0) => (runExternal <=> enabled \in 1..(Len(names) - 1))

-----------------------------------------------------------------------------
(* Claims of the repository that the code does not keep. *)

(* nuju display: "Control the rendering of the current cell's output". *)
FilterOfThisCell == \A r \in shown : r.by \in {0, r.cell}

(* nuju external: "Enable external commands for subsequent cells". *)
ExternalEnabled == (phase # "idle" /\ enabled \in 1..(Len(names) - 1)) => runExternal
=============================================================================
