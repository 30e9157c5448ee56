------------------------------ MODULE Frontend ------------------------------
(***************************************************************************)
(* What a Jupyter frontend may rely on when it talks to the kernel: the    *)
(* order of the messages it sees on the iopub channel and of the replies   *)
(* it gets on the shell channel.  A request is known by its id; ids grow   *)
(* in the order in which the frontend sends its requests.                  *)
(*                                                                         *)
(* This is the abstract specification; Kernel.tla implements it.           *)
(***************************************************************************)
EXTENDS Naturals, Sequences, SequencesExt

CONSTANT Ids      \* the ids a shell request can have

VARIABLES
    view,         \* every message seen on iopub, in order
    answered      \* ids of the shell requests answered so far, in order

feVars == <<view, answered>>

Seen(type, r) == [type |-> type, parent |-> r] \in ToSet(view)

(* A request is open between its "busy" and its "idle" status. *)
IsOpen(r) == Seen("busy", r) /\ ~Seen("idle", r)

-----------------------------------------------------------------------------
FeInit == /\ view = <<>>
          /\ answered = <<>>

See(type, r) == /\ view' = Append(view, [type |-> type, parent |-> r])
                /\ UNCHANGED answered

(* A request opens only when every request before it has been closed, and  *)
(* requests open in the order in which they were sent.                     *)
SeeBusy(r) == /\ \A q \in Ids : Seen("busy", q) => Seen("idle", q) /\ q < r
              /\ See("busy", r)

(* A result, an error report or a printed value belongs to the open request. *)
SeeOutput(r) == IsOpen(r) /\ See("output", r)

(* Idle closes the open request, and by then its reply has been sent. *)
SeeIdle(r) == /\ IsOpen(r)
              /\ r \in ToSet(answered)
              /\ See("idle", r)

(* Text written to a captured stream may come late, but never under a      *)
(* request that has not been seen to open.                                 *)
SeeStream(r) == Seen("busy", r) /\ See("stream", r)

(* A request is answered at most once, and in the order of the requests.   *)
SeeReply(r) == /\ \A q \in ToSet(answered) : q < r
               /\ answered' = Append(answered, r)
               /\ UNCHANGED view

FeNext == \E r \in Ids : \/ SeeBusy(r)
                         \/ SeeOutput(r)
                         \/ SeeIdle(r)
                         \/ SeeStream(r)
                         \/ SeeReply(r)

FeSpec == FeInit /\ [][FeNext]_feVars
=============================================================================
