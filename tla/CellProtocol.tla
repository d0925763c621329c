---------------------------- MODULE CellProtocol ----------------------------
(***************************************************************************)
(* What the Swift kernel owes the notebook front end, whatever happens     *)
(* inside it: cells are executed one at a time; everything published on    *)
(* the IOPub socket belongs to the cell that is being executed; a cell has *)
(* at most one concluding message (its value or its error), nothing is     *)
(* published after it, and the status of the reply agrees with it.  The    *)
(* kernel may die at any moment.                                           *)
(*                                                                         *)
(* CellExecution.tla describes how doExecute and its threads do this and   *)
(* is shown to implement this module.                                      *)
(***************************************************************************)
EXTENDS Naturals, Sequences

VARIABLES
    phase,      \* "idle", "busy", "concluded" or "down"
    cell,       \* number of the cell being executed, or of the last one
    conclusion, \* how the cell being executed was concluded
    iopub,      \* the kind and the cell of every message published, in order
    replies     \* one entry for each finished execute request

vars == <<phase, cell, conclusion, iopub, replies>>

(* Messages a cell publishes while it is being executed. *)
StreamKinds  == {"stdout", "system", "display"}

(* Messages that conclude a cell: the value of its last expression, or one *)
(* of the errors of doExecute.                                             *)
ErrorKinds   == {"compile", "trace", "killed", "install"}
OutcomeKinds == {"value", "bad"} \cup ErrorKinds

(* A cell may also end with no concluding message. *)
Conclusions == OutcomeKinds \cup {"silent", "failed"}

(* A request is answered "ok" or "error", or do_execute raises ("raised")  *)
(* and the front end gets no reply.                                        *)
Status(k) == CASE k \in {"value", "silent"} -> "ok"
               [] k \in ErrorKinds          -> "error"
               [] k \in {"bad", "failed"}   -> "raised"

Post(k) == iopub' = Append(iopub, [kind |-> k, cell |-> cell])

Init ==
    /\ phase = "idle"
    /\ cell = 0
    /\ conclusion = "none"
    /\ iopub = <<>>
    /\ replies = <<>>

Begin ==
    /\ phase = "idle"
    /\ phase' = "busy"
    /\ cell' = cell + 1
    /\ UNCHANGED <<conclusion, iopub, replies>>

Publish ==
    /\ phase = "busy"
    /\ \E k \in StreamKinds : Post(k)
    /\ UNCHANGED <<phase, cell, conclusion, replies>>

Conclude ==
    /\ phase = "busy"
    /\ phase' = "concluded"
    /\ \E k \in Conclusions :
          /\ conclusion' = k
          /\ IF k \in OutcomeKinds THEN Post(k) ELSE UNCHANGED iopub
    /\ UNCHANGED <<cell, replies>>

Answer ==
    /\ phase = "concluded"
    /\ phase' = "idle"
    /\ replies' = Append(replies, [cell |-> cell, status |-> Status(conclusion)])
    /\ conclusion' = "none"
    /\ UNCHANGED <<cell, iopub>>

Die ==
    /\ phase # "down"
    /\ phase' = "down"
    /\ UNCHANGED <<cell, conclusion, iopub, replies>>

Next == Begin \/ Publish \/ Conclude \/ Answer \/ Die

Spec == Init /\ [][Next]_vars

-----------------------------------------------------------------------------

(* Messages of one cell are not mixed with those of another. *)
CellsInOrder ==
    \A i, j \in DOMAIN iopub : i < j => iopub[i].cell <= iopub[j].cell

(* Nothing is published for a cell after the message that concludes it, so *)
(* that there is at most one.                                              *)
OutcomeIsLast ==
    \A i, j \in DOMAIN iopub :
        i < j /\ iopub[i].cell = iopub[j].cell => iopub[i].kind \notin OutcomeKinds

(* The kinds of the concluding messages of a cell. *)
Outcomes(c) ==
    {iopub[i].kind : i \in {j \in DOMAIN iopub : iopub[j].cell = c}}
        \cap OutcomeKinds

(* The answer to each request agrees with what was published: "ok" with at *)
(* most a value, "error" with exactly one error, no reply at all with at   *)
(* most the message about the bad state of the kernel.                     *)
AnswersAgree ==
    \A i \in DOMAIN replies : LET ks == Outcomes(replies[i].cell) IN
        CASE replies[i].status = "ok"     -> ks \subseteq {"value"}
          [] replies[i].status = "error"  -> \E k \in ErrorKinds : ks = {k}
          [] replies[i].status = "raised" -> ks \subseteq {"bad"}

=============================================================================
