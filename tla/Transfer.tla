------------------------------ MODULE Transfer ------------------------------
(***************************************************************************)
(* What the transfer of display messages owes the front end: the messages  *)
(* of one batch are put on the IOPub socket one after the other, in the    *)
(* order of the batch, each once and as it is; the transfer may fail while *)
(* any of them is still to be sent, and then the others are never sent.    *)
(*                                                                         *)
(* WireFormat.tla describes the buffer through which it is done, and       *)
(* implements this module; DisplayPipeline.tla is built on it.             *)
(***************************************************************************)
EXTENDS Naturals, Sequences

VARIABLES
    batch,    \* the messages to be sent
    out,      \* those that were sent
    status    \* "sending", "done" or "failed"

vars == <<batch, out, status>>

Init == out = <<>> /\ status = "sending"

Send ==
    /\ status = "sending" /\ Len(out) < Len(batch)
    /\ out' = Append(out, batch[Len(out) + 1])
    /\ UNCHANGED <<batch, status>>

Finish ==
    /\ status = "sending" /\ Len(out) = Len(batch)
    /\ status' = "done"
    /\ UNCHANGED <<batch, out>>

(* An empty batch can fail, too: before it is known to be empty. *)
Fail ==
    /\ status = "sending" /\ (out = <<>> \/ Len(out) < Len(batch))
    /\ status' = "failed"
    /\ UNCHANGED <<batch, out>>

Next == Send \/ Finish \/ Fail

Spec == Init /\ [][Next]_vars

=============================================================================
