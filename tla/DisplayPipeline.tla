-------------------------- MODULE DisplayPipeline --------------------------
(***************************************************************************)
(* Display messages from the user's code to the IOPub socket, over a       *)
(* series of cells.  In the REPL process, JupyterKernel.communicator has   *)
(* two handlers that EnableIPythonDisplay.swift sets when some cell        *)
(* includes it: one gives each cell's parent message to the IPython shell  *)
(* made by create_shell, the other hands out what the shell's              *)
(* CapturingSocket collected.  Before a cell the kernel passes on its      *)
(* parent message; after a successful one it triggers the second handler,  *)
(* reads the messages at the addresses it is given, and sends them         *)
(* (Transfer, which WireFormat implements).                                *)
(***************************************************************************)
EXTENDS Naturals, Sequences

CONSTANTS
    MaxCells,     \* bound on the cells
    MaxDisplays   \* bound on the messages displayed

ASSUME BoundsAssumption == MaxCells \in Nat /\ MaxDisplays \in Nat

VARIABLES
    pc,         \* what the kernel does for the cell
    cell,       \* the number of the cell, or of the last one
    enabledIn,  \* the cell in which the handlers were set, 0 before
    parent,     \* the cell of the shell's parent message, 0 for none
    captured,   \* messages of the CapturingSocket
    retained,   \* previousDisplayMessages
    addresses,  \* what the trigger returned: the messages it points to
    batch, out, status,  \* the transfer of the batch that was read
    displayed,  \* history: for each display message its cell
    sent,       \* history: the display messages on the IOPub socket
    raised      \* history: the cells that ended with an exception

transfer == <<batch, out, status>>
history  == <<displayed, sent, raised>>
repl     == <<enabledIn, parent, captured, retained>>
vars     == <<pc, cell, repl, addresses, transfer, history>>

T == INSTANCE Transfer

(* What is read where there is no message any more. *)
Garbage == [n |-> 0, parent |-> 0]

Elements(s) == {s[k] : k \in DOMAIN s}

Init ==
    /\ pc = "idle" /\ cell = 0
    /\ enabledIn = 0 /\ parent = 0
    /\ captured = <<>> /\ retained = <<>>
    /\ addresses = <<>>
    /\ batch = <<>> /\ out = <<>> /\ status = "done"
    /\ displayed = <<>> /\ sent = <<>> /\ raised = {}

Enabled == enabledIn # 0

Raise == pc' = "idle" /\ raised' = raised \cup {cell}

-----------------------------------------------------------------------------
Begin ==
    /\ pc = "idle" /\ cell < MaxCells
    /\ pc' = "parent" /\ cell' = cell + 1
    /\ UNCHANGED <<repl, addresses, transfer, history>>

(* Faulty: the parent message is passed on once only. *)
SetParent_Once ==
    /\ pc = "parent" /\ pc' = "run"
    /\ parent' = IF Enabled /\ parent = 0 THEN cell ELSE parent
    /\ UNCHANGED <<cell, enabledIn, captured, retained, addresses, transfer,
                   history>>

(* updateParentMessage does nothing as long as there is no handler. *)
SetParent ==
    /\ pc = "parent" /\ pc' = "run"
    /\ parent' = IF Enabled THEN cell ELSE parent
    /\ UNCHANGED <<cell, enabledIn, captured, retained, addresses, transfer,
                   history>>

(* setParentMessage throws, after the handler ran or before. *)
SetParentFails ==
    /\ pc = "parent" /\ Raise
    /\ parent' \in IF Enabled THEN {parent, cell} ELSE {parent}
    /\ UNCHANGED <<cell, enabledIn, captured, retained, addresses, transfer,
                   displayed, sent>>

(* IPythonDisplay.enable: a shell and a socket, and then the handlers.  A  *)
(* second call finds a shell and only warns.                               *)
Enable ==
    /\ pc = "run" /\ ~Enabled
    /\ enabledIn' = cell
    /\ UNCHANGED <<pc, cell, parent, captured, retained, addresses, transfer,
                   history>>

(* The shell stamps a message with its parent and gives it to the socket. *)
Display ==
    /\ pc = "run" /\ Enabled
    /\ Len(displayed) < MaxDisplays
    /\ captured' = Append(captured, [n |-> Len(displayed) + 1, parent |-> parent])
    /\ displayed' = Append(displayed, cell)
    /\ UNCHANGED <<pc, cell, enabledIn, parent, retained, addresses, transfer,
                   sent, raised>>

(* Faulty: the messages of a cell that failed are dropped. *)
CellFails_Drops ==
    /\ pc = "run" /\ pc' = "idle"
    /\ captured' = <<>>
    /\ UNCHANGED <<cell, enabledIn, parent, retained, addresses, transfer,
                   history>>

(* An error of the cell: nothing is triggered. *)
CellFails ==
    /\ pc = "run" /\ pc' = "idle"
    /\ UNCHANGED <<cell, repl, addresses, transfer, history>>

(* The REPL process dies, and with it all that it had. *)
ProcessDies ==
    /\ pc = "run" /\ pc' = "dead"
    /\ UNCHANGED <<cell, repl, addresses, transfer, history>>

CellSucceeds ==
    /\ pc = "run" /\ pc' = "trigger"
    /\ UNCHANGED <<cell, repl, addresses, transfer, history>>

-----------------------------------------------------------------------------
(* triggerAfterSuccessfulExecution.  Without a handler it returns nothing. *)

(* Faulty: the messages stay in the socket. *)
Trigger_KeepsAll ==
    /\ pc = "trigger" /\ pc' = "fetch"
    /\ addresses' = captured
    /\ retained' = captured
    /\ UNCHANGED <<cell, enabledIn, parent, captured, transfer, history>>

(* Faulty: the messages are let go when the trigger returns. *)
Trigger_NotRetained ==
    /\ pc = "trigger" /\ pc' = "fetch"
    /\ addresses' = captured
    /\ captured' = <<>>
    /\ UNCHANGED <<cell, enabledIn, parent, retained, transfer, history>>

Trigger ==
    /\ pc = "trigger" /\ pc' = "fetch"
    /\ addresses' = captured
    /\ retained' = captured
    /\ captured' = <<>>
    /\ UNCHANGED <<cell, enabledIn, parent, transfer, history>>

(* It fails, with the messages still in the socket or taken from it. *)
TriggerFails ==
    /\ pc = "trigger" /\ Raise
    /\ \/ UNCHANGED <<captured, retained>>
       \/ captured' = <<>> /\ retained' = captured
    /\ UNCHANGED <<cell, enabledIn, parent, addresses, transfer, displayed, sent>>

(* The kernel reads the memory of the REPL process, where only what is     *)
(* retained is still there.                                                *)
Fetch ==
    /\ pc = "fetch" /\ pc' = "transfer"
    /\ batch' = [k \in DOMAIN addresses |->
                    IF addresses[k] \in Elements(retained) THEN addresses[k]
                    ELSE Garbage]
    /\ out' = <<>> /\ status' = "sending"
    /\ addresses' = <<>>
    /\ UNCHANGED <<cell, repl, history>>

Send ==
    /\ pc = "transfer" /\ T!Send
    /\ sent' = Append(sent, out'[Len(out')])
    /\ UNCHANGED <<pc, cell, repl, addresses, displayed, raised>>

Finish ==
    /\ pc = "transfer" /\ T!Finish
    /\ pc' = "idle"
    /\ UNCHANGED <<cell, repl, addresses, history>>

(* Reading the memory, or a send, throws. *)
TransferFails ==
    /\ pc = "transfer" /\ T!Fail
    /\ Raise
    /\ UNCHANGED <<cell, repl, addresses, displayed, sent>>

-----------------------------------------------------------------------------
Cell == Begin \/ SetParent \/ SetParentFails \/ CellFails \/ ProcessDies
        \/ CellSucceeds

User == Enable \/ Display

AfterSuccessfulExecution ==
    Trigger \/ TriggerFails \/ Fetch \/ Send \/ Finish \/ TransferFails

Next == Cell \/ User \/ AfterSuccessfulExecution

Spec == Init /\ [][Next]_vars

-----------------------------------------------------------------------------
(* Properties. *)

(* Messages arrive in the order in which they were displayed, none twice,  *)
(* and none read from memory that the REPL process had let go              *)
(* (KernelCommunicator.swift:38-48, EnableIPythonDisplay.swift:46-52).     *)
SentOnceInOrder ==
    /\ \A k \in DOMAIN sent : sent[k].n \in DOMAIN displayed
    /\ \A j, k \in DOMAIN sent : j < k => sent[j].n < sent[k].n

(* A message carries the cell that displayed it as its parent, also when   *)
(* that cell failed and the message is sent after a later one.  Only the   *)
(* messages of the cell that set the handlers have none: its parent        *)
(* message came before them (DoExecute.swift:151-153).                     *)
ParentIsDisplayingCell ==
    \A k \in DOMAIN sent :
        LET c == displayed[sent[k].n]
        IN sent[k].parent = IF c = enabledIn THEN 0 ELSE c

(* A message that is neither sent nor waiting was lost with an exception   *)
(* that the front end was shown, for its own cell or a later one           *)
(* (DoExecute.swift:32-41, 151-158).                                       *)
NumbersOf(s) == {s[k].n : k \in DOMAIN s}

Waiting == NumbersOf(captured) \cup NumbersOf(addresses)
           \cup (IF pc = "transfer" THEN NumbersOf(batch) ELSE {})

LostOnlyWithException ==
    \A n \in DOMAIN displayed :
        \/ n \in Waiting \cup NumbersOf(sent)
        \/ \E c \in raised : c >= displayed[n]

(* When a cell ended with success, all that it and the failed cells before *)
(* it displayed has been sent: no step from the end of the transfer leaves *)
(* a message behind (Deserialization.swift:9-26).                          *)
Settled(n) == n \in NumbersOf(sent') \/ \E c \in raised : c >= displayed[n]

LeavesNothing == captured' = <<>> /\ (\A n \in DOMAIN displayed : Settled(n))

SuccessLeavesNothing ==
    [][pc # "idle" /\ pc' = "idle"
        => cell \in raised' \/ CellFails \/ LeavesNothing]_vars

-----------------------------------------------------------------------------
(* The inductive invariant. *)

Messages == [n : Nat, parent : Nat]

TypeOK ==
    /\ {cell, enabledIn, parent} \subseteq Nat
    /\ captured \in Seq(Messages) /\ addresses \in Seq(Messages)
    /\ batch \in Seq(Messages) /\ out \in Seq(Messages)
    /\ sent \in Seq(Messages) /\ displayed \in Seq(Nat)

(* The shell's parent message when the user's code runs. *)
Parents ==
    /\ enabledIn <= cell
    /\ pc = "parent" => enabledIn < cell
    /\ enabledIn = 0 => parent = 0 /\ displayed = <<>>
    /\ pc = "run" => parent = IF enabledIn \in {0, cell} THEN 0 ELSE cell

Genuine(s) ==
    \A k \in DOMAIN s :
        /\ s[k].n \in DOMAIN displayed
        /\ LET c == displayed[s[k].n]
           IN s[k].parent = IF c = enabledIn THEN 0 ELSE c

Rising(s) == \A j, k \in DOMAIN s : j < k => s[j].n < s[k].n

Before(s, t) == \A j \in DOMAIN s, k \in DOMAIN t : s[j].n < t[k].n

(* Messages go from captured to addresses, batch and sent, in this order;  *)
(* what is on its way is later than what was sent.                         *)
Collected ==
    /\ Genuine(captured) /\ Rising(captured) /\ Before(sent, captured)
    /\ pc \in {"fetch", "transfer"} => captured = <<>>

Fetched ==
    pc = "fetch" => /\ addresses = retained
                    /\ Genuine(addresses) /\ Rising(addresses)
                    /\ Before(sent, addresses)

Transferred ==
    /\ Genuine(sent) /\ Rising(sent)
    /\ pc = "transfer" =>
          /\ Genuine(batch) /\ Rising(batch)
          /\ \A j \in DOMAIN sent, k \in DOMAIN batch :
                k > Len(out) => sent[j].n < batch[k].n

(* Where a message is that was not lost. *)
Kept ==
    /\ \A n \in DOMAIN displayed : displayed[n] <= cell
    /\ pc # "fetch" => addresses = <<>>
    /\ pc = "transfer" => \A k \in DOMAIN batch :
          k <= Len(out) => batch[k].n \in NumbersOf(sent)
    /\ LostOnlyWithException

IInv == TypeOK /\ Parents /\ Collected /\ Fetched /\ Transferred /\ Kept

=============================================================================
