--------------------------- MODULE CellExecution ---------------------------
(***************************************************************************)
(* The execution of notebook cells by the Swift kernel: do_execute and     *)
(* doExecute on the main thread, the StdoutHandler thread that doExecute   *)
(* starts for each cell, the SIGINTHandler thread that initSwift starts    *)
(* once, and the Swift REPL process that LLDB drives for them.             *)
(*                                                                         *)
(* The three threads are threads of one Python process: each runs only     *)
(* while it holds the global interpreter lock.  A call into LLDB is made   *)
(* through a plain function pointer, so the main thread keeps the lock     *)
(* while the REPL process runs the cell; between two Python bytecodes, and *)
(* in a Python call that blocks, a thread gives the lock up.               *)
(*                                                                         *)
(* The REPL process writes to a pseudo-terminal.  A thread of LLDB, which  *)
(* needs no lock, moves what was written into a buffer, and getStdout      *)
(* empties that buffer.  Output is a sequence of units, numbered as they   *)
(* are written; a unit in Wide contains a character of several bytes,      *)
(* which LLDB may find half written.                                       *)
(***************************************************************************)
EXTENDS Integers, Sequences

CONSTANTS
    MaxCells,       \* bound on the number of execute requests
    MaxOutput,      \* bound on the units of output of the REPL process
    MaxDirectives,  \* bound on the messages published by directives
    Wide,           \* units of output that contain a multi-byte character
    Interrupts      \* whether the user ever interrupts the kernel

ASSUME ConstantsAssumption ==
    /\ MaxCells \in Nat
    /\ MaxOutput \in Nat
    /\ MaxDirectives \in Nat
    /\ Wide \subseteq Nat
    /\ Interrupts \in BOOLEAN

VARIABLES
    pc,           \* where the main thread is in do_execute and doExecute
    gil,          \* the thread that holds the interpreter lock, or "none"
    cell,         \* number of the request being served, or of the last one
    result,       \* the ExecutionResult of the cell, or the error it threw
    conclusion,   \* the concluding message doExecute chose for the cell
    replies,      \* answers to execute requests
    initialized,  \* KernelContext.debuggerInitialized
    exitTimer,    \* loop.stop is scheduled
    inferior,     \* the REPL process: "none", "alive" or "dead"
    hpc,          \* where the StdoutHandler of the current cell is
    stopEvent,    \* its stop_event
    hadStdout,    \* its had_stdout
    text,         \* what it took from LLDB and has not published yet
    due,          \* units LLDB had read when the stop_event was last set
    pty,          \* written by the REPL process, not yet read by LLDB
    lldb,         \* read by LLDB, not yet taken by getStdout
    half,         \* LLDB has read half a character of the next unit
    emitted,      \* number of units written so far
    sigint,       \* a SIGINT is pending for the kernel process
    spc,          \* where the SIGINTHandler thread is
    iopub         \* everything published on the IOPub socket, in order

request == <<cell, result, conclusion, replies>>
kernel  == <<initialized, exitTimer, inferior>>
handler == <<hpc, stopEvent, hadStdout, text, due>>
output  == <<pty, lldb, half, emitted>>
signals == <<sigint, spc>>
vars == <<pc, gil, request, kernel, handler, output, signals, iopub>>

Results ==
    {"none", "blank", "value", "novalue", "preprocessorError", "compileError",
     "runtimeError", "installException", "exception", "initException"}

(* ExecutionResultError: what doExecute tells apart only afterwards. *)
ErrorResults == {"preprocessorError", "compileError", "runtimeError"}

Up == pc \notin {"exited", "crashed"}

(* The main thread is inside LLDB, and does not give the lock up there. *)
InLLDB == pc \in {"compile", "run"}

At(l) == pc = l /\ gil = "main"

Goto(l) == pc' = l /\ UNCHANGED gil

Publish(kind, str) ==
    iopub' = Append(iopub, [kind |-> kind, cell |-> cell, text |-> str])

(* A Swift trap or a call through a null pointer ends the whole process. *)
Crash ==
    /\ pc' = "crashed"
    /\ UNCHANGED <<gil, request, kernel, handler, output, signals, iopub>>

Init ==
    /\ pc = "idle" /\ gil = "none"
    /\ cell = 0 /\ result = "none" /\ conclusion = "none" /\ replies = <<>>
    /\ initialized = FALSE /\ exitTimer = FALSE /\ inferior = "none"
    /\ hpc = "none" /\ stopEvent = FALSE /\ hadStdout = FALSE
    /\ text = <<>> /\ due = 0
    /\ pty = <<>> /\ lldb = <<>> /\ half = FALSE /\ emitted = 0
    /\ sigint = FALSE /\ spc = "none"
    /\ iopub = <<>>

-----------------------------------------------------------------------------
(* The interpreter lock. *)

Wants(t) ==
    CASE t = "main"   -> pc # "idle" /\ (pc = "join" => hpc = "done")
      [] t = "stdout" -> hpc \in {"drain", "send", "lastDrain", "lastSend"}
      [] t = "sigint" -> spc = "woken"

(* Faulty: a thread does not wait for the lock. *)
AcquireGIL_NoWait(t) ==
    /\ Up /\ Wants(t) /\ gil' = t
    /\ UNCHANGED <<pc, request, kernel, handler, output, signals, iopub>>

AcquireGIL(t) ==
    /\ Up /\ gil = "none" /\ Wants(t)
    /\ gil' = t
    /\ UNCHANGED <<pc, request, kernel, handler, output, signals, iopub>>

(* Faulty: the lock is given up inside LLDB, too. *)
ReleaseGIL_Anywhere ==
    /\ Up /\ gil # "none" /\ gil' = "none"
    /\ UNCHANGED <<pc, request, kernel, handler, output, signals, iopub>>

ReleaseGIL ==
    /\ Up /\ gil # "none"
    /\ ~(gil = "main" /\ InLLDB)
    /\ gil' = "none"
    /\ UNCHANGED <<pc, request, kernel, handler, output, signals, iopub>>

-----------------------------------------------------------------------------
(* The REPL process, while LLDB lets it run, and the thread of LLDB that   *)
(* reads what it wrote.                                                    *)

EmitUnit ==
    /\ emitted < MaxOutput
    /\ emitted' = emitted + 1
    /\ pty' = Append(pty, emitted + 1)
    /\ UNCHANGED <<lldb, half>>

MayEmit == EmitUnit \/ UNCHANGED output

ReadPty ==
    /\ Up /\ pty # <<>>
    /\ lldb' = Append(lldb, Head(pty))
    /\ pty' = Tail(pty)
    /\ half' = FALSE
    /\ UNCHANGED <<pc, gil, request, kernel, handler, emitted, signals, iopub>>

ReadHalf ==
    /\ Up /\ pty # <<>> /\ Head(pty) \in Wide
    /\ ~half
    /\ half' = TRUE
    /\ UNCHANGED <<pc, gil, request, kernel, handler, pty, lldb, emitted,
                   signals, iopub>>

-----------------------------------------------------------------------------
(* do_execute and doExecute, up to the start of the cell. *)

(* Faulty: a request cancels the timer of the exit. *)
Request_CancelsExit ==
    /\ pc = "idle" /\ gil = "none" /\ cell < MaxCells
    /\ gil' = "main"
    /\ cell' = cell + 1
    /\ pc' = IF initialized THEN "handler" ELSE "init"
    /\ exitTimer' = FALSE
    /\ UNCHANGED <<result, conclusion, replies, initialized, inferior, handler,
                   output, signals, iopub>>

(* A cell of whitespace is answered at once. *)
Request ==
    /\ pc = "idle" /\ gil = "none" /\ cell < MaxCells
    /\ gil' = "main"
    /\ cell' = cell + 1
    /\ \/ pc' = "report" /\ result' = "blank"
       \/ /\ pc' = IF initialized THEN "handler" ELSE "init"
          /\ UNCHANGED result
    /\ UNCHANGED <<conclusion, replies, kernel, handler, output, signals, iopub>>

(* initSwift throws out of doExecute before there is a StdoutHandler, and  *)
(* initBitWidth has a precondition.                                        *)
InitSwift ==
    /\ At("init")
    /\ \/ /\ Goto("handler")
          /\ initialized' = TRUE
          /\ inferior' = "alive"
          /\ spc' = "sigwait"
          /\ UNCHANGED <<request, exitTimer, handler, output, sigint, iopub>>
       \/ /\ Goto("reply")
          /\ result' = "initException" /\ conclusion' = "failed"
          /\ UNCHANGED <<cell, replies, kernel, handler, output, signals, iopub>>
       \/ Crash

(* Faulty: had_stdout is left as it was for the previous cell. *)
StartHandler_NoReset ==
    /\ At("handler")
    /\ Goto("setParent")
    /\ hpc' = "waiting" /\ stopEvent' = FALSE
    /\ UNCHANGED <<hadStdout, text, due, request, kernel, output, signals, iopub>>

StartHandler ==
    /\ At("handler")
    /\ Goto("setParent")
    /\ hpc' = "waiting" /\ stopEvent' = FALSE /\ hadStdout' = FALSE
    /\ UNCHANGED <<text, due, request, kernel, output, signals, iopub>>

(* The statements of executeCell end with a result, or throw. *)
EndCell(r) ==
    /\ Goto("stop")
    /\ result' = r
    /\ UNCHANGED <<cell, conclusion, replies>>

MayDie == inferior' \in {inferior, "dead"}

(* All threads of the REPL process run while it is told the message.  LLDB *)
(* reports errors of its own as "no value", so that setParentMessage can   *)
(* pass with a process that was dead, or dies.                             *)
SetParent ==
    /\ At("setParent")
    /\ IF inferior = "alive" THEN MayEmit ELSE UNCHANGED output
    /\ \/ Goto("preprocess") /\ UNCHANGED request
       \/ EndCell("exception")
    /\ MayDie
    /\ UNCHANGED <<initialized, exitTimer, handler, signals, iopub>>

Directives == Len(SelectSeq(iopub, LAMBDA m : m.kind = "system"))

(* %system and %install publish from the main thread. *)
PreprocessPublish ==
    /\ At("preprocess") /\ Directives < MaxDirectives
    /\ Publish("system", <<>>)
    /\ UNCHANGED <<pc, gil, request, kernel, handler, output, signals>>

(* %install ends by loading a library into the REPL process. *)
PreprocessInstall ==
    /\ At("preprocess")
    /\ IF inferior = "alive" THEN MayEmit ELSE UNCHANGED output
    /\ \/ inferior = "alive" /\ UNCHANGED <<pc, gil, request, inferior>>
       \/ EndCell("installException") /\ MayDie
    /\ UNCHANGED <<initialized, exitTimer, handler, signals, iopub>>

(* A directive can throw an error of no class of the kernel's own (of the  *)
(* file manager, or of Python), and a call into Python can trap.           *)
Preprocess ==
    /\ At("preprocess")
    /\ \/ /\ \/ Goto("compile") /\ UNCHANGED request
             \/ \E r \in {"preprocessorError", "exception"} : EndCell(r)
          /\ UNCHANGED <<kernel, handler, output, signals, iopub>>
       \/ Crash

-----------------------------------------------------------------------------
(* The cell itself, inside one call of EvaluateExpression. *)

(* Faulty: a cell without a value has nothing to do after its execution. *)
EndEvaluation_ValueOnly(r) ==
    /\ result' = r
    /\ Goto(IF r = "value" THEN "afterExec" ELSE "stop")
    /\ UNCHANGED <<cell, conclusion, replies>>

(* executeCell calls afterSuccessfulExecution for a success only. *)
EndEvaluation(r) ==
    /\ result' = r
    /\ Goto(IF r \in {"value", "novalue"} THEN "afterExec" ELSE "stop")
    /\ UNCHANGED <<cell, conclusion, replies>>

(* With no process to run it in, a cell is an error, or an error of LLDB's *)
(* own that execute takes for "no value".                                  *)
Compile ==
    /\ At("compile")
    /\ \/ inferior = "alive" /\ Goto("run") /\ UNCHANGED request
       \/ EndEvaluation("compileError")
       \/ inferior # "alive" /\ EndEvaluation("novalue")
    /\ UNCHANGED <<kernel, handler, output, signals, iopub>>

CellEmits ==
    /\ At("run") /\ EmitUnit
    /\ UNCHANGED <<pc, gil, request, kernel, handler, signals, iopub>>

CellFinishes ==
    /\ At("run")
    /\ \/ /\ \E r \in {"value", "novalue", "runtimeError"} : EndEvaluation(r)
          /\ UNCHANGED inferior
       \/ /\ \E r \in {"novalue", "runtimeError"} : EndEvaluation(r)
          /\ inferior' = "dead"
    /\ UNCHANGED <<initialized, exitTimer, handler, output, signals, iopub>>

(* The display messages are fetched from the REPL process and sent; both   *)
(* can throw, the second after some messages were sent.                    *)
AfterExec ==
    /\ At("afterExec")
    /\ \/ /\ inferior = "alive"
          /\ EndCell(result) \/ EndCell("exception")
          /\ Publish("display", <<>>)
          /\ MayEmit
          /\ UNCHANGED inferior
       \/ /\ inferior = "alive"
          /\ EndCell(result)
          /\ MayEmit
          /\ UNCHANGED <<inferior, iopub>>
       \/ /\ EndCell("exception")
          /\ MayDie
          /\ UNCHANGED <<output, iopub>>
    /\ UNCHANGED <<initialized, exitTimer, handler, signals>>

-----------------------------------------------------------------------------
(* The end of doExecute. *)

SetStopEvent ==
    /\ At("stop")
    /\ Goto("join")
    /\ stopEvent' = TRUE
    /\ due' = emitted - Len(pty)
    /\ UNCHANGED <<hpc, hadStdout, text, request, kernel, output, signals, iopub>>

(* Faulty: the main thread does not wait for the handler. *)
Join_NoWait ==
    /\ At("join") /\ Goto("report")
    /\ UNCHANGED <<request, kernel, handler, output, signals, iopub>>

Join ==
    /\ At("join") /\ hpc = "done"
    /\ Goto("report")
    /\ UNCHANGED <<request, kernel, handler, output, signals, iopub>>

(* The message that concludes the cell; process_is_alive is asked only     *)
(* about an ExecutionResultError.                                          *)
Conclude(l, k) ==
    /\ At("report")
    /\ Goto(l)
    /\ conclusion' = k
    /\ IF k = "silent" THEN UNCHANGED iopub ELSE Publish(k, <<>>)
    /\ UNCHANGED <<cell, result, replies, kernel, handler, output, signals>>

ReportInstall == result = "installException" /\ Conclude("reply", "install")

ReportBadState == result = "exception" /\ Conclude("reply", "bad")

ReportSuccess ==
    \/ result = "value" /\ Conclude("reply", "value")
    \/ result \in {"novalue", "blank"} /\ Conclude("reply", "silent")

ReportKilled ==
    /\ result \in ErrorResults /\ inferior # "alive"
    /\ Conclude("schedule", "killed")

ReportTrace ==
    /\ result \in ErrorResults /\ inferior = "alive" /\ hadStdout
    /\ Conclude("reply", "trace")

ReportCompileError ==
    /\ result \in ErrorResults /\ inferior = "alive" /\ ~hadStdout
    /\ Conclude("reply", "compile")

(* Python.import of "ioloop" traps if there is no such module. *)
ScheduleExit ==
    /\ At("schedule")
    /\ \/ /\ Goto("reply")
          /\ exitTimer' = TRUE
          /\ UNCHANGED <<request, initialized, inferior, handler, output,
                         signals, iopub>>
       \/ Crash

(* Faulty: the error of %install is published, but not returned. *)
ReplyStatus_InstallOk ==
    CASE result \in {"exception", "initException"} -> "raised"
      [] result \in {"value", "novalue", "blank", "installException"} -> "ok"
      [] OTHER -> "error"

(* A thrown error leaves do_execute as a Python exception: no reply. *)
ReplyStatus ==
    CASE result \in {"exception", "initException"} -> "raised"
      [] result \in {"value", "novalue", "blank"}  -> "ok"
      [] OTHER -> "error"

Reply ==
    /\ At("reply")
    /\ pc' = "idle" /\ gil' = "none"
    /\ replies' = Append(replies, [cell |-> cell, status |-> ReplyStatus])
    /\ result' = "none" /\ conclusion' = "none"
    /\ UNCHANGED <<cell, kernel, handler, output, signals, iopub>>

(* The callback of the timer runs when the event loop is idle. *)
LoopStop ==
    /\ pc = "idle" /\ gil = "none" /\ exitTimer
    /\ pc' = "exited"
    /\ UNCHANGED <<gil, request, kernel, handler, output, signals, iopub>>

-----------------------------------------------------------------------------
(* The StdoutHandler thread. *)

(* Faulty: nothing is drained after the stop_event. *)
HandlerWakes_NoLastDrain ==
    /\ Up /\ hpc = "waiting"
    /\ hpc' = IF stopEvent THEN "done" ELSE "drain"
    /\ UNCHANGED <<stopEvent, hadStdout, text, due, pc, gil, request, kernel,
                   output, signals, iopub>>

(* Faulty: the loop of the handler has no break. *)
HandlerWakes_NoBreak ==
    /\ Up /\ hpc = "waiting"
    /\ hpc' = "drain"
    /\ UNCHANGED <<stopEvent, hadStdout, text, due, pc, gil, request, kernel,
                   output, signals, iopub>>

(* stop_event.wait(0.1) returns, because of the timeout or of the event. *)
HandlerWakes ==
    /\ Up /\ hpc = "waiting"
    /\ hpc' = IF stopEvent THEN "lastDrain" ELSE "drain"
    /\ UNCHANGED <<stopEvent, hadStdout, text, due, pc, gil, request, kernel,
                   output, signals, iopub>>

LastRound == hpc \in {"lastDrain", "lastSend"}

(* Back to waiting, or at the end of run, where the lock is given up. *)
HandlerDone ==
    /\ hpc' = IF LastRound THEN "done" ELSE "waiting"
    /\ gil' = "none"

(* Faulty: output that cannot be decoded is dropped. *)
HandlerTakes_Drops ==
    /\ Up /\ gil = "stdout" /\ hpc \in {"drain", "lastDrain"}
    /\ lldb' = <<>>
    /\ IF half \/ lldb = <<>>
       THEN HandlerDone /\ UNCHANGED <<hadStdout, text>>
       ELSE /\ text' = lldb /\ hadStdout' = TRUE
            /\ hpc' = IF LastRound THEN "lastSend" ELSE "send"
            /\ UNCHANGED gil
    /\ UNCHANGED <<stopEvent, due, pc, request, kernel, pty, half, emitted,
                   signals, iopub>>

(* getStdout empties the buffer of LLDB and traps if it ends with half a   *)
(* character; had_stdout is set before the text is sent.                   *)
HandlerTakes ==
    /\ Up /\ gil = "stdout" /\ hpc \in {"drain", "lastDrain"}
    /\ \/ half /\ Crash
       \/ /\ ~half /\ lldb = <<>>
          /\ HandlerDone
          /\ UNCHANGED <<stopEvent, hadStdout, text, due, pc, request, kernel,
                         output, signals, iopub>>
       \/ /\ ~half /\ lldb # <<>>
          /\ text' = lldb /\ lldb' = <<>>
          /\ hadStdout' = TRUE
          /\ hpc' = IF LastRound THEN "lastSend" ELSE "send"
          /\ UNCHANGED <<stopEvent, due, pc, gil, request, kernel, pty, half,
                         emitted, signals, iopub>>

HandlerSends ==
    /\ Up /\ gil = "stdout" /\ hpc \in {"send", "lastSend"}
    /\ Publish("stdout", text)
    /\ text' = <<>>
    /\ HandlerDone
    /\ UNCHANGED <<stopEvent, hadStdout, due, pc, request, kernel, output, signals>>

-----------------------------------------------------------------------------
(* SIGINT, which activateSwiftKernel blocks in every thread.  Bound: no     *)
(* second one while the first is being handled.                            *)

UserInterrupt ==
    /\ Up /\ Interrupts /\ ~sigint /\ spc # "woken"
    /\ sigint' = TRUE
    /\ UNCHANGED <<pc, gil, request, kernel, handler, output, spc, iopub>>

SigintWakes ==
    /\ Up /\ spc = "sigwait" /\ sigint
    /\ spc' = "woken" /\ sigint' = FALSE
    /\ UNCHANGED <<pc, gil, request, kernel, handler, output, iopub>>

(* KernelContext.send_async_interrupt is bound to a symbol that the        *)
(* library does not export, and is a null pointer.                         *)
SendInterrupt ==
    /\ Up /\ spc = "woken" /\ gil = "sigint"
    /\ Crash

-----------------------------------------------------------------------------
Main ==
    \/ InitSwift \/ StartHandler \/ SetParent
    \/ PreprocessPublish \/ PreprocessInstall \/ Preprocess
    \/ Compile \/ CellEmits \/ CellFinishes \/ AfterExec
    \/ SetStopEvent \/ Join
    \/ ReportInstall \/ ReportBadState \/ ReportSuccess
    \/ ReportKilled \/ ReportTrace \/ ReportCompileError
    \/ ScheduleExit \/ Reply

StdoutHandler == HandlerWakes \/ HandlerTakes \/ HandlerSends

SIGINTHandler == SigintWakes \/ SendInterrupt

GIL == ReleaseGIL \/ \E t \in {"main", "stdout", "sigint"} : AcquireGIL(t)

Next ==
    \/ Request \/ LoopStop \/ UserInterrupt
    \/ Main \/ StdoutHandler \/ SIGINTHandler \/ GIL
    \/ ReadPty \/ ReadHalf

Spec == Init /\ [][Next]_vars

-----------------------------------------------------------------------------
(* Fairness.  CPython passes the lock on (ReleaseGIL) and every thread     *)
(* that waits for it gets it in the end; a thread that holds the lock runs *)
(* the code of the kernel; the system's timers and LLDB's reader run.  The *)
(* first formula promises nothing about the user's code, which may run for *)
(* ever; FairSpec assumes that it ends.                                    *)

KernelCode ==
    \/ InitSwift \/ StartHandler \/ SetParent
    \/ PreprocessPublish \/ PreprocessInstall \/ Preprocess
    \/ Compile \/ AfterExec \/ SetStopEvent \/ Join
    \/ ReportInstall \/ ReportBadState \/ ReportSuccess
    \/ ReportKilled \/ ReportTrace \/ ReportCompileError
    \/ ScheduleExit \/ Reply

SchedulerFairness ==
    /\ WF_vars(ReleaseGIL)
    /\ \A t \in {"main", "stdout", "sigint"} : SF_vars(AcquireGIL(t))
    /\ SF_vars(KernelCode)
    /\ WF_vars(HandlerWakes)
    /\ SF_vars(HandlerTakes \/ HandlerSends)
    /\ WF_vars(SigintWakes)
    /\ SF_vars(SendInterrupt)
    /\ WF_vars(ReadPty)
    /\ WF_vars(LoopStop)

FairSpec == Spec /\ SchedulerFairness /\ WF_vars(CellFinishes)

-----------------------------------------------------------------------------
(* The values of the variables. *)

Kinds == {"stdout", "system", "display", "value", "bad", "compile", "trace",
          "killed", "install"}

Units    == Seq(Nat)
Messages == Seq([kind : Kinds, cell : Nat, text : Units])
Answers  == Seq([cell : Nat, status : {"ok", "error", "raised"}])

TypeOK ==
    /\ pc \in {"idle", "init", "handler", "setParent", "preprocess", "compile",
               "run", "afterExec", "stop", "join", "report", "schedule",
               "reply", "exited", "crashed"}
    /\ gil \in {"none", "main", "stdout", "sigint"}
    /\ cell \in Nat
    /\ result \in Results
    /\ conclusion \in Kinds \cup {"none", "silent", "failed"}
    /\ replies \in Answers
    /\ initialized \in BOOLEAN
    /\ exitTimer \in BOOLEAN
    /\ inferior \in {"none", "alive", "dead"}
    /\ hpc \in {"none", "waiting", "drain", "send", "lastDrain", "lastSend",
                "done"}
    /\ stopEvent \in BOOLEAN
    /\ hadStdout \in BOOLEAN
    /\ text \in Units
    /\ due \in Int
    /\ pty \in Units
    /\ lldb \in Units
    /\ half \in BOOLEAN
    /\ emitted \in Nat
    /\ sigint \in BOOLEAN
    /\ spc \in {"none", "sigwait", "woken"}
    /\ iopub \in Messages

-----------------------------------------------------------------------------
(* Properties. *)

(* A StdoutHandler runs only inside the doExecute that started it: between *)
(* the start and the return of join (DoExecute.swift 16-26).  So there are *)
(* never two of them, and none publishes while the kernel is idle or after *)
(* the cell was concluded.                                                 *)
HandlerConfinement ==
    hpc \notin {"none", "done"} /\ Up =>
        pc \in {"setParent", "preprocess", "compile", "run", "afterExec",
                "stop", "join"}

(* How many units LLDB has read, StdoutHandlers have taken, and messages   *)
(* have carried away.                                                      *)
ReadUnits  == emitted - Len(pty)
TakenUnits == ReadUnits - Len(lldb)
SentUnits  == TakenUnits - Len(text)

(* The units of s are those that follow the first n. *)
Follows(s, n) == \A p \in DOMAIN s : s[p] = n + p

InTransit ==
    /\ SentUnits \in Nat
    /\ Follows(text, SentUnits)
    /\ Follows(lldb, TakenUnits)
    /\ Follows(pty, ReadUnits)

StdoutMessages == {i \in DOMAIN iopub : iopub[i].kind = "stdout"}

Published(u) ==
    \E i \in StdoutMessages : \E p \in DOMAIN iopub[i].text : iopub[i].text[p] = u

(* The messages carry the first units, each one once, in order. *)
PublishedOnce ==
    /\ \A i \in StdoutMessages : \A p \in DOMAIN iopub[i].text :
          iopub[i].text[p] \in 1..SentUnits
    /\ \A u \in 1..SentUnits : Published(u)
    /\ \A i, j \in StdoutMessages :
          \A p \in DOMAIN iopub[i].text, q \in DOMAIN iopub[j].text :
              i < j \/ (i = j /\ p < q) => iopub[i].text[p] < iopub[j].text[q]

(* What the REPL process wrote is published in the order it was written,   *)
(* nothing twice and nothing lost, through the terminal, LLDB's buffer and *)
(* the text in the hands of StdoutHandlers of one cell after the other     *)
(* (getStdout and getAndSendStdout).                                       *)
ExactlyOnceStdout == InTransit /\ PublishedOnce

(* All that LLDB had read when the cell ended is published when doExecute  *)
(* starts to report on the cell: the drain after the stop_event            *)
(* (IOHandlers.swift 43) misses nothing of it.                             *)
FlushedAtJoin == pc = "report" => \A u \in 1..due : Published(u)

(* A success is never reported for a cell whose REPL process died, although *)
(* LLDB's own errors read as "no value" (LLDBProcess.cpp 111-113): the     *)
(* trigger of the display messages fails then.                             *)
DeadReplNeverSucceeds ==
    pc = "report" /\ result \in {"value", "novalue"} => inferior = "alive"

(* "Current stack trace" only follows output published for the same cell   *)
(* (DoExecute.swift 72-78: stdout, "already sent to the client, contains   *)
(* the error message").                                                    *)
TraceFollowsStdout ==
    \A i \in DOMAIN iopub : iopub[i].kind = "trace" =>
        \E j \in 1..(i - 1) : iopub[j].kind = "stdout"
                              /\ iopub[j].cell = iopub[i].cell

(* Nothing is published between the start and the end of the evaluation of *)
(* a cell: LLDB is called with the interpreter lock held, so the           *)
(* StdoutHandler cannot run, whatever its 0.1 s timeout says               *)
(* (LLDBProcess.cpp 77, IOHandlers.swift 38).                              *)
NothingStreamsWhileRunning == [][InLLDB /\ InLLDB' => UNCHANGED iopub]_vars

(* Every request is finished, or the kernel is gone. *)
CellCompletes == (pc # "idle" /\ Up) ~> (pc = "idle" \/ ~Up)

(* Once "Process killed" scheduled the exit, the kernel exits              *)
(* (DoExecute.swift 65-71).                                                *)
ExitHappens == exitTimer ~> ~Up

(* doExecute keeps the promises of CellProtocol. *)
Phase ==
    CASE pc = "idle" -> "idle"
      [] pc \in {"schedule", "reply"} -> "concluded"
      [] pc \in {"exited", "crashed"} -> "down"
      [] OTHER -> "busy"

Log == [i \in DOMAIN iopub |-> [kind |-> iopub[i].kind, cell |-> iopub[i].cell]]

Protocol == INSTANCE CellProtocol WITH phase <- Phase, iopub <- Log

ImplementsProtocol == Protocol!Spec

(* Cells follow one another in the log, and nothing follows the concluding *)
(* message of a cell: the stdout of a cell is sent before its value or its *)
(* error (DoExecute.swift 23-26, 43).                                      *)
MessageOrder == Protocol!CellsInOrder /\ Protocol!OutcomeIsLast

(* Each answer agrees with what was published for its cell, however the    *)
(* cell was left: one error for "error", none for "ok", and for a request  *)
(* that is not answered at most the message about the bad state            *)
(* (DoExecute.swift 23-92).                                                *)
RepliesAgree == Protocol!AnswersAgree

-----------------------------------------------------------------------------
(* What the proofs add to the properties to make them inductive. *)

(* While LLDB evaluates a cell, the main thread holds the lock. *)
LockInvariant == InLLDB => gil = "main"

(* doExecute and its StdoutHandler, whether or not the kernel is up. *)
HandlerInvariant ==
    hpc \notin {"none", "done"} =>
        pc \in {"setParent", "preprocess", "compile", "run", "afterExec",
                "stop", "join", "exited", "crashed"}

(* From the end of a successful cell to the report on it. *)
SuccessInvariant ==
    pc \in {"stop", "join", "report"} /\ result \in {"value", "novalue"} =>
        inferior = "alive"

(* The answer that will be given agrees with the message that was sent. *)
ReplyInvariant ==
    pc \in {"schedule", "reply"} =>
        /\ conclusion \in Protocol!Conclusions
        /\ ReplyStatus = Protocol!Status(conclusion)

(* At the end of a cell there is a result to report. *)
ResultInvariant ==
    /\ pc \in {"afterExec", "stop", "join", "report"} =>
           result \notin {"none", "initException"}
    /\ pc = "afterExec" => result \in {"value", "novalue"}

(* had_stdout is only believed in while it tells of the present cell: from *)
(* the start of the handler, which resets it, to a report other than that  *)
(* of a blank cell, which has no handler.                                  *)
SentStdout ==
    \E j \in DOMAIN iopub : iopub[j].kind = "stdout" /\ iopub[j].cell = cell

StdoutInvariant ==
    /\ hadStdout /\ hpc \notin {"send", "lastSend"}
    /\ \/ pc \in {"setParent", "preprocess", "compile", "run", "afterExec",
                  "stop", "join"}
       \/ pc = "report" /\ result # "blank"
    => SentStdout

(* A text is held from getStdout to the message only. *)
TextInvariant == hpc \notin {"send", "lastSend"} => text = <<>>

(* The last round of a handler comes after the stop_event, and takes what  *)
(* LLDB had read then.                                                     *)
FlushInvariant ==
    /\ pc \in {"setParent", "preprocess", "compile", "run", "afterExec", "stop"} =>
          hpc \in {"waiting", "drain", "send"} /\ ~stopEvent
    /\ pc = "join" => /\ due <= ReadUnits
                      /\ hpc = "lastSend" => due <= TakenUnits
                      /\ hpc = "done" => due <= SentUnits
    /\ pc \notin {"join", "exited", "crashed"} => due <= SentUnits

IInv ==
    /\ TypeOK
    /\ LockInvariant
    /\ HandlerInvariant
    /\ SuccessInvariant
    /\ ResultInvariant
    /\ ReplyInvariant
    /\ StdoutInvariant
    /\ TextInvariant
    /\ FlushInvariant
    /\ ExactlyOnceStdout

-----------------------------------------------------------------------------
(* What comments of the code say, and the code does not do. *)

(* CreateKernel.swift 76-78: SIGINT means an interrupted execution, handled *)
(* in a thread of its own; it should not be the end of the kernel.         *)
InterruptSparesKernel == [][~(gil = "sigint" /\ pc' = "crashed")]_vars

(* DoExecute.swift 65-66: "Exit the kernel because there is no way to      *)
(* recover from a killed process".                                         *)
DeadReplMeansExit == pc = "idle" /\ inferior = "dead" => exitTimer

=============================================================================
