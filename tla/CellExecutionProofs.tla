------------------------ MODULE CellExecutionProofs ------------------------
(***************************************************************************)
(* Theorems about CellExecution, for any number of requests, any amount of *)
(* output and any set of wide units.                                       *)
(***************************************************************************)
EXTENDS CellExecution, SequenceTheorems, TLAPS

(* A published message is a message, and the log stays a sequence of them. *)
LEMMA PublishType ==
    ASSUME TypeOK, NEW k \in Kinds, NEW str \in Units, Publish(k, str)
    PROVE  iopub' \in Messages
<1>1. [kind |-> k, cell |-> cell, text |-> str]
          \in [kind : Kinds, cell : Nat, text : Units]
  BY DEF TypeOK
<1>2. QED
  BY <1>1 DEF TypeOK, Publish, Messages

LEMMA NoText == <<>> \in Units
BY DEF Units

LEMMA OneMoreUnit ==
    ASSUME NEW s \in Units, NEW n \in Nat PROVE Append(s, n) \in Units
BY DEF Units

(* The text that LLDB reads. *)
LEMMA ReadType ==
    ASSUME NEW s \in Units, s # <<>> PROVE Head(s) \in Nat /\ Tail(s) \in Units
BY DEF Units

LEMMA LenType ==
    ASSUME NEW s \in Units PROVE Len(s) \in Nat
BY DEF Units

OutputOK ==
    /\ pty \in Units
    /\ lldb \in Units
    /\ half \in BOOLEAN
    /\ emitted \in Nat

(* Output that the REPL process writes is numbered by naturals. *)
LEMMA EmitType ==
    ASSUME TypeOK, MayEmit
    PROVE  OutputOK'
<1>1. CASE EmitUnit
  BY <1>1, OneMoreUnit DEF TypeOK, OutputOK, EmitUnit
<1>2. CASE UNCHANGED output
  BY <1>2 DEF TypeOK, OutputOK, output
<1>3. QED
  BY <1>1, <1>2 DEF MayEmit

LEMMA AnswerType ==
    ASSUME TypeOK, NEW st \in {"ok", "error", "raised"}
    PROVE  Append(replies, [cell |-> cell, status |-> st]) \in Answers
BY DEF TypeOK, Answers

(* Every variable keeps its type: in particular, the sequences through     *)
(* which output travels only ever hold numbers of units.                   *)
LEMMA TypeStep == TypeOK /\ [Next]_vars => TypeOK'
<1> SUFFICES ASSUME TypeOK, [Next]_vars PROVE TypeOK'
  OBVIOUS
<1> USE DEF TypeOK, Kinds, Results, request, kernel, handler, output, signals,
            At, Goto
<1>0. CASE Crash
  BY <1>0 DEF Crash
<1>1. CASE Request
  BY <1>1 DEF Request
<1>2. CASE InitSwift
  BY <1>0, <1>2 DEF InitSwift
<1>3. CASE StartHandler
  <2>1. pc' \in {"setParent"} /\ hpc' \in {"waiting"}
    BY <1>3 DEF StartHandler
  <2>2. stopEvent' \in BOOLEAN /\ hadStdout' \in BOOLEAN
    BY <1>3 DEF StartHandler
  <2>3. QED
    BY <1>3, <2>1, <2>2 DEF StartHandler
<1>4. CASE SetParent
  <2>1. OutputOK'
    <3>1. CASE MayEmit
      BY <3>1, EmitType
    <3>2. CASE UNCHANGED output
      BY <3>2 DEF OutputOK
    <3>3. QED
      BY <3>1, <3>2, <1>4 DEF SetParent
  <2>2. CASE Goto("preprocess") /\ UNCHANGED request /\ MayDie
    BY <1>4, <2>1, <2>2 DEF SetParent, OutputOK, MayDie
  <2>3. CASE EndCell("exception") /\ MayDie
    BY <1>4, <2>1, <2>3 DEF SetParent, OutputOK, EndCell, MayDie
  <2>4. QED
    BY <1>4, <2>2, <2>3 DEF SetParent
<1>5. CASE PreprocessPublish
  BY <1>5, PublishType, NoText DEF PreprocessPublish
<1>6. CASE PreprocessInstall
  <2>1. OutputOK'
    <3>1. CASE MayEmit
      BY <3>1, EmitType
    <3>2. CASE UNCHANGED output
      BY <3>2 DEF OutputOK
    <3>3. QED
      BY <3>1, <3>2, <1>6 DEF PreprocessInstall
  <2>2. CASE UNCHANGED <<pc, gil, request, inferior>>
    BY <1>6, <2>1, <2>2 DEF PreprocessInstall, OutputOK
  <2>3. CASE EndCell("installException") /\ MayDie
    BY <1>6, <2>1, <2>3 DEF PreprocessInstall, OutputOK, EndCell, MayDie
  <2>4. QED
    BY <1>6, <2>2, <2>3 DEF PreprocessInstall
<1>7. CASE Preprocess
  BY <1>0, <1>7 DEF Preprocess, EndCell
<1>8. CASE Compile
  BY <1>8 DEF Compile, EndEvaluation
<1>9. CASE CellEmits
  BY <1>9, OneMoreUnit DEF CellEmits, EmitUnit
<1>10. CASE CellFinishes
  BY <1>10 DEF CellFinishes, EndEvaluation
<1>11. CASE AfterExec
  <2> USE <1>11 DEF AfterExec, EndCell, MayDie
  <2>1. CASE Publish("display", <<>>) /\ MayEmit
    <3>1. iopub' \in Messages /\ OutputOK'
      BY <2>1, PublishType, NoText, EmitType
    <3>2. inferior' \in {"none", "alive", "dead"} /\ pc' = "stop"
          /\ gil' = gil /\ result' \in {result, "exception"}
      OBVIOUS
    <3>3. QED
      BY <3>1, <3>2 DEF OutputOK
  <2>2. CASE MayEmit /\ UNCHANGED <<inferior, iopub>> /\ EndCell(result)
    <3>1. OutputOK'
      BY <2>2, EmitType
    <3>2. QED
      BY <2>2, <3>1 DEF OutputOK
  <2>3. CASE EndCell("exception") /\ MayDie /\ UNCHANGED <<output, iopub>>
    BY <2>3
  <2>4. QED
    BY <2>1, <2>2, <2>3
<1>12. CASE SetStopEvent
  BY <1>12, LenType DEF SetStopEvent
<1>13. CASE Join
  BY <1>13 DEF Join
<1>14. ASSUME NEW l \in {"reply", "schedule"},
              NEW k \in {"silent", "value", "bad", "compile", "trace",
                         "killed", "install"},
              Conclude(l, k)
       PROVE  TypeOK'
  <2>1. iopub' \in Messages
    BY <1>14, PublishType, NoText DEF Conclude
  <2>2. QED
    BY <1>14, <2>1 DEF Conclude
<1>15. CASE ReportInstall \/ ReportBadState \/ ReportSuccess
            \/ ReportKilled \/ ReportTrace \/ ReportCompileError
  BY <1>14, <1>15 DEF ReportInstall, ReportBadState, ReportSuccess,
                      ReportKilled, ReportTrace, ReportCompileError
<1>16. CASE ScheduleExit
  BY <1>0, <1>16 DEF ScheduleExit
<1>17. CASE Reply
  <2>1. ReplyStatus \in {"ok", "error", "raised"}
    BY <1>17 DEF Reply, ReplyStatus, ErrorResults
  <2>2. QED
    BY <1>17, <2>1, AnswerType DEF Reply
<1>18. CASE LoopStop
  BY <1>18 DEF LoopStop
<1>19. CASE HandlerWakes
  BY <1>19 DEF HandlerWakes
<1>20. CASE HandlerTakes
  BY <1>0, <1>20, NoText DEF HandlerTakes, HandlerDone, LastRound
<1>21. CASE HandlerSends
  BY <1>21, PublishType, NoText DEF HandlerSends, HandlerDone, LastRound
<1>22. CASE SIGINTHandler \/ UserInterrupt
  BY <1>0, <1>22 DEF SIGINTHandler, SigintWakes, SendInterrupt, UserInterrupt
<1>23. CASE GIL
  BY <1>23 DEF GIL, ReleaseGIL, AcquireGIL
<1>24. CASE ReadPty \/ ReadHalf
  <2>1. CASE ReadPty
    <3>1. pty' \in Units /\ lldb' \in Units
      BY <2>1, OneMoreUnit, ReadType DEF ReadPty
    <3>2. half' \in BOOLEAN
      BY <2>1 DEF ReadPty
    <3>3. UNCHANGED <<pc, gil, request, kernel, handler, emitted, signals, iopub>>
      BY <2>1 DEF ReadPty
    <3>4. QED
      BY <3>1, <3>2, <3>3
  <2>2. CASE ReadHalf
    BY <2>2 DEF ReadHalf
  <2>3. QED
    BY <1>24, <2>1, <2>2
<1>25. CASE UNCHANGED vars
  BY <1>25 DEF vars
<1>26. QED
  BY <1>1, <1>2, <1>3, <1>4, <1>5, <1>6, <1>7, <1>8, <1>9, <1>10, <1>11,
     <1>12, <1>13, <1>15, <1>16, <1>17, <1>18, <1>19, <1>20, <1>21, <1>22,
     <1>23, <1>24, <1>25 DEF Next, Main, StdoutHandler

-----------------------------------------------------------------------------

LEMMA InitType == Init => TypeOK
<1>1. <<>> \in Messages /\ <<>> \in Answers
  BY DEF Messages, Answers
<1>2. ASSUME Init
      PROVE  /\ initialized \in BOOLEAN /\ exitTimer \in BOOLEAN
             /\ stopEvent \in BOOLEAN /\ hadStdout \in BOOLEAN
             /\ half \in BOOLEAN /\ sigint \in BOOLEAN
  BY <1>2 DEF Init
<1>3. ASSUME Init
      PROVE  /\ text \in Units /\ pty \in Units /\ lldb \in Units
             /\ iopub \in Messages /\ replies \in Answers
  BY <1>1, <1>3, NoText DEF Init
<1>4. ASSUME Init
      PROVE  /\ pc = "idle" /\ gil = "none" /\ cell \in Nat
             /\ result \in Results /\ conclusion = "none" /\ inferior = "none"
             /\ hpc = "none" /\ due \in Int /\ emitted \in Nat /\ spc = "none"
  BY <1>4 DEF Init, Results
<1>5. QED
  BY <1>2, <1>3, <1>4 DEF TypeOK

(* Spec => []TypeOK: the type invariant of CellExecution. *)
THEOREM TypeCorrect == Spec => []TypeOK
<1>1. Init => TypeOK
  BY InitType
<1>2. TypeOK /\ [Next]_vars => TypeOK'
  BY TypeStep
<1>3. QED
  BY <1>1, <1>2, PTL DEF Spec

(* The lock is not given up inside LLDB (ReleaseGIL), and nobody else can  *)
(* take it while it is held.                                               *)
LEMMA LockStep ==
    ASSUME TypeOK, LockInvariant, [Next]_vars
    PROVE  LockInvariant'
<1> USE DEF LockInvariant, InLLDB, At, Goto, request, kernel, handler
<1>1. CASE Request \/ InitSwift \/ StartHandler \/ SetParent
          \/ PreprocessPublish \/ PreprocessInstall \/ Preprocess
  BY <1>1 DEF Request, InitSwift, StartHandler, SetParent, PreprocessPublish,
              PreprocessInstall, Preprocess, EndCell, Crash
<1>2. CASE Compile \/ CellEmits \/ CellFinishes \/ AfterExec
  BY <1>2 DEF Compile, CellEmits, CellFinishes, EndEvaluation, AfterExec, EndCell
<1>3. CASE \/ SetStopEvent \/ Join
          \/ ReportInstall \/ ReportBadState \/ ReportSuccess
          \/ ReportKilled \/ ReportTrace \/ ReportCompileError
          \/ ScheduleExit \/ Reply \/ LoopStop
  BY <1>3 DEF SetStopEvent, Join, ReportInstall, ReportBadState, ReportSuccess,
              ReportKilled, ReportTrace, ReportCompileError, Conclude,
              ScheduleExit, Reply, LoopStop, Crash
<1>4. CASE \/ StdoutHandler \/ SIGINTHandler \/ UserInterrupt \/ GIL
          \/ ReadPty \/ ReadHalf
  BY <1>4 DEF StdoutHandler, HandlerWakes, HandlerTakes, HandlerSends,
              HandlerDone, LastRound, SIGINTHandler, SigintWakes, SendInterrupt,
              UserInterrupt, GIL, ReleaseGIL, AcquireGIL, ReadPty, ReadHalf, Crash
<1>5. CASE UNCHANGED vars
  BY <1>5 DEF vars
<1>6. QED
  BY <1>1, <1>2, <1>3, <1>4, <1>5 DEF Next, Main

(* A handler is started inside the window, and the main thread leaves the  *)
(* window through Join only, which waits for the end of the handler.       *)
LEMMA HandlerStep ==
    ASSUME TypeOK, HandlerInvariant, [Next]_vars
    PROVE  HandlerInvariant'
<1> USE DEF HandlerInvariant, At, Goto, request, kernel, handler
<1>1. CASE Request \/ InitSwift \/ StartHandler \/ SetParent
          \/ PreprocessPublish \/ PreprocessInstall \/ Preprocess
  BY <1>1 DEF Request, InitSwift, StartHandler, SetParent, PreprocessPublish,
              PreprocessInstall, Preprocess, EndCell, Crash
<1>2. CASE Compile \/ CellEmits \/ CellFinishes \/ AfterExec
  BY <1>2 DEF Compile, CellEmits, CellFinishes, EndEvaluation, AfterExec, EndCell
<1>3. CASE \/ SetStopEvent \/ Join
          \/ ReportInstall \/ ReportBadState \/ ReportSuccess
          \/ ReportKilled \/ ReportTrace \/ ReportCompileError
          \/ ScheduleExit \/ Reply \/ LoopStop
  BY <1>3 DEF SetStopEvent, Join, ReportInstall, ReportBadState, ReportSuccess,
              ReportKilled, ReportTrace, ReportCompileError, Conclude,
              ScheduleExit, Reply, LoopStop, Crash
<1>4. CASE \/ StdoutHandler \/ SIGINTHandler \/ UserInterrupt \/ GIL
          \/ ReadPty \/ ReadHalf
  BY <1>4 DEF StdoutHandler, HandlerWakes, HandlerTakes, HandlerSends,
              HandlerDone, LastRound, SIGINTHandler, SigintWakes, SendInterrupt,
              UserInterrupt, GIL, ReleaseGIL, AcquireGIL, ReadPty, ReadHalf, Crash
<1>5. CASE UNCHANGED vars
  BY <1>5 DEF vars
<1>6. QED
  BY <1>1, <1>2, <1>3, <1>4, <1>5 DEF Next, Main

(* At the end of a cell there is a result, and only a success goes through *)
(* afterSuccessfulExecution.                                               *)
LEMMA ResultStep ==
    ASSUME TypeOK, ResultInvariant, [Next]_vars
    PROVE  ResultInvariant'
<1> USE DEF ResultInvariant, ErrorResults, At, Goto, request, kernel, handler
<1>1. CASE Request \/ InitSwift \/ StartHandler \/ SetParent
          \/ PreprocessPublish \/ PreprocessInstall \/ Preprocess
  BY <1>1 DEF Request, InitSwift, StartHandler, SetParent, PreprocessPublish,
              PreprocessInstall, Preprocess, EndCell, Crash
<1>2. CASE Compile \/ CellEmits \/ CellFinishes \/ AfterExec
  BY <1>2 DEF Compile, CellEmits, CellFinishes, EndEvaluation, AfterExec, EndCell
<1>3. CASE \/ SetStopEvent \/ Join
          \/ ReportInstall \/ ReportBadState \/ ReportSuccess
          \/ ReportKilled \/ ReportTrace \/ ReportCompileError
          \/ ScheduleExit \/ Reply \/ LoopStop
  BY <1>3 DEF SetStopEvent, Join, ReportInstall, ReportBadState, ReportSuccess,
              ReportKilled, ReportTrace, ReportCompileError, Conclude,
              ScheduleExit, Reply, LoopStop, Crash
<1>4. CASE \/ StdoutHandler \/ SIGINTHandler \/ UserInterrupt \/ GIL
          \/ ReadPty \/ ReadHalf
  BY <1>4 DEF StdoutHandler, HandlerWakes, HandlerTakes, HandlerSends,
              HandlerDone, LastRound, SIGINTHandler, SigintWakes, SendInterrupt,
              UserInterrupt, GIL, ReleaseGIL, AcquireGIL, ReadPty, ReadHalf, Crash
<1>5. CASE UNCHANGED vars
  BY <1>5 DEF vars
<1>6. QED
  BY <1>1, <1>2, <1>3, <1>4, <1>5 DEF Next, Main

(* afterSuccessfulExecution keeps the success of a cell only if the REPL   *)
(* process is alive, and nothing runs in it between there and the report.  *)
LEMMA SuccessStep ==
    ASSUME TypeOK, ResultInvariant, SuccessInvariant, [Next]_vars
    PROVE  SuccessInvariant'
<1> USE DEF ResultInvariant, SuccessInvariant, ErrorResults, MayDie, At, Goto,
            request, kernel, handler
<1>1. CASE Request \/ InitSwift \/ StartHandler \/ SetParent
          \/ PreprocessPublish \/ PreprocessInstall \/ Preprocess
  BY <1>1 DEF Request, InitSwift, StartHandler, SetParent, PreprocessPublish,
              PreprocessInstall, Preprocess, EndCell, Crash
<1>2. CASE Compile \/ CellEmits \/ CellFinishes \/ AfterExec
  BY <1>2 DEF Compile, CellEmits, CellFinishes, EndEvaluation, AfterExec, EndCell
<1>3. CASE \/ SetStopEvent \/ Join
          \/ ReportInstall \/ ReportBadState \/ ReportSuccess
          \/ ReportKilled \/ ReportTrace \/ ReportCompileError
          \/ ScheduleExit \/ Reply \/ LoopStop
  BY <1>3 DEF SetStopEvent, Join, ReportInstall, ReportBadState, ReportSuccess,
              ReportKilled, ReportTrace, ReportCompileError, Conclude,
              ScheduleExit, Reply, LoopStop, Crash
<1>4. CASE \/ StdoutHandler \/ SIGINTHandler \/ UserInterrupt \/ GIL
          \/ ReadPty \/ ReadHalf
  BY <1>4 DEF StdoutHandler, HandlerWakes, HandlerTakes, HandlerSends,
              HandlerDone, LastRound, SIGINTHandler, SigintWakes, SendInterrupt,
              UserInterrupt, GIL, ReleaseGIL, AcquireGIL, ReadPty, ReadHalf, Crash
<1>5. CASE UNCHANGED vars
  BY <1>5 DEF vars
<1>6. QED
  BY <1>1, <1>2, <1>3, <1>4, <1>5 DEF Next, Main

(* Every way to conclude a cell is followed by the answer that belongs to  *)
(* it.                                                                     *)
LEMMA ReplyStep ==
    ASSUME TypeOK, ResultInvariant, ReplyInvariant, [Next]_vars
    PROVE  ReplyInvariant'
<1> USE DEF ResultInvariant, ReplyInvariant, ReplyStatus, ErrorResults,
            Protocol!Conclusions, Protocol!Status, Protocol!OutcomeKinds,
            Protocol!ErrorKinds, At, Goto, request, kernel, handler
<1>1. CASE Request \/ InitSwift \/ StartHandler \/ SetParent
          \/ PreprocessPublish \/ PreprocessInstall \/ Preprocess
  BY <1>1 DEF Request, InitSwift, StartHandler, SetParent, PreprocessPublish,
              PreprocessInstall, Preprocess, EndCell, Crash
<1>2. CASE Compile \/ CellEmits \/ CellFinishes \/ AfterExec
  BY <1>2 DEF Compile, CellEmits, CellFinishes, EndEvaluation, AfterExec, EndCell
<1>3. CASE \/ SetStopEvent \/ Join
          \/ ReportInstall \/ ReportBadState \/ ReportSuccess
          \/ ReportKilled \/ ReportTrace \/ ReportCompileError
          \/ ScheduleExit \/ Reply \/ LoopStop
  BY <1>3 DEF SetStopEvent, Join, ReportInstall, ReportBadState, ReportSuccess,
              ReportKilled, ReportTrace, ReportCompileError, Conclude,
              ScheduleExit, Reply, LoopStop, Crash
<1>4. CASE \/ StdoutHandler \/ SIGINTHandler \/ UserInterrupt \/ GIL
          \/ ReadPty \/ ReadHalf
  BY <1>4 DEF StdoutHandler, HandlerWakes, HandlerTakes, HandlerSends,
              HandlerDone, LastRound, SIGINTHandler, SigintWakes, SendInterrupt,
              UserInterrupt, GIL, ReleaseGIL, AcquireGIL, ReadPty, ReadHalf, Crash
<1>5. CASE UNCHANGED vars
  BY <1>5 DEF vars
<1>6. QED
  BY <1>1, <1>2, <1>3, <1>4, <1>5 DEF Next, Main

-----------------------------------------------------------------------------

(* A message joins the log after all others. *)
Grown(k) ==
    /\ Len(iopub) \in Nat /\ DOMAIN iopub = 1..Len(iopub)
    /\ DOMAIN iopub' = 1..(Len(iopub) + 1)
    /\ \A i \in DOMAIN iopub : iopub'[i] = iopub[i]
    /\ iopub'[Len(iopub) + 1].kind = k
    /\ iopub'[Len(iopub) + 1].cell = cell

LEMMA LogGrows ==
    ASSUME TypeOK, NEW k, NEW str, Publish(k, str)
    PROVE  Grown(k) /\ iopub'[Len(iopub) + 1].text = str
<1> DEFINE n == Len(iopub)
<1>1. n \in Nat /\ DOMAIN iopub = 1..n
  BY DEF TypeOK, Messages
<1>2. /\ DOMAIN iopub' = 1..(n + 1)
      /\ \A i \in DOMAIN iopub : iopub'[i] = iopub[i]
      /\ iopub'[n + 1] = [kind |-> k, cell |-> cell, text |-> str]
  BY DEF TypeOK, Messages, Publish
<1>3. QED
  BY <1>1, <1>2 DEF Grown

(* Every step leaves the log alone or appends one message; a stack trace   *)
(* is only reported after had_stdout was seen.                             *)
TraceGuard == pc = "report" /\ result \in ErrorResults /\ hadStdout

OneMessage ==
    \E k, str :
        /\ Publish(k, str)
        /\ k = "trace" => TraceGuard
        /\ k = "stdout" => HandlerSends

LEMMA LogStep ==
    ASSUME [Next]_vars
    PROVE  iopub' = iopub \/ OneMessage
<1>1. CASE Request \/ InitSwift \/ StartHandler \/ SetParent
          \/ PreprocessInstall \/ Preprocess
  BY <1>1 DEF Request, InitSwift, StartHandler, SetParent, PreprocessInstall,
              Preprocess, Crash
<1>2. CASE PreprocessPublish
  BY <1>2 DEF PreprocessPublish, OneMessage
<1>3. CASE Compile \/ CellEmits \/ CellFinishes
  BY <1>3 DEF Compile, CellEmits, CellFinishes
<1>4. CASE AfterExec
  BY <1>4 DEF AfterExec, OneMessage
<1>5. CASE SetStopEvent \/ Join \/ ScheduleExit \/ Reply \/ LoopStop
  BY <1>5 DEF SetStopEvent, Join, ScheduleExit, Reply, LoopStop, Crash
<1>6. CASE ReportTrace
  BY <1>6 DEF ReportTrace, Conclude, At, OneMessage, TraceGuard
<1>7. CASE ReportInstall \/ ReportBadState \/ ReportSuccess
           \/ ReportKilled \/ ReportCompileError
  <2>1. ASSUME NEW l, NEW k \in {"silent", "value", "bad", "compile", "killed",
                                "install"},
               Conclude(l, k)
        PROVE  iopub' = iopub \/ OneMessage
    BY <2>1 DEF Conclude, OneMessage
  <2>2. QED
    BY <1>7, <2>1 DEF ReportInstall, ReportBadState, ReportSuccess, ReportKilled,
                      ReportCompileError
<1>8. CASE HandlerSends
  BY <1>8 DEF HandlerSends, OneMessage
<1>9. CASE HandlerWakes \/ HandlerTakes
  BY <1>9 DEF HandlerWakes, HandlerTakes, Crash
<1>10. CASE SIGINTHandler \/ UserInterrupt \/ GIL \/ ReadPty \/ ReadHalf
  BY <1>10 DEF SIGINTHandler, SigintWakes, SendInterrupt, UserInterrupt, GIL,
               ReleaseGIL, AcquireGIL, ReadPty, ReadHalf, Crash
<1>11. CASE UNCHANGED vars
  BY <1>11 DEF vars
<1>12. QED
  BY <1>1, <1>2, <1>3, <1>4, <1>5, <1>6, <1>7, <1>8, <1>9, <1>10, <1>11
     DEF Next, Main, StdoutHandler

(* What was sent stays sent. *)
LEMMA SentKept ==
    ASSUME TypeOK, [Next]_vars, cell' = cell, SentStdout
    PROVE  SentStdout'
<1>1. CASE iopub' = iopub
  BY <1>1 DEF SentStdout
<1>2. CASE OneMessage
  <2>1. PICK k, str : Publish(k, str)
    BY <1>2 DEF OneMessage
  <2>2. Grown(k)
    BY <2>1, LogGrows
  <2>3. QED
    BY <2>2 DEF SentStdout, Grown
<1>3. QED
  BY <1>1, <1>2, LogStep

(* had_stdout is set when a text is taken, and the text is sent before the *)
(* handler does anything else.                                             *)
LEMMA StdoutStep ==
    ASSUME TypeOK, StdoutInvariant, [Next]_vars
    PROVE  StdoutInvariant'
<1> USE DEF StdoutInvariant, At, Goto, request, kernel, handler
<1>1. CASE Request \/ InitSwift \/ StartHandler \/ Reply \/ LoopStop
  BY <1>1 DEF Request, InitSwift, StartHandler, Reply, LoopStop, Crash
<1>2. CASE SetParent \/ PreprocessPublish \/ PreprocessInstall \/ Preprocess
  BY <1>2, SentKept DEF SetParent, PreprocessPublish, PreprocessInstall,
              Preprocess, EndCell, Crash
<1>3. CASE Compile \/ CellEmits \/ CellFinishes \/ AfterExec
  BY <1>3, SentKept DEF Compile, CellEmits, CellFinishes, EndEvaluation,
              AfterExec, EndCell
<1>4. CASE \/ SetStopEvent \/ Join
          \/ ReportInstall \/ ReportBadState \/ ReportSuccess
          \/ ReportKilled \/ ReportTrace \/ ReportCompileError
          \/ ScheduleExit
  BY <1>4, SentKept DEF SetStopEvent, Join, ReportInstall, ReportBadState,
              ReportSuccess, ReportKilled, ReportTrace, ReportCompileError,
              Conclude, ScheduleExit, Crash
<1>5. CASE HandlerWakes \/ HandlerTakes
  BY <1>5, SentKept DEF HandlerWakes, HandlerTakes, HandlerDone, LastRound, Crash
<1>6. CASE HandlerSends
  <2>1. Publish("stdout", text) /\ cell' = cell
    BY <1>6 DEF HandlerSends
  <2>2. Grown("stdout")
    BY <2>1, LogGrows
  <2>3. Len(iopub) + 1 \in DOMAIN iopub'
    BY <2>2 DEF Grown
  <2>4. SentStdout'
    BY <2>1, <2>2, <2>3 DEF SentStdout, Grown
  <2>5. QED
    BY <2>4
<1>7. CASE SIGINTHandler \/ UserInterrupt \/ GIL \/ ReadPty \/ ReadHalf
  BY <1>7, SentKept DEF SIGINTHandler, SigintWakes, SendInterrupt, UserInterrupt,
              GIL, ReleaseGIL, AcquireGIL, ReadPty, ReadHalf, Crash
<1>8. CASE UNCHANGED vars
  BY <1>8, SentKept DEF vars
<1>9. QED
  BY <1>1, <1>2, <1>3, <1>4, <1>5, <1>6, <1>7, <1>8
     DEF Next, Main, StdoutHandler

-----------------------------------------------------------------------------

(* Lengths of the sequences that the output goes through. *)
LEMMA AppendUnit ==
    ASSUME NEW s \in Units, NEW n \in Nat
    PROVE  /\ Len(s) \in Nat /\ DOMAIN s = 1..Len(s)
           /\ Len(Append(s, n)) = Len(s) + 1
           /\ DOMAIN Append(s, n) = 1..(Len(s) + 1)
           /\ \A p \in DOMAIN s : Append(s, n)[p] = s[p]
           /\ Append(s, n)[Len(s) + 1] = n
BY DEF Units

LEMMA FollowsAppend ==
    ASSUME NEW s \in Units, NEW n \in Nat, NEW m \in Int,
           Follows(s, m), n = m + Len(s) + 1
    PROVE  Follows(Append(s, n), m) /\ Len(Append(s, n)) = Len(s) + 1
BY AppendUnit DEF Follows

LEMMA FollowsTail ==
    ASSUME NEW s \in Units, s # <<>>, NEW m \in Int, Follows(s, m)
    PROVE  /\ Head(s) = m + 1 /\ Follows(Tail(s), m + 1)
           /\ Len(Tail(s)) = Len(s) - 1 /\ Len(s) \in Nat
<1>1. /\ Len(s) \in Nat /\ Len(s) >= 1 /\ DOMAIN s = 1..Len(s)
      /\ Head(s) = s[1] /\ Len(Tail(s)) = Len(s) - 1
      /\ DOMAIN Tail(s) = 1..(Len(s) - 1)
      /\ \A p \in 1..(Len(s) - 1) : Tail(s)[p] = s[p + 1]
  BY DEF Units
<1>2. QED
  BY <1>1 DEF Follows

LEMMA Counts ==
    ASSUME TypeOK
    PROVE  /\ Len(pty) \in Nat /\ Len(lldb) \in Nat /\ Len(text) \in Nat
           /\ emitted \in Nat
           /\ ReadUnits \in Int /\ TakenUnits \in Int /\ SentUnits \in Int
<1>1. Len(pty) \in Nat /\ Len(lldb) \in Nat /\ Len(text) \in Nat /\ emitted \in Nat
  BY LenType DEF TypeOK
<1>2. QED
  BY <1>1 DEF ReadUnits, TakenUnits, SentUnits

(* How a step moves output: what is emitted joins the terminal, what is    *)
(* read leaves it for the buffer of LLDB, and so on.                       *)
Moves(r, t, s) ==
    /\ InTransit'
    /\ ReadUnits' = ReadUnits + r
    /\ TakenUnits' = t
    /\ SentUnits' = s

LEMMA NothingMoves ==
    ASSUME TypeOK, InTransit, UNCHANGED <<pty, lldb, emitted, text>>
    PROVE  Moves(0, TakenUnits, SentUnits)
<1>1. ReadUnits' = ReadUnits /\ TakenUnits' = TakenUnits /\ SentUnits' = SentUnits
  BY DEF ReadUnits, TakenUnits, SentUnits
<1>2. InTransit'
  BY <1>1 DEF InTransit, Follows
<1>3. QED
  BY <1>1, <1>2, Counts DEF Moves

LEMMA EmitMoves ==
    ASSUME TypeOK, InTransit, MayEmit, text' = text
    PROVE  Moves(0, TakenUnits, SentUnits)
<1>1. CASE UNCHANGED output
  BY <1>1, NothingMoves DEF output
<1>2. CASE EmitUnit
  <2>1. /\ pty' = Append(pty, emitted + 1) /\ emitted' = emitted + 1
        /\ lldb' = lldb
    BY <1>2 DEF EmitUnit
  <2>2. Follows(pty', ReadUnits) /\ Len(pty') = Len(pty) + 1
    BY <2>1, FollowsAppend, Counts DEF InTransit, ReadUnits, TypeOK
  <2>3. ReadUnits' = ReadUnits
    BY <2>1, <2>2, Counts DEF ReadUnits
  <2>4. TakenUnits' = TakenUnits /\ SentUnits' = SentUnits
    BY <2>1, <2>3 DEF TakenUnits, SentUnits
  <2>5. InTransit'
    BY <2>1, <2>2, <2>3, <2>4 DEF InTransit, Follows
  <2>6. QED
    BY <2>3, <2>4, <2>5, Counts DEF Moves
<1>3. QED
  BY <1>1, <1>2 DEF MayEmit

LEMMA ReadMoves ==
    ASSUME TypeOK, InTransit, ReadPty
    PROVE  Moves(1, TakenUnits, SentUnits)
<1>1. /\ pty # <<>> /\ pty' = Tail(pty) /\ lldb' = Append(lldb, Head(pty))
      /\ UNCHANGED <<emitted, text>>
  BY DEF ReadPty, handler
<1>2. /\ Head(pty) = ReadUnits + 1 /\ Follows(pty', ReadUnits + 1)
      /\ Len(pty') = Len(pty) - 1
  BY <1>1, FollowsTail, Counts DEF InTransit, TypeOK
<1>3. Head(pty) \in Nat
  BY <1>1, ReadType DEF TypeOK
<1>4. Follows(lldb', TakenUnits) /\ Len(lldb') = Len(lldb) + 1
  BY <1>1, <1>2, <1>3, FollowsAppend, Counts DEF InTransit, TakenUnits, TypeOK
<1>5. ReadUnits' = ReadUnits + 1
  BY <1>1, <1>2, Counts DEF ReadUnits
<1>6. TakenUnits' = TakenUnits /\ SentUnits' = SentUnits
  BY SMTT(30), <1>1, <1>4, <1>5, Counts DEF TakenUnits, SentUnits
<1>7. InTransit'
  BY <1>1, <1>2, <1>4, <1>5, <1>6 DEF InTransit, Follows
<1>8. QED
  BY <1>5, <1>6, <1>7 DEF Moves

LEMMA TakeMoves ==
    ASSUME TypeOK, InTransit, text = <<>>, text' = lldb, lldb' = <<>>,
           UNCHANGED <<pty, emitted>>
    PROVE  Moves(0, ReadUnits, SentUnits)
<1>1. Len(text) = 0 /\ Len(lldb') = 0 /\ DOMAIN lldb' = {}
  OBVIOUS
<1>2. ReadUnits' = ReadUnits
  BY DEF ReadUnits
<1>3. TakenUnits' = ReadUnits /\ SentUnits = TakenUnits /\ SentUnits' = SentUnits
  BY <1>1, <1>2, Counts DEF TakenUnits, SentUnits
<1>4. InTransit'
  BY <1>1, <1>2, <1>3 DEF InTransit, Follows
<1>5. QED
  BY <1>2, <1>3, <1>4, Counts DEF Moves

LEMMA SendMoves ==
    ASSUME TypeOK, InTransit, HandlerSends
    PROVE  Moves(0, TakenUnits, TakenUnits)
<1>1. text' = <<>> /\ UNCHANGED <<pty, lldb, emitted>>
  BY DEF HandlerSends, output
<1>2. Len(text') = 0 /\ DOMAIN text' = {}
  BY <1>1
<1>3. ReadUnits' = ReadUnits /\ TakenUnits' = TakenUnits
  BY <1>1 DEF ReadUnits, TakenUnits
<1>4. SentUnits' = TakenUnits
  BY <1>2, <1>3, Counts DEF SentUnits
<1>5. TakenUnits \in Nat
  BY Counts DEF InTransit, SentUnits
<1>6. InTransit'
  BY <1>1, <1>2, <1>3, <1>4, <1>5 DEF InTransit, Follows
<1>7. QED
  BY <1>3, <1>4, <1>6, Counts DEF Moves

(* Steps that neither read, take nor send output. *)
Quiet ==
    \/ Request \/ LoopStop \/ UserInterrupt \/ Main \/ HandlerWakes
    \/ SIGINTHandler \/ GIL \/ ReadHalf \/ UNCHANGED vars

LEMMA QuietMoves ==
    ASSUME TypeOK, InTransit, Quiet
    PROVE  Moves(0, TakenUnits, SentUnits)
<1> USE DEF handler, output
<1>1. CASE SetParent \/ PreprocessInstall \/ CellEmits \/ AfterExec
  <2>1. (MayEmit \/ UNCHANGED output) /\ text' = text
    BY <1>1 DEF SetParent, PreprocessInstall, CellEmits, AfterExec, MayEmit
  <2>2. QED
    BY <2>1, EmitMoves DEF MayEmit
<1>2. CASE Request \/ LoopStop \/ UserInterrupt \/ HandlerWakes
          \/ SIGINTHandler \/ GIL \/ ReadHalf \/ UNCHANGED vars
  BY <1>2, NothingMoves DEF Request, LoopStop, UserInterrupt, HandlerWakes,
     SIGINTHandler, SigintWakes, SendInterrupt, GIL, ReleaseGIL, AcquireGIL,
     ReadHalf, Crash, vars
<1>3. CASE \/ InitSwift \/ StartHandler
          \/ PreprocessPublish \/ Preprocess \/ Compile \/ CellFinishes
          \/ SetStopEvent \/ Join \/ ReportInstall \/ ReportBadState
          \/ ReportSuccess \/ ReportKilled \/ ReportTrace
          \/ ReportCompileError \/ ScheduleExit \/ Reply
  BY <1>3, NothingMoves DEF InitSwift, StartHandler, PreprocessPublish, Preprocess,
     Compile, CellFinishes, SetStopEvent, Join, ReportInstall,
     ReportBadState, ReportSuccess, ReportKilled, ReportTrace, ReportCompileError,
     Conclude, ScheduleExit, Reply, Crash
<1>4. QED
  BY <1>1, <1>2, <1>3 DEF Quiet, Main

LEMMA TakesMoves ==
    ASSUME TypeOK, InTransit, TextInvariant, HandlerTakes
    PROVE  \/ Moves(0, TakenUnits, SentUnits) /\ (pc' = "crashed" \/ lldb = <<>>)
           \/ Moves(0, ReadUnits, SentUnits) /\ pc' = pc
              /\ hpc' = IF LastRound THEN "lastSend" ELSE "send"
<1>1. CASE Crash
  BY <1>1, NothingMoves DEF Crash, handler, output
<1>2. CASE ~half /\ lldb = <<>> /\ UNCHANGED <<text, output>>
  BY <1>2, NothingMoves DEF output
<1>3. CASE /\ text' = lldb /\ lldb' = <<>> /\ UNCHANGED <<pc, pty, emitted>>
           /\ hpc' = IF LastRound THEN "lastSend" ELSE "send"
  <2>1. text = <<>>
    BY DEF HandlerTakes, TextInvariant
  <2>2. QED
    BY <1>3, <2>1, TakeMoves
<1>4. QED
  BY <1>1, <1>2, <1>3 DEF HandlerTakes

LEMMA EveryStep ==
    [Next]_vars => Quiet \/ ReadPty \/ HandlerTakes \/ HandlerSends
BY DEF Next, StdoutHandler, Quiet

LEMMA TransitStep ==
    ASSUME TypeOK, InTransit, TextInvariant, [Next]_vars
    PROVE  InTransit' /\ (SentUnits' = SentUnits \/ HandlerSends)
BY EveryStep, QuietMoves, ReadMoves, TakesMoves, SendMoves DEF Moves

LEMMA TextStep ==
    ASSUME HandlerInvariant, TextInvariant, [Next]_vars
    PROVE  TextInvariant'
<1> USE DEF TextInvariant, handler
<1>1. CASE Request \/ LoopStop \/ UserInterrupt \/ ReadPty
          \/ SIGINTHandler \/ GIL \/ ReadHalf \/ UNCHANGED vars
  BY <1>1 DEF Request, LoopStop, UserInterrupt, ReadPty, SIGINTHandler, SigintWakes,
     SendInterrupt, GIL, ReleaseGIL, AcquireGIL, ReadHalf, Crash, vars
<1>2. CASE \/ InitSwift \/ SetParent \/ PreprocessPublish
          \/ PreprocessInstall \/ Preprocess \/ Compile \/ CellEmits
          \/ CellFinishes \/ AfterExec \/ SetStopEvent \/ Join
          \/ ReportInstall \/ ReportBadState \/ ReportSuccess \/ ReportKilled
          \/ ReportTrace \/ ReportCompileError \/ ScheduleExit \/ Reply
  BY <1>2 DEF InitSwift, SetParent, PreprocessPublish, PreprocessInstall,
     Preprocess, Compile, CellEmits, CellFinishes, AfterExec, SetStopEvent, Join,
     ReportInstall, ReportBadState, ReportSuccess, ReportKilled, ReportTrace,
     ReportCompileError, Conclude, ScheduleExit, Reply, Crash
<1>3. CASE HandlerWakes \/ HandlerTakes \/ HandlerSends
  BY <1>3 DEF HandlerWakes, HandlerTakes, HandlerSends, HandlerDone, LastRound, Crash
<1>4. CASE StartHandler
  BY <1>4 DEF StartHandler, HandlerInvariant, At
<1>5. QED
  BY <1>1, <1>2, <1>3, <1>4 DEF Next, Main, StdoutHandler

(* What was due when the stop_event was set is sent before the handler     *)
(* ends, because its last round takes all that LLDB has read.              *)
LEMMA FlushStep ==
    ASSUME TypeOK, InTransit, HandlerInvariant, TextInvariant, FlushInvariant,
           [Next]_vars
    PROVE  FlushInvariant'
<1> USE DEF FlushInvariant
<1>0. /\ due \in Int /\ ReadUnits \in Int /\ TakenUnits \in Int /\ SentUnits \in Nat
      /\ SentUnits <= TakenUnits /\ TakenUnits <= ReadUnits
  BY Counts DEF TypeOK, InTransit, SentUnits, TakenUnits
<1>1. ASSUME ReadUnits' = ReadUnits, TakenUnits' = TakenUnits,
             SentUnits' = SentUnits, Request \/ LoopStop \/ UserInterrupt
             \/ SIGINTHandler \/ GIL \/ ReadHalf \/ UNCHANGED vars
      PROVE  FlushInvariant'
  BY <1>0, <1>1 DEF Request, LoopStop, UserInterrupt, SIGINTHandler, SigintWakes,
     SendInterrupt, GIL, ReleaseGIL, AcquireGIL, ReadHalf, Crash, vars, handler
<1>2. ASSUME ReadUnits' = ReadUnits, TakenUnits' = TakenUnits,
             SentUnits' = SentUnits,
             \/ InitSwift \/ StartHandler \/ SetParent \/ PreprocessPublish
             \/ PreprocessInstall \/ Preprocess \/ Compile \/ CellEmits
             \/ CellFinishes \/ AfterExec
      PROVE  FlushInvariant'
  BY <1>0, <1>2 DEF InitSwift, StartHandler, SetParent, PreprocessPublish,
     PreprocessInstall, Preprocess, Compile, CellEmits, CellFinishes, AfterExec,
     EndCell, EndEvaluation, Crash, At, Goto, handler
<1>3. ASSUME ReadUnits' = ReadUnits, TakenUnits' = TakenUnits,
             SentUnits' = SentUnits, SetStopEvent
      PROVE  FlushInvariant'
  <2>1. /\ pc = "stop" /\ pc' = "join" /\ hpc' = hpc /\ due' = ReadUnits
        /\ hpc \in {"waiting", "drain", "send"}
    BY <1>3 DEF SetStopEvent, At, Goto, ReadUnits
  <2>2. QED
    BY <1>0, <1>3, <2>1
<1>4. ASSUME ReadUnits' = ReadUnits, TakenUnits' = TakenUnits,
             SentUnits' = SentUnits,
             \/ Join \/ ReportInstall \/ ReportBadState \/ ReportSuccess
             \/ ReportKilled \/ ReportTrace \/ ReportCompileError
             \/ ScheduleExit \/ Reply
      PROVE  FlushInvariant'
  BY <1>0, <1>4 DEF Join, ReportInstall, ReportBadState, ReportSuccess,
     ReportKilled, ReportTrace, ReportCompileError, Conclude, ScheduleExit, Reply,
     Crash, At, Goto, handler
<1>5. ASSUME ReadUnits' = ReadUnits, TakenUnits' = TakenUnits,
             SentUnits' = SentUnits, HandlerWakes
      PROVE  FlushInvariant'
  BY <1>0, <1>5 DEF HandlerWakes
<1>6. CASE Quiet
  BY <1>1, <1>2, <1>3, <1>4, <1>5, <1>6, <1>0, QuietMoves DEF Moves, Quiet, Main
<1>7. CASE ReadPty
  <2>1. ReadUnits' = ReadUnits + 1 /\ TakenUnits' = TakenUnits /\ SentUnits' = SentUnits
    BY <1>7, ReadMoves DEF Moves
  <2>2. QED
    BY <1>0, <1>7, <2>1 DEF ReadPty, handler
<1>8. CASE HandlerTakes
  <2>1. UNCHANGED <<due, stopEvent>>
    BY <1>8 DEF HandlerTakes, Crash, handler
  <2>2. CASE Moves(0, TakenUnits, SentUnits) /\ pc' = "crashed"
    BY <1>0, <2>1, <2>2 DEF Moves
  <2>3. CASE /\ Moves(0, TakenUnits, SentUnits) /\ lldb = <<>>
             /\ pc' # "crashed"
    <3>1. /\ hpc \in {"drain", "lastDrain"} /\ pc' = pc
          /\ hpc' = IF hpc = "lastDrain" THEN "done" ELSE "waiting"
      BY <1>8, <2>3 DEF HandlerTakes, HandlerDone, LastRound, Crash
    <3>2. TakenUnits = ReadUnits /\ SentUnits = TakenUnits
      <4>1. Len(lldb) = 0 /\ Len(text) = 0
        BY <2>3, <3>1 DEF TextInvariant
      <4>2. QED
        BY <4>1, Counts DEF SentUnits, TakenUnits
    <3>3. pc \in {"setParent", "preprocess", "compile", "run", "afterExec", "stop"}
             => hpc' = "waiting"
      BY <3>1
    <3>4. QED
      BY <1>0, <2>1, <2>3, <3>1, <3>2, <3>3 DEF Moves
  <2>4. CASE /\ Moves(0, ReadUnits, SentUnits) /\ pc' = pc
             /\ hpc' = IF LastRound THEN "lastSend" ELSE "send"
    <3>1. hpc \in {"drain", "lastDrain"}
      BY <1>8 DEF HandlerTakes
    <3>2. hpc' = IF hpc = "lastDrain" THEN "lastSend" ELSE "send"
      BY <2>4, <3>1 DEF LastRound
    <3>3. ReadUnits' = ReadUnits /\ TakenUnits' = ReadUnits /\ SentUnits' = SentUnits
      BY <1>0, <2>4 DEF Moves
    <3>4. QED
      BY <1>0, <2>1, <2>4, <3>1, <3>2, <3>3
  <2>5. QED
    BY <1>8, <2>2, <2>3, <2>4, TakesMoves
<1>9. CASE HandlerSends
  <2>1. /\ UNCHANGED <<due, stopEvent, pc>> /\ hpc \in {"send", "lastSend"}
        /\ hpc' = IF hpc = "lastSend" THEN "done" ELSE "waiting"
    BY <1>9 DEF HandlerSends, HandlerDone, LastRound
  <2>2. ReadUnits' = ReadUnits /\ TakenUnits' = TakenUnits /\ SentUnits' = TakenUnits
    BY <1>0, <1>9, SendMoves DEF Moves
  <2>3. QED
    BY <1>0, <2>1, <2>2
<1>10. QED
  BY <1>6, <1>7, <1>8, <1>9, EveryStep

(* Messages of other kinds do not carry output. *)
LEMMA OtherMessage ==
    ASSUME PublishedOnce, NEW k, Grown(k), k # "stdout", SentUnits' = SentUnits
    PROVE  PublishedOnce'
<1>1. /\ StdoutMessages' = StdoutMessages
      /\ \A i \in StdoutMessages : iopub'[i] = iopub[i]
  BY DEF Grown, StdoutMessages
<1>2. QED
  BY <1>1 DEF PublishedOnce, Published

(* A message of the handler carries the units after those already sent. *)
LEMMA StdoutMessage ==
    ASSUME TypeOK, InTransit, PublishedOnce, HandlerSends
    PROVE  PublishedOnce'
<1> DEFINE n == Len(iopub) + 1
           t == iopub'[n].text
<1>1. /\ n \in Nat /\ n \notin DOMAIN iopub
      /\ \A i \in DOMAIN iopub : i \in Nat /\ i < n /\ iopub'[i] = iopub[i]
      /\ StdoutMessages' = StdoutMessages \cup {n}
      /\ t = text
  <2>1. Publish("stdout", text)
    BY DEF HandlerSends
  <2>2. Grown("stdout") /\ t = text
    BY <2>1, LogGrows
  <2>3. QED
    BY <2>2 DEF Grown, StdoutMessages
<1>2. StdoutMessages \subseteq DOMAIN iopub
  BY DEF StdoutMessages
<1>3. /\ SentUnits \in Nat /\ SentUnits' = SentUnits + Len(text)
      /\ DOMAIN text = 1..Len(text) /\ Len(text) \in Nat
  <2>1. SentUnits' = TakenUnits
    BY SendMoves DEF Moves
  <2>2. DOMAIN text = 1..Len(text)
    BY DEF TypeOK, Units
  <2>3. QED
    BY <2>1, <2>2, Counts DEF InTransit, SentUnits
<1>4. \A p \in DOMAIN t : t[p] = SentUnits + p
  BY <1>1 DEF InTransit, Follows
<1> HIDE DEF n, t
<1>5. \A i \in StdoutMessages' : \A p \in DOMAIN iopub'[i].text :
          iopub'[i].text[p] \in 1..SentUnits'
  <2> SUFFICES ASSUME NEW i \in StdoutMessages', NEW p \in DOMAIN iopub'[i].text
               PROVE  iopub'[i].text[p] \in 1..SentUnits'
    OBVIOUS
  <2>1. CASE i \in StdoutMessages
    BY <1>1, <1>2, <1>3, <2>1 DEF PublishedOnce
  <2>2. CASE i = n
    BY <1>1, <1>3, <1>4, <2>2 DEF t
  <2>3. QED
    BY <1>1, <2>1, <2>2
<1>6. \A u \in 1..SentUnits' : Published(u)'
  <2> SUFFICES ASSUME NEW u \in 1..SentUnits' PROVE Published(u)'
    OBVIOUS
  <2>1. CASE u \in 1..SentUnits
    <3>1. PICK i \in StdoutMessages : \E p \in DOMAIN iopub[i].text : iopub[i].text[p] = u
      BY <2>1 DEF PublishedOnce, Published
    <3>2. QED
      BY <1>1, <1>2, <3>1 DEF Published
  <2>2. CASE u \notin 1..SentUnits
    <3>1. u - SentUnits \in DOMAIN t /\ t[u - SentUnits] = u
      BY <1>1, <1>3, <1>4, <2>2
    <3>2. QED
      BY <1>1, <3>1 DEF Published, t
  <2>3. QED
    BY <2>1, <2>2
<1>7. ASSUME NEW i \in StdoutMessages', NEW j \in StdoutMessages',
             NEW p \in DOMAIN iopub'[i].text, NEW q \in DOMAIN iopub'[j].text,
             i < j \/ (i = j /\ p < q)
      PROVE  iopub'[i].text[p] < iopub'[j].text[q]
  <2>1. CASE i \in StdoutMessages /\ j \in StdoutMessages
    BY <1>1, <1>2, <1>7, <2>1 DEF PublishedOnce
  <2>2. CASE i \in StdoutMessages /\ j = n
    <3>1. iopub'[i].text[p] \in 1..SentUnits
      BY <1>1, <1>2, <2>2 DEF PublishedOnce
    <3>2. iopub'[j].text[q] = SentUnits + q /\ q \in 1..Len(text)
      BY <1>1, <1>3, <1>4, <2>2 DEF t
    <3>3. QED
      BY <1>3, <3>1, <3>2
  <2>3. CASE i = n /\ j = n
    BY <1>1, <1>3, <1>4, <1>7, <2>3 DEF t
  <2>4. CASE i = n /\ j \in StdoutMessages
    BY <1>1, <1>2, <1>7, <2>4
  <2>5. QED
    BY <1>1, <2>1, <2>2, <2>3, <2>4
<1>8. QED
  BY <1>5, <1>6, <1>7 DEF PublishedOnce

LEMMA OnceStep ==
    ASSUME TypeOK, TextInvariant, ExactlyOnceStdout, [Next]_vars
    PROVE  ExactlyOnceStdout'
<1>1. InTransit' /\ (SentUnits' = SentUnits \/ HandlerSends)
  BY TransitStep DEF ExactlyOnceStdout
<1>2. CASE HandlerSends
  BY <1>1, <1>2, StdoutMessage DEF ExactlyOnceStdout
<1>3. CASE SentUnits' = SentUnits /\ iopub' = iopub
  <2>1. PublishedOnce'
    BY <1>3 DEF ExactlyOnceStdout, PublishedOnce, Published, StdoutMessages
  <2>2. QED
    BY <1>1, <2>1 DEF ExactlyOnceStdout
<1>4. CASE SentUnits' = SentUnits /\ OneMessage /\ ~HandlerSends
  <2>1. PICK k, str : Publish(k, str) /\ k # "stdout"
    BY <1>4 DEF OneMessage
  <2>2. Grown(k)
    BY <2>1, LogGrows
  <2>3. PublishedOnce'
    BY <1>4, <2>1, <2>2, OtherMessage DEF ExactlyOnceStdout
  <2>4. QED
    BY <1>1, <2>3 DEF ExactlyOnceStdout
<1>5. QED
  BY <1>1, <1>2, <1>3, <1>4, LogStep

(* The inductive invariant of CellExecution. *)
THEOREM Invariance == Spec => []IInv
<1>1. Init => IInv
  <2>1. Init => TypeOK
    BY InitType
  <2>2. Init => LockInvariant /\ HandlerInvariant /\ SuccessInvariant
                    /\ ResultInvariant /\ ReplyInvariant /\ StdoutInvariant
    BY DEF Init, LockInvariant, InLLDB, HandlerInvariant, SuccessInvariant,
           ResultInvariant, ReplyInvariant, StdoutInvariant
  <2>3. Init => TextInvariant /\ FlushInvariant /\ ExactlyOnceStdout
    BY DEF Init, TextInvariant, FlushInvariant, ExactlyOnceStdout, InTransit,
           PublishedOnce, Follows, SentUnits, TakenUnits, ReadUnits,
           StdoutMessages
  <2>4. QED
    BY <2>1, <2>2, <2>3 DEF IInv
<1>2. IInv /\ [Next]_vars => IInv'
  BY TypeStep, LockStep, HandlerStep, ResultStep, SuccessStep, ReplyStep,
     StdoutStep, TextStep, FlushStep, OnceStep DEF IInv, ExactlyOnceStdout
<1>3. QED
  BY <1>1, <1>2, PTL DEF Spec

(* A StdoutHandler runs only between its start and the return of join, so  *)
(* that none publishes after doExecute reported on the cell.               *)
THEOREM HandlerConfined == Spec => []HandlerConfinement
<1>1. IInv => HandlerConfinement
  BY DEF IInv, HandlerInvariant, HandlerConfinement, Up
<1>2. QED
  BY <1>1, Invariance, PTL

(* No cell is reported as a success once its REPL process is dead. *)
THEOREM DeadReplSafe == Spec => []DeadReplNeverSucceeds
<1>1. IInv => DeadReplNeverSucceeds
  BY DEF IInv, SuccessInvariant, DeadReplNeverSucceeds
<1>2. QED
  BY <1>1, Invariance, PTL

(* Output is published in order, nothing twice and nothing lost. *)
THEOREM OutputOnce == Spec => []ExactlyOnceStdout
<1>1. IInv => ExactlyOnceStdout
  BY DEF IInv
<1>2. QED
  BY <1>1, Invariance, PTL

(* What LLDB had read at the end of a cell is published before the report. *)
THEOREM OutputFlushed == Spec => []FlushedAtJoin
<1>1. IInv => FlushedAtJoin
  <2> SUFFICES ASSUME IInv, pc = "report", NEW u \in 1..due PROVE Published(u)
    BY DEF FlushedAtJoin
  <2>1. due \in Int /\ SentUnits \in Nat /\ due <= SentUnits
    BY DEF IInv, TypeOK, ExactlyOnceStdout, InTransit, FlushInvariant
  <2>2. QED
    BY <2>1 DEF IInv, ExactlyOnceStdout, PublishedOnce
<1>2. QED
  BY <1>1, Invariance, PTL

(* A stack trace is only published after output of the same cell. *)
THEOREM TraceExplained == Spec => []TraceFollowsStdout
<1>1. Init => TraceFollowsStdout
  BY DEF Init, TraceFollowsStdout
<1>2. IInv /\ TraceFollowsStdout /\ [Next]_vars => TraceFollowsStdout'
  <2> SUFFICES ASSUME IInv, TraceFollowsStdout, [Next]_vars
               PROVE  TraceFollowsStdout'
    OBVIOUS
  <2>1. CASE iopub' = iopub
    BY <2>1 DEF TraceFollowsStdout
  <2>2. CASE OneMessage
    <3>1. PICK k, str : Publish(k, str) /\ (k = "trace" => TraceGuard)
      BY <2>2 DEF OneMessage
    <3>2. TraceGuard => SentStdout
      BY DEF TraceGuard, IInv, StdoutInvariant, HandlerInvariant, ErrorResults
    <3>3. Grown(k)
      BY <3>1, LogGrows DEF IInv
    <3>4. QED
      BY <3>1, <3>2, <3>3 DEF TraceFollowsStdout, SentStdout, Grown
  <2>3. QED
    BY <2>1, <2>2, LogStep
<1>3. QED
  BY <1>1, <1>2, Invariance, PTL DEF Spec

(* While LLDB evaluates a cell nothing is published, by any thread. *)
THEOREM NoStreaming == Spec => NothingStreamsWhileRunning
<1>1. IInv /\ [Next]_vars => [InLLDB /\ InLLDB' => UNCHANGED iopub]_vars
  <2> SUFFICES ASSUME IInv, Next, InLLDB, InLLDB' PROVE UNCHANGED iopub
    OBVIOUS
  <2>1. gil = "main"
    BY DEF IInv, LockInvariant
  <2>2. QED
    BY <2>1 DEF Next, Main, StdoutHandler, SIGINTHandler, GIL, InLLDB, At, Goto,
        Request, InitSwift, StartHandler, SetParent, PreprocessPublish,
        PreprocessInstall, Preprocess, Compile, CellEmits, CellFinishes,
        AfterExec, EndCell, SetStopEvent, Join, ReportInstall, ReportBadState,
        ReportSuccess, ReportKilled, ReportTrace, ReportCompileError, Conclude,
        ScheduleExit, Reply, LoopStop, HandlerWakes, HandlerTakes, HandlerSends,
        UserInterrupt, SigintWakes, SendInterrupt, ReleaseGIL, AcquireGIL,
        ReadPty, ReadHalf, Crash
<1>2. QED
  BY <1>1, Invariance, PTL DEF Spec, NothingStreamsWhileRunning

-----------------------------------------------------------------------------
(* CellExecution implements CellProtocol: what doExecute, its threads and  *)
(* the REPL process do is, seen from the front end, what was promised.     *)

(* A message published by CellExecution is one entry of the abstract log. *)
LEMMA LogPublish ==
    ASSUME TypeOK, NEW k \in Kinds, NEW str \in Units, Publish(k, str)
    PROVE  Protocol!Post(k)
<1> DEFINE m == [kind |-> k, cell |-> cell, text |-> str]
           e == [kind |-> k, cell |-> cell]
<1>1. iopub \in Seq([kind : Kinds, cell : Nat, text : Units]) /\ cell \in Nat
  BY DEF TypeOK, Messages
<1>2. iopub' = Append(iopub, m)
  BY DEF Publish
<1>3. m \in [kind : Kinds, cell : Nat, text : Units]
  BY <1>1
<1>4. /\ Len(iopub) \in Nat
      /\ DOMAIN iopub = 1..Len(iopub)
      /\ DOMAIN iopub' = 1..(Len(iopub) + 1)
      /\ \A i \in 1..Len(iopub) : iopub'[i] = iopub[i]
      /\ iopub'[Len(iopub) + 1] = m
  BY <1>1, <1>2, <1>3
<1>5. Log \in Seq([kind : Kinds, cell : Nat])
  <2>1. \A i \in 1..Len(iopub) : iopub[i].kind \in Kinds /\ iopub[i].cell \in Nat
    <3>1. \A i \in 1..Len(iopub) :
              iopub[i] \in [kind : Kinds, cell : Nat, text : Units]
      BY <1>1, ElementOfSeq
    <3>2. QED
      BY <3>1
  <2>2. Log \in [1..Len(iopub) -> [kind : Kinds, cell : Nat]]
    BY <1>4, <2>1 DEF Log
  <2>3. QED
    BY ZenonT(40), <1>4, <2>2, SeqDef
<1>6. Len(Log) = Len(iopub)
  BY <1>4, <1>5 DEF Log
<1>7. Append(Log, e) = [i \in 1..(Len(iopub) + 1) |->
                           IF i = Len(iopub) + 1 THEN e ELSE Log[i]]
  BY <1>1, <1>5, <1>6
<1>8. Log' = [i \in 1..(Len(iopub) + 1) |->
                           IF i = Len(iopub) + 1 THEN e ELSE Log[i]]
  BY <1>1, <1>4 DEF Log
<1>9. QED
  BY <1>7, <1>8 DEF Protocol!Post

LEMMA InitMaps == Init => Protocol!Init
BY DEF Init, Protocol!Init, Phase, Log

(* A step that leaves the view of the front end alone. *)
Silent == UNCHANGED <<Phase, cell, conclusion, Log, replies>>

USE DEF request, kernel, handler, output, signals, At, Goto

LEMMA CrashMaps == ASSUME Up, Crash PROVE Protocol!Die
BY DEF Up, Crash, Protocol!Die, Phase, Log

LEMMA BeforeCellMaps ==
    ASSUME IInv,
           Request \/ InitSwift \/ StartHandler \/ SetParent
               \/ PreprocessPublish \/ PreprocessInstall \/ Preprocess
    PROVE  Protocol!Next \/ Silent
<1>1. CASE Request
  <2>1. Phase = "idle" /\ Phase' = "busy" /\ Log' = Log
    BY <1>1 DEF Request, Phase, Log
  <2>2. Protocol!Begin
    BY <1>1, <2>1 DEF Request, Protocol!Begin
  <2>3. QED
    BY <2>2 DEF Protocol!Next
<1>2. CASE InitSwift
  <2>1. CASE Goto("handler") /\ UNCHANGED <<request, iopub>>
    BY <1>2, <2>1 DEF InitSwift, Silent, Phase, Log
  <2>2. CASE Goto("reply") /\ conclusion' = "failed"
             /\ UNCHANGED <<cell, replies, iopub>>
    <3>1. Phase = "busy" /\ Phase' = "concluded" /\ Log' = Log
      BY <1>2, <2>2 DEF InitSwift, Phase, Log
    <3>2. "failed" \in Protocol!Conclusions /\ "failed" \notin Protocol!OutcomeKinds
      BY DEF Protocol!Conclusions, Protocol!OutcomeKinds, Protocol!ErrorKinds
    <3>3. Protocol!Conclude
      BY <2>2, <3>1, <3>2 DEF Protocol!Conclude
    <3>4. QED
      BY <3>3 DEF Protocol!Next
  <2>3. CASE Crash
    BY <1>2, <2>3, CrashMaps DEF InitSwift, Up, Protocol!Next
  <2>4. QED
    BY <1>2, <2>1, <2>2, <2>3 DEF InitSwift
<1>3. CASE StartHandler \/ SetParent \/ PreprocessInstall
  BY <1>3 DEF StartHandler, SetParent, PreprocessInstall, EndCell, Silent,
              Phase, Log
<1>4. CASE PreprocessPublish
  <2>1. Phase = "busy" /\ Phase' = "busy"
    BY <1>4 DEF PreprocessPublish, Phase
  <2>2. Protocol!Post("system")
    BY <1>4, LogPublish, NoText DEF PreprocessPublish, IInv, Kinds
  <2>3. Protocol!Publish
    BY <1>4, <2>1, <2>2 DEF PreprocessPublish, Protocol!Publish, Protocol!StreamKinds
  <2>4. QED
    BY <2>3 DEF Protocol!Next
<1>5. CASE Preprocess
  <2>1. CASE Crash
    BY <1>5, <2>1, CrashMaps DEF Preprocess, Up, Protocol!Next
  <2>2. CASE ~Crash
    BY <1>5, <2>2 DEF Preprocess, EndCell, Silent, Phase, Log
  <2>3. QED
    BY <2>1, <2>2
<1>6. QED
  BY <1>1, <1>2, <1>3, <1>4, <1>5

LEMMA CellMaps ==
    ASSUME IInv, Compile \/ CellEmits \/ CellFinishes \/ AfterExec
    PROVE  Protocol!Next \/ Silent
<1>1. CASE Compile \/ CellEmits \/ CellFinishes
  BY <1>1 DEF Compile, CellEmits, CellFinishes, EndEvaluation, Silent, Phase, Log
<1>2. CASE AfterExec
  <2>1. Phase = "busy" /\ Phase' = "busy" /\ UNCHANGED <<cell, conclusion, replies>>
    BY <1>2 DEF AfterExec, EndCell, Phase
  <2>2. CASE Publish("display", <<>>)
    <3>1. Protocol!Post("display")
      BY <2>2, LogPublish, NoText DEF IInv, Kinds
    <3>2. Protocol!Publish
      BY <2>1, <3>1 DEF Protocol!Publish, Protocol!StreamKinds
    <3>3. QED
      BY <3>2 DEF Protocol!Next
  <2>3. CASE UNCHANGED iopub
    BY <2>1, <2>3 DEF Silent, Log
  <2>4. QED
    BY <1>2, <2>2, <2>3 DEF AfterExec
<1>3. QED
  BY <1>1, <1>2

(* The message of a report concludes the cell. *)
LEMMA ConcludeMaps ==
    ASSUME IInv, NEW l \in {"reply", "schedule"},
           NEW k \in {"silent", "value", "bad", "compile", "trace", "killed",
                      "install"},
           Conclude(l, k)
    PROVE  Protocol!Conclude
<1>1. Phase = "busy" /\ Phase' = "concluded"
  BY DEF Conclude, Phase
<1>2. k \in Protocol!Conclusions /\ (k = "silent" <=> k \notin Protocol!OutcomeKinds)
  BY DEF Protocol!Conclusions, Protocol!OutcomeKinds, Protocol!ErrorKinds
<1>3. IF k \in Protocol!OutcomeKinds THEN Protocol!Post(k) ELSE UNCHANGED Log
  <2>1. CASE k = "silent"
    BY <1>2, <2>1 DEF Conclude, Log
  <2>2. CASE k # "silent"
    BY <1>2, <2>2, LogPublish, NoText DEF Conclude, IInv, Kinds
  <2>3. QED
    BY <2>1, <2>2
<1>4. QED
  BY <1>1, <1>2, <1>3 DEF Protocol!Conclude, Conclude

LEMMA EndMaps ==
    ASSUME IInv,
           \/ SetStopEvent \/ Join
           \/ ReportInstall \/ ReportBadState \/ ReportSuccess
           \/ ReportKilled \/ ReportTrace \/ ReportCompileError
           \/ ScheduleExit \/ Reply \/ LoopStop
    PROVE  Protocol!Next \/ Silent
<1>1. CASE SetStopEvent \/ Join
  BY <1>1 DEF SetStopEvent, Join, Silent, Phase, Log
<1>2. CASE ReportInstall \/ ReportBadState \/ ReportSuccess
           \/ ReportKilled \/ ReportTrace \/ ReportCompileError
  BY <1>2, ConcludeMaps DEF ReportInstall, ReportBadState, ReportSuccess,
     ReportKilled, ReportTrace, ReportCompileError, Protocol!Next
<1>3. CASE ScheduleExit
  <2>1. CASE Goto("reply") /\ UNCHANGED <<request, iopub>>
    BY <1>3, <2>1 DEF ScheduleExit, Silent, Phase, Log
  <2>2. CASE Crash
    BY <1>3, <2>2, CrashMaps DEF ScheduleExit, Up, Protocol!Next
  <2>3. QED
    BY <1>3, <2>1, <2>2 DEF ScheduleExit
<1>4. CASE Reply
  <2>1. Phase = "concluded" /\ Phase' = "idle" /\ Log' = Log
    BY <1>4 DEF Reply, Phase, Log
  <2>2. ReplyStatus = Protocol!Status(conclusion)
    BY <1>4 DEF Reply, IInv, ReplyInvariant
  <2>3. Protocol!Answer
    BY <1>4, <2>1, <2>2 DEF Reply, Protocol!Answer
  <2>4. QED
    BY <2>3 DEF Protocol!Next
<1>5. CASE LoopStop
  <2>1. Protocol!Die
    BY <1>5 DEF LoopStop, Protocol!Die, Phase, Log
  <2>2. QED
    BY <2>1 DEF Protocol!Next
<1>6. QED
  BY <1>1, <1>2, <1>3, <1>4, <1>5

(* The other threads publish inside doExecute only (HandlerInvariant). *)
LEMMA ThreadsMap ==
    ASSUME IInv,
           \/ StdoutHandler \/ SIGINTHandler \/ UserInterrupt \/ GIL
           \/ ReadPty \/ ReadHalf
    PROVE  Protocol!Next \/ Silent
<1>1. CASE HandlerWakes \/ SigintWakes \/ UserInterrupt \/ GIL \/ ReadPty \/ ReadHalf
  BY <1>1 DEF HandlerWakes, SigintWakes, UserInterrupt, GIL, ReleaseGIL,
              AcquireGIL, ReadPty, ReadHalf, Silent, Phase, Log
<1>2. CASE Crash /\ Up
  BY <1>2, CrashMaps DEF Protocol!Next
<1>3. CASE HandlerTakes /\ ~Crash
  BY <1>3 DEF HandlerTakes, HandlerDone, Silent, Phase, Log
<1>4. CASE HandlerSends
  <2>1. Phase = "busy" /\ Phase' = "busy"
    BY <1>4 DEF HandlerSends, IInv, HandlerInvariant, Up, Phase
  <2>2. Protocol!Post("stdout")
    BY <1>4, LogPublish DEF HandlerSends, IInv, TypeOK, Kinds
  <2>3. Protocol!Publish
    BY <1>4, <2>1, <2>2 DEF HandlerSends, Protocol!Publish, Protocol!StreamKinds
  <2>4. QED
    BY <2>3 DEF Protocol!Next
<1>5. QED
  BY <1>1, <1>2, <1>3, <1>4
     DEF StdoutHandler, SIGINTHandler, SendInterrupt, HandlerTakes

(* doExecute, with its threads, implements the protocol of cells. *)
THEOREM Refinement == Spec => ImplementsProtocol
<1>1. Init => Protocol!Init
  BY InitMaps
<1>2. IInv /\ [Next]_vars => [Protocol!Next]_(Protocol!vars)
  <2> SUFFICES ASSUME IInv, [Next]_vars
               PROVE  Protocol!Next \/ Silent
    BY DEF Protocol!vars, Silent
  <2>1. CASE Next
    BY <2>1, BeforeCellMaps, CellMaps, EndMaps, ThreadsMap DEF Next, Main
  <2>2. CASE UNCHANGED vars
    BY <2>2 DEF vars, Silent, Phase, Log
  <2>3. QED
    BY <2>1, <2>2
<1>3. QED
  BY <1>1, <1>2, Invariance, PTL DEF Spec, ImplementsProtocol, Protocol!Spec

-----------------------------------------------------------------------------

Promise == INSTANCE CellProtocolProofs WITH phase <- Phase, iopub <- Log

LEMMA PromiseKept == Spec => Promise!Spec
<1>1. Protocol!Init => Promise!Init
  BY DEF Protocol!Init, Promise!Init
<1>2. [Protocol!Next]_(Protocol!vars) => [Promise!Next]_(Promise!vars)
  BY DEF Protocol!Next, Protocol!Begin, Protocol!Publish, Protocol!Conclude,
         Protocol!Answer, Protocol!Die, Protocol!Post, Protocol!Status,
         Protocol!StreamKinds, Protocol!OutcomeKinds, Protocol!ErrorKinds,
         Protocol!Conclusions, Protocol!vars,
         Promise!Next, Promise!Begin, Promise!Publish, Promise!Conclude,
         Promise!Answer, Promise!Die, Promise!Post, Promise!Status,
         Promise!StreamKinds, Promise!OutcomeKinds, Promise!ErrorKinds,
         Promise!Conclusions, Promise!vars
<1>3. QED
  BY <1>1, <1>2, Refinement, PTL DEF ImplementsProtocol, Protocol!Spec, Promise!Spec

(* Seen from the front end, the messages of CellExecution are ordered by   *)
(* cells, and the concluding message is the last one of its cell.          *)
THEOREM MessagesOrdered == Spec => []MessageOrder
<1>1. Promise!Spec => [](Promise!CellsInOrder /\ Promise!OutcomeIsLast)
  BY Promise!MessageOrder
<1>2. Promise!CellsInOrder /\ Promise!OutcomeIsLast
          => MessageOrder
  BY DEF MessageOrder, Promise!CellsInOrder, Protocol!CellsInOrder,
         Promise!OutcomeIsLast, Protocol!OutcomeIsLast,
         Promise!OutcomeKinds, Protocol!OutcomeKinds,
         Promise!ErrorKinds, Protocol!ErrorKinds
<1>3. QED
  BY <1>1, <1>2, PromiseKept, PTL

(* However a cell of CellExecution ends, its answer agrees with what was   *)
(* published for it.                                                       *)
THEOREM AnswersMatch == Spec => []RepliesAgree
<1>1. Promise!Spec => []Promise!AnswersAgree
  BY Promise!RepliesMatch
<1>2. Promise!AnswersAgree => RepliesAgree
  BY DEF RepliesAgree, Promise!AnswersAgree, Protocol!AnswersAgree,
         Promise!Outcomes, Protocol!Outcomes,
         Promise!OutcomeKinds, Protocol!OutcomeKinds,
         Promise!ErrorKinds, Protocol!ErrorKinds
<1>3. QED
  BY <1>1, <1>2, PromiseKept, PTL

=============================================================================
