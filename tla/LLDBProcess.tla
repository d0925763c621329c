---------------------------- MODULE LLDBProcess ----------------------------
(***************************************************************************)
(* LLDBProcess.cpp and the code that calls it: the objects of LLDB that    *)
(* the library keeps in global variables over the attempts to initialize   *)
(* the kernel, the results and the memory that execute and                 *)
(* get_pretty_stack_trace hand over to Swift, and what the kernel asks of  *)
(* the REPL process after a failure.  The library is called with the       *)
(* interpreter lock held, so that one call at a time is made;              *)
(* CellExecution has the other threads, DisplayPipeline and WireFormat     *)
(* what follows a success.                                                 *)
(***************************************************************************)
EXTENDS Naturals, Sequences

CONSTANTS
    MaxCells,  \* bound on the cells, and with them on the attempts
    MaxFrames  \* bound on the frames of a stack

ASSUME BoundsAssumption == MaxCells \in Nat /\ MaxFrames \in Nat

(* In the order of the enumeration. *)
StateType == <<"eStateInvalid", "eStateUnloaded", "eStateConnected",
               "eStateAttaching", "eStateLaunching", "eStateStopped",
               "eStateRunning", "eStateStepping", "eStateCrashed",
               "eStateDetached", "eStateExited", "eStateSuspended">>

ErrorType == {"eErrorTypeInvalid", "eErrorTypeGeneric", "eErrorTypeMachKernel",
              "eErrorTypePOSIX", "eErrorTypeExpression", "eErrorTypeWin32"}

Globals == {"debugger", "target", "main_bp", "process", "expr_opts",
            "main_thread"}

(* The code evaluated for the initialization, and for a cell. *)
Codes == <<"communicator", "session", "bitWidth", "parent", "cell">>

(* The debugger is synchronous: a call returns when the process has        *)
(* stopped, or is no more.                                                 *)
StatesAfterCall ==
    {"eStateStopped", "eStateCrashed", "eStateDetached", "eStateExited"}

Gone(s) == s \in {"eStateDetached", "eStateExited"}

VARIABLES
    pc,          \* what is done next
    cell,        \* the number of the cell, or of the last one
    at,          \* for each global the cell that made it, 0: not valid
    state,       \* for each cell the state of the process it launched
    initialized, \* debuggerInitialized
    code,        \* position in Codes of what is evaluated
    result,      \* what execute returned
    heap,        \* the blocks that were allocated for the caller
    frames,      \* the kinds of the frames of the stack
    i,           \* the frame looked at, or printed
    out,         \* the array of descriptions, by frame: 0 for junk
    filled,      \* its length
    printed      \* the frames that Swift put into the traceback

session == <<at, state, initialized>>
trace   == <<frames, i, out, filled, printed>>
vars    == <<pc, cell, session, code, result, heap, trace>>

NoResult == [error |-> 0, description |-> TRUE]

Description == <<"description", 0>>
Array       == <<"frames", 0>>
Frame(k)    == <<"frame", k>>

Init ==
    /\ pc = "idle" /\ cell = 0
    /\ at = [g \in Globals |-> 0]
    /\ state = [c \in 1..MaxCells |-> "eStateInvalid"]
    /\ initialized = FALSE
    /\ code = 1 /\ result = NoResult
    /\ heap = {}
    /\ frames = <<>> /\ i = 0 /\ out = <<>> /\ filled = 0 /\ printed = <<>>

-----------------------------------------------------------------------------
(* A cell initializes the session first, until that has succeeded once. *)

Begin ==
    /\ pc = "idle" /\ cell < MaxCells
    /\ cell' = cell + 1
    /\ IF initialized THEN pc' = "evaluate" /\ code' = 4
                      ELSE pc' = "debugger" /\ code' = 1
    /\ UNCHANGED <<session, result, heap, trace>>

(* init_repl_process: each object is made from an earlier one, and the     *)
(* function returns at the first that is not valid.  What an earlier       *)
(* attempt left in the globals is replaced, never destroyed.               *)
Made(g, from, next) ==
    /\ pc = g
    /\ \/ at' = [at EXCEPT ![g] = from] /\ pc' = next
       \/ at' = [at EXCEPT ![g] = 0] /\ pc' = "idle"
    /\ UNCHANGED <<cell, initialized, code, result, heap, trace>>

CreateDebugger == Made("debugger", cell, "target") /\ UNCHANGED state
CreateTarget   == Made("target", at["debugger"], "main_bp") /\ UNCHANGED state
CreateBreakpoint == Made("main_bp", at["target"], "process") /\ UNCHANGED state

(* Faulty: a process that an earlier attempt launched is kept. *)
LaunchProcess_Once ==
    /\ pc = "process"
    /\ IF at["process"] # 0
       THEN pc' = "options"
            /\ UNCHANGED <<cell, session, code, result, heap, trace>>
       ELSE /\ Made("process", at["target"], "options")
            /\ \E s \in StatesAfterCall :
                  state' = IF pc' = "idle" THEN state
                           ELSE [state EXCEPT ![at["target"]] = s]

(* A process that has ended before its breakpoint is a valid one, too. *)
LaunchProcess ==
    /\ Made("process", at["target"], "options")
    /\ \E s \in StatesAfterCall :
          state' = IF pc' = "idle" THEN state
                   ELSE [state EXCEPT ![at["target"]] = s]

(* The thread is not looked at: a process that has ended has none. *)
SetOptions ==
    /\ pc = "options" /\ pc' = "evaluate"
    /\ at' = [at EXCEPT !["expr_opts"] = cell, !["main_thread"] =
                 IF Gone(state[at["process"]]) THEN 0 ELSE at["process"]]
    /\ UNCHANGED <<cell, state, initialized, code, result, heap, trace>>

-----------------------------------------------------------------------------
(* execute.  A description is text, empty, or missing, and then the kernel *)
(* ends in strlen(NULL).  Without a process there is no value.             *)

ErrorOf(type) ==
    IF type = "eErrorTypeInvalid" THEN 0
    ELSE IF type = "eErrorTypeGeneric" THEN 1 ELSE 2

Evaluate(dropped) ==
    /\ pc = "evaluate"
    /\ \E s \in StatesAfterCall :
          LET p == at["target"]
          IN state' = IF Gone(state[p]) THEN state ELSE [state EXCEPT ![p] = s]
    /\ \E type \in ErrorType, text \in {"text", "empty", "null"} :
          /\ Gone(state[at["target"]]) => type # "eErrorTypeInvalid"
          /\ IF text = "null" /\ type # "eErrorTypeGeneric"
             THEN pc' = "crashed" /\ UNCHANGED <<result, heap>>
             ELSE /\ pc' = "returned"
                  /\ result' = [error |-> ErrorOf(type),
                                description |-> /\ type # "eErrorTypeGeneric"
                                                /\ text \notin dropped]
                  /\ heap' = IF result'.description
                             THEN heap \cup {Description} ELSE heap
    /\ UNCHANGED <<cell, at, initialized, code, trace>>

(* Faulty: nothing is allocated for an empty description. *)
Execute_NullWhenEmpty == Evaluate({"empty"})

Execute == Evaluate({})

(* Swift frees the description that it was given and unwraps it if the     *)
(* error says so; then it goes on, or throws, or reports the failure.      *)
AfterResult ==
    IF result.error # 1 /\ ~result.description THEN "trap"
    ELSE IF result.error = 2 THEN IF code = 5 THEN "failed" ELSE "idle"
    ELSE IF code = 5 \/ (code = 3 /\ result.error = 1) THEN "idle"
    ELSE "evaluate"

(* Faulty: the description is freed with a value only. *)
Return_FreesValue ==
    /\ pc = "returned" /\ pc' = AfterResult
    /\ heap' = IF result.error = 0 THEN heap \ {Description} ELSE heap
    /\ initialized' = (initialized \/ (code = 3 /\ pc' = "evaluate"))
    /\ code' = IF pc' = "evaluate" THEN code + 1 ELSE code
    /\ UNCHANGED <<cell, at, state, result, trace>>

Return ==
    /\ pc = "returned" /\ pc' = AfterResult
    /\ heap' = heap \ {Description}
    /\ initialized' = (initialized \/ (code = 3 /\ pc' = "evaluate"))
    /\ code' = IF pc' = "evaluate" THEN code + 1 ELSE code
    /\ UNCHANGED <<cell, at, state, result, trace>>

-----------------------------------------------------------------------------
(* A cell failed: process_is_alive decides between "Process killed" and,   *)
(* if the cell had output, the stack trace of the main thread.             *)

(* Faulty: the states are compared by their order. *)
Alive_ByOrder(s) ==
    \E k \in DOMAIN StateType : k >= 4 /\ s = StateType[k]

Alive(s) ==
    s \in {"eStateAttaching", "eStateLaunching", "eStateStopped",
           "eStateRunning", "eStateStepping", "eStateCrashed",
           "eStateSuspended"}

Kinds == {"source", "no_file", "compiler_generated"}

Stacks == UNION {[1..n -> Kinds] : n \in 0..MaxFrames}

ReportFailure ==
    /\ pc = "failed" /\ pc' = "idle"
    /\ UNCHANGED <<cell, session, code, result, heap, trace>>

StartTrace ==
    /\ pc = "failed" /\ Alive(state[at["process"]])
    /\ pc' = "trace"
    /\ frames' \in Stacks
    /\ out' = [k \in DOMAIN frames' |-> 0]
    /\ i' = 1 /\ filled' = 0 /\ printed' = <<>>
    /\ heap' = heap \cup {Array}
    /\ UNCHANGED <<cell, session, code, result>>

(* Faulty: a description is stored at its frame's position. *)
LookAtFrame_AtFrame ==
    /\ pc = "trace" /\ i <= Len(frames)
    /\ IF frames[i] = "source"
       THEN /\ out' = [out EXCEPT ![i] = i]
            /\ filled' = filled + 1
            /\ heap' = heap \cup {Frame(i)}
       ELSE UNCHANGED <<out, filled, heap>>
    /\ i' = i + 1
    /\ UNCHANGED <<pc, cell, session, code, result, frames, printed>>

LookAtFrame ==
    /\ pc = "trace" /\ i <= Len(frames)
    /\ IF frames[i] = "source"
       THEN /\ out' = [out EXCEPT ![filled + 1] = i]
            /\ filled' = filled + 1
            /\ heap' = heap \cup {Frame(i)}
       ELSE UNCHANGED <<out, filled, heap>>
    /\ i' = i + 1
    /\ UNCHANGED <<pc, cell, session, code, result, frames, printed>>

EndOfStack ==
    /\ pc = "trace" /\ i > Len(frames)
    /\ pc' = "print" /\ i' = 1
    /\ UNCHANGED <<cell, session, code, result, heap, frames, out, filled,
                   printed>>

(* prettyPrintStackTrace copies and frees each description, and the array. *)
PrintFrame ==
    /\ pc = "print" /\ i <= filled
    /\ printed' = Append(printed, out[i])
    /\ heap' = heap \ {Frame(out[i])}
    /\ i' = i + 1
    /\ UNCHANGED <<pc, cell, session, code, result, frames, out, filled>>

EndOfTrace ==
    /\ pc = "print" /\ i > filled
    /\ pc' = "idle"
    /\ heap' = heap \ {Array}
    /\ UNCHANGED <<cell, session, code, result, trace>>

-----------------------------------------------------------------------------
InitReplProcess == CreateDebugger \/ CreateTarget \/ CreateBreakpoint
                   \/ LaunchProcess \/ SetOptions

StackTrace == StartTrace \/ LookAtFrame \/ EndOfStack \/ PrintFrame \/ EndOfTrace

Next == Begin \/ InitReplProcess \/ Execute \/ Return \/ ReportFailure
        \/ StackTrace

Spec == Init /\ [][Next]_vars

-----------------------------------------------------------------------------
(* Properties. *)

InUse == pc \in {"evaluate", "returned", "failed", "trace", "print"}

(* When code is evaluated, and when a failure is looked into, all globals  *)
(* are valid and were made by the same attempt, however many attempts      *)
(* failed before and wherever they failed: what process_is_alive asks, and *)
(* main_thread shows, is the process that ran the code.  The thread is     *)
(* never checked, and is there once the initialization has succeeded       *)
(* (LLDBProcess.cpp:6-11, 20-73; DoExecute.swift:10-13).                   *)
GlobalsAgree ==
    InUse => /\ at["target"] # 0
             /\ \A g \in Globals \ {"main_thread"} : at[g] = at["target"]
             /\ initialized => at["main_thread"] = at["target"]

(* Between two cells nothing that the library allocated for its caller is  *)
(* left, on any path, and what is freed had been allocated                 *)
(* (LLDBProcess.cpp:75, 190; PreprocessAndExecute.swift:28-40;             *)
(* DoExecute.swift:117-126).                                               *)
MemoryGivenBack ==
    /\ pc = "idle" => heap = {}
    /\ pc = "print" /\ i <= filled => Frame(out[i]) \in heap

(* The kernel never unwraps a description that it was not given: execute   *)
(* gives one for every error but the one without a value                   *)
(* (LLDBProcess.cpp:81-115, PreprocessAndExecute.swift:34-39).             *)
UnwrapsSafely == pc # "trap"

(* A stack trace is of a process that still is there, and shows its frames *)
(* with a source location, all of them and in order                        *)
(* (LLDBProcess.cpp:118-132, 200-246; DoExecute.swift:59-79, 117-125).     *)
SourceFrames == {k \in DOMAIN frames : frames[k] = "source"}

InOrder == \A j, k \in 1..filled : j < k => out[j] < out[k]

Descriptions == {out[k] : k \in 1..filled}

TraceShowsSource ==
    /\ pc \in {"trace", "print"} => ~Gone(state[at["main_thread"]])
    /\ pc = "print" => /\ Descriptions = SourceFrames /\ InOrder
                       /\ Len(printed) = i - 1
                       /\ \A k \in 1..(i - 1) : printed[k] = out[k]

-----------------------------------------------------------------------------
(* The inductive invariant. *)

Making == {"debugger", "target", "main_bp", "process", "options"}

TypeOK ==
    /\ pc \in Making \cup {"idle", "evaluate", "returned", "failed", "trace",
                           "print", "crashed", "trap"}
    /\ cell \in Nat /\ at \in [Globals -> Nat]
    /\ initialized \in BOOLEAN
    /\ code \in 1..5
    /\ result \in [error : 0..2, description : BOOLEAN]
    /\ frames \in Seq(Kinds)
    /\ i \in Nat /\ filled \in Nat
    /\ out \in [DOMAIN frames -> Nat]

(* What init_repl_process has made, by the step that is next. *)
MadeBefore ==
    CASE pc = "target"  -> {"debugger"}
      [] pc = "main_bp" -> {"debugger", "target"}
      [] pc = "process" -> {"debugger", "target", "main_bp"}
      [] pc = "options" -> {"debugger", "target", "main_bp", "process"}
      [] OTHER -> {}

SameAttempt ==
    /\ at["target"] # 0
    /\ \A g \in Globals \ {"main_thread"} : at[g] = at["target"]

Threadless ==
    /\ at["main_thread"] = 0 /\ Gone(state[at["process"]])
    /\ ~initialized /\ (pc = "returned" => result.error # 0)

Attempts ==
    /\ pc # "idle" => cell # 0
    /\ \A g \in MadeBefore : at[g] = cell
    /\ pc \in Making => code = 1
    /\ InUse \/ initialized =>
          SameAttempt /\ (at["main_thread"] = at["target"] \/ Threadless)
    /\ pc \in {"evaluate", "returned"} /\ code > 3 => initialized
    /\ pc \in {"failed", "trace", "print"} => initialized
    /\ initialized => pc \notin Making

(* What is allocated; each description of the array is in one place. *)
Blocks(first) == {Frame(out[k]) : k \in first..filled}

Memory ==
    /\ pc \in Making \cup {"idle", "evaluate", "failed"} => heap = {}
    /\ UnwrapsSafely
    /\ pc = "returned" => /\ heap \subseteq {Description}
                          /\ result.description <=> result.error # 1
    /\ pc \in {"trace", "print"} =>
          /\ filled <= Len(frames)
          /\ \A j, k \in 1..filled : out[j] = out[k] => j = k
    /\ pc = "trace" => /\ filled < i /\ i <= Len(frames) + 1
                       /\ \A k \in 1..filled : out[k] < i
                       /\ heap = {Array} \cup Blocks(1)
    /\ pc = "print" => /\ 1 <= i /\ i <= filled + 1
                       /\ heap = {Array} \cup Blocks(i)

(* The frames before i have been looked at; the process has not run since. *)
Trace ==
    /\ pc \in {"trace", "print"} => ~Gone(state[at["process"]]) /\ InOrder
    /\ pc = "trace" =>
          /\ Descriptions = {k \in SourceFrames : k < i}
          /\ printed = <<>>
    /\ pc = "print" =>
          /\ Descriptions = SourceFrames
          /\ printed \in Seq(Nat) /\ Len(printed) = i - 1
          /\ \A k \in 1..(i - 1) : printed[k] = out[k]

IInv == TypeOK /\ Attempts /\ Memory /\ Trace

=============================================================================
