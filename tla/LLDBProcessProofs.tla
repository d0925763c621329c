------------------------- MODULE LLDBProcessProofs -------------------------
(***************************************************************************)
(* Proofs about LLDBProcess: the library's globals belong to one attempt   *)
(* whenever they are used, descriptions are there when they are unwrapped, *)
(* and the memory that is handed over is given back.                       *)
(***************************************************************************)
EXTENDS LLDBProcess, TLAPS

LEMMA InitInvariant == Init => IInv
<1> SUFFICES ASSUME Init PROVE IInv
    OBVIOUS
<1> USE DEF Init
<1>1. TypeOK
    <2>1. /\ pc = "idle" /\ cell \in Nat
          /\ code \in 1..5 /\ i \in Nat /\ filled \in Nat
        OBVIOUS
    <2>5. initialized \in BOOLEAN
        OBVIOUS
    <2>6. at \in [Globals -> Nat]
        OBVIOUS
    <2>2. result \in [error : 0..2, description : BOOLEAN]
        BY DEF NoResult
    <2>3. frames \in Seq(Kinds)
        OBVIOUS
    <2>4. out \in [DOMAIN frames -> Nat]
        OBVIOUS
    <2> QED
        BY <2>1, <2>2, <2>3, <2>4, <2>5, <2>6 DEF TypeOK
<1>2. Attempts
    BY DEF Attempts, MadeBefore, InUse, Making
<1>3. Memory
    BY DEF Memory, UnwrapsSafely, Making
<1>4. Trace
    BY DEF Trace
<1> QED
    BY <1>1, <1>2, <1>3, <1>4 DEF IInv

(* Types. *)
LEMMA TypeStep == TypeOK /\ [Next]_vars => TypeOK'
<1> SUFFICES ASSUME TypeOK, [Next]_vars PROVE TypeOK'
    OBVIOUS
<1> USE DEF TypeOK, Making, Globals, session, trace
<1>1. CASE Begin
    BY <1>1 DEF Begin
<1>2. CASE CreateDebugger
    BY <1>2 DEF CreateDebugger, Made
<1>3. CASE CreateTarget
    BY <1>3 DEF CreateTarget, Made
<1>4. CASE CreateBreakpoint
    BY <1>4 DEF CreateBreakpoint, Made
<1>5. CASE LaunchProcess
    BY <1>5 DEF LaunchProcess, Made
<1>6. CASE SetOptions
    BY <1>6 DEF SetOptions
<1>7. CASE Execute
    <2>1. pc' \in {"crashed", "returned"}
        BY <1>7 DEF Execute, Evaluate
    <2>2. result' \in [error : 0..2, description : BOOLEAN]
        <3>1. CASE UNCHANGED result
            BY <3>1
        <3>2. CASE \E type \in ErrorType, text \in {"text", "empty", "null"} :
                     result' = [error |-> ErrorOf(type),
                                description |-> /\ type # "eErrorTypeGeneric"
                                                /\ text \notin {}]
            BY <3>2 DEF ErrorOf
        <3> QED
            BY <1>7, <3>1, <3>2 DEF Execute, Evaluate
    <2> QED
        BY <1>7, <2>1, <2>2 DEF Execute, Evaluate
<1>8. CASE Return
    BY <1>8 DEF Return, AfterResult
<1>9. CASE ReportFailure
    BY <1>9 DEF ReportFailure
<1>10. CASE StartTrace
    <2>1. PICK n \in 0..MaxFrames : frames' \in [1..n -> Kinds]
        BY <1>10 DEF StartTrace, Stacks
    <2>2. frames' \in Seq(Kinds)
        BY <2>1, BoundsAssumption
    <2>3. out' \in [DOMAIN frames' -> Nat]
        BY <1>10 DEF StartTrace
    <2> QED
        BY <1>10, <2>2, <2>3 DEF StartTrace
<1>11. CASE LookAtFrame
    BY SMTT(30), <1>11 DEF LookAtFrame
<1>12. CASE EndOfStack
    BY <1>12 DEF EndOfStack
<1>13. CASE PrintFrame
    BY <1>13 DEF PrintFrame
<1>14. CASE EndOfTrace
    BY <1>14 DEF EndOfTrace
<1>15. CASE UNCHANGED vars
    BY <1>15 DEF vars, session, trace
<1> QED
    BY <1>1, <1>2, <1>3, <1>4, <1>5, <1>6, <1>7, <1>8, <1>9, <1>10, <1>11, <1>12, <1>13, <1>14, <1>15 DEF Next, InitReplProcess, StackTrace

(* Attempts. *)
LEMMA AttemptsStep == TypeOK /\ Attempts /\ [Next]_vars => Attempts'
<1> SUFFICES ASSUME TypeOK /\ Attempts, [Next]_vars PROVE Attempts'
    OBVIOUS
<1> USE DEF TypeOK, Attempts, Making, MadeBefore, InUse, SameAttempt, Globals,
           Threadless, session, trace
<1>1. CASE Begin
    BY <1>1 DEF Begin
<1>2. CASE CreateDebugger
    BY <1>2 DEF CreateDebugger, Made
<1>3. CASE CreateTarget
    BY <1>3 DEF CreateTarget, Made
<1>4. CASE CreateBreakpoint
    BY <1>4 DEF CreateBreakpoint, Made
<1>5. CASE LaunchProcess
    BY <1>5 DEF LaunchProcess, Made
<1>6. CASE SetOptions
    <2>1. /\ pc = "options" /\ pc' = "evaluate" /\ cell # 0 /\ ~initialized
          /\ UNCHANGED <<cell, state, initialized, code>>
          /\ at["target"] = cell /\ at["process"] = cell
          /\ at["debugger"] = cell /\ at["main_bp"] = cell
        BY <1>6 DEF SetOptions
    <2>2. /\ at'["target"] = cell /\ at'["process"] = cell
          /\ at'["debugger"] = cell /\ at'["main_bp"] = cell
          /\ at'["expr_opts"] = cell
          /\ at'["main_thread"] =
                IF Gone(state[at["process"]]) THEN 0 ELSE at["process"]
        BY <1>6, <2>1 DEF SetOptions
    <2>3. SameAttempt'
        BY <2>1, <2>2
    <2>4. at'["main_thread"] = at'["target"] \/ Threadless'
        BY <2>1, <2>2
    <2>5. code \in 1..3
        BY <2>1
    <2> QED
        BY <2>1, <2>2, <2>3, <2>4, <2>5
<1>7. CASE Execute
    <2>1. /\ pc = "evaluate" /\ pc' \in {"crashed", "returned"}
          /\ UNCHANGED <<cell, at, initialized, code>>
        BY <1>7 DEF Execute, Evaluate
    <2>2. SameAttempt'
        BY <2>1
    <2>3. ASSUME at["main_thread"] # at["target"]
          PROVE  /\ Threadless /\ state' = state
                 /\ pc' = "returned" => result'.error # 0
        <3>1. Threadless /\ at["process"] = at["target"]
            BY <2>1, <2>3
        <3>2. Gone(state[at["target"]])
            BY <3>1
        <3>3. state' = state
            BY <1>7, <3>2 DEF Execute, Evaluate
        <3>4. ASSUME pc' = "returned" PROVE result'.error # 0
            <4>1. PICK type \in ErrorType, text \in {"text", "empty", "null"} :
                     /\ type # "eErrorTypeInvalid"
                     /\ result' = [error |-> ErrorOf(type),
                                   description |-> /\ type # "eErrorTypeGeneric"
                                                   /\ text \notin {}]
                BY <1>7, <3>2, <3>4 DEF Execute, Evaluate
            <4> QED
                BY <4>1 DEF ErrorOf
        <3> QED
            BY <3>1, <3>3, <3>4
    <2>4. at["main_thread"]' = at["target"]' \/ Threadless'
        BY <2>1, <2>3
    <2> QED
        BY <2>1, <2>2, <2>4
<1>8. CASE Return
    <2>1. /\ pc = "returned" /\ pc' = AfterResult
          /\ initialized' = (initialized \/ (code = 3 /\ pc' = "evaluate"))
          /\ code' = IF pc' = "evaluate" THEN code + 1 ELSE code
          /\ UNCHANGED <<cell, at, state, result>>
        BY <1>8 DEF Return
    <2>2. /\ pc' \in {"trap", "idle", "evaluate", "failed"}
          /\ pc' = "failed" => code = 5
          /\ code = 3 /\ pc' = "evaluate" => result.error = 0
        BY <2>1 DEF AfterResult
    <2>3. at["main_thread"] # at["target"] => ~initialized' /\ pc' # "failed"
        BY <2>1, <2>2
    <2>4. SameAttempt'
        BY <2>1
    <2>5. at'["main_thread"] = at'["target"] \/ Threadless'
        BY <2>1, <2>2, <2>3
    <2>6. /\ pc' = "evaluate" /\ code' > 3 => initialized'
          /\ pc' = "failed" => initialized'
          /\ initialized' => initialized \/ pc' = "evaluate"
        <3>1. code = 3 \/ code > 3 \/ code + 1 <= 3
            OBVIOUS
        <3>2. pc' = "evaluate" /\ code' > 3 => code = 3 \/ code > 3
            BY <2>1, <3>1
        <3>3. code > 3 => initialized
            BY <2>1
        <3>4. code = 5 => code > 3
            OBVIOUS
        <3> QED
            BY <2>1, <2>2, <3>2, <3>3, <3>4, Zenon
    <2> QED
        BY <2>1, <2>2, <2>4, <2>5, <2>6
<1>9. CASE ReportFailure
    BY <1>9 DEF ReportFailure
<1>10. CASE StartTrace
    BY <1>10 DEF StartTrace
<1>11. CASE LookAtFrame
    BY <1>11 DEF LookAtFrame
<1>12. CASE EndOfStack
    BY <1>12 DEF EndOfStack
<1>13. CASE PrintFrame
    BY <1>13 DEF PrintFrame
<1>14. CASE EndOfTrace
    BY <1>14 DEF EndOfTrace
<1>15. CASE UNCHANGED vars
    BY <1>15 DEF vars, session, trace
<1> QED
    BY <1>1, <1>2, <1>3, <1>4, <1>5, <1>6, <1>7, <1>8, <1>9, <1>10, <1>11, <1>12, <1>13, <1>14, <1>15 DEF Next, InitReplProcess, StackTrace

(* Memory. *)
LEMMA MemoryStep == TypeOK /\ Memory /\ [Next]_vars => Memory'
<1> SUFFICES ASSUME TypeOK /\ Memory, [Next]_vars PROVE Memory'
    OBVIOUS
<1> USE DEF TypeOK, Memory, UnwrapsSafely, Making, Blocks, session, trace
<1>1. CASE Begin
    BY <1>1 DEF Begin
<1>2. CASE CreateDebugger
    BY <1>2 DEF CreateDebugger, Made
<1>3. CASE CreateTarget
    BY <1>3 DEF CreateTarget, Made
<1>4. CASE CreateBreakpoint
    BY <1>4 DEF CreateBreakpoint, Made
<1>5. CASE LaunchProcess
    BY <1>5 DEF LaunchProcess, Made
<1>6. CASE SetOptions
    BY <1>6 DEF SetOptions
<1>7. CASE Execute
    <2>1. heap = {} /\ pc = "evaluate"
        BY <1>7 DEF Execute, Evaluate
    <2>2. CASE pc' = "crashed"
        BY <2>2
    <2>3. CASE pc' # "crashed"
        <3>1. PICK type \in ErrorType, text \in {"text", "empty", "null"} :
                 /\ text # "null"
                 /\ pc' = "returned"
                 /\ result' = [error |-> ErrorOf(type),
                               description |-> /\ type # "eErrorTypeGeneric"
                                               /\ text \notin {}]
                 /\ heap' = IF result'.description THEN heap \cup {Description}
                            ELSE heap
            BY <1>7, <2>3 DEF Execute, Evaluate
        <3>2. result'.description <=> type # "eErrorTypeGeneric"
            BY <3>1
        <3>3. result'.error = ErrorOf(type)
            BY <3>1
        <3>4. result'.error = 1 <=> type = "eErrorTypeGeneric"
            BY <3>3 DEF ErrorOf
        <3>5. heap' \subseteq {Description}
            BY <2>1, <3>1
        <3> QED
            BY <3>1, <3>2, <3>4, <3>5
    <2> QED
        BY <2>2, <2>3
<1>8. CASE Return
    BY <1>8 DEF Return, AfterResult
<1>9. CASE ReportFailure
    BY <1>9 DEF ReportFailure
<1>10. CASE StartTrace
    BY <1>10 DEF StartTrace
<1>11. CASE LookAtFrame
    <2>1. /\ pc = "trace" /\ pc' = "trace" /\ i <= Len(frames) /\ i' = i + 1
          /\ frames' = frames /\ i \in Nat /\ filled \in Nat /\ filled < i
          /\ Len(frames) \in Nat /\ DOMAIN frames = 1..Len(frames)
          /\ out \in [1..Len(frames) -> Nat]
          /\ filled <= Len(frames) /\ heap = {Array} \cup Blocks(1)
        BY <1>11 DEF LookAtFrame
    <2>4. \A l \in 1..filled : out[l] < i /\ out[l] \in Nat
        <3>1. \A l \in 1..filled : out[l] < i
            BY <2>1
        <3>2. \A l \in 1..filled : l \in 1..Len(frames)
            BY <2>1
        <3> QED
            BY <2>1, <3>1, <3>2
    <2>5. \A j, k \in 1..filled : out[j] = out[k] => j = k
        BY <2>1
    <2>2. CASE frames[i] = "source"
        <3>1. /\ out' = [out EXCEPT ![filled + 1] = i]
              /\ filled' = filled + 1
              /\ heap' = heap \cup {Frame(i)}
            BY <1>11, <2>2 DEF LookAtFrame
        <3>2. out'[filled + 1] = i /\ \A k \in 1..filled : out'[k] = out[k]
            BY <2>1, <3>1
        <3>3. \A k \in 1..filled' : out'[k] < i'
            BY <2>1, <3>1, <3>2
        <3>4. \A j, k \in 1..filled' : out'[j] = out'[k] => j = k
            <4> TAKE j, k \in 1..filled'
            <4> HIDE DEF Memory, TypeOK, Blocks
            <4>2. j \in 1..filled \/ j = filled + 1
                BY <2>1, <3>1
            <4>3. k \in 1..filled \/ k = filled + 1
                BY <2>1, <3>1
            <4> QED
                BY SMTT(30), <2>1, <2>4, <2>5, <3>2, <4>2, <4>3
        <3>5. Blocks(1)' = Blocks(1) \cup {Frame(i)}
            <4>1. 1..filled' = 1..filled \cup {filled + 1}
                BY <2>1, <3>1
            <4> QED
                BY <3>2, <4>1
        <3>6. filled' < i' /\ filled' <= Len(frames') /\ i' <= Len(frames') + 1
            BY <2>1, <3>1
        <3> HIDE DEF Blocks
        <3>7. heap' = {Array} \cup Blocks(1)'
            BY <2>1, <3>1, <3>5
        <3> QED
            BY <2>1, <3>3, <3>4, <3>6, <3>7
    <2>3. CASE frames[i] # "source"
        <3>1. UNCHANGED <<out, filled, heap>>
            BY <1>11, <2>3 DEF LookAtFrame
        <3>2. Blocks(1)' = Blocks(1)
            BY <3>1
        <3> HIDE DEF Blocks
        <3> QED
            BY <2>1, <3>1, <3>2
    <2> QED
        BY <2>2, <2>3
<1>12. CASE EndOfStack
    BY <1>12 DEF EndOfStack
<1>13. CASE PrintFrame
    <2>1. /\ pc = "print" /\ pc' = "print" /\ i <= filled /\ i' = i + 1
          /\ heap' = heap \ {Frame(out[i])}
          /\ UNCHANGED <<frames, out, filled>>
          /\ i \in Nat /\ filled \in Nat /\ 1 <= i
        BY <1>13 DEF PrintFrame
    <2>2. Array \notin {Frame(out[i])}
        BY DEF Array, Frame
    <2>3. Blocks(i)' = Blocks(i + 1)
        BY <2>1
    <2>4. Blocks(i + 1) = Blocks(i) \ {Frame(out[i])}
        <3>1. i..filled = (i + 1)..filled \cup {i}
            BY <2>1
        <3>2. \A k \in (i + 1)..filled : out[k] # out[i]
            BY <2>1
        <3> QED
            BY <3>1, <3>2 DEF Frame
    <2>5. heap' = {Array} \cup Blocks(i)'
        <3>1. heap = {Array} \cup Blocks(i)
            BY <2>1
        <3> HIDE DEF Blocks
        <3> QED
            BY <3>1, <2>1, <2>2, <2>3, <2>4
    <2> HIDE DEF Blocks
    <2> QED
        BY <2>1, <2>5
<1>14. CASE EndOfTrace
    BY <1>14 DEF EndOfTrace
<1>15. CASE UNCHANGED vars
    BY <1>15 DEF vars, session, trace
<1> QED
    BY <1>1, <1>2, <1>3, <1>4, <1>5, <1>6, <1>7, <1>8, <1>9, <1>10, <1>11, <1>12, <1>13, <1>14, <1>15 DEF Next, InitReplProcess, StackTrace

(* The stack trace.  An earlier description is of an earlier frame. *)
LEMMA TraceStep == TypeOK /\ Memory /\ Trace /\ [Next]_vars => Trace'
<1> SUFFICES ASSUME TypeOK, Memory, Trace, [Next]_vars PROVE Trace'
    OBVIOUS
<1>1. CASE StartTrace
    <2>1. /\ pc' = "trace" /\ UNCHANGED <<at, state>>
          /\ Alive(state[at["process"]])
          /\ i' = 1 /\ filled' = 0 /\ printed' = <<>>
        BY <1>1 DEF StartTrace, session
    <2>2. ~Gone(state'[at'["process"]])
        BY <2>1 DEF Gone, Alive
    <2>3. InOrder' /\ Descriptions' = {}
        BY <2>1 DEF InOrder, Descriptions
    <2>4. {k \in SourceFrames' : k < i'} = {}
        <3>1. frames' \in Seq(Kinds)
            BY TypeStep DEF TypeOK
        <3> QED
            BY <2>1, <3>1 DEF SourceFrames
    <2> QED
        BY <2>1, <2>2, <2>3, <2>4 DEF Trace
<1>2. CASE LookAtFrame
    <2>1. /\ pc = "trace" /\ pc' = "trace" /\ i <= Len(frames) /\ i' = i + 1
          /\ UNCHANGED <<frames, printed, at, state>> /\ printed = <<>>
          /\ i \in Nat /\ 1 <= i /\ filled \in Nat /\ filled < i
          /\ Len(frames) \in Nat /\ DOMAIN frames = 1..Len(frames)
          /\ out \in [1..Len(frames) -> Nat]
          /\ ~Gone(state[at["process"]]) /\ InOrder
          /\ Descriptions = {k \in SourceFrames : k < i}
          /\ \A k \in 1..filled : out[k] < i
        BY <1>2 DEF LookAtFrame, Trace, TypeOK, Memory, session
    <2>2. SourceFrames' = SourceFrames /\ SourceFrames \subseteq 1..Len(frames)
        BY <2>1 DEF SourceFrames
    <2>5. \A k \in SourceFrames : k < i' <=> k < i \/ k = i
        BY <2>1, <2>2
    <2>3. CASE frames[i] = "source"
        <3>1. out' = [out EXCEPT ![filled + 1] = i] /\ filled' = filled + 1
            BY <1>2, <2>3 DEF LookAtFrame
        <3>2. out'[filled + 1] = i /\ \A k \in 1..filled : out'[k] = out[k]
            BY <2>1, <3>1
        <3>3. 1..filled' = 1..filled \cup {filled + 1}
            BY <2>1, <3>1
        <3>4. InOrder'
            <4> SUFFICES ASSUME NEW j \in 1..filled', NEW k \in 1..filled', j < k
                         PROVE  out'[j] < out'[k]
                BY DEF InOrder
            <4>1. CASE k \in 1..filled
                <5>1. j \in 1..filled
                    BY <2>1, <3>1, <4>1
                <5> QED
                    BY <2>1, <3>2, <4>1, <5>1 DEF InOrder
            <4>2. CASE k = filled + 1
                <5>1. j \in 1..filled
                    BY <2>1, <3>1, <4>2
                <5> QED
                    BY <2>1, <3>2, <4>2, <5>1
            <4> QED
                BY <3>3, <4>1, <4>2
        <3>5. Descriptions' = Descriptions \cup {i}
            BY <3>2, <3>3 DEF Descriptions
        <3>6. i \in SourceFrames
            BY <2>1, <2>3 DEF SourceFrames
        <3>7. {k \in SourceFrames : k < i'} = {k \in SourceFrames : k < i} \cup {i}
            BY <2>1, <2>5, <3>6
        <3> QED
            BY <2>1, <2>2, <3>4, <3>5, <3>7 DEF Trace
    <2>4. CASE frames[i] # "source"
        <3>1. UNCHANGED <<out, filled>>
            BY <1>2, <2>4 DEF LookAtFrame
        <3>2. InOrder' /\ Descriptions' = Descriptions
            BY <2>1, <3>1 DEF InOrder, Descriptions
        <3>3. i \notin SourceFrames
            BY <2>4 DEF SourceFrames
        <3>4. {k \in SourceFrames : k < i'} = {k \in SourceFrames : k < i}
            BY <2>5, <3>3
        <3> QED
            BY <2>1, <2>2, <3>2, <3>4 DEF Trace
    <2> QED
        BY <2>3, <2>4
<1>3. CASE EndOfStack
    <2>1. /\ pc = "trace" /\ pc' = "print" /\ i > Len(frames) /\ i' = 1
          /\ UNCHANGED <<frames, out, filled, printed, at, state>>
          /\ i \in Nat /\ Len(frames) \in Nat /\ DOMAIN frames = 1..Len(frames)
        BY <1>3 DEF EndOfStack, TypeOK, session
    <2>2. {k \in SourceFrames : k < i} = SourceFrames
        BY <2>1 DEF SourceFrames
    <2>3. InOrder' = InOrder /\ Descriptions' = Descriptions
          /\ SourceFrames' = SourceFrames
        BY <2>1 DEF InOrder, Descriptions, SourceFrames
    <2>4. printed' \in Seq(Nat) /\ Len(printed') = i' - 1 /\ 1..(i' - 1) = {}
        BY <2>1 DEF Trace
    <2>5. ~Gone(state'[at'["process"]]) /\ InOrder /\ Descriptions = SourceFrames
        BY <2>1, <2>2 DEF Trace
    <2> QED
        BY <2>1, <2>3, <2>4, <2>5 DEF Trace
<1>4. CASE PrintFrame
    <2>1. /\ pc = "print" /\ pc' = "print" /\ i <= filled /\ i' = i + 1
          /\ printed' = Append(printed, out[i])
          /\ UNCHANGED <<frames, out, filled, at, state>>
          /\ i \in Nat /\ filled \in Nat /\ 1 <= i /\ i \in DOMAIN frames
          /\ out \in [DOMAIN frames -> Nat]
          /\ printed \in Seq(Nat) /\ Len(printed) = i - 1
          /\ \A k \in 1..(i - 1) : printed[k] = out[k]
        BY <1>4 DEF PrintFrame, TypeOK, Memory, Trace, session
    <2>2. /\ printed' \in Seq(Nat) /\ Len(printed') = i' - 1
          /\ \A k \in 1..(i' - 1) : printed'[k] = out'[k]
        BY <2>1
    <2>3. InOrder' = InOrder /\ Descriptions' = Descriptions
          /\ SourceFrames' = SourceFrames
        BY <2>1 DEF InOrder, Descriptions, SourceFrames
    <2> QED
        BY <2>1, <2>2, <2>3 DEF Trace
<1>5. CASE UNCHANGED vars
    BY <1>5 DEF vars, session, trace, Trace, InOrder, Descriptions, SourceFrames
<1>6. CASE pc' \notin {"trace", "print"}
    BY <1>6 DEF Trace
<1>7. StartTrace \/ LookAtFrame \/ EndOfStack \/ PrintFrame
      \/ UNCHANGED vars \/ pc' \notin {"trace", "print"}
    <2>1. Return => pc' \notin {"trace", "print"}
        BY DEF Return, AfterResult
    <2> QED
        BY <2>1 DEF Next, InitReplProcess, StackTrace, Begin, CreateDebugger,
           CreateTarget, CreateBreakpoint, LaunchProcess, Made, SetOptions,
           Execute, Evaluate, ReportFailure, EndOfTrace
<1> QED
    BY <1>1, <1>2, <1>3, <1>4, <1>5, <1>6, <1>7

-----------------------------------------------------------------------------
(* The inductive invariant holds in every behaviour: types, attempts,      *)
(* memory and the stack trace (LLDBProcess.cpp:20-115, 190-250).           *)
THEOREM Invariance == Spec => []IInv
<1>1. IInv /\ [Next]_vars => IInv'
    BY TypeStep, AttemptsStep, MemoryStep, TraceStep DEF IInv
<1> QED
    BY <1>1, InitInvariant, PTL DEF Spec

(* However many attempts fail and wherever, all globals are of one attempt *)
(* when code is evaluated or a failure is looked into                      *)
(* (LLDBProcess.cpp:6-11, 20-73).                                          *)
THEOREM OneAttempt == Spec => []GlobalsAgree
<1>1. IInv => GlobalsAgree
    BY DEF IInv, Attempts, SameAttempt, Threadless, InUse, GlobalsAgree
<1> QED
    BY <1>1, Invariance, PTL

(* A description is there whenever it is unwrapped, for every type of      *)
(* error that LLDB can report (LLDBProcess.cpp:81-115).                    *)
THEOREM DescriptionGiven == Spec => []UnwrapsSafely
<1>1. IInv => UnwrapsSafely
    BY DEF IInv, Memory
<1> QED
    BY <1>1, Invariance, PTL

(* For every number of cells and every depth of the stack, what the        *)
(* library allocated is freed once, and all of it between two cells        *)
(* (LLDBProcess.cpp:190-250; DoExecute.swift:117-126).                     *)
THEOREM NothingKept == Spec => []MemoryGivenBack
<1>1. IInv => MemoryGivenBack
    <2> SUFFICES ASSUME IInv PROVE MemoryGivenBack
        OBVIOUS
    <2>1. pc = "idle" => heap = {}
        BY DEF IInv, Memory
    <2>2. ASSUME pc = "print", i <= filled PROVE Frame(out[i]) \in heap
        <3>1. i \in i..filled /\ heap = {Array} \cup Blocks(i)
            BY <2>2 DEF IInv, Memory, TypeOK
        <3> QED
            BY <3>1 DEF Blocks
    <2> QED
        BY <2>1, <2>2 DEF MemoryGivenBack
<1> QED
    BY <1>1, Invariance, PTL

(* For every depth of the stack and whatever its frames are, a trace is of *)
(* a process that is still there, and Swift gets the frames that have a    *)
(* source, all of them and in order                                        *)
(* (LLDBProcess.cpp:118-132, 200-246; DoExecute.swift:59-79, 117-125).     *)
THEOREM TraceComplete == Spec => []TraceShowsSource
<1>1. IInv => TraceShowsSource
    <2> SUFFICES ASSUME IInv PROVE TraceShowsSource
        OBVIOUS
    <2>1. pc \in {"trace", "print"} => at["main_thread"] = at["process"]
        BY DEF IInv, Attempts, InUse, SameAttempt, Threadless, Globals
    <2> QED
        BY <2>1 DEF IInv, Trace, TraceShowsSource
<1> QED
    BY <1>1, Invariance, PTL

=============================================================================
