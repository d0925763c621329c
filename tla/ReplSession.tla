---------------------------- MODULE ReplSession ----------------------------
(***************************************************************************)
(* The session with one kernel process: how the REPL process is started    *)
(* and prepared before the first cell, again for every cell until it       *)
(* worked, and which file each %include directive puts in its place.       *)
(*                                                                         *)
(* The REPL process knows what was evaluated in it; the kernel remembers   *)
(* the paths that it read, whatever became of their code.                  *)
(***************************************************************************)
EXTENDS Naturals, Sequences

CONSTANTS
    Names,          \* that a cell may include; ./X is another name than X
    Shipped,        \* those in /opt/swift/include
    Communicator,   \* "KernelCommunicator.swift"
    MaxCells,       \* bound on the cells
    MaxLines,       \* bound on the lines of a cell
    MaxEdits,       \* bound on the files the user makes or removes
    MaxFailures     \* bound on failing evaluations and launches

ASSUME CommunicatorAssumption ==
    Communicator \in Shipped /\ Shipped \subseteq Names

Dirs      == {"include", "content"}
Paths     == Dirs \X Names
Libraries == Dirs \X {Communicator}

ASSUME MaxLinesAssumption == MaxLines \in Nat

VARIABLES
    files,         \* the paths at which there is a file
    initialized,   \* KernelContext.debuggerInitialized
    read,          \* previouslyReadPaths
    pc,            \* the next call
    cell,          \* the names that the cell includes, line by line
    lines,         \* those that the running preprocess has still to do
    text,          \* the paths whose code it put in so far
    process,       \* the REPL process: its number, 0 before the first
    defined,       \* the paths whose code was evaluated in it with success
    declared,      \* the enum JupyterKernel was evaluated in it
    given,         \* history: all paths whose code it was given, in order
    spent          \* history: cells, edits and failures so far

vars == <<files, initialized, read, pc, cell, lines, text, process, defined,
          declared, given, spent>>

Init ==
    /\ files = {"include"} \X Shipped
    /\ initialized = FALSE /\ read = {}
    /\ pc = "idle" /\ cell = <<>> /\ lines = <<>> /\ text = <<>>
    /\ process = 0 /\ defined = {} /\ declared = FALSE /\ given = <<>>
    /\ spent = [cells |-> 0, edits |-> 0, failures |-> 0]

MayFail ==
    /\ spent.failures < MaxFailures
    /\ spent' = [spent EXCEPT !.failures = @ + 1]

(* The user makes or removes a file of his own. *)
Edit ==
    /\ pc = "idle" /\ spent.edits < MaxEdits
    /\ \E n \in Names :
          files' = IF <<"content", n>> \in files
                   THEN files \ {<<"content", n>>}
                   ELSE files \cup {<<"content", n>>}
    /\ spent' = [spent EXCEPT !.edits = @ + 1]
    /\ UNCHANGED <<initialized, read, pc, cell, lines, text, process,
                   defined, declared, given>>

(* preprocess starts on a list of lines. *)
Preprocess(names) == lines' = names /\ text' = <<>>

Cells == UNION {[1..n -> Names] : n \in 1..MaxLines}

(* Faulty: the debugger counts as initialized before it is. *)
StartCell_MarksFirst ==
    /\ pc = "idle" /\ spent.cells < MaxCells
    /\ cell' \in Cells
    /\ IF initialized
       THEN pc' = "cell" /\ Preprocess(cell')
       ELSE pc' = "launch" /\ UNCHANGED <<lines, text>>
    /\ initialized' = TRUE
    /\ spent' = [spent EXCEPT !.cells = @ + 1]
    /\ UNCHANGED <<files, read, process, defined, declared, given>>

(* Faulty: initialized is not looked at. *)
StartCell_AlwaysInit ==
    /\ pc = "idle" /\ spent.cells < MaxCells
    /\ cell' \in Cells
    /\ pc' = "launch"
    /\ spent' = [spent EXCEPT !.cells = @ + 1]
    /\ UNCHANGED <<files, initialized, read, lines, text, process, defined,
                   declared, given>>

StartCell ==
    /\ pc = "idle" /\ spent.cells < MaxCells
    /\ cell' \in Cells
    /\ IF initialized
       THEN pc' = "cell" /\ Preprocess(cell')
       ELSE pc' = "launch" /\ UNCHANGED <<lines, text>>
    /\ spent' = [spent EXCEPT !.cells = @ + 1]
    /\ UNCHANGED <<files, initialized, read, process, defined, declared, given>>

-----------------------------------------------------------------------------
(* initSwift: a step that fails ends it, and the cell. *)

Launch ==
    /\ pc = "launch"
    /\ \/ /\ process' = process + 1
          /\ defined' = {} /\ declared' = FALSE /\ given' = <<>>
          /\ pc' = "communicator" /\ Preprocess(<<Communicator>>)
          /\ UNCHANGED spent
       \/ /\ pc' = "idle" /\ MayFail
          /\ UNCHANGED <<process, defined, declared, given, lines, text>>
    /\ UNCHANGED <<files, initialized, read, cell>>

(* The enum JupyterKernel, which needs the type of the library. *)
Declare ==
    /\ pc = "declare"
    /\ \/ /\ Libraries \cap defined # {}
          /\ declared' = TRUE /\ pc' = "bitWidth"
          /\ UNCHANGED spent
       \/ /\ Libraries \cap defined = {}
          /\ pc' = "idle" /\ UNCHANGED <<declared, spent>>
       \/ pc' = "idle" /\ MayFail /\ UNCHANGED declared
    /\ UNCHANGED <<files, initialized, read, cell, lines, text, process,
                   defined, given>>

BitWidth ==
    /\ pc = "bitWidth"
    /\ \/ /\ pc' = "cell" /\ initialized' = TRUE
          /\ Preprocess(cell) /\ UNCHANGED spent
       \/ pc' = "idle" /\ MayFail /\ UNCHANGED <<initialized, lines, text>>
    /\ UNCHANGED <<files, read, cell, process, defined, declared, given>>

-----------------------------------------------------------------------------
(* preprocessAndExecute, for the communicator and for a cell. *)

Candidates(n) == {p \in files \ read : p[2] = n}

(* Of two candidates the one in /content. *)
Chosen(n) ==
    IF <<"content", n>> \in Candidates(n) THEN <<"content", n>>
    ELSE <<"include", n>>

(* Faulty: the path is not remembered. *)
ReadInclude_Forgets ==
    /\ pc \in {"communicator", "cell"} /\ lines # <<>>
    /\ Candidates(Head(lines)) # {}
    /\ text' = Append(text, Chosen(Head(lines)))
    /\ lines' = Tail(lines)
    /\ UNCHANGED <<files, initialized, read, pc, cell, process, defined,
                   declared, given, spent>>

ReadInclude ==
    /\ pc \in {"communicator", "cell"} /\ lines # <<>>
    /\ Candidates(Head(lines)) # {}
    /\ text' = Append(text, Chosen(Head(lines)))
    /\ read' = read \cup {Chosen(Head(lines))}
    /\ lines' = Tail(lines)
    /\ UNCHANGED <<files, initialized, pc, cell, process, defined, declared,
                   given, spent>>

(* A file of the user's that is not UTF-8 ends the kernel. *)
ReadTraps ==
    /\ pc \in {"communicator", "cell"} /\ lines # <<>>
    /\ <<"content", Head(lines)>> \in Candidates(Head(lines))
    /\ pc' = "crashed"
    /\ UNCHANGED <<files, initialized, read, cell, lines, text, process,
                   defined, declared, given, spent>>

(* Nothing is put in when a path of that name was read before. *)
SkipInclude ==
    /\ pc \in {"communicator", "cell"} /\ lines # <<>>
    /\ Candidates(Head(lines)) = {}
    /\ \E p \in read : p[2] = Head(lines)
    /\ lines' = Tail(lines)
    /\ UNCHANGED <<files, initialized, read, pc, cell, text, process, defined,
                   declared, given, spent>>

(* Otherwise the whole cell ends with a preprocessor error. *)
IncludeNotFound ==
    /\ pc \in {"communicator", "cell"} /\ lines # <<>>
    /\ \A p \in files \cup read : p[2] # Head(lines)
    /\ pc' = "idle"
    /\ UNCHANGED <<files, initialized, read, cell, lines, text, process,
                   defined, declared, given, spent>>

Elements(s) == {s[k] : k \in DOMAIN s}

(* The code is evaluated; of code that fails the declarations may stay. *)
Execute ==
    /\ pc \in {"communicator", "cell"} /\ lines = <<>>
    /\ given' = given \o text
    /\ \/ /\ defined' = defined \cup Elements(text)
          /\ pc' = IF pc = "communicator" THEN "declare" ELSE "idle"
          /\ UNCHANGED spent
       \/ /\ pc' = "idle" /\ MayFail
          /\ defined' \in {defined, defined \cup Elements(text)}
    /\ UNCHANGED <<files, initialized, read, cell, lines, text, process,
                   declared>>

-----------------------------------------------------------------------------
InitSwift == Launch \/ Declare \/ BitWidth
Include   == ReadInclude \/ ReadTraps \/ SkipInclude \/ IncludeNotFound

Next == Edit \/ StartCell \/ InitSwift \/ Include \/ Execute

Spec == Init /\ [][Next]_vars

-----------------------------------------------------------------------------
(* Properties. *)

PCs == {"idle", "launch", "communicator", "declare", "bitWidth", "cell",
        "crashed"}

(* Every variable has its type. *)
TypeOK ==
    /\ files \subseteq Paths /\ read \subseteq Paths
    /\ initialized \in BOOLEAN
    /\ pc \in PCs
    /\ cell \in Seq(Names) /\ lines \in Seq(Names)
    /\ text \in Seq(Paths) /\ given \in Seq(Paths)
    /\ process \in Nat
    /\ defined \subseteq Paths /\ declared \in BOOLEAN
    /\ spent \in [cells : Nat, edits : Nat, failures : Nat]

(* A cell is run only in a process that has JupyterKernel.communicator,    *)
(* which setParentMessage and after_successful_execution evaluate, however *)
(* often the preparation failed before (DoExecute.swift:10-13).            *)
ReadyMeansPrepared ==
    initialized \/ pc = "cell" => declared

(* The steps of initSwift before it are what makes it inductive.           *)
Prepared ==
    /\ initialized => pc \in {"idle", "cell", "crashed"}
    /\ pc = "cell" => initialized
    /\ pc = "bitWidth" => declared
    /\ initialized => declared

(* No code that was put in for a path is given to the same process again,  *)
(* in whatever cells, lines and directories a name is included             *)
(* (PreprocessAndExecute.swift:121-163).                                   *)
GivenOnce ==
    \A a, b \in DOMAIN given : given[a] = given[b] => a = b

(* It is inductive with the code that waits to be evaluated.               *)
Fresh ==
    /\ \A k \in DOMAIN text : text[k] \in read
    /\ \A k \in DOMAIN given : given[k] \in read
    /\ GivenOnce
    /\ pc \in {"communicator", "cell"} =>
          /\ \A a, b \in DOMAIN text : text[a] = text[b] => a = b
          /\ \A a \in DOMAIN given, b \in DOMAIN text : given[a] # text[b]

IInv == TypeOK /\ Prepared /\ Fresh

(* Once a session is ready its process is never replaced: what the user's  *)
(* cells defined is not lost by a later failure (DoExecute.swift:10-13).   *)
ReadyKeepsProcess == [][initialized => process' = process]_vars

=============================================================================
