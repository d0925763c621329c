---------------------------- MODULE Subprocesses ----------------------------
(***************************************************************************)
(* The commands that directives run as child processes, with a pipe for    *)
(* what they print: %system waits for the child and then reads; %install   *)
(* reads the lines of swift-build, of which it shows some, and then waits; *)
(* %install-extra-include-command takes flags from what the command        *)
(* printed.  Together with %install-swiftpm-flags the last one makes       *)
(* swiftPMFlags, with which every later swift-build is called.  The names  *)
(* of the specification begin with Commands, so that a module can extend   *)
(* this one and PackageInstall.                                            *)
(***************************************************************************)
EXTENDS Naturals, Sequences, SequencesExt

CONSTANTS
    Capacity,       \* of a pipe, in lines
    MaxOutput,      \* bound on the lines of a command
    MaxDirectives,  \* bound on the directives
    MaxWords        \* bound on the words of %install-swiftpm-flags

ASSUME BoundsAssumption ==
    {Capacity, MaxOutput, MaxDirectives, MaxWords} \subseteq Nat

VARIABLES
    pc,       \* what the kernel does for the directive
    command,  \* "system", "build" or "include"
    output,   \* the lines that the child prints altogether
    code,     \* the code that it will exit with
    written,  \* the number of lines it has printed
    exited,   \* whether it has ended
    holder,   \* whether a process that it left behind has the pipe open
    taken,    \* the number of lines that the kernel has read
    inside,   \* currentlyInsideBrackets
    shown,    \* the positions of the lines sent to the front end
    word,     \* the words of an include command that were looked at
    flags,    \* swiftPMFlags; a word is the place in asked that it came from
    count,    \* the number of directives
    asked     \* history: the words of the directives that set flags

child == <<output, code, written, exited, holder>>
commandsVars  == <<pc, command, child, taken, inside, shown, word, flags, count, asked>>

(* What a line is to its reader.  A partial line has no newline, "junk" is *)
(* not UTF-8; a word of an include command begins with -I, or not, or has  *)
(* a quote that is not closed.                                             *)
Kinds(c) == CASE c = "system"  -> {"text", "junk"}
              [] c = "build"   -> {"text", "number", "{", "}", "partial", "junk"}
              [] c = "include" -> {"-I", "other", "quote", "junk"}

Outputs(c) ==
    {o \in UNION {[1..n -> Kinds(c)] : n \in 0..MaxOutput} :
        \A k \in DOMAIN o : o[k] = "partial" => k = Len(o)}

CommandsInit ==
    /\ pc = "idle" /\ command = "system"
    /\ output = <<>> /\ code = 0 /\ written = 0 /\ exited = TRUE
    /\ holder = FALSE
    /\ taken = 0 /\ inside = FALSE /\ shown = <<>>
    /\ word = 0 /\ flags = <<>> /\ count = 0 /\ asked = <<>>

InPipe == written - taken

(* All that have the pipe open for writing are gone, and it is empty. *)
EndOfFile == exited /\ ~holder /\ InPipe = 0

-----------------------------------------------------------------------------
(* The child, and what it may leave in the background.                     *)

WriteLine ==
    /\ ~exited /\ written < Len(output) /\ InPipe < Capacity
    /\ written' = written + 1
    /\ UNCHANGED <<pc, command, count, output, code, exited, holder, taken, inside,
                   shown, word, flags, asked>>

Exit ==
    /\ ~exited /\ written = Len(output)
    /\ exited' = TRUE
    /\ UNCHANGED <<pc, command, count, output, code, written, holder, taken, inside,
                   shown, word, flags, asked>>

HolderEnds ==
    /\ exited /\ holder /\ holder' = FALSE
    /\ UNCHANGED <<pc, command, count, output, code, written, exited, taken, inside,
                   shown, word, flags, asked>>

-----------------------------------------------------------------------------
(* Popen, and subprocess.run. *)
Popen(c, first) ==
    /\ pc = "idle" /\ count < MaxDirectives
    /\ pc' = first /\ command' = c /\ count' = count + 1
    /\ output' \in Outputs(c) /\ code' \in {0, 1}
    /\ written' = 0 /\ exited' = FALSE
    /\ holder' \in IF c = "build" THEN {FALSE} ELSE BOOLEAN
    /\ taken' = 0 /\ inside' = FALSE /\ shown' = <<>> /\ word' = 0
    /\ UNCHANGED <<flags, asked>>

StartSystem == Popen("system", "wait")

(* Faulty: the return code is waited for before the output is read. *)
StartBuild_WaitsFirst == Popen("build", "wait")

StartBuild == Popen("build", "readline")

StartInclude == Popen("include", "read")

Wait ==
    /\ pc = "wait" /\ exited
    /\ pc' = IF command = "system" THEN "read" ELSE "readline"
    /\ UNCHANGED <<command, child, count, taken, inside, shown, word, flags, asked>>

(* read() takes what is in the pipe until nobody can write to it. *)
Read ==
    /\ pc = "read" /\ InPipe > 0
    /\ taken' = written
    /\ UNCHANGED <<pc, command, child, count, inside, shown, word, flags, asked>>

(* The text of %system is decoded as a whole and published; the call of    *)
(* decode is not a throwing one.                                           *)
PublishText ==
    /\ pc = "read" /\ command = "system" /\ EndOfFile
    /\ IF Contains(output, "junk")
       THEN pc' = "crashed" /\ UNCHANGED shown
       ELSE pc' = "ended" /\ shown' = [k \in DOMAIN output |-> k]
    /\ UNCHANGED <<command, child, count, taken, inside, word, flags, asked>>

(* The loop over swift-build's lines: an iteration. *)

Line == output[taken + 1]

(* Faulty: the end of a JSON object is not noticed. *)
ReadLine_StaysInside ==
    /\ pc = "readline" /\ InPipe > 0
    /\ taken' = taken + 1
    /\ pc' = IF Line = "junk" THEN "crashed" ELSE pc
    /\ inside' = (inside \/ Line = "{")
    /\ shown' = IF Line = "text" /\ ~inside THEN Append(shown, taken') ELSE shown
    /\ UNCHANGED <<command, child, count, word, flags, asked>>

ReadLine ==
    /\ pc = "readline" /\ InPipe > 0 /\ Line # "partial"
    /\ taken' = taken + 1
    /\ pc' = IF Line = "junk" THEN "crashed" ELSE pc
    /\ inside' = CASE Line = "{" -> TRUE [] Line = "}" -> FALSE [] OTHER -> inside
    /\ shown' = IF Line = "text" /\ ~inside THEN Append(shown, taken') ELSE shown
    /\ UNCHANGED <<command, child, count, word, flags, asked>>

(* readline() returns less than a line at the end of the file only. *)
ReadPartialLine ==
    /\ pc = "readline" /\ exited /\ InPipe = 1 /\ Line = "partial"
    /\ taken' = taken + 1
    /\ pc' = "raised"
    /\ UNCHANGED <<command, child, count, inside, shown, word, flags, asked>>

BuildEnds ==
    /\ pc = "readline" /\ EndOfFile
    /\ pc' = IF code = 0 THEN "ended" ELSE "raised"
    /\ UNCHANGED <<command, child, count, taken, inside, shown, word, flags, asked>>

-----------------------------------------------------------------------------
(* The flags.                                                              *)

(* What an include command printed is decoded in the message of the        *)
(* exception too; then shlex splits it, which fails at an open quote.      *)
TakeIncludes ==
    /\ pc = "read" /\ command = "include" /\ EndOfFile
    /\ pc' = IF Contains(output, "junk") THEN "crashed"
             ELSE IF code # 0 THEN "raised"
             ELSE IF Contains(output, "quote") THEN "crashed" ELSE "words"
    /\ UNCHANGED <<command, child, count, taken, inside, shown, word, flags, asked>>

(* A word that is no include directory is passed over. *)
TakeWord ==
    /\ pc = "words" /\ word < Len(output)
    /\ word' = word + 1
    /\ asked' = Append(asked, output[word'])
    /\ flags' = IF output[word'] = "-I" THEN Append(flags, Len(asked')) ELSE flags
    /\ UNCHANGED <<pc, command, child, count, taken, inside, shown>>

WordsEnd ==
    /\ pc = "words" /\ word = Len(output)
    /\ pc' = "ended"
    /\ UNCHANGED <<command, child, count, taken, inside, shown, word, flags, asked>>

(* A line of %install-swiftpm-flags: words, of which $clear is replaced by *)
(* an id; another template argument is refused, and a quote that is not    *)
(* closed makes shlex fail.                                                *)
Words == {"flag", "$clear", "$other", "quote"}

FlagLines == UNION {[1..n -> Words] : n \in 0..MaxWords}

(* The last $clear, which is searched from the end, is the word c; 0 if    *)
(* there is none.                                                          *)
LastClear(line, c) ==
    /\ c # 0 => line[c] = "$clear"
    /\ \A k \in (c + 1)..Len(line) : line[k] # "$clear"

AfterClear(line, c) == SubSeq(line, c + 1, Len(line))

(* The places that the words of a line from c on are going to have. *)
Places(line, c) == [k \in 1..(Len(line) - c) |-> Len(asked) + c + k]

(* Faulty: the earlier flags are kept. *)
SetFlags_Keeps ==
    /\ pc = "idle" /\ count < MaxDirectives /\ count' = count + 1
    /\ \E line \in FlagLines : \E c \in 0..Len(line) :
          /\ LastClear(line, c)
          /\ IF Contains(line, "$other")
             THEN pc' = "raised" /\ UNCHANGED <<flags, asked>>
             ELSE IF Contains(AfterClear(line, c), "quote")
             THEN pc' = "crashed" /\ UNCHANGED <<flags, asked>>
             ELSE /\ pc' = "ended"
                  /\ flags' = flags \o Places(line, c)
                  /\ asked' = asked \o line
    /\ UNCHANGED <<command, child, taken, inside, shown, word>>

SetFlags ==
    /\ pc = "idle" /\ count < MaxDirectives /\ count' = count + 1
    /\ \E line \in FlagLines : \E c \in 0..Len(line) :
          /\ LastClear(line, c)
          /\ IF Contains(line, "$other")
             THEN pc' = "raised" /\ UNCHANGED <<flags, asked>>
             ELSE IF Contains(AfterClear(line, c), "quote")
             THEN pc' = "crashed" /\ UNCHANGED <<flags, asked>>
             ELSE /\ pc' = "ended"
                  /\ flags' = (IF c = 0 THEN flags ELSE <<>>) \o Places(line, c)
                  /\ asked' = asked \o line
    /\ UNCHANGED <<command, child, taken, inside, shown, word>>

(* The next directive, of the same cell or a later one. *)
NextDirective ==
    /\ pc \in {"ended", "raised"}
    /\ pc' = "idle" /\ command' = "system"
    /\ output' = <<>> /\ code' = 0 /\ written' = 0 /\ exited' = TRUE
    /\ holder' = FALSE
    /\ taken' = 0 /\ inside' = FALSE /\ shown' = <<>> /\ word' = 0
    /\ UNCHANGED <<flags, count, asked>>

-----------------------------------------------------------------------------
Kernel == Wait \/ Read \/ PublishText \/ ReadLine \/ ReadPartialLine
          \/ BuildEnds \/ TakeIncludes \/ TakeWord \/ WordsEnd

Child == WriteLine \/ Exit

CommandsNext == \/ StartSystem \/ StartBuild \/ StartInclude \/ SetFlags
        \/ Kernel \/ Child \/ HolderEnds \/ NextDirective

(* The kernel and the child go on as long as they can; a process in the    *)
(* background may have the pipe open for ever.                             *)
CommandsSpec == CommandsInit /\ [][CommandsNext]_commandsVars /\ WF_commandsVars(Kernel) /\ WF_commandsVars(Child)

-----------------------------------------------------------------------------
(* Properties. *)

Running == pc \in {"wait", "read", "readline", "words"}

(* A build and an include command end whatever they print, and so does a   *)
(* %system whose output fits into the pipe, unless it leaves a process     *)
(* behind; for more output there is no such promise, as nobody reads while *)
(* the child is waited for (PreprocessAndExecute.swift:105-113,            *)
(* ProcessInstalls.swift:96-103, 329-366).                                 *)
CommandEnds ==
    (Running /\ ~holder /\ (command = "system" => Len(output) <= Capacity))
        ~> ~Running

(* Of a build that was read to its end, the lines outside of JSON objects  *)
(* that are no numbers have been shown, each once and in order: a line is  *)
(* inside when the last bracket before it is an opening one                *)
(* (ProcessInstalls.swift:334-364).                                        *)
InObject(k) ==
    \E j \in 1..(k - 1) : /\ output[j] = "{"
                          /\ \A l \in (j + 1)..(k - 1) : output[l] # "}"

Elements(s) == {s[k] : k \in DOMAIN s}

Rising(s) == \A j, k \in DOMAIN s : j < k => s[j] < s[k]

Outside == {k \in DOMAIN output : output[k] = "text" /\ ~InObject(k)}

ShowsBuild ==
    (command = "build" /\ pc \in {"ended", "raised"}) =>
        Elements(shown) = Outside /\ Rising(shown)

(* What swift-build is called with is what was asked for since the last    *)
(* $clear, in the order of the directives, whichever of the two directives *)
(* it came from; a directive that failed has no part in it                 *)
(* (ProcessInstalls.swift:47-77, 113-123).                                 *)
SinceClear == {k \in DOMAIN asked : \A l \in k..Len(asked) : asked[l] # "$clear"}

FlagsAsAsked ==
    /\ Elements(flags) = {k \in SinceClear : asked[k] \in {"flag", "-I"}}
    /\ Rising(flags)

-----------------------------------------------------------------------------
(* The inductive invariant. *)

CommandsTypeOK ==
    /\ command \in {"system", "build", "include"}
    /\ output \in Seq(Kinds(command))
    /\ written \in 0..Len(output) /\ taken \in 0..written
    /\ exited \in BOOLEAN /\ holder \in BOOLEAN /\ inside \in BOOLEAN
    /\ shown \in Seq(Nat) /\ flags \in Seq(Nat)
    /\ word \in 0..Len(output)
    /\ asked \in Seq(Words \cup Kinds("include"))

(* Which command is run when. *)
Stages ==
    /\ pc \in {"idle", "wait"} => command = "system"
    /\ pc \in {"read", "words"} => command # "build"
    /\ pc = "readline" => command = "build"
    /\ pc = "words" => command = "include"
    /\ exited => written = Len(output)

(* Of a build the lines that were read so far have been shown. *)
ShownSoFar ==
    command = "build" =>
        /\ Elements(shown) = {k \in Outside : k <= taken} /\ Rising(shown)
        /\ pc = "readline" => (inside <=> InObject(taken + 1))
        /\ pc \in {"ended", "raised"} => taken = Len(output)

CommandsInv == CommandsTypeOK /\ Stages /\ ShownSoFar /\ FlagsAsAsked

=============================================================================
