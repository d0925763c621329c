--------------------------- MODULE KernelStartup ---------------------------
(***************************************************************************)
(* Which language a kernel speaks.  install_swift.sh replaces the script   *)
(* that Jupyter launches for Python kernels (registerSwiftKernel) and      *)
(* leaves two files: /opt/swift/runtime and /opt/swift/mode.  The replaced *)
(* script calls createSwiftKernel, which reads both, writes the runtime of *)
(* the next start, and activates a Swift kernel or the original Python     *)
(* kernel.  Runs of the script may be killed; kernels crash and are        *)
(* started again by Jupyter, or by the user; a factory reset wipes the     *)
(* disk.  What the script does between the mode file and the registration  *)
(* is InstallScript's: here it goes through or gives up.  No name is one   *)
(* of InstallScript's, so that a module can extend both.                   *)
(***************************************************************************)
EXTENDS Naturals

CONSTANTS MaxInstalls, MaxStarts, MaxKilled, MaxResets   \* bounds

ASSUME BoundsAssumption ==
    {MaxInstalls, MaxStarts, MaxKilled, MaxResets} \subseteq Nat

VARIABLES
    pc, arg,   \* the script: the next step, the mode it was called with
    made,      \* whether there is /opt/swift
    runtime,   \* /opt/swift/runtime, "none" when it is missing
    mode,      \* /opt/swift/mode
    marker,    \* progress/registered-jupyter-kernel
    launcher,  \* what ipykernel_launcher.py starts: "python3", "create"
    kernel,    \* the kernel: "none", "read", "write", "activate", or running
    read,      \* the runtime and the mode that createSwiftKernel read
    lastStart, \* history: language and mode of the last start that wrote
    modes,     \* history: the modes of the runs since the last reset
    complete,  \* history: a run has got to its end since the last reset
    disturbed, \* history: something was killed or failed since then
    events     \* history: runs, starts, kills and resets so far

scriptVars == <<pc, arg>>
files      == <<made, runtime, mode, marker, launcher>>
startup    == <<kernel, read>>
history    == <<lastStart, modes, complete, disturbed>>
startupVars == <<scriptVars, files, startup, history, events>>

Languages == {"swift", "python3"}
NoStart   == [language |-> "none", mode |-> "none"]

FreshDisk ==
    /\ made = FALSE /\ runtime = "none" /\ mode = "none"
    /\ marker = FALSE /\ launcher = "python3"

StartupInit ==
    /\ pc = "idle" /\ arg = "release"
    /\ FreshDisk
    /\ kernel = "none" /\ read = NoStart
    /\ lastStart = NoStart /\ modes = {}
    /\ complete = FALSE /\ disturbed = FALSE
    /\ events = [runs |-> 0, starts |-> 0, kills |-> 0, resets |-> 0]

Spend(what, bound) ==
    /\ events[what] < bound
    /\ events' = [events EXCEPT ![what] = @ + 1]

-----------------------------------------------------------------------------
(* install_swift.sh. *)

Run ==
    /\ pc = "idle" /\ Spend("runs", MaxInstalls)
    /\ pc' = "directories" /\ arg' \in {"release", "dev"}
    /\ modes' = modes \cup {arg'}
    /\ UNCHANGED <<files, startup, lastStart, complete, disturbed>>

(* The directories are made, and then the runtime, if there is no          *)
(* /opt/swift.                                                             *)
MakeDirectories ==
    /\ pc = "directories" /\ made' = TRUE
    /\ pc' = IF made THEN "mode" ELSE "runtime"
    /\ UNCHANGED <<arg, runtime, mode, marker, launcher, startup, history,
                   events>>

WriteRuntime ==
    /\ pc = "runtime" /\ pc' = "mode" /\ runtime' = "swift"
    /\ UNCHANGED <<arg, made, mode, marker, launcher, startup, history, events>>

WriteMode ==
    /\ pc = "mode" /\ pc' = "install" /\ mode' = arg
    /\ UNCHANGED <<arg, made, runtime, marker, launcher, startup, history,
                   events>>

(* Faulty: only dev mode registers, and only once. *)
Install_DevOnly ==
    /\ pc = "install"
    /\ pc' = IF arg = "dev" /\ ~marker THEN "register" ELSE "end"
    /\ UNCHANGED <<arg, files, startup, history, events>>

Install ==
    /\ pc = "install"
    /\ pc' = IF arg = "dev" \/ ~marker THEN "register" ELSE "end"
    /\ UNCHANGED <<arg, files, startup, history, events>>

InstallFails ==
    /\ pc = "install" /\ pc' = "idle" /\ disturbed' = TRUE
    /\ UNCHANGED <<arg, files, startup, lastStart, modes, complete, events>>

(* registerSwiftKernel, in a process of its own: the script that is        *)
(* launched is replaced if it is not the same already.                     *)
RegisterKernel ==
    /\ pc = "register" /\ pc' = "touch" /\ launcher' = "create"
    /\ UNCHANGED <<arg, made, runtime, mode, marker, startup, history, events>>

(* It traps, at copyItem or before; the shell goes on. *)
RegisterFails ==
    /\ pc = "register" /\ pc' = "touch" /\ disturbed' = TRUE
    /\ UNCHANGED <<arg, files, startup, lastStart, modes, complete, events>>

Touch ==
    /\ pc = "touch" /\ pc' = "end" /\ marker' = TRUE
    /\ UNCHANGED <<arg, made, runtime, mode, launcher, startup, history,
                   events>>

ScriptEnds ==
    /\ pc = "end" /\ pc' = "idle" /\ complete' = TRUE
    /\ UNCHANGED <<arg, files, startup, lastStart, modes, disturbed, events>>

KillScript ==
    /\ pc # "idle" /\ pc' = "idle" /\ Spend("kills", MaxKilled)
    /\ disturbed' = TRUE
    /\ UNCHANGED <<arg, files, startup, lastStart, modes, complete>>

-----------------------------------------------------------------------------
(* A kernel process, from its start by Jupyter to its end. *)

StartKernel ==
    /\ kernel = "none" /\ Spend("starts", MaxStarts)
    /\ kernel' = IF launcher = "create" THEN "read" ELSE "python3"
    /\ UNCHANGED <<scriptVars, files, read, lastStart, modes, complete,
                   disturbed>>

(* createSwiftKernel reads the files; it traps when one is missing. *)
ReadFiles ==
    /\ kernel = "read"
    /\ IF "none" \in {runtime, mode}
       THEN kernel' = "none" /\ UNCHANGED read
       ELSE /\ kernel' = "write"
            /\ read' = [language |-> runtime, mode |-> mode]
    /\ UNCHANGED <<scriptVars, files, lastStart, modes, complete, disturbed,
                   events>>

Other(l) == IF l = "swift" THEN "python3" ELSE "swift"

(* Faulty: the modes are exchanged. *)
NextRuntime_Swapped(r) ==
    IF r.mode = "release" THEN Other(r.language) ELSE r.language

(* The runtime of the next start: the same in release mode, else the other *)
NextRuntime(r) ==
    LET isRelease == r.mode = "release"
        runtime1  == IF isRelease THEN "python3" ELSE "swift"
        runtime2  == IF isRelease THEN "swift" ELSE "python3"
    IN IF r.language = "python3" THEN runtime1 ELSE runtime2

ToggleRuntime ==
    /\ kernel = "write" /\ kernel' = "activate"
    /\ runtime' = NextRuntime(read)
    /\ lastStart' = read
    /\ UNCHANGED <<scriptVars, made, mode, marker, launcher, read, modes,
                   complete, disturbed, events>>

Activate ==
    /\ kernel = "activate" /\ kernel' = read.language
    /\ UNCHANGED <<scriptVars, files, read, lastStart, modes, complete,
                   disturbed, events>>

(* It crashes, or is stopped, whatever it is doing; a script that it runs  *)
(* in a cell goes with it or is left to run.                               *)
Stop ==
    /\ kernel # "none" /\ kernel' = "none"
    /\ UNCHANGED <<scriptVars, files, read, history, events>>

(* The disk is wiped, and all that runs is stopped. *)
FactoryReset ==
    /\ Spend("resets", MaxResets)
    /\ pc' = "idle" /\ kernel' = "none"
    /\ made' = FALSE /\ runtime' = "none" /\ mode' = "none"
    /\ marker' = FALSE /\ launcher' = "python3"
    /\ lastStart' = NoStart /\ modes' = {}
    /\ complete' = FALSE /\ disturbed' = FALSE
    /\ UNCHANGED <<arg, read>>

-----------------------------------------------------------------------------
Script == Run \/ MakeDirectories \/ WriteRuntime \/ WriteMode \/ Install
          \/ InstallFails \/ RegisterKernel \/ RegisterFails \/ Touch
          \/ ScriptEnds \/ KillScript

Process == StartKernel \/ ReadFiles \/ ToggleRuntime \/ Activate \/ Stop

StartupNext == Script \/ Process \/ FactoryReset

StartupSpec == StartupInit /\ [][StartupNext]_startupVars

-----------------------------------------------------------------------------
(* Properties. *)

(* The language of a start follows from the start before it: the other one *)
(* when that one was in dev mode, the same in release mode.  So it is also *)
(* when a kernel crashed before it was activated, when the script ran in   *)
(* between, and when it changed the mode, which counts from the next start *)
(* (CreateKernel.swift:11-31, "switch back into Python mode on the next    *)
(* runtime restart").                                                      *)
LanguageFollowsMode ==
    kernel = "write" /\ lastStart # NoStart =>
        read.language = IF lastStart.mode = "dev" THEN Other(lastStart.language)
                        ELSE lastStart.language

(* After a run of the script that got to its end, every kernel that starts *)
(* is a Swift kernel, until a factory reset takes all of it away, as long  *)
(* as nothing was killed or failed and dev mode was not asked for          *)
(* (README.md:32-34, install_swift.sh:48-59, 211-224).                     *)
RestartEntersSwift ==
    [][complete /\ ~disturbed /\ modes = {"release"}
       /\ kernel' \notin {kernel, "none"}
       => kernel' # "python3"]_startupVars

-----------------------------------------------------------------------------
(* The inductive invariant. *)

StartupTypeOK ==
    /\ arg \in {"release", "dev"} /\ modes \subseteq {"release", "dev"}
    /\ runtime \in Languages \cup {"none"}
    /\ mode \in {"release", "dev", "none"}
    /\ made \in BOOLEAN /\ marker \in BOOLEAN
    /\ complete \in BOOLEAN /\ disturbed \in BOOLEAN
    /\ {read.language, lastStart.language} \subseteq Languages \cup {"none"}
    /\ {read.mode, lastStart.mode} \subseteq {"release", "dev", "none"}

(* The runtime file is written by the script only when there is none, and  *)
(* by one kernel at a time.                                                *)
FilesInStep ==
    /\ runtime # "none" => made
    /\ pc = "runtime" => made /\ runtime = "none"
    /\ kernel = "write" =>
          /\ read.language = runtime /\ read.language \in Languages
          /\ read.mode \in {"release", "dev"}
    /\ lastStart # NoStart =>
          /\ lastStart.language \in Languages
          /\ lastStart.mode \in {"release", "dev"}
          /\ runtime = NextRuntime(lastStart)

(* As long as only release mode was asked for. *)
AlwaysSwift ==
    /\ pc # "idle" => arg \in modes
    /\ "dev" \notin modes =>
          /\ mode # "dev" /\ runtime # "python3"
          /\ kernel \in {"write", "activate"} =>
                read.language = "swift" /\ read.mode = "release"

Registered ==
    disturbed \/ /\ pc = "touch" \/ marker => launcher = "create"
                 /\ pc = "end" \/ complete => marker

StartupInv == StartupTypeOK /\ FilesInStep /\ AlwaysSwift /\ Registered

=============================================================================
