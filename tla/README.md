# A verification of Swift-Colab

TLA+ models of Swift-Colab: the Jupyter kernel that runs Swift cells in Google
Colab by driving a Swift REPL process through LLDB, and the script that
installs it. The models are written from `src/`; every definition's lines are
in `PROJECT.json` under `map`. TLC checks them on small instances; TLAPS proves
their safety properties for every value of the constants.

Paths below are relative to `src/`; `SwiftKernel/` stands for
`Sources/JupyterKernel/SwiftKernel/`.

## 1. The system

| Component | Source | State it keeps | Operations |
|---|---|---|---|
| Cell execution | `SwiftKernel/DoExecute.swift`, `IOHandlers.swift`, `ExecutionResult.swift`, `PreprocessAndExecute.swift` (`execute`), `KernelContext.swift`, `LLDBProcess.cpp` (`execute`, `process_is_alive`, `get_stdout`) | the request being served, its result, the thread of its stdout, the exit timer, what was published and answered | `do_execute`, `doExecute`, `executeCell`, `StdoutHandler`, `SIGINTHandler` |
| REPL process and LLDB | external, used by `LLDBProcess.cpp` | alive or dead, output not read yet | evaluate, write output, die |
| Session | `SwiftKernel/InitSwift.swift`, `PreprocessAndExecute.swift` (`preprocess`, `readInclude`) | `debuggerInitialized`, `previouslyReadPaths`, what the process was given | `initSwift`, `%include` |
| Wire format | `LLDBProcess.cpp` (`after_successful_execution`, `read_byte_array`), `SwiftKernel/Deserialization.swift` | a buffer that grows, and a reader in it | write, read, send, free |
| Package installation | `SwiftKernel/ProcessInstalls.swift` | the index and the folders of each install location, the links in `modules`, the kernel's copy of the index, `loadedClangModules` | `%install`, `%install-location` |
| Install script | `install_swift.sh` | `/opt/swift`: toolchains, sources, libraries, the markers in `progress` | one run per requested version |
| Display pipeline | `Sources/include/KernelCommunicator.swift`, `EnableIPythonDisplay.swift`, `SwiftShell.swift` | two handlers, captured messages, those retained for the kernel, the parent message | enable, display, trigger |
| LLDB library | `LLDBProcess.cpp`, and its callers in `DoExecute.swift`, `PreprocessAndExecute.swift` | debugger, target, breakpoint, process, thread and options in global variables; blocks allocated for Swift | `init_repl_process`, `execute`, `process_is_alive`, `get_pretty_stack_trace` |
| Subprocesses | `PreprocessAndExecute.swift`, `ProcessInstalls.swift` | a child and its pipe, `currentlyInsideBrackets`, `swiftPMFlags` | `%system`, `swift-build`, `%install-extra-include-command`, `%install-swiftpm-flags` |
| Kernel creation | `CreateKernel.swift`, `RegisterKernel.swift`, `install_swift.sh` | `/opt/swift/runtime`, `/opt/swift/mode`, the launcher that Jupyter starts | register, create, toggle, activate |
| PythonKit, LLDB headers | vendored | | |

How they interact. Jupyter calls `do_execute` on the main thread of a Python
process. The first cell makes the session (`initSwift`: a REPL process, the
communicator, the thread for SIGINT). Every cell starts a `StdoutHandler`
thread, tells the REPL process its parent message, runs its directives
(`%install`, `%system`, `%include`), gives the rest to LLDB, fetches the
display messages over the wire format, joins the thread and reports. The three
threads share one interpreter lock; the kernel and the REPL process share
LLDB's buffers; successive kernels and runs of the script share the disk.

What is hard in it: the lock is held through LLDB calls; output arrives
asynchronously while `had_stdout` decides which error is shown; the process may
die at several calls of which only some look; failed initialization is
retried; the script and `%install` are sequences of file operations that fail or
are cut off between any two; positions in a buffer are computed twice, in two
languages, and data crosses between three kinds of memory: the REPL process's,
which its own reference counting frees, C's, and Swift's. `PROJECT.json` lists the hazards at their lines, with the properties
that cover them, or the reason why none does yet.

What makes each part correct, in a sentence: cells are concluded once, with all
their output before the conclusion and a reply that agrees with it (*cell
execution*); a cell only runs in a prepared process and gets no code twice
(*session*); what is sent is what was displayed and no byte outside the buffer
is touched (*wire format*); a folder keeps its package and a link leads to
what it names (*packages*); a run leaves what it was asked for, and no later
run is misled by an earlier one (*install script*); a message arrives once,
under the cell that displayed it, or its loss is reported (*display pipeline*);
the library's globals belong to one process, and what it allocates is freed
(*LLDB library*); a command ends and shows what it printed (*subprocesses*);
the language of a kernel follows from the one before (*kernel creation*).

## 2. The modules

| Module | Models | Lines |
|---|---|---|
| `CellProtocol` | what the kernel owes the front end: the abstract specification | 111 |
| `CellExecution` | the three threads, the lock, LLDB and the REPL process, for a series of cells; implements `CellProtocol` | 740 |
| `Transfer` | what the transfer of display messages owes: the second abstract specification | 42 |
| `WireFormat` | writer, reader, sending and freeing of display messages; implements `Transfer` | 346 |
| `DisplayPipeline` | display messages from the user's code to the socket, over a series of cells; built on `Transfer` | 293 |
| `LLDBProcess` | the library's globals over failed initializations, results, memory, stack traces | 375 |
| `ReplSession` | initialization, its retries, and `%include` | 261 |
| `PackageInstall` | `%install` and `%install-location` over restarts and failures | 465 |
| `Subprocesses` | the directives that run a child and read what it prints | 321 |
| `InstallScript` | repeated, failing and killed runs of `install_swift.sh` | 568 |
| `KernelStartup` | which language a kernel speaks, over starts, crashes, runs and resets | 260 |
| `MC...` | values of the constants for TLC | |
| `...Proofs` | theorems | |

`PackageInstallProofs` is also about `Subprocesses`, and `InstallScriptProofs`
about `KernelStartup`, since each pair shares a source file: flags and packages
are `ProcessInstalls.swift`, and the script both installs and registers. For
that their specifications are named apart (`CommandsSpec`, `StartupSpec`).

Operators with a name such as `Join_NoWait`, marked "Faulty", are plausible
errors in the code beside which they stand. No specification uses them; each
property is known to fail when its faulty form replaces the true one.

### CellProtocol and CellExecution

`CellProtocol` has five variables and five actions: a cell begins, publishes,
is concluded, is answered, and the kernel may die. `CellExecution!Protocol` is
the refinement mapping: `Phase` abstracts the program counter, `Log` forgets
the text of messages; `cell`, `conclusion` and `replies` are shared by name.

`CellExecution` has a program counter for each thread (`pc`, `hpc`, `spc`) and
the holder of the interpreter lock, `gil`. A step of a thread that runs Python
or Swift code needs the lock. `ReleaseGIL` is possible anywhere except inside
an LLDB call (`InLLDB`), because LLDB is called through a C function pointer;
waiting (`stop_event.wait`, `join`, `sigwait`) needs no lock. Output goes
through four places, as in the code: the pseudo-terminal (`pty`), LLDB's buffer
(`lldb`), the text that a handler has taken (`text`), and `iopub`. Output
is numbered units; a unit in `Wide` has a character of several bytes, of which
LLDB may have read half (`half`): then `String(data:encoding:)!` traps.
Results of a cell keep the distinctions that the *code* cannot make
(`compileError`, `runtimeError` and `preprocessorError` are one class in
`doExecute`), so that properties can speak of what it guesses. The REPL process
may die in any step in which LLDB runs it: the parent message, the load of a
library, the cell, the trigger of the display messages. It is stopped at all
other times, and the model does not have somebody else killing it then. What
is printed while the parent message is set, by threads of the user's code that
run on, is output like any other.

`InitSwift` is one step here; `ReplSession` has its inside. `%install` and
`%system` appear as the messages they publish, the library they load and the
exceptions they throw; `PackageInstall` has the inside of `%install`. A directive
ends in one of four ways: it goes on, an exception of the kernel's own classes
(`installException`, `preprocessorError`), another error (of the file manager,
say), which is the "bad state" (`exception`), or a trap in a call of Python's that
is not a throwing one (`Crash`). The stack trace's text and the messages' wording are left out.

### Transfer and WireFormat

`Transfer` has a batch of messages, those that were sent, and a status. The
refinement mapping of `WireFormat!ImplementsTransfer` hides the buffer: `out`
is what was given to the socket, byte for byte, so that a header that is read
one word late, a part whose rounding the two languages see differently, or a
message that is sent twice is a step that `Transfer` does not have.

In `WireFormat` the buffer is `mem`, a function on the allocated words. Sizes of
parts are in bytes, everything else in words of 8 bytes, since headers and rounding are.
A word holds a number, a named word of a part, or junk, so that a misplaced
read is visible. The writer's failures (`ReadFails`), the doubling loop, the
move to a larger buffer and the reader's walk are steps of their own.

### DisplayPipeline

The REPL process's side of the same way. `enabledIn` is the cell in which both
handlers were set; `captured`, `retained` and `addresses` are the three places
where a message is before the kernel has read it. The trigger returns
*addresses*, and the kernel reads the memory behind them afterwards: what is
not in `retained` then is `Garbage`. `Send`, `Finish` and `TransferFails` are
steps of `Transfer` by INSTANCE, so what `WireFormat` implements is what this
module builds on. A cell that fails triggers nothing, and its messages wait for
the next success.

### LLDBProcess

`at` gives, for each global, the attempt that made it, since
`init_repl_process` returns at any of its steps and leaves the earlier globals
replaced and the later ones as they were. `state` is kept for each process, as an earlier one goes on to exist. A process that has ended before it reached
its breakpoint is a valid object with no thread: `init_repl_process` succeeds,
`main_thread` is not valid, and no evaluation of the attempt has a value
(`Threadless`). `heap` is the set of blocks that Swift has to
free. LLDB's states are in the order of its enumeration, because a comparison
by order is the error that `process_is_alive` has to avoid.

### ReplSession

A path is a directory and a name. `read` is `previouslyReadPaths`, `defined`
what the current REPL process has evaluated with success, `given` the history
of what it was given. Files may appear and vanish in `/content` between cells.
Each evaluation can fail. An initialization that failed after the communicator
was read can never succeed again in the same kernel: the model has this
behaviour (`Declare`'s second disjunct). A file that is not UTF-8 ends the
kernel (`ReadTraps`). `./X` is another name than `X`, here as in the code.

### PackageInstall

`disk` is per location; `kernel` is the memory of one kernel process. Each
file operation of an installation is a step, so that `Restart` can come
between any two. Those that throw have a failing form of their own
(`RelinkFails`, `WriteManifestFails`, `OutputRefused`, `DatabaseMissing`,
`LinkModuleFails`, `WriteMapFails`, the failing disjuncts of `WriteIndex` and
`Build`), which leaves what was done before as it is: the link removed and not
made again, the package built and not looked at. `OutputRefused` is a line of
`swift-build` without an end, after which the child goes on to build. Where the
code traps instead (`json.loads`, text that is not UTF-8) the kernel ends, and
`Restart` is what follows. `ReadPackages` keeps a peculiarity of the code:
`installedPackagesLocation` is the index *file*, the comparison at
`ProcessInstalls.swift:240` is with the directory, and so the index is read
again every time. Ids stay stable *because* of it when a specification is
blank (its line is not read back): `ReadPackages_Cached`, the comparison the
code seems to intend, breaks `IdsStable`.

### Subprocesses

A child prints lines of a few kinds into a pipe of bounded capacity; a process
that it leaves behind may keep the pipe open (`holder`). `%system` waits and
then reads; the other commands read and then ask for the exit code. Text that
is not UTF-8 ends the kernel, since PythonKit's calls trap when Python raises; so does a quote that is not closed (`quote`) where
`shlex` splits the output of an include command, or a line of flags.
`asked` is the history of the words of the directives that set flags, and a flag
is the place of its word in it, so that `FlagsAsAsked` can tell two equal flags
apart and say in which order they have to be. The loop over the words of an
include command is a step per word (`TakeWord`).

### InstallScript

Every command that changes the disk is a step; `Kill` can come between any
two, and in the middle of unpacking. `mv` of a directory onto an existing one
moves it *into* it, so a directory is a sequence: its own toolchain and what
was put into it. `made` counts the directories of lines 48-56. The script has
no `set -e`: a failing command is followed by the next.

### KernelStartup

The part of the script that leaves files for the kernel, a kernel process from
its start to its end, and the disk between them. `createSwiftKernel` reads
both files, writes the runtime of the *next* start, and activates: a crash or a
run of the script can come between any two of these. `Install` stands for
`InstallScript`'s steps between the mode file and the registration.

## 3. What TLC checks

Runs in which nothing is violated:

| Run | Properties | Instance |
|---|---|---|
| `cell_safety` | `IInv`, `HandlerConfinement`, `ExactlyOnceStdout`, `FlushedAtJoin`, `DeadReplNeverSucceeds`, `TraceFollowsStdout`, `RepliesAgree`, `MessageOrder`, `NothingStreamsWhileRunning`, `ImplementsProtocol` | 2 cells, 2 units of output (the second wide), 1 directive message, interrupts |
| `cell_liveness` | `CellCompletes`, `ExitHappens` | 2 cells, 1 unit, no interrupts |
| `wire_format` | `InBounds`, `ImplementsTransfer`, `TransferEnds` | 0-2 messages of 1-2 parts of 0, 1, 8, 9 or 24 bytes, an initial buffer of 2 words |
| `display_pipeline` | `SentOnceInOrder`, `ParentIsDisplayingCell`, `LostOnlyWithException`, `SuccessLeavesNothing` | 4 cells, 3 messages, every step may fail |
| `lldb_library` | `GlobalsAgree`, `MemoryGivenBack`, `UnwrapsSafely`, `TraceShowsSource` | 3 cells, stacks of 0-3 frames of 3 kinds, all 6 error types, 3 kinds of description (text, empty, missing), processes that end at their launch |
| `repl_session` | `ReadyMeansPrepared`, `GivenOnce`, `ReadyKeepsProcess` | 2 names, 4 cells of 1-2 lines, 2 edits, 2 failures |
| `packages` | `InstalledStaysBuilt`, `LinksProvide`, `IdsStable`, `WarnedOfNew` | 2 packages with a shared dependency and a blank specification, 3 locations of which one does not exist, 3 installations, 1 restart, 2 failures |
| `subprocesses` | `ShowsBuild`, `FlagsAsAsked`, `CommandEnds` | 2 directives, commands of 0-3 lines, a pipe of 2, flag lines of 0-2 words |
| `install_script` | `InstalledAsAsked`, `NeverRefuses`, `TrueLabels`, `MarkerBacked`, `NothingLost` | 3 versions, 4 runs, 2 kills, 2 failures |
| `kernel_startup` | `LanguageFollowsMode`, `RestartEntersSwift` | 3 runs, 4 starts, 1 kill, 1 reset |

Why these bounds. What passes from one cell to the next (late output, a dead
process, an exit timer) needs two cells. Two units of output let one be
published by the first handler while the other is late or half read. In the
wire format sizes straddle a word, a word boundary and the buffer, and
24 bytes need two doublings at the smallest legal buffer; the code's buffer
starts at 128 words, where no small input would grow it. Three versions and
four runs are the shortest way to swap out, install a third, and come back.
Three installations allow a package to be installed, its index disturbed, and
the package installed again. Four cells and three messages let the handlers be
set in one cell and a message of a failed cell be sent with those of a later one. Three attempts are a failed one, a failed one that gets
further, and a success. A pipe of two and commands of three lines have the
case in which the child blocks. Four starts are one change of mode between two
pairs. Restarts, kills and failures may occur at every
step; the bounds only limit how many there are.

Some invariants of the script hold under a condition, which is part of the
formula: `InstalledAsAsked` and `NeverRefuses` while nothing failed and nothing was
killed, `TrueLabels` while nothing was killed, `MarkerBacked` while nothing
failed. `NothingLost` holds always. Likewise `WarnedOfNew` speaks of a disk on which only
one location has modulemaps: `loadedClangModules` is not kept per location.

Fairness. `cell_liveness` assumes (`SchedulerFairness`) that CPython passes the
lock on (`ReleaseGIL`, its switch interval), that a thread which wants the
lock gets it again and again (strong fairness of `AcquireGIL`, since others take
it in between), that a thread which holds it executes the kernel's code, that
`wait(0.1)` returns, that LLDB's reader reads, and that the event loop fires a due timer. It also
assumes that the cell ends (`WF_vars(CellFinishes)`), which the code cannot
promise: LLDB's timeout is infinite. Interrupts are off in that run, as
the first one ends the kernel (below). `wire_format` assumes that a sequential
program goes on (`WF_vars(Next)`). `subprocesses` assumes that the kernel goes on
when it can (`WF_vars(Kernel)`), and so does a child that is not blocked
(`WF_vars(Child)`); nothing is assumed of a process in the background, which may
have the pipe open for ever. `CommandEnds` therefore excludes such a process, and
a `%system` that prints more than the pipe holds: that one does hang.

Deadlock is not checked (`CHECK_DEADLOCK FALSE`) where the bounds, or the end
of the kernel or of a transfer, really stop the system. That the kernel does
not hang is what `CellCompletes` and `CommandEnds` say.

Disagreements between the code and what it says of itself; TLC finds each as a
counterexample:

| Run | The code or a comment says | What happens |
|---|---|---|
| `interrupt_spares` | SIGINT is handled by a thread so that an execution can be interrupted (`CreateKernel.swift:76`) | `KernelContext` loads a symbol that the library does not export; the handler calls a null pointer and the kernel ends |
| `dead_repl` | "Exit the kernel because there is no way to recover from a killed process" (`DoExecute.swift:65`) | a process that dies in `setParentMessage`, `%install` or the display trigger schedules no exit |

Behaviours that the models also have, and that no run pins.

In a cell: an interrupt that comes while a cell runs waits for the cell's end,
because the handler needs the lock; a runtime error without output is reported
as a compile error (`DoExecute.swift:82`), and a compile error after late
output of an earlier cell, or output of a loaded library, becomes a stack trace
(`DoExecute.swift:72`); a `%include` of a path that was read falls through to
`/opt/swift/include`, where another file of that name is taken
(`PreprocessAndExecute.swift:139`); a `send_multipart` that throws leaks the
buffer (`Deserialization.swift:22`); a message of the cell that enables the
display has no parent.

In the library: the process of a failed attempt is not destroyed, and goes on
beside the new one; a value without a description ends the kernel in
`strlen(NULL)` (`LLDBProcess.cpp:91`), and so does an error without a text.

In directives: a `%system` with more output than a pipe holds, and one that
leaves a process with the pipe behind, never return; output or an included file
that is not UTF-8 ends the kernel (`PreprocessAndExecute.swift:148`), and so does an
include command whose output has an unclosed quote (`ProcessInstalls.swift:113`);
a link that cannot be made leaves the module with none
(`ProcessInstalls.swift:446-451`), and `install_location` likewise (`:236`); a modulemap can get two folders, when its text does not begin
with the module's name (`ProcessInstalls.swift:468`).

In the script: a failed download is marked as installed, and every later run
refuses (`install_swift.sh:87`, `:110`); a run killed between lines 111 and 113
makes every later run exit at line 83, one killed between 48 and 55 leaves no
runtime file, and every start of a registered kernel then traps; a change of version
killed before line 72 or 113 lets the next run take one toolchain for another;
bindings whose compilation failed count as cached (`:168`), and a registration
that failed counts as done (`:224`); a change from dev to release mode while
the runtime file says Python stays in Python.

## 4. What is proved

TLAPS checks every theorem and lemma; the only assumptions are the named
ASSUMEs on the constants, which are as weak as naturals, subsets and sequences
(`ConstantsAssumption`, `InputsAssumption`, `CapacityAssumption`,
`CommunicatorAssumption`, `MaxLinesAssumption`, `BoundsAssumption`,
`NoneAssumption`, `PackagesAssumption`). The bounds
appear in guards only, and no theorem fixes one.

*CellExecutionProofs.* `TypeCorrect` is type correctness. `Invariance` is
`[]IInv`, with one step lemma per conjunct: `LockInvariant` (inside LLDB the main
thread holds the lock), `HandlerInvariant` (where a handler can be alive),
`ResultInvariant` (there is a result to report), `SuccessInvariant` (between the
end of a success and its report the process is alive), `ReplyInvariant`
(the status that will be answered agrees with the conclusion) and
`StdoutInvariant` (while `hadStdout` is true of the present cell, its output was
sent or is about to be). The properties
are not inductive without them: `DeadReplNeverSucceeds` speaks of `report` only,
and the death it excludes lies steps before. From `IInv` follow
`HandlerConfined`, `DeadReplSafe` and, as an action property, `NoStreaming`.
`TraceExplained` (`TraceFollowsStdout`) is proved over the log: every step leaves
it alone or appends one message (`LogStep`), and what was sent stays sent; it
needs `HandlerInvariant`, too, as a handler that still has a text to send would
make `hadStdout` a promise only. `OutputOnce` (`ExactlyOnceStdout`) and
`OutputFlushed` (`FlushedAtJoin`) follow the output through its four places. The
properties count (`SentUnits`, `TakenUnits`, `ReadUnits`) instead of concatenating
the log, so that no induction over it is needed: each place holds the units that
follow those of the place before (`InTransit`), and the messages hold the first
`SentUnits` of them once, in order (`PublishedOnce`). One lemma per kind of step
says how far it moves each count (`EmitMoves`, `ReadMoves`, `TakeMoves`,
`SendMoves`); `TextInvariant` is needed because a text that is overwritten before
it is sent would be lost, and `FlushInvariant` follows what was due at the
stop_event through the last round of the handler.

`Refinement` proves `Spec => ImplementsProtocol`, one lemma
per group of actions, each mapping a step to an action of the protocol or to a
stutter. `MessagesOrdered` and `AnswersMatch` (`RepliesAgree`) carry the
protocol's theorems over to the implementation.

*CellProtocolProofs.* `MessageOrder`: in the abstract protocol messages are
ordered by cell, and the concluding message of a cell is its last. The
invariant adds that every message belongs to an earlier cell or the
current one, and that a busy cell has no concluding message yet. `RepliesMatch`
(`AnswersAgree`): the answer to a request agrees with what its cell published,
because an answered cell is never published for again and a concluded one has
published its conclusion (`Answered`).

*WireFormatProofs.* `Invariance` and `WriterInBounds`: for every list of
messages and every initial capacity of at least two words the writer stays in
its buffer. The invariant (`Reserved`) is the reason: after every part there
is a word left for the header of the next message, for which the code makes no
check; it needs that a message has a part.

`Implements` proves `Spec => ImplementsTransfer`: what is sent is the batch,
message by message and byte for byte. The writer and the reader compute
positions independently, in C++ and in Swift, and the property fails as
soon as they differ anywhere, but it speaks of what is sent only. `TransferInv`
makes it inductive: `Located` says that there is a table of positions, one for
each header and each part, with which the layout of the buffer (`Laid`), the
place of the writer or the reader (`Follows`) and the views read so far (`Views`)
all agree. The table is an existentially quantified function, not a recursive
sum of the parts before, so that no induction over the messages is needed: each
step of the writer extends the table by one place (`Recordable`), a move to a
larger buffer keeps it, and the reader walks along it.

*ReplSessionProofs.* `RunsPrepared`, `CodeGivenOnce` and `ProcessKept`, from
`Prepared` (what each step of the initialization has established) and `Fresh`
(what was given or waits to be given is in `read`, and nothing is in both).

*LLDBProcessProofs.* `OneAttempt` (`GlobalsAgree`) from `Attempts`: while
`init_repl_process` runs, the globals that it has made are of the current
attempt, and the others may be of any. The thread is the exception, as nobody
checks it: it may be missing until the initialization has succeeded. That it is
there from then on needs `Threadless`: without a thread the process has ended,
nothing evaluated in it has a value, and the attempt fails. `DescriptionGiven` and
`NothingKept` from `Memory`, which says at every program point which blocks are
allocated; for the trace it needs that no two places of the array hold the same
description, so that freeing one leaves the others. `TraceComplete`
(`TraceShowsSource`) from `Trace`: the frames before `i` that have a source location
are in the array, in order, and nothing runs the process between the check that
it is alive and the trace.

*DisplayPipelineProofs.* `OnceInOrder` and `UnderItsCell` from an order on the
places where a message can be (`Collected`, `Fetched`, `Transferred`): what is
sent is earlier than what is in the batch, and this than what the socket has.
`Parents` relates the shell's parent message to the cell; the properties are
about `sent` alone, which is too late to be inductive. `LostIsReported` adds
where each message is (`Kept`): a batch may be dropped at `Finish` because its
messages are in `sent`, and `addresses` may be overwritten by the trigger because
they are empty then. `NothingLeftBehind` (`SuccessLeavesNothing`), an action
property, follows: `Finish` is the only step that ends a cell with success, and by
`Kept` all that was displayed is in `sent` then.

*InstallScriptProofs.* All properties of the script, from one invariant in seven
parts. `Running` is what a run relies on whatever happens (what is staged is of
its own version, `mv` finds no toolchain where it puts one). The others hold
under the conditions of the properties. `Backed` (no failures): every marker and
every archive stands for a toolchain that is somewhere. `Labelled` (no kills): a
version's toolchain is in one place; it follows the directories through the
swap, step by step, as `TrueLabels` says nothing of the steps between moving one
toolchain away and the next marker. `WholeToolchains`, `SourcesThere`,
`LldbThere` and `KernelThere` (neither): what an undisturbed run has made by each
of its steps, and what later runs find when their markers let them skip a part.
`RunsInstall` (`InstalledAsAsked`), `RunsGoThrough` (`NeverRefuses`),
`LabelsTrue` and `MarkersBacked` follow. `ToolchainsKept` (`NothingLost`), an action
property, needs `Running` only, and so holds with failures and kills together.
The module ends with the kernels that the script leads to, `KernelStartup`:
`LanguageAlternates` from `FilesInStep` (the runtime
file is what the last start made of it, as the script writes it only when there
was none), and `SwiftAfterInstall`, an action property, from `AlwaysSwift` and
`Registered`.

*PackageInstallProofs.* `BuildsKept` (`InstalledStaysBuilt`), `LinksLead`
(`LinksProvide`) and `PlacesStable` (`IdsStable`) from `IInv`, which holds the
module's type invariant and further parts. `IndexTrue`: only the last line of an
index can be empty, and what a folder was built from is what the index says of
it; without it a later installation could be given the folder of an earlier
package. `JobTrue`: from the choice of the folder on, the running installation
works in the folder of its package. `Room`: an index has no more lines than
installations were begun, so that every folder exists. The lemma `LinesOfTidy`
shows that reading such an index moves no package. The proof needs that a file's
name is not the name of a directory (`PackagesAssumption`): this is why the list
is read again every time (`AlwaysRead`).

`WarningsComplete` (`WarnedOfNew`) needs where each modulemap comes from
(`MapsThere`), what the kernel believes to be loaded (`ClangTrue`), and what the
running installation has written so far and has not warned of yet (`JobWarns`); a
modulemap that an earlier, failed attempt wrote is in the disk's list and not in
the kernel's, and this is why the list must not be read again.

The same module ends with the commands of directives, `Subprocesses`.
`BuildShown` (`ShowsBuild`) from `ShownSoFar`: of a build the lines
up to `taken` have been shown, and `inside` says whether the next one is in an
object. `FlagsInForce` (`FlagsAsAsked`) is inductive by itself, with the types; the
proof rests on lemmas on rising sequences of places (`AppendPlace`,
`ConcatPlaces`, `PlacesOfLine`).

TLC finds each inductive invariant true on the instance of its component's run,
too, where it is no property of its own; `cell_safety` keeps it as one. The
exception is `TransferInv`, whose tables of positions are an infinite set.

Model-checked only: liveness (`CellCompletes`, `ExitHappens`, `TransferEnds`,
`CommandEnds`), which is out of the prover's reach, as ENABLED is. Every other
property of the runs is a theorem.

## 5. What is not modelled

- *PythonKit, LLDB headers*: vendored. Of CPython only the lock is modelled, of
  LLDB what `LLDBProcess.cpp` relies on.
- *When ZeroMQ reads a message*: `WireFormat` takes the socket to copy what it is
  given. If ipykernel's IOPub thread sends later, `free` may come first; that is
  decided outside this repository.
- *The environment of the REPL process* (`InitSwift.swift:17`): how many
  characters of a variable are copied is not modelled, the copy is one step.
- *`clear_output`* (`IOHandlers.swift:69-75`): Swift reads the literal
  `"\033[2J"` as a null character and `33[2J`, which is not the terminal's escape
  sequence, so that hardly any output takes this branch.
- *Exits before anything is changed*: an argument that `install_swift.sh:41-44`
  does not know, a `%install` without a product or with a template that is not
  known (`ProcessInstalls.swift:224-231`).
- *Other spellings of a path*: a name stands for itself.
- *Several kernels at once*: `KernelStartup` starts one after the other has
  ended, as Colab's runtime does.
- *A queue of requests without an end*: `cell_liveness` has a bounded number of
  requests, so that it says nothing of a timer that competes with ever new ones.
- *Foundation's file operations* (`copyItem`, `createFile`, the symbolic links)
  are external and atomic: they succeed or fail as a whole.
- *What a Python kernel runs, what IPython does in a shell, and wording*.

Of the repository's 13064 lines of C and C++ all but some 350 are the vendored
LLDB headers: declarations of classes of which a few dozen methods are called,
without a behaviour of their own. The program is `LLDBProcess.cpp`, whose
functions are all modelled except the one that is never called
(`async_interrupt_process`, see `interrupt_spares`), and some 2000 lines of Swift
and shell. A share of the C lines can therefore not grow with the model beyond
that file and the two enumerations that `LLDBProcess` uses; of the Swift and the
shell code every part that keeps state is in a module.

## 6. Plan

Done: the two abstract specifications with their refinements, a module for every
part of the program that keeps state, and proofs for all of the detailed ones:
every safety and action property and both refinements.

To prove more: what `DisplayPipeline` takes from `Transfer`, as a refinement of
its own (each batch behaves like a `Transfer`); that the processes of
`LLDBProcess` and the sessions of `ReplSession` agree on what a failed
initialization leaves.

To extend the model: `ReplSession` inside `CellExecution`, so that a failed
initialization and a late exit timer meet; `Subprocesses` with an interrupt,
which reaches the child before the kernel.
