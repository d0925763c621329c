--------------------------- MODULE InstallScript ---------------------------
(***************************************************************************)
(* install_swift.sh, run again and again on one machine: to install        *)
(* another toolchain, to rebuild in dev mode, after a failure.             *)
(*                                                                         *)
(* The script does not stop at a command that fails (it has no "set -e"),  *)
(* and it is killed when the user stops its cell.  What remains is the     *)
(* disk: the toolchains, the sources, the libraries, and the files of      *)
(* /opt/swift/progress that say what the next run may take for done.       *)
(***************************************************************************)
EXTENDS Naturals, Sequences

CONSTANTS
    Versions,      \* of Swift
    None,          \* no file, no directory
    MaxRuns,       \* bound on the runs of the script
    MaxKills,      \* bound on the runs that are killed
    MaxFailures    \* bound on the downloads, compilations that fail

ASSUME NoneAssumption == None \notin Versions

VARIABLES
    script,   \* the running script: next command, $version, $mode, the cache
    disk,     \* what is under /opt/swift
    last,     \* history: the last run that ended
    spent     \* history: runs, kills and failures so far

vars == <<script, disk, last, spent>>

Modes == {"release", "dev"}

(* A toolchain, which may have been unpacked in part. *)
Toolchain(v, whole) == [of |-> v, whole |-> whole]

(* A directory of toolchains: its own contents, and then what a later mv   *)
(* put into it because it was there.                                       *)
NoDirectory == <<>>

(* The directories under /opt/swift, made one after the other; the file    *)
(* runtime is the last.                                                    *)
Layout == <<"swift", "build", "include", "lib", "packages", "progress",
            "runtime">>
Has(d)  == \E n \in 1..disk.made : Layout[n] = d

(* A failed download or compilation, within the bound. *)
MayFail ==
    /\ spent.failures < MaxFailures
    /\ spent' = [spent EXCEPT !.failures = @ + 1]

Go(pc) == script' = [script EXCEPT !.pc = pc]
At(pc) == script.pc = pc

(* echo $version > progress/<marker>: needs the directory. *)
Marked(old) == IF Has("progress") THEN script.version ELSE old

(* mv src dst, for directories: into dst when it exists; it is refused     *)
(* when dst already has a directory of that name in it.                    *)
Moves(src, dst) == src # NoDirectory /\ Len(dst) < 2

Init ==
    /\ script = [pc |-> "idle", version |-> None, mode |-> "release",
                 cached |-> FALSE]
    /\ disk = [made |-> 0, swiftVersion |-> None, toolchain |-> NoDirectory,
               archive |-> [v \in Versions |-> NoDirectory],
               staged |-> [v \in Versions |-> NoDirectory],
               cloned |-> FALSE, sources |-> FALSE, include |-> FALSE,
               downloadedColab |-> FALSE,
               lldbVersion |-> None, lldb |-> None, lldbLink |-> "none",
               kernelVersion |-> None, kernel |-> None, kernelLink |-> "none",
               markedRegistered |-> FALSE, registered |-> FALSE]
    /\ last = [outcome |-> "none", version |-> None]
    /\ spent = [runs |-> 0, kills |-> 0, failures |-> 0]

-----------------------------------------------------------------------------
(* Lines 4-89: arguments, directories, and which toolchain there is. *)

Start ==
    /\ At("idle") /\ spent.runs < MaxRuns
    /\ \E v \in Versions, m \in Modes :
          script' = [pc |-> IF disk.made = 0 THEN "layout" ELSE "decide",
                     version |-> v, mode |-> m, cached |-> FALSE]
    /\ spent' = [spent EXCEPT !.runs = @ + 1]
    /\ UNCHANGED <<disk, last>>

MakeLayout ==
    /\ At("layout")
    /\ disk' = [disk EXCEPT !.made = @ + 1]
    /\ Go(IF disk.made + 1 = Len(Layout) THEN "decide" ELSE "layout")
    /\ UNCHANGED <<last, spent>>

(* using_cached_swift, by what progress/swift-version says. *)
Decide ==
    /\ At("decide")
    /\ LET old   == disk.swiftVersion
           known == disk.archive[script.version] # NoDirectory
       IN script' = [script EXCEPT
             !.cached = old # None /\ (old = script.version \/ known),
             !.pc = IF old = None \/ old = script.version THEN "check"
                    ELSE IF known THEN "swapOut" ELSE "moveAway"]
    /\ UNCHANGED <<disk, last, spent>>

(* mv toolchain toolchain-$old_version *)
PutAway(next) ==
    /\ LET old == disk.swiftVersion
       IN disk' = IF Moves(disk.toolchain, disk.archive[old])
                  THEN [disk EXCEPT !.archive[old] = @ \o disk.toolchain,
                                    !.toolchain = NoDirectory]
                  ELSE disk
    /\ Go(next)
    /\ UNCHANGED <<last, spent>>

(* Faulty: the old toolchain is removed. *)
SwapOut_Removes ==
    /\ At("swapOut")
    /\ disk' = [disk EXCEPT !.toolchain = NoDirectory]
    /\ Go("swapIn")
    /\ UNCHANGED <<last, spent>>

SwapOut == At("swapOut") /\ PutAway("swapIn")

(* Faulty: the old toolchain stays where it is. *)
MoveAway_Stays ==
    /\ At("moveAway")
    /\ Go("check")
    /\ UNCHANGED <<disk, last, spent>>

(* Faulty: the old toolchain gets the name of the new one. *)
MoveAway_WrongName ==
    /\ At("moveAway")
    /\ disk' = [disk EXCEPT !.archive[script.version] = @ \o disk.toolchain,
                            !.toolchain = NoDirectory]
    /\ Go("check")
    /\ UNCHANGED <<last, spent>>

MoveAway == At("moveAway") /\ PutAway("check")

(* mv toolchain-$version toolchain *)
SwapIn ==
    /\ At("swapIn")
    /\ LET new == script.version
       IN disk' = IF Moves(disk.archive[new], disk.toolchain)
                  THEN [disk EXCEPT !.toolchain = @ \o disk.archive[new],
                                    !.archive[new] = NoDirectory]
                  ELSE disk
    /\ Go("swapMark")
    /\ UNCHANGED <<last, spent>>

SwapMark ==
    /\ At("swapMark")
    /\ disk' = [disk EXCEPT !.swiftVersion = Marked(@)]
    /\ Go("check")
    /\ UNCHANGED <<last, spent>>

(* The script's assertions: exit -1. *)
Exit ==
    /\ At("check")
    /\ script.cached # (disk.toolchain # NoDirectory)
    /\ Go("idle")
    /\ last' = [outcome |-> "exit", version |-> script.version]
    /\ UNCHANGED <<disk, spent>>

(* Faulty: the version is marked before its toolchain is there. *)
Check_MarksFirst ==
    /\ At("check")
    /\ script.cached = (disk.toolchain # NoDirectory)
    /\ disk' = [disk EXCEPT !.swiftVersion = Marked(@)]
    /\ Go(IF script.cached THEN "colab" ELSE "fetch")
    /\ UNCHANGED <<last, spent>>

Check ==
    /\ At("check")
    /\ script.cached = (disk.toolchain # NoDirectory)
    /\ Go(IF script.cached THEN "colab" ELSE "fetch")
    /\ UNCHANGED <<disk, last, spent>>

-----------------------------------------------------------------------------
(* Lines 91-143: the toolchain and the sources of Swift-Colab. *)

Stage(whole) ==
    disk' = [disk EXCEPT !.staged[script.version] =
                            <<Toolchain(script.version, whole)>>]

(* curl | tar: all, a part or nothing. *)
Fetch ==
    /\ At("fetch")
    /\ \/ Stage(TRUE) /\ UNCHANGED spent
       \/ /\ MayFail
          /\ Stage(FALSE) \/ UNCHANGED disk
    /\ Go("place")
    /\ UNCHANGED last

(* mv $release-ubuntu18.04 toolchain; Check saw to it that there is none. *)
Place ==
    /\ At("place")
    /\ disk' = [disk EXCEPT !.toolchain = disk.staged[script.version],
                            !.staged[script.version] = NoDirectory]
    /\ Go("markSwift")
    /\ UNCHANGED <<last, spent>>

MarkSwift ==
    /\ At("markSwift")
    /\ disk' = [disk EXCEPT !.swiftVersion = Marked(@)]
    /\ Go("colab")
    /\ UNCHANGED <<last, spent>>

(* rm -r swift-colab takes the built bindings with it. *)
Colab ==
    /\ At("colab")
    /\ IF script.mode = "dev" \/ ~disk.downloadedColab
       THEN /\ disk' = [disk EXCEPT !.sources = FALSE, !.lldb = None]
            /\ Go("clone")
       ELSE UNCHANGED disk /\ Go("lldb")
    /\ UNCHANGED <<last, spent>>

(* git clone fails on what an earlier run left, which serves as well. *)
Clone ==
    /\ At("clone")
    /\ \/ disk' = [disk EXCEPT !.cloned = TRUE] /\ UNCHANGED spent
       \/ UNCHANGED disk /\ MayFail
    /\ Go("placeColab")
    /\ UNCHANGED last

PlaceColab ==
    /\ At("placeColab")
    /\ disk' = [disk EXCEPT !.sources = disk.cloned, !.cloned = FALSE]
    /\ Go("include")
    /\ UNCHANGED <<last, spent>>

Include ==
    /\ At("include")
    /\ disk' = [disk EXCEPT !.include = @ \/ (disk.sources /\ Has("include"))]
    /\ Go("markColab")
    /\ UNCHANGED <<last, spent>>

MarkColab ==
    /\ At("markColab")
    /\ disk' = [disk EXCEPT !.downloadedColab = Has("progress")]
    /\ Go("lldb")
    /\ UNCHANGED <<last, spent>>

-----------------------------------------------------------------------------
(* Lines 145-234: the two libraries and the registration. *)

(* The version a library is built for, given sources and a whole toolchain. *)
CanBuild ==
    /\ disk.sources /\ disk.toolchain # NoDirectory
    /\ disk.toolchain[1].whole

Rebuilds(marker) ==
    script.mode = "dev" \/ marker = None \/ marker # script.version

(* ln -s "$(pwd)/...", made once: without the directory that cd was to go  *)
(* to, pwd is another one.                                                 *)
Linked(old, there) ==
    IF old # "none" \/ ~Has("lib") THEN old
    ELSE IF there THEN "right" ELSE "wrong"

(* Faulty: bindings of any version will do. *)
Lldb_AnyVersion ==
    /\ At("lldb")
    /\ Go(IF script.mode = "dev" \/ disk.lldbVersion = None
          THEN "clang" ELSE "kernel")
    /\ UNCHANGED <<disk, last, spent>>

Lldb ==
    /\ At("lldb")
    /\ Go(IF Rebuilds(disk.lldbVersion) THEN "clang" ELSE "kernel")
    /\ UNCHANGED <<disk, last, spent>>

Clang ==
    /\ At("clang")
    /\ \/ /\ CanBuild /\ UNCHANGED spent
          /\ disk' = [disk EXCEPT !.lldb = disk.toolchain[1].of]
       \/ ~CanBuild /\ UNCHANGED <<disk, spent>>
       \/ CanBuild /\ UNCHANGED disk /\ MayFail
    /\ Go("linkLldb")
    /\ UNCHANGED last

LinkLldb ==
    /\ At("linkLldb")
    /\ disk' = [disk EXCEPT !.lldbLink = Linked(@, disk.sources)]
    /\ Go("markLldb")
    /\ UNCHANGED <<last, spent>>

MarkLldb ==
    /\ At("markLldb")
    /\ disk' = [disk EXCEPT !.lldbVersion = Marked(@)]
    /\ Go("kernel")
    /\ UNCHANGED <<last, spent>>

(* The old build of JupyterKernel is removed with its sources. *)
Kernel ==
    /\ At("kernel")
    /\ IF Rebuilds(disk.kernelVersion)
       THEN disk' = [disk EXCEPT !.kernel = None] /\ Go("swiftc")
       ELSE UNCHANGED disk /\ Go("register")
    /\ UNCHANGED <<last, spent>>

Swiftc ==
    /\ At("swiftc")
    /\ LET builds == CanBuild /\ Has("packages")
       IN \/ /\ builds /\ UNCHANGED spent
             /\ disk' = [disk EXCEPT !.kernel = disk.toolchain[1].of]
          \/ ~builds /\ UNCHANGED <<disk, spent>>
          \/ builds /\ UNCHANGED disk /\ MayFail
    /\ Go("linkKernel")
    /\ UNCHANGED last

LinkKernel ==
    /\ At("linkKernel")
    /\ disk' = [disk EXCEPT
                  !.kernelLink = Linked(@, disk.sources /\ Has("packages"))]
    /\ Go("markKernel")
    /\ UNCHANGED <<last, spent>>

MarkKernel ==
    /\ At("markKernel")
    /\ disk' = [disk EXCEPT !.kernelVersion = Marked(@)]
    /\ Go("register")
    /\ UNCHANGED <<last, spent>>

(* swift register_kernel.swift loads the library of the kernel. *)
Register ==
    /\ At("register")
    /\ IF script.mode = "dev" \/ ~disk.markedRegistered
       THEN /\ disk' = [disk EXCEPT !.registered =
                  \/ @
                  \/ /\ disk.toolchain # NoDirectory /\ disk.toolchain[1].whole
                     /\ disk.kernelLink = "right" /\ disk.kernel # None]
            /\ Go("markRegister")
       ELSE UNCHANGED disk /\ Go("end")
    /\ UNCHANGED <<last, spent>>

MarkRegister ==
    /\ At("markRegister")
    /\ disk' = [disk EXCEPT !.markedRegistered = Has("progress")]
    /\ Go("end")
    /\ UNCHANGED <<last, spent>>

End ==
    /\ At("end")
    /\ Go("idle")
    /\ last' = [outcome |-> "done", version |-> script.version]
    /\ UNCHANGED <<disk, spent>>

(* The user stops the cell; what tar had unpacked stays. *)
Kill ==
    /\ ~At("idle") /\ spent.kills < MaxKills
    /\ spent' = [spent EXCEPT !.kills = @ + 1]
    /\ Go("idle")
    /\ last' = [outcome |-> "killed", version |-> script.version]
    /\ \/ UNCHANGED disk
       \/ At("fetch") /\ Stage(FALSE)

-----------------------------------------------------------------------------
Next ==
    \/ Start \/ MakeLayout \/ Decide \/ SwapOut \/ MoveAway \/ SwapIn
    \/ SwapMark \/ Exit \/ Check
    \/ Fetch \/ Place \/ MarkSwift
    \/ Colab \/ Clone \/ PlaceColab \/ Include \/ MarkColab
    \/ Lldb \/ Clang \/ LinkLldb \/ MarkLldb
    \/ Kernel \/ Swiftc \/ LinkKernel \/ MarkKernel
    \/ Register \/ MarkRegister \/ End \/ Kill

Spec == Init /\ [][Next]_vars

-----------------------------------------------------------------------------
(* Properties. *)

(* No command has failed and no run was killed. *)
Undisturbed == spent.kills = 0 /\ spent.failures = 0

(* As long as no command fails and no run is killed, every run ends and    *)
(* leaves the toolchain that was asked for, both libraries built for it    *)
(* and linked, and the kernel registered, whatever the earlier runs were   *)
(* (install_swift.sh:63-224).                                              *)
InstalledAsAsked ==
    Undisturbed /\ last.outcome = "done" /\ At("idle") =>
        /\ disk.toolchain = <<Toolchain(last.version, TRUE)>>
        /\ disk.lldb = last.version /\ disk.lldbLink = "right"
        /\ disk.kernel = last.version /\ disk.kernelLink = "right"
        /\ disk.include /\ disk.registered

(* Until then, switching between versions never trips the script's         *)
(* assertions (install_swift.sh:81-89).                                    *)
NeverRefuses == Undisturbed => last.outcome # "exit"

(* Failures alone never put a toolchain under the name of another: an      *)
(* archived toolchain is of the version its directory names, and between   *)
(* runs the installed one is of the version that swift-version names       *)
(* (install_swift.sh:63-79, 109-113).                                      *)
TrueLabels ==
    spent.kills = 0 =>
        /\ \A v \in Versions :
              disk.archive[v] # NoDirectory => disk.archive[v][1].of = v
        /\ At("idle") /\ disk.toolchain # NoDirectory =>
              disk.toolchain[1].of = disk.swiftVersion

(* Failures and kills together never cost a toolchain that was installed:  *)
(* it stays in its directory, in the archive, or inside a directory that   *)
(* it was moved into (install_swift.sh:70-75, 111).                        *)
Kept ==
    LET In(d) == {d[n].of : n \in {k \in DOMAIN d : d[k].whole}}
    IN In(disk.toolchain) \cup UNION {In(disk.archive[v]) : v \in Versions}
NothingLost == [][Kept \subseteq Kept']_vars

(* As long as nothing fails, a killed run never leaves a swift-version     *)
(* that names a toolchain which is not there, whole, in its place or in    *)
(* the archive: the marker is written after the toolchain, and it changes  *)
(* after the old one was put away (install_swift.sh:68-76, 109-113).       *)
MarkerBacked ==
    spent.failures = 0 /\ disk.swiftVersion # None =>
        disk.swiftVersion \in Kept

-----------------------------------------------------------------------------
(* What makes the properties inductive. *)

PCs == {"idle", "layout", "decide", "swapOut", "moveAway", "swapIn", "swapMark",
        "check", "fetch", "place", "markSwift", "colab", "clone", "placeColab",
        "include", "markColab", "lldb", "clang", "linkLldb", "markLldb",
        "kernel", "swiftc", "linkKernel", "markKernel", "register",
        "markRegister", "end"}

Choosing    == {"swapOut", "moveAway"}
Swapping    == {"swapIn", "swapMark"}
Downloading == {"fetch", "place", "markSwift"}
Sourcing    == {"clone", "placeColab", "include", "markColab"}
BuildLldb   == {"clang", "linkLldb", "markLldb"}
BuildKernel == {"swiftc", "linkKernel", "markKernel"}
Finishing   == {"register", "markRegister", "end"}

(* The script is past the toolchain; past the sources. *)
Libraries == {"lldb", "kernel"} \cup BuildLldb \cup BuildKernel \cup Finishing
Placed    == {"colab"} \cup Sourcing \cup Libraries

(* The script is not about to change the toolchain. *)
Settled == {"idle", "layout", "decide"} \cup Choosing \cup Placed

Scripts == [pc : PCs, version : Versions \cup {None}, mode : Modes,
            cached : BOOLEAN]

Directories == Seq([of : Versions, whole : BOOLEAN])
Files       == Versions \cup {None}
Links       == {"none", "right", "wrong"}

Disks == [made : 0..Len(Layout), swiftVersion : Files, toolchain : Directories,
          archive : [Versions -> Directories],
          staged : [Versions -> Directories],
          cloned : BOOLEAN, sources : BOOLEAN, include : BOOLEAN,
          downloadedColab : BOOLEAN,
          lldbVersion : Files, lldb : Files, lldbLink : Links,
          kernelVersion : Files, kernel : Files, kernelLink : Links,
          markedRegistered : BOOLEAN, registered : BOOLEAN]

TypeOK ==
    /\ script \in Scripts
    /\ disk \in Disks
    /\ last \in [outcome : {"none", "exit", "done", "killed"}, version : Files]
    /\ spent \in [runs : Nat, kills : Nat, failures : Nat]

(* What the steps of a run rely on, whatever fails or is killed. *)
Running ==
    /\ ~At("idle") => script.version \in Versions
    /\ At("layout") => disk.made < Len(Layout)
    /\ script.pc \in Choosing => disk.swiftVersion # None
    /\ script.pc \in {"fetch", "place"} => disk.toolchain = NoDirectory
    /\ \A v \in Versions : disk.staged[v] # NoDirectory =>
          \E whole \in BOOLEAN : disk.staged[v] = <<Toolchain(v, whole)>>

(* While nothing fails, every marker and every archive stands for a        *)
(* toolchain that is kept somewhere.                                       *)
Backed ==
    spent.failures = 0 =>
        /\ disk.swiftVersion # None => disk.swiftVersion \in Kept
        /\ \A v \in Versions : disk.archive[v] # NoDirectory => v \in Kept
        /\ At("place") =>
              disk.staged[script.version] = <<Toolchain(script.version, TRUE)>>
        /\ script.pc \in {"swapOut", "markSwift"} \cup Swapping =>
              script.version \in Kept

(* While nothing is killed, a version's toolchain is in one place, and the *)
(* installed one is the marker's.                                          *)
Labelled ==
    spent.kills = 0 =>
        /\ At("layout") \/ disk.made \in {0, Len(Layout)}
        /\ script.pc \notin {"idle", "layout"} => disk.made = Len(Layout)
        /\ \A v \in Versions : disk.archive[v] # NoDirectory =>
              Len(disk.archive[v]) = 1 /\ disk.archive[v][1].of = v
        /\ Len(disk.toolchain) <= 1
        /\ disk.swiftVersion = None =>
              \A v \in Versions : disk.archive[v] = NoDirectory
        /\ script.pc \in Settled \/ (At("check") /\ script.cached) =>
              /\ disk.toolchain # NoDirectory =>
                    /\ disk.swiftVersion # None
                    /\ disk.toolchain[1].of = disk.swiftVersion
              /\ disk.swiftVersion # None =>
                    disk.archive[disk.swiftVersion] = NoDirectory
        /\ script.pc \in Choosing => disk.swiftVersion # script.version
        /\ script.pc \in {"swapOut"} \cup Swapping => script.cached
        /\ At("moveAway") => ~script.cached
        /\ script.pc \in {"swapOut", "swapIn"} =>
              disk.archive[script.version] # NoDirectory
        /\ script.pc \in {"moveAway", "check", "swapMark"} \cup Downloading =>
              disk.archive[script.version] = NoDirectory
        /\ At("swapIn") \/ (At("check") /\ ~script.cached) =>
              disk.toolchain = NoDirectory
        /\ At("check") /\ script.cached => disk.swiftVersion = script.version
        /\ At("swapMark") => disk.toolchain # NoDirectory
        /\ script.pc \in {"swapMark", "markSwift"}
              /\ disk.toolchain # NoDirectory =>
                    disk.toolchain[1].of = script.version

(* Without failures and kills the toolchains are whole, ... *)
WholeToolchains ==
    Undisturbed =>
        /\ last.outcome \in {"none", "done"}
        /\ \A v \in Versions : disk.archive[v] # NoDirectory =>
              disk.archive[v] = <<Toolchain(v, TRUE)>>
        /\ script.pc \in Settled /\ disk.swiftVersion # None =>
              disk.toolchain = <<Toolchain(disk.swiftVersion, TRUE)>>
        /\ \/ script.pc \in {"swapMark", "markSwift"} \cup Placed
           \/ At("check") /\ script.cached
           => disk.toolchain = <<Toolchain(script.version, TRUE)>>
        /\ script.pc \in Placed => disk.swiftVersion = script.version

(* ... the sources are there, ... *)
SourcesThere ==
    Undisturbed =>
        /\ disk.downloadedColab /\ script.pc \notin {"clone", "placeColab"} =>
              disk.sources
        /\ disk.downloadedColab => disk.include
        /\ At("placeColab") => disk.cloned
        /\ script.pc \in {"include", "markColab"} \cup Libraries => disk.sources
        /\ At("markColab") => disk.include
        /\ script.pc \in Libraries => disk.downloadedColab
        /\ disk.lldbVersion # None => disk.downloadedColab

(* ... and so are the libraries that the markers name. *)
LldbThere ==
    Undisturbed =>
        /\ disk.lldbLink # "wrong"
        /\ \/ script.pc \in {"lldb"} \cup Sourcing /\ script.mode = "dev"
           \/ script.pc \in BuildLldb
           \/ disk.lldbVersion # None =>
                 disk.lldb = disk.lldbVersion /\ disk.lldbLink = "right"
        /\ script.pc \in {"linkLldb", "markLldb", "kernel"} \cup BuildKernel
                         \cup Finishing => disk.lldb = script.version
        /\ script.pc \in {"markLldb", "kernel"} \cup BuildKernel \cup Finishing =>
              disk.lldbLink = "right"

KernelThere ==
    Undisturbed =>
        /\ disk.kernelLink # "wrong"
        /\ script.pc \notin BuildKernel /\ disk.kernelVersion # None =>
              disk.kernel = disk.kernelVersion /\ disk.kernelLink = "right"
        /\ script.pc \in {"linkKernel", "markKernel"} \cup Finishing =>
              disk.kernel = script.version
        /\ script.pc \in {"markKernel"} \cup Finishing =>
              disk.kernelLink = "right"
        /\ disk.markedRegistered \/ script.pc \in {"markRegister", "end"} =>
              disk.registered

IInv ==
    /\ TypeOK /\ Running /\ Backed /\ Labelled
    /\ WholeToolchains /\ SourcesThere /\ LldbThere /\ KernelThere
    /\ InstalledAsAsked

=============================================================================
