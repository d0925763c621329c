------------------------ MODULE InstallScriptProofs ------------------------
(***************************************************************************)
(* Proofs about InstallScript: for every set of versions and every number  *)
(* of runs, failures and kills.  The last part is about KernelStartup, the *)
(* kernels that an installation leads to.                                  *)
(***************************************************************************)
EXTENDS InstallScript, KernelStartup, SequenceTheorems, TLAPS

-----------------------------------------------------------------------------
(* Types. *)

LEMMA InitType == Init => TypeOK
<1> SUFFICES ASSUME Init PROVE TypeOK
  OBVIOUS
<1>1. NoDirectory \in Directories
  BY DEF Directories, NoDirectory
<1>2. disk \in Disks
  BY <1>1 DEF Init, Disks, Files, Links, Layout
<1>3. script \in Scripts
  BY DEF Init, Scripts, PCs, Modes
<1> QED
  BY <1>2, <1>3 DEF Init, TypeOK, Files

LEMMA ToolchainType ==
    ASSUME NEW v \in Versions, NEW whole \in BOOLEAN
    PROVE  /\ Toolchain(v, whole) \in [of : Versions, whole : BOOLEAN]
           /\ <<Toolchain(v, whole)>> \in Directories
BY DEF Toolchain, Directories

LEMMA GoType ==
    ASSUME TypeOK, NEW to \in PCs, Go(to) PROVE script' \in Scripts
BY DEF TypeOK, Scripts, Go

(* A directory of toolchains is replaced by another one. *)
LEMMA MoveType ==
    ASSUME TypeOK, NEW d \in Directories, NEW e \in Directories
    PROVE  d \o e \in Directories /\ NoDirectory \in Directories
BY DEF Directories, NoDirectory

LEMMA ArchiveType ==
    ASSUME TypeOK
    PROVE  /\ disk.toolchain \in Directories
           /\ \A v \in Versions : /\ disk.archive[v] \in Directories
                                 /\ disk.staged[v] \in Directories
BY DEF TypeOK, Disks

LEMMA PutAwayType ==
    ASSUME TypeOK, disk.swiftVersion \in Versions, NEW to \in PCs, PutAway(to)
    PROVE  TypeOK'
<1>1. disk' \in Disks
  <2> DEFINE old == disk.swiftVersion
  <2>1. disk.archive[old] \o disk.toolchain \in Directories
    BY ArchiveType, MoveType
  <2>2. CASE Moves(disk.toolchain, disk.archive[old])
    <3>1. disk' = [disk EXCEPT !.archive[old] = @ \o disk.toolchain,
                              !.toolchain = NoDirectory]
      BY <2>2 DEF PutAway
    <3> QED
      BY <2>1, <3>1, MoveType, ArchiveType DEF TypeOK, Disks
  <2>3. CASE ~Moves(disk.toolchain, disk.archive[old])
    BY <2>3 DEF PutAway, TypeOK
  <2> QED
    BY <2>2, <2>3
<1> QED
  BY <1>1, GoType DEF PutAway, TypeOK

LEMMA BooleanHas == ASSUME NEW d PROVE Has(d) \in BOOLEAN
BY DEF Has

LEMMA FirstType ==
    ASSUME NEW d \in Directories, d # NoDirectory
    PROVE  /\ Len(d) \in Nat \ {0}
           /\ d[1] \in [of : Versions, whole : BOOLEAN]
<1>1. Len(d) \in Nat \ {0}
  BY EmptySeq DEF Directories, NoDirectory
<1>2. 1 \in 1..Len(d)
  BY <1>1
<1> QED
  BY <1>1, <1>2, ElementOfSeq DEF Directories

LEMMA SourcesType ==
    ASSUME TypeOK
    PROVE  /\ [disk EXCEPT !.cloned = TRUE] \in Disks
           /\ [disk EXCEPT !.sources = FALSE, !.lldb = None] \in Disks
BY ZenonT(40) DEF TypeOK, Disks, Files

LEMMA CanBuildType ==
    ASSUME TypeOK, CanBuild PROVE disk.toolchain[1].of \in Versions
BY ArchiveType, FirstType DEF CanBuild

LEMMA DecisionType ==
    ASSUME script \in Scripts, NEW cached \in BOOLEAN, NEW to \in PCs
    PROVE  [script EXCEPT !.cached = cached, !.pc = to] \in Scripts
BY DEF Scripts

LEMMA TypeStep == TypeOK /\ Running /\ [Next]_vars => TypeOK'
<1> SUFFICES ASSUME TypeOK, Running, [Next]_vars PROVE TypeOK'
  OBVIOUS
<1> USE DEF TypeOK, Running, Scripts, Disks, Files, Links, PCs, At, Go
<1>1. CASE Start
  BY <1>1 DEF Start
<1>2. CASE MakeLayout
  BY <1>2 DEF MakeLayout, Layout
<1>3. CASE Decide
  <2> DEFINE old   == disk.swiftVersion
             known == disk.archive[script.version] # NoDirectory
             next  == IF old = None \/ old = script.version THEN "check"
                      ELSE IF known THEN "swapOut" ELSE "moveAway"
  <2>1. PICK c \in BOOLEAN : script' = [script EXCEPT !.cached = c, !.pc = next]
    BY <1>3 DEF Decide
  <2>2. next \in PCs
    OBVIOUS
  <2> HIDE DEF next, PCs, Scripts
  <2>3. script' \in Scripts
    BY <2>1, <2>2, DecisionType DEF TypeOK
  <2> QED
    BY <1>3, <2>3 DEF Decide, TypeOK
<1>4. CASE SwapOut \/ MoveAway
  <2>1. disk.swiftVersion \in Versions
    BY <1>4 DEF SwapOut, MoveAway, Choosing
  <2> QED
    BY <1>4, <2>1, PutAwayType DEF SwapOut, MoveAway
<1>6. CASE SwapIn
  BY ZenonT(40), <1>6, MoveType, ArchiveType DEF SwapIn, Moves
<1>7. CASE SwapMark
  BY <1>7 DEF SwapMark, Marked
<1>8. CASE Exit
  BY <1>8 DEF Exit
<1>9. CASE Check
  BY <1>9 DEF Check
<1>10. CASE Fetch
  <2>1. disk' \in Disks
    <3>1. CASE UNCHANGED disk
      BY <3>1
    <3>2. ASSUME NEW whole \in BOOLEAN, Stage(whole) PROVE disk' \in Disks
      BY <1>10, <3>2, ToolchainType DEF Fetch, Stage
    <3> QED
      BY <1>10, <3>1, <3>2 DEF Fetch
  <2>2. spent' \in [runs : Nat, kills : Nat, failures : Nat]
    <3>1. UNCHANGED spent \/ MayFail
      BY <1>10 DEF Fetch
    <3> QED
      BY <3>1 DEF MayFail
  <2> QED
    BY <1>10, <2>1, <2>2 DEF Fetch
<1>11. CASE Place
  BY ZenonT(40), <1>11, MoveType, ArchiveType DEF Place
<1>12. CASE MarkSwift
  BY <1>12 DEF MarkSwift, Marked
<1>13. CASE Colab
  <2>1. CASE script.mode = "dev" \/ ~disk.downloadedColab
    <3>1. disk' \in Disks
      BY <1>13, <2>1, SourcesType DEF Colab
    <3> QED
      BY <1>13, <2>1, <3>1 DEF Colab
  <2>2. CASE ~(script.mode = "dev" \/ ~disk.downloadedColab)
    BY <1>13, <2>2 DEF Colab
  <2> QED
    BY <2>1, <2>2
<1>14. CASE Clone
  <2>1. disk' \in Disks
    <3>1. disk' = [disk EXCEPT !.cloned = TRUE] \/ UNCHANGED disk
      BY <1>14 DEF Clone
    <3> QED
      BY <3>1, SourcesType
  <2>2. spent' \in [runs : Nat, kills : Nat, failures : Nat]
    BY <1>14 DEF Clone, MayFail
  <2> QED
    BY <1>14, <2>1, <2>2 DEF Clone
<1>15. CASE PlaceColab
  BY ZenonT(40), <1>15 DEF PlaceColab
<1>16. CASE Include
  BY <1>16 DEF Include, Has
<1>17. CASE MarkColab
  BY <1>17, BooleanHas DEF MarkColab
<1>18. CASE Lldb
  BY <1>18 DEF Lldb
<1>19. CASE Clang
  <2>1. disk' \in Disks
    BY <1>19, CanBuildType DEF Clang
  <2>2. spent' \in [runs : Nat, kills : Nat, failures : Nat]
    BY <1>19 DEF Clang, MayFail
  <2> QED
    BY <1>19, <2>1, <2>2 DEF Clang
<1>20. CASE LinkLldb
  BY <1>20 DEF LinkLldb, Linked
<1>21. CASE MarkLldb
  BY <1>21 DEF MarkLldb, Marked
<1>22. CASE Kernel
  BY <1>22 DEF Kernel
<1>23. CASE Swiftc
  <2>1. disk' \in Disks
    BY <1>23, CanBuildType DEF Swiftc
  <2>2. spent' \in [runs : Nat, kills : Nat, failures : Nat]
    BY <1>23 DEF Swiftc, MayFail
  <2> QED
    BY <1>23, <2>1, <2>2 DEF Swiftc
<1>24. CASE LinkKernel
  BY <1>24 DEF LinkKernel, Linked
<1>25. CASE MarkKernel
  BY <1>25 DEF MarkKernel, Marked
<1>26. CASE Register
  <2>1. CASE UNCHANGED disk
    BY <1>26, <2>1 DEF Register
  <2>2. CASE ~UNCHANGED disk
    <3>1. PICK b \in BOOLEAN : disk' = [disk EXCEPT !.registered = b]
      BY <1>26, <2>2 DEF Register
    <3> QED
      BY <1>26, <3>1 DEF Register
  <2> QED
    BY <2>1, <2>2
<1>27. CASE MarkRegister
  BY <1>27, BooleanHas DEF MarkRegister
<1>28. CASE End
  BY <1>28 DEF End
<1>29. CASE Kill
  <2>1. disk' \in Disks
    <3>1. CASE UNCHANGED disk
      BY <3>1
    <3>2. CASE At("fetch") /\ Stage(FALSE)
      BY <3>2, ToolchainType DEF Stage
    <3> QED
      BY <1>29, <3>1, <3>2 DEF Kill
  <2> QED
    BY <1>29, <2>1 DEF Kill
<1>30. CASE UNCHANGED vars
  BY <1>30 DEF vars
<1> QED
  BY <1>1, <1>2, <1>3, <1>4, <1>6, <1>7, <1>8, <1>9, <1>10, <1>11, <1>12,
     <1>13, <1>14, <1>15, <1>16, <1>17, <1>18, <1>19, <1>20, <1>21, <1>22,
     <1>23, <1>24, <1>25, <1>26, <1>27, <1>28, <1>29, <1>30 DEF Next
-----------------------------------------------------------------------------
(* What a run relies on. *)

(* The steps that move a toolchain. *)
Moving == SwapOut \/ MoveAway \/ SwapIn \/ Place

LEMMA NotMoving ==
    ASSUME TypeOK, [Next]_vars, ~Moving
    PROVE  disk'.toolchain = disk.toolchain /\ disk'.archive = disk.archive
<1> USE DEF TypeOK, Disks
<1>1. CASE UNCHANGED disk
  BY <1>1
<1>2. CASE MakeLayout \/ SwapMark \/ MarkSwift
  BY <1>2 DEF MakeLayout, SwapMark, MarkSwift
<1>3. CASE Fetch \/ Kill
  BY <1>3 DEF Fetch, Kill, Stage
<1>4. CASE Colab \/ Clone \/ PlaceColab \/ Include \/ MarkColab
  BY ZenonT(40), <1>4 DEF Colab, Clone, PlaceColab, Include, MarkColab
<1>5. CASE Clang \/ LinkLldb \/ MarkLldb
  BY <1>5 DEF Clang, LinkLldb, MarkLldb
<1>6. CASE Kernel \/ Swiftc \/ LinkKernel \/ MarkKernel
  BY <1>6 DEF Kernel, Swiftc, LinkKernel, MarkKernel
<1>7. CASE Register \/ MarkRegister
  BY <1>7 DEF Register, MarkRegister
<1>8. CASE Start \/ Decide \/ Exit \/ Check \/ Lldb \/ End
  BY <1>8 DEF Start, Decide, Exit, Check, Lldb, End
<1> QED
  BY <1>1, <1>2, <1>3, <1>4, <1>5, <1>6, <1>7, <1>8 DEF Next, Moving, vars

LEMMA InitRunning == Init => Running
BY DEF Init, Running, At, Choosing, NoDirectory

(* What is staged is of the version that its directory names. *)
StagedOK ==
    \A v \in Versions : disk.staged[v] # NoDirectory =>
        \E whole \in BOOLEAN : disk.staged[v] = <<Toolchain(v, whole)>>

LEMMA StagedStep ==
    ASSUME TypeOK, Running, [Next]_vars PROVE StagedOK'
<1> USE DEF TypeOK, Disks, Scripts, Running, StagedOK, At
<1>1. CASE disk'.staged = disk.staged
  BY <1>1
<1>2. CASE Fetch \/ Kill
  <2>1. PICK whole \in BOOLEAN : UNCHANGED disk \/ (At("fetch") /\ Stage(whole))
    BY <1>2 DEF Fetch, Kill
  <2>2. CASE At("fetch") /\ Stage(whole)
    <3>1. disk'.staged = [disk.staged EXCEPT ![script.version] =
                            <<Toolchain(script.version, whole)>>]
      BY <2>2 DEF Stage
    <3>2. script.version \in Versions
      BY <2>2
    <3> QED
      BY <3>1, <3>2
  <2> QED
    BY <1>1, <2>1, <2>2
<1>3. CASE Place
  BY <1>3 DEF Place
<1>4. ~Fetch /\ ~Kill /\ ~Place => disk'.staged = disk.staged
  <2> SUFFICES ASSUME ~Fetch, ~Kill, ~Place PROVE disk'.staged = disk.staged
    OBVIOUS
  <2>1. CASE UNCHANGED disk
    BY <2>1
  <2>2. CASE MakeLayout \/ SwapMark \/ MarkSwift
    BY <2>2 DEF MakeLayout, SwapMark, MarkSwift
  <2>3. CASE SwapOut \/ MoveAway \/ SwapIn
    BY <2>3 DEF SwapOut, MoveAway, PutAway, SwapIn
  <2>4. CASE Colab \/ Clone \/ PlaceColab \/ Include \/ MarkColab
    BY ZenonT(40), <2>4 DEF Colab, Clone, PlaceColab, Include, MarkColab
  <2>5. CASE Clang \/ LinkLldb \/ MarkLldb
    BY <2>5 DEF Clang, LinkLldb, MarkLldb
  <2>6. CASE Kernel \/ Swiftc \/ LinkKernel \/ MarkKernel
    BY <2>6 DEF Kernel, Swiftc, LinkKernel, MarkKernel
  <2>7. CASE Register \/ MarkRegister
    BY <2>7 DEF Register, MarkRegister
  <2>8. CASE Start \/ Decide \/ Exit \/ Check \/ Lldb \/ End
    BY <2>8 DEF Start, Decide, Exit, Check, Lldb, End
  <2> QED
    BY <2>1, <2>2, <2>3, <2>4, <2>5, <2>6, <2>7, <2>8 DEF Next, vars
<1> QED
  BY <1>1, <1>2, <1>3, <1>4

RunOK ==
    /\ ~At("idle") => script.version \in Versions
    /\ At("layout") => disk.made < Len(Layout)
    /\ script.pc \in Choosing => disk.swiftVersion # None
    /\ script.pc \in {"fetch", "place"} => disk.toolchain = NoDirectory

(* Most steps lead to places of which Running says nothing more. *)
LEMMA OnwardStep ==
    ASSUME TypeOK, Running, ~At("idle"),
           NEW to \in PCs \ ({"layout", "fetch", "place"} \cup Choosing), Go(to)
    PROVE  RunOK'
BY DEF TypeOK, Scripts, Running, RunOK, At, Go

LEMMA RunOKStep == ASSUME TypeOK, Running, [Next]_vars PROVE RunOK'
<1> USE DEF PCs, Choosing
<1>1. CASE Start
  BY <1>1 DEF Start, At, Layout, RunOK, TypeOK, Scripts
<1>2. CASE MakeLayout
  BY <1>2 DEF MakeLayout, At, Go, Layout, RunOK, Running, TypeOK, Scripts, Disks
<1>3. CASE Decide
  BY <1>3 DEF Decide, At, RunOK, Running, TypeOK, Scripts
<1>4. CASE SwapOut \/ MoveAway
  BY <1>4, OnwardStep DEF SwapOut, MoveAway, PutAway, At
<1>5. CASE SwapIn \/ SwapMark
  BY <1>5, OnwardStep DEF SwapIn, SwapMark, At
<1>6. CASE Exit
  BY <1>6, OnwardStep DEF Exit, At
<1>7. CASE Check
  BY <1>7 DEF Check, At, Go, RunOK, Running, TypeOK, Scripts
<1>8. CASE Fetch
  <2>1. disk'.toolchain = disk.toolchain
    BY <1>8, NotMoving DEF Moving, SwapOut, MoveAway, SwapIn, Place, Fetch, At
  <2> QED
    BY <1>8, <2>1 DEF Fetch, At, Go, RunOK, Running, TypeOK, Scripts
<1>9. CASE Place \/ MarkSwift
  BY <1>9, OnwardStep DEF Place, MarkSwift, At
<1>10. CASE Colab \/ Clone \/ PlaceColab \/ Include \/ MarkColab
  BY <1>10, OnwardStep DEF Colab, Clone, PlaceColab, Include, MarkColab, At
<1>11. CASE Lldb \/ Clang \/ LinkLldb \/ MarkLldb
  BY <1>11, OnwardStep DEF Lldb, Clang, LinkLldb, MarkLldb, At
<1>12. CASE Kernel \/ Swiftc \/ LinkKernel \/ MarkKernel
  BY <1>12, OnwardStep DEF Kernel, Swiftc, LinkKernel, MarkKernel, At
<1>13. CASE Register \/ MarkRegister \/ End
  BY <1>13, OnwardStep DEF Register, MarkRegister, End, At
<1>14. CASE Kill
  BY <1>14, OnwardStep DEF Kill
<1>15. CASE UNCHANGED vars
  BY <1>15 DEF vars, At, RunOK, Running
<1> QED
  BY <1>1, <1>2, <1>3, <1>4, <1>5, <1>6, <1>7, <1>8, <1>9, <1>10, <1>11,
     <1>12, <1>13, <1>14, <1>15 DEF Next

LEMMA RunningStep == TypeOK /\ Running /\ [Next]_vars => Running'
BY RunOKStep, StagedStep DEF Running, RunOK, StagedOK, At

-----------------------------------------------------------------------------
(* No toolchain is lost. *)

(* There is a whole toolchain of version v in a directory. *)
Holds(d, v) == \E n \in DOMAIN d : d[n].whole /\ d[n].of = v

(* A version is kept if a directory holds it. *)
LEMMA KeptMember ==
    ASSUME NEW v
    PROVE  v \in Kept <=> \/ Holds(disk.toolchain, v)
                         \/ \E w \in Versions : Holds(disk.archive[w], v)
BY DEF Kept, Holds

LEMMA KeptMemberNext ==
    ASSUME NEW v
    PROVE  v \in Kept' <=> \/ Holds(disk'.toolchain, v)
                          \/ \E w \in Versions : Holds(disk'.archive[w], v)
BY DEF Kept, Holds

LEMMA ConcatHolds ==
    ASSUME NEW d \in Directories, NEW e \in Directories, NEW v
    PROVE  Holds(d, v) \/ Holds(e, v) => Holds(d \o e, v)
<1>1. ASSUME NEW n \in DOMAIN d PROVE n \in DOMAIN (d \o e) /\ (d \o e)[n] = d[n]
  BY ConcatProperties, LenProperties DEF Directories
<1>2. ASSUME NEW n \in DOMAIN e
      PROVE  n + Len(d) \in DOMAIN (d \o e) /\ (d \o e)[n + Len(d)] = e[n]
  BY ConcatProperties, LenProperties DEF Directories
<1> QED
  BY <1>1, <1>2 DEF Holds

LEMMA NothingHolds == ASSUME NEW v PROVE ~Holds(NoDirectory, v)
BY DEF Holds, NoDirectory

LEMMA KeptStep ==
    ASSUME TypeOK, Running, [Next]_vars PROVE Kept \subseteq Kept'
<1> SUFFICES ASSUME NEW v \in Kept PROVE v \in Kept'
  OBVIOUS
<1>1. CASE ~Moving
  BY <1>1, NotMoving, KeptMember, KeptMemberNext
<1>2. CASE SwapOut \/ MoveAway
  <2> DEFINE old == disk.swiftVersion
  <2>1. old \in Versions
    BY <1>2 DEF SwapOut, MoveAway, Choosing, Running, TypeOK, Disks, Files, At
  <2>2. CASE UNCHANGED disk
    BY <2>2, KeptMember, KeptMemberNext
  <2>3. CASE disk' = [disk EXCEPT !.archive[old] = @ \o disk.toolchain,
                                 !.toolchain = NoDirectory]
    <3>1. disk'.archive = [disk.archive EXCEPT ![old] = @ \o disk.toolchain]
      BY <2>3 DEF TypeOK, Disks
    <3>2. disk'.archive[old] = disk.archive[old] \o disk.toolchain
      BY <2>1, <3>1 DEF TypeOK, Disks
    <3>3. \A w \in Versions \ {old} : disk'.archive[w] = disk.archive[w]
      BY <3>1 DEF TypeOK, Disks
    <3>4. CASE Holds(disk.toolchain, v)
      <4>1. Holds(disk'.archive[old], v)
        BY <2>1, <3>2, <3>4, ConcatHolds, ArchiveType
      <4> QED
        BY <2>1, <4>1, KeptMemberNext
    <3>5. ASSUME NEW w \in Versions, Holds(disk.archive[w], v) PROVE v \in Kept'
      <4>1. Holds(disk'.archive[w], v)
        BY <2>1, <3>2, <3>3, <3>5, ConcatHolds, ArchiveType
      <4> QED
        BY <4>1, KeptMemberNext
    <3> QED
      BY <3>4, <3>5, KeptMember
  <2> QED
    BY <1>2, <2>2, <2>3 DEF SwapOut, MoveAway, PutAway
<1>3. CASE SwapIn
  <2> DEFINE new == script.version
  <2>1. new \in Versions
    BY <1>3 DEF SwapIn, Running, At
  <2>2. CASE UNCHANGED disk
    BY <2>2, KeptMember, KeptMemberNext
  <2>3. CASE disk' = [disk EXCEPT !.toolchain = @ \o disk.archive[new],
                                 !.archive[new] = NoDirectory]
    <3>1. disk'.toolchain = disk.toolchain \o disk.archive[new]
      BY <2>3 DEF TypeOK, Disks
    <3>2. \A w \in Versions \ {new} : disk'.archive[w] = disk.archive[w]
      BY <2>3 DEF TypeOK, Disks
    <3>3. CASE Holds(disk.toolchain, v)
      BY <2>1, <3>1, <3>3, ConcatHolds, ArchiveType, KeptMemberNext
    <3>4. ASSUME NEW w \in Versions, Holds(disk.archive[w], v) PROVE v \in Kept'
      BY <2>1, <3>1, <3>2, <3>4, ConcatHolds, ArchiveType, KeptMemberNext
    <3> QED
      BY <3>3, <3>4, KeptMember
  <2> QED
    BY <1>3, <2>2, <2>3 DEF SwapIn
<1>4. CASE Place
  <2>1. disk.toolchain = NoDirectory
    BY <1>4 DEF Place, Running, At
  <2>2. disk'.archive = disk.archive
    BY <1>4 DEF Place, TypeOK, Disks
  <2> QED
    BY <2>1, <2>2, NothingHolds, KeptMember, KeptMemberNext
<1> QED
  BY <1>1, <1>2, <1>3, <1>4 DEF Moving

(* What failed or was killed stays so. *)
LEMMA SpentStep ==
    ASSUME TypeOK, [Next]_vars
    PROVE  /\ spent'.failures = 0 => spent.failures = 0
           /\ spent'.kills = 0 => spent.kills = 0 /\ ~Kill
<1> USE DEF TypeOK
<1>1. CASE MayFail
  <2>1. spent' = [spent EXCEPT !.failures = @ + 1]
    BY <1>1 DEF MayFail
  <2>2. spent'.failures = spent.failures + 1 /\ spent'.kills = spent.kills
    BY <2>1
  <2>3. ~Kill
    <3> SUFFICES ASSUME Kill PROVE FALSE
      OBVIOUS
    <3>1. spent' = [spent EXCEPT !.kills = @ + 1]
      BY DEF Kill
    <3> QED
      BY <2>2, <3>1
  <2> QED
    BY <2>2, <2>3
<1>2. CASE Kill
  <2>1. spent' = [spent EXCEPT !.kills = @ + 1]
    BY <1>2 DEF Kill
  <2>2. spent'.failures = spent.failures /\ spent'.kills = spent.kills + 1
    BY <2>1
  <2> QED
    BY <2>2
<1>3. CASE Start
  BY <1>3 DEF Start, Kill, At
<1>4. CASE ~MayFail /\ ~Kill /\ ~Start
  <2>1. UNCHANGED spent
    BY <1>4 DEF Next, vars, MakeLayout, Decide, SwapOut, MoveAway, PutAway,
       SwapIn, SwapMark, Exit, Check, Fetch, Place, MarkSwift, Colab, Clone,
       PlaceColab, Include, MarkColab, Lldb, Clang, LinkLldb, MarkLldb, Kernel,
       Swiftc, LinkKernel, MarkKernel, Register, MarkRegister, End
  <2> QED
    BY <1>4, <2>1
<1> QED
  BY <1>1, <1>2, <1>3, <1>4

LEMMA GoFields ==
    ASSUME TypeOK, NEW to, Go(to)
    PROVE  /\ script'.pc = to /\ script'.version = script.version
           /\ script'.mode = script.mode /\ script'.cached = script.cached
BY DEF TypeOK, Scripts, Go

(* Only two steps write the marker of the toolchain. *)
LEMMA NotMarking ==
    ASSUME TypeOK, [Next]_vars, ~SwapMark, ~MarkSwift
    PROVE  disk'.swiftVersion = disk.swiftVersion
<1> USE DEF TypeOK, Disks
<1>1. CASE UNCHANGED disk
  BY <1>1
<1>2. CASE MakeLayout \/ Place
  BY <1>2 DEF MakeLayout, Place
<1>3. CASE SwapOut \/ MoveAway \/ SwapIn
  BY <1>3 DEF SwapOut, MoveAway, PutAway, SwapIn
<1>4. CASE Fetch \/ Kill
  BY <1>4 DEF Fetch, Kill, Stage
<1>5. CASE Colab \/ Clone \/ PlaceColab \/ Include \/ MarkColab
  BY <1>5 DEF Colab, Clone, PlaceColab, Include, MarkColab
<1>6. CASE Clang \/ LinkLldb \/ MarkLldb
  BY <1>6 DEF Clang, LinkLldb, MarkLldb
<1>7. CASE Kernel \/ Swiftc \/ LinkKernel \/ MarkKernel
  BY <1>7 DEF Kernel, Swiftc, LinkKernel, MarkKernel
<1>8. CASE Register \/ MarkRegister
  BY <1>8 DEF Register, MarkRegister
<1>9. CASE Start \/ Decide \/ Exit \/ Check \/ Lldb \/ End
  BY <1>9 DEF Start, Decide, Exit, Check, Lldb, End
<1> QED
  BY <1>1, <1>2, <1>3, <1>4, <1>5, <1>6, <1>7, <1>8, <1>9 DEF Next, vars

-----------------------------------------------------------------------------
(* A marker stands for a toolchain. *)

LEMMA InitBacked == Init => Backed
BY DEF Init, Backed, At, Swapping, NoDirectory

LEMMA BackedOnward ==
    ASSUME TypeOK, Running, Backed, [Next]_vars, ~Moving, ~SwapMark, ~MarkSwift,
           script'.pc \notin {"place", "swapOut", "markSwift"} \cup Swapping
    PROVE  Backed'
<1>1. disk'.archive = disk.archive /\ disk'.swiftVersion = disk.swiftVersion
  BY NotMoving, NotMarking
<1>2. spent'.failures = 0 => spent.failures = 0
  BY SpentStep
<1> QED
  BY <1>1, <1>2, KeptStep DEF Backed, At

LEMMA BackedStep ==
    ASSUME TypeOK, Running, Backed, [Next]_vars PROVE Backed'
<1> SUFFICES ASSUME spent'.failures = 0 PROVE Backed'
  BY DEF Backed
<1>1. spent.failures = 0 /\ Kept \subseteq Kept'
  BY SpentStep, KeptStep
<1> USE DEF Swapping
<1>2. CASE SwapOut \/ MoveAway
  <2> DEFINE old == disk.swiftVersion
  <2>1. old \in Versions /\ old \in Kept
    BY <1>1, <1>2 DEF SwapOut, MoveAway, Choosing, Running, TypeOK, Disks, Files,
       At, Backed
  <2>2. \A w \in Versions \ {old} : disk'.archive[w] = disk.archive[w]
    <3>1. \/ UNCHANGED disk
          \/ disk' = [disk EXCEPT !.archive[old] = @ \o disk.toolchain,
                                  !.toolchain = NoDirectory]
      BY <1>2 DEF SwapOut, MoveAway, PutAway
    <3>2. \/ disk'.archive = disk.archive
          \/ disk'.archive = [disk.archive EXCEPT ![old] = @ \o disk.toolchain]
      BY <3>1 DEF TypeOK, Disks
    <3> QED
      BY <3>2 DEF TypeOK, Disks
  <2>3. disk'.swiftVersion = disk.swiftVersion
    BY <1>2, NotMarking DEF SwapOut, MoveAway, SwapMark, MarkSwift, At
  <2>4. SwapOut => script'.pc = "swapIn" /\ script'.version \in Kept
    BY <1>1, GoFields DEF SwapOut, PutAway, Backed, At
  <2>5. MoveAway => script'.pc = "check"
    BY GoFields DEF MoveAway, PutAway
  <2> QED
    BY <1>1, <1>2, <2>1, <2>2, <2>3, <2>4, <2>5 DEF Backed, At
<1>3. CASE SwapIn
  <2>1. \A w \in Versions : disk'.archive[w] \in {disk.archive[w], NoDirectory}
    BY <1>3 DEF SwapIn, TypeOK, Disks
  <2>2. disk'.swiftVersion = disk.swiftVersion
    BY <1>3, NotMarking DEF SwapIn, SwapMark, MarkSwift, At
  <2>3. script'.pc = "swapMark" /\ script'.version \in Kept
    BY <1>1, <1>3, GoFields DEF SwapIn, Backed, At
  <2> QED
    BY <1>1, <2>1, <2>2, <2>3 DEF Backed, At
<1>4. CASE SwapMark \/ MarkSwift
  <2>1. disk'.archive = disk.archive
    BY <1>4 DEF SwapMark, MarkSwift, TypeOK, Disks
  <2>2. disk'.swiftVersion \in {disk.swiftVersion, script.version}
    BY <1>4 DEF SwapMark, MarkSwift, Marked, TypeOK, Disks
  <2>3. script.version \in Kept
    BY <1>1, <1>4 DEF SwapMark, MarkSwift, Backed, At
  <2>4. script'.pc \in {"check", "colab"}
    BY <1>4, GoFields DEF SwapMark, MarkSwift
  <2> QED
    BY <1>1, <2>1, <2>2, <2>3, <2>4 DEF Backed, At
<1>5. CASE Place
  <2> DEFINE v == script.version
  <2>1. disk'.toolchain = <<Toolchain(v, TRUE)>>
    BY <1>1, <1>5 DEF Place, Backed, At, TypeOK, Disks
  <2>2. Holds(disk'.toolchain, v)
    BY <2>1 DEF Holds, Toolchain
  <2>3. v \in Kept'
    BY <2>2, KeptMemberNext
  <2>4. disk'.archive = disk.archive /\ disk'.swiftVersion = disk.swiftVersion
    BY <1>5 DEF Place, TypeOK, Disks
  <2>5. script'.pc = "markSwift" /\ script'.version = v
    BY <1>5, GoFields DEF Place
  <2> QED
    BY <1>1, <2>3, <2>4, <2>5 DEF Backed, At
<1>6. CASE Decide
  <2>1. UNCHANGED disk
    BY <1>6 DEF Decide
  <2>2. script'.version = script.version /\ script.version \in Versions
    BY <1>6 DEF Decide, TypeOK, Scripts, Running, At
  <2>3. /\ script'.pc \in {"check", "swapOut", "moveAway"}
        /\ script'.pc = "swapOut" => disk.archive[script.version] # NoDirectory
    BY <1>6 DEF Decide, TypeOK, Scripts
  <2>4. script'.pc = "swapOut" => script'.version \in Kept'
    BY <1>1, <2>2, <2>3 DEF Backed
  <2> QED
    BY <1>1, <2>1, <2>3, <2>4 DEF Backed, At
<1>7. CASE Fetch
  <2>1. ~MayFail
    BY DEF MayFail, TypeOK
  <2>2. Stage(TRUE) /\ script.version \in Versions
    BY <1>7, <2>1 DEF Fetch, Running, At
  <2>3. disk'.staged[script.version] = <<Toolchain(script.version, TRUE)>>
    BY <2>2 DEF Stage, TypeOK, Disks
  <2>4. disk'.archive = disk.archive /\ disk'.swiftVersion = disk.swiftVersion
    BY <2>2 DEF Stage, TypeOK, Disks
  <2>5. script'.pc = "place" /\ script'.version = script.version
    BY <1>7, GoFields DEF Fetch
  <2> QED
    BY <1>1, <2>3, <2>4, <2>5 DEF Backed, At
<1>8. ASSUME ~Moving, ~SwapMark, ~MarkSwift, ~Decide, ~Fetch
      PROVE  script'.pc \notin {"place", "swapOut", "markSwift"} \cup Swapping
             \/ UNCHANGED vars
  <2>1. CASE Start
    BY <2>1 DEF Start
  <2>2. CASE Exit \/ End
    BY <2>2, GoFields DEF Exit, End
  <2>9. CASE Kill
    <3>1. script'.pc = "idle"
      BY <2>9, GoFields DEF Kill
    <3> QED
      BY <3>1
  <2>8. CASE Check
    BY <2>8, GoFields DEF Check
  <2>7. CASE MakeLayout
    BY <2>7, GoFields DEF MakeLayout
  <2>3. CASE Colab \/ Clone \/ PlaceColab \/ Include \/ MarkColab
    BY <2>3, GoFields DEF Colab, Clone, PlaceColab, Include, MarkColab
  <2>4. CASE Lldb \/ Clang \/ LinkLldb \/ MarkLldb
    BY <2>4, GoFields DEF Lldb, Clang, LinkLldb, MarkLldb
  <2>5. CASE Kernel \/ Swiftc \/ LinkKernel \/ MarkKernel
    BY <2>5, GoFields DEF Kernel, Swiftc, LinkKernel, MarkKernel
  <2>6. CASE Register \/ MarkRegister
    BY <2>6, GoFields DEF Register, MarkRegister
  <2> QED
    BY <1>8, <2>1, <2>2, <2>3, <2>4, <2>5, <2>6, <2>7, <2>8, <2>9
       DEF Next, Moving
<1>9. CASE UNCHANGED vars
  BY <1>1, <1>9 DEF vars, Backed, At, Kept
<1> QED
  BY <1>2, <1>3, <1>4, <1>5, <1>6, <1>7, <1>8, <1>9, BackedOnward DEF Moving

-----------------------------------------------------------------------------
(* A marker names the toolchain. *)

LEMMA AllMade ==
    ASSUME disk.made = Len(Layout)
    PROVE  Has("include") /\ Has("lib") /\ Has("packages") /\ Has("progress")
<1>1. /\ Len(Layout) = 7 /\ Layout[3] = "include" /\ Layout[4] = "lib"
      /\ Layout[5] = "packages" /\ Layout[6] = "progress"
  BY DEF Layout
<1> QED
  BY <1>1 DEF Has

(* The second part of the script keeps its hands off the toolchains. *)
SameToolchains ==
    /\ disk'.made = disk.made /\ disk'.swiftVersion = disk.swiftVersion
    /\ disk'.toolchain = disk.toolchain /\ disk'.archive = disk.archive

LEMMA PlacedStep ==
    ASSUME TypeOK, [Next]_vars, script.pc \in Placed, ~Kill, ~UNCHANGED vars
    PROVE  /\ SameToolchains
           /\ script'.version = script.version
           /\ script'.pc \in Placed \cup {"idle"}
<1> USE DEF TypeOK, Disks, SameToolchains
<1>1. CASE Colab \/ Clone \/ PlaceColab \/ Include \/ MarkColab
  <2>1. SameToolchains
    BY ZenonT(40), <1>1 DEF Colab, Clone, PlaceColab, Include, MarkColab
  <2>2. \E to \in Placed : Go(to)
    BY <1>1 DEF Colab, Clone, PlaceColab, Include, MarkColab, Placed, Sourcing,
       Libraries
  <2> QED
    BY <2>1, <2>2, GoFields
<1>2. CASE Lldb \/ Clang \/ LinkLldb \/ MarkLldb
  <2>1. SameToolchains
    BY <1>2 DEF Lldb, Clang, LinkLldb, MarkLldb
  <2>2. \E to \in Placed : Go(to)
    BY <1>2 DEF Lldb, Clang, LinkLldb, MarkLldb, Placed, Libraries, BuildLldb
  <2> QED
    BY <2>1, <2>2, GoFields
<1>3. CASE Kernel \/ Swiftc \/ LinkKernel \/ MarkKernel
  <2>1. SameToolchains
    BY <1>3 DEF Kernel, Swiftc, LinkKernel, MarkKernel
  <2>2. \E to \in Placed : Go(to)
    BY <1>3 DEF Kernel, Swiftc, LinkKernel, MarkKernel, Placed, Libraries,
       BuildKernel, Finishing
  <2> QED
    BY <2>1, <2>2, GoFields
<1>4. CASE Register \/ MarkRegister \/ End
  <2>1. SameToolchains
    BY <1>4 DEF Register, MarkRegister, End
  <2>2. \E to \in Placed \cup {"idle"} : Go(to)
    BY <1>4 DEF Register, MarkRegister, End, Placed, Libraries, Finishing
  <2> QED
    BY <2>1, <2>2, GoFields
<1>5. ~(Start \/ MakeLayout \/ Decide \/ SwapOut \/ MoveAway \/ SwapIn \/ SwapMark
        \/ Exit \/ Check \/ Fetch \/ Place \/ MarkSwift)
  BY DEF Start, MakeLayout, Decide, SwapOut, MoveAway, SwapIn, SwapMark, Exit,
     Check, Fetch, Place, MarkSwift, At, Placed, Libraries, Sourcing, BuildLldb,
     BuildKernel, Finishing
<1> QED
  BY <1>1, <1>2, <1>3, <1>4, <1>5 DEF Next

(* mv with an empty archive, or without a toolchain. *)
LEMMA PutAwayTidily ==
    ASSUME TypeOK, NEW to, PutAway(to), disk.swiftVersion \in Versions,
           disk.toolchain # NoDirectory =>
               disk.archive[disk.swiftVersion] = NoDirectory
    PROVE  /\ disk'.toolchain = NoDirectory
           /\ disk'.archive =
                 IF disk.toolchain = NoDirectory THEN disk.archive
                 ELSE [disk.archive EXCEPT ![disk.swiftVersion] = disk.toolchain]
           /\ disk'.made = disk.made /\ disk'.swiftVersion = disk.swiftVersion
           /\ script'.pc = to /\ script'.version = script.version
<1> DEFINE old == disk.swiftVersion
<1>1. script'.pc = to /\ script'.version = script.version
  BY GoFields DEF PutAway
<1>2. CASE disk.toolchain = NoDirectory
  BY <1>1, <1>2 DEF PutAway, Moves
<1>3. CASE disk.toolchain # NoDirectory
  <2>1. disk.archive[old] = NoDirectory /\ Len(disk.archive[old]) = 0
    BY <1>3, EmptySeq DEF NoDirectory
  <2>2. disk.archive[old] \o disk.toolchain = disk.toolchain
    BY <2>1, ArchiveType, ConcatEmptySeq DEF NoDirectory, Directories
  <2>3. disk' = [disk EXCEPT !.archive[old] = disk.toolchain,
                            !.toolchain = NoDirectory]
    BY <1>3, <2>1, <2>2 DEF PutAway, Moves
  <2> QED
    BY <1>1, <1>3, <2>3 DEF TypeOK, Disks
<1> QED
  BY <1>2, <1>3

LEMMA SwapInTidily ==
    ASSUME TypeOK, SwapIn, script.version \in Versions,
           disk.toolchain = NoDirectory,
           disk.archive[script.version] # NoDirectory
    PROVE  /\ disk'.toolchain = disk.archive[script.version]
           /\ disk'.archive = [disk.archive EXCEPT ![script.version] = NoDirectory]
           /\ disk'.made = disk.made /\ disk'.swiftVersion = disk.swiftVersion
           /\ script'.pc = "swapMark" /\ script'.version = script.version
<1> DEFINE new == script.version
<1>1. script'.pc = "swapMark" /\ script'.version = script.version
  BY GoFields DEF SwapIn
<1>2. Len(disk.toolchain) = 0
  BY EmptySeq DEF NoDirectory
<1>3. disk.toolchain \o disk.archive[new] = disk.archive[new]
  BY ArchiveType, ConcatEmptySeq DEF NoDirectory, Directories
<1>4. disk' = [disk EXCEPT !.toolchain = disk.archive[new],
                          !.archive[new] = NoDirectory]
  BY <1>2, <1>3 DEF SwapIn, Moves
<1> QED
  BY <1>1, <1>4 DEF TypeOK, Disks

LEMMA InitLabelled == Init => Labelled
BY EmptySeq DEF Init, Labelled, At, Choosing, Swapping, Downloading, NoDirectory

LEMMA OneToolchain ==
    ASSUME NEW v, NEW whole, NEW d, d = <<Toolchain(v, whole)>>
    PROVE  Len(d) = 1 /\ d[1].of = v /\ d[1].whole = whole
BY DEF Toolchain

LEMMA WholeToolchain ==
    ASSUME NEW v, NEW d, d = <<Toolchain(v, TRUE)>>
    PROVE  d[1].whole /\ d[1].of = v
BY DEF Toolchain

LEMMA AtMostOne ==
    ASSUME NEW d \in Directories
    PROVE  /\ d # NoDirectory /\ Len(d) <= 1 => Len(d) = 1
           /\ (d # NoDirectory => Len(d) = 1) => Len(d) <= 1
<1>1. CASE d = NoDirectory
  <2>1. Len(d) = 0
    BY <1>1, EmptySeq DEF NoDirectory
  <2> QED
    BY <1>1, <2>1
<1>2. CASE d # NoDirectory
  <2>1. Len(d) \in Nat \ {0}
    BY <1>2, FirstType
  <2>2. \A n \in Nat \ {0} : n <= 1 <=> n = 1
    OBVIOUS
  <2>3. Len(d) <= 1 <=> Len(d) = 1
    BY <2>1, <2>2
  <2> QED
    BY <1>2, <2>3
<1> QED
  BY <1>1, <1>2

LEMMA LabelledStep ==
    ASSUME TypeOK, Running, Labelled, [Next]_vars PROVE Labelled'
<1> SUFFICES ASSUME spent'.kills = 0 PROVE Labelled'
  BY DEF Labelled
<1> DEFINE v == script.version
           old == disk.swiftVersion
<1>1. spent.kills = 0 /\ ~Kill
  BY SpentStep
<1> USE DEF At, Choosing, Swapping, Downloading
<1>2. old \in Versions \/ old = None
  BY DEF TypeOK, Disks, Files
<1>3. CASE Start
  <2>1. UNCHANGED disk /\ script'.pc \in {"layout", "decide"}
        /\ script'.pc = "decide" => disk.made # 0
    BY <1>3 DEF Start
  <2> QED
    BY <1>1, <1>3, <2>1 DEF Labelled, Start, Settled
<1>4. CASE MakeLayout
  <2>1. disk'.made = disk.made + 1 /\ disk'.toolchain = disk.toolchain
        /\ disk'.archive = disk.archive /\ disk'.swiftVersion = old
    BY <1>4 DEF MakeLayout, TypeOK, Disks
  <2>2. script'.pc = IF disk.made + 1 = Len(Layout) THEN "decide" ELSE "layout"
    BY <1>4, GoFields DEF MakeLayout
  <2> QED
    BY <1>1, <1>4, <2>1, <2>2 DEF Labelled, MakeLayout, Settled
<1>5. CASE Decide
  <2>1. UNCHANGED disk
    BY <1>5 DEF Decide
  <2>2. script'.version = v /\ v \in Versions
    BY <1>5 DEF Decide, TypeOK, Scripts, Running
  <2>3. script'.cached = (old # None /\ (old = v \/ disk.archive[v] # NoDirectory))
    BY <1>5 DEF Decide, TypeOK, Scripts
  <2>4. script'.pc = IF old = None \/ old = v THEN "check"
                     ELSE IF disk.archive[v] # NoDirectory THEN "swapOut"
                     ELSE "moveAway"
    BY <1>5 DEF Decide, TypeOK, Scripts
  <2>5. /\ disk.made = Len(Layout)
        /\ \A w \in Versions : disk.archive[w] # NoDirectory =>
              Len(disk.archive[w]) = 1 /\ disk.archive[w][1].of = w
        /\ Len(disk.toolchain) <= 1
        /\ old = None => \A w \in Versions : disk.archive[w] = NoDirectory
        /\ disk.toolchain # NoDirectory => old # None /\ disk.toolchain[1].of = old
        /\ old # None => disk.archive[old] = NoDirectory
    BY <1>1, <1>5 DEF Labelled, Decide, Settled
  <2> QED
    BY <1>1, <2>1, <2>2, <2>3, <2>4, <2>5 DEF Labelled, Settled
<1>6. CASE SwapOut \/ MoveAway
  <2>1. old \in Versions /\ v \in Versions
    BY <1>2, <1>6 DEF SwapOut, MoveAway, Running
  <2>2. /\ disk.made = Len(Layout) /\ old # v
        /\ \A w \in Versions : disk.archive[w] # NoDirectory =>
              Len(disk.archive[w]) = 1 /\ disk.archive[w][1].of = w
        /\ Len(disk.toolchain) <= 1
        /\ disk.toolchain # NoDirectory => disk.toolchain[1].of = old
        /\ disk.archive[old] = NoDirectory
    BY <1>1, <1>6, <2>1 DEF Labelled, SwapOut, MoveAway, Settled
  <2>3. PICK to : PutAway(to) /\ to = IF SwapOut THEN "swapIn" ELSE "check"
    BY <1>6 DEF SwapOut, MoveAway
  <2>4. /\ disk'.toolchain = NoDirectory
        /\ disk'.archive =
              IF disk.toolchain = NoDirectory THEN disk.archive
              ELSE [disk.archive EXCEPT ![old] = disk.toolchain]
        /\ disk'.made = disk.made /\ disk'.swiftVersion = old
        /\ script'.pc = to /\ script'.version = v
    BY <2>1, <2>2, <2>3, PutAwayTidily
  <2>10. script'.cached = script.cached
    BY <2>3, GoFields DEF PutAway
  <2>5. \A w \in Versions : disk'.archive[w] # NoDirectory =>
            Len(disk'.archive[w]) = 1 /\ disk'.archive[w][1].of = w
    <3>1. disk.toolchain # NoDirectory => Len(disk.toolchain) = 1
      BY <2>2, ArchiveType, AtMostOne
    <3>2. disk.archive \in [Versions -> Directories]
      BY DEF TypeOK, Disks
    <3> QED
      BY <2>1, <2>2, <2>4, <3>1, <3>2
  <2>6. disk'.archive[v] = disk.archive[v]
    BY <2>1, <2>2, <2>4 DEF TypeOK, Disks
  <2>7. Len(disk'.toolchain) = 0
    BY <2>4, EmptySeq DEF NoDirectory
  <2>8. CASE SwapOut
    BY <1>1, <2>1, <2>2, <2>3, <2>4, <2>5, <2>6, <2>7, <2>8, <2>10
       DEF Labelled, SwapOut, Settled, Placed, Libraries, Sourcing, BuildLldb,
           BuildKernel, Finishing
  <2>9. CASE MoveAway
    <3>1. ~script.cached
      BY <1>1, <2>9 DEF Labelled, MoveAway
    <3> QED
      BY <1>1, <2>1, <2>2, <2>3, <2>4, <2>5, <2>6, <2>7, <2>9, <2>10, <3>1
         DEF Labelled, MoveAway, SwapOut, Settled, Placed, Libraries, Sourcing,
             BuildLldb, BuildKernel, Finishing
  <2> QED
    BY <1>6, <2>8, <2>9
<1>7. CASE SwapIn
  <2>1. v \in Versions /\ disk.toolchain = NoDirectory
        /\ disk.archive[v] # NoDirectory
    BY <1>1, <1>7 DEF Labelled, SwapIn, Running
  <2>2. /\ disk'.toolchain = disk.archive[v]
        /\ disk'.archive = [disk.archive EXCEPT ![v] = NoDirectory]
        /\ disk'.made = disk.made /\ disk'.swiftVersion = old
        /\ script'.pc = "swapMark" /\ script'.version = v
    BY <1>7, <2>1, SwapInTidily
  <2>7. script'.cached /\ script.cached
    BY <1>1, <1>7, GoFields DEF Labelled, SwapIn, Swapping
  <2>3. \A w \in Versions :
            disk'.archive[w] = IF w = v THEN NoDirectory ELSE disk.archive[w]
    BY <2>1, <2>2 DEF TypeOK, Disks
  <2>4. Len(disk.archive[v]) = 1 /\ disk.archive[v][1].of = v
        /\ disk.made = Len(Layout)
    BY <1>1, <1>7, <2>1 DEF Labelled, SwapIn
  <2>5. old = None => \A w \in Versions : disk.archive[w] = NoDirectory
    BY <1>1 DEF Labelled
  <2>6. \A w \in Versions : disk.archive[w] # NoDirectory =>
            Len(disk.archive[w]) = 1 /\ disk.archive[w][1].of = w
    BY <1>1 DEF Labelled
  <2> QED
    BY <1>1, <2>1, <2>2, <2>3, <2>4, <2>5, <2>6, <2>7
       DEF Labelled, Settled, Placed, Libraries, Sourcing, BuildLldb,
           BuildKernel, Finishing
<1>8. CASE SwapMark \/ MarkSwift
  <2>1. disk.made = Len(Layout) /\ v \in Versions /\ v # None
    BY <1>1, <1>8, NoneAssumption DEF Labelled, SwapMark, MarkSwift, Running
  <2>2. /\ disk'.made = disk.made /\ disk'.swiftVersion = v
        /\ disk'.toolchain = disk.toolchain /\ disk'.archive = disk.archive
    BY <1>8, <2>1, AllMade DEF SwapMark, MarkSwift, Marked, TypeOK, Disks
  <2>3. /\ script'.pc = IF SwapMark THEN "check" ELSE "colab"
        /\ script'.version = v /\ script'.cached = script.cached
    BY <1>8, GoFields DEF SwapMark, MarkSwift
  <2>4. /\ \A w \in Versions : disk.archive[w] # NoDirectory =>
              Len(disk.archive[w]) = 1 /\ disk.archive[w][1].of = w
        /\ Len(disk.toolchain) <= 1
        /\ disk.archive[v] = NoDirectory
        /\ disk.toolchain # NoDirectory => disk.toolchain[1].of = v
        /\ SwapMark => disk.toolchain # NoDirectory
    BY <1>1, <1>8 DEF Labelled, SwapMark, MarkSwift
  <2>5. SwapMark => script.cached
    BY <1>1 DEF Labelled, SwapMark, Swapping
  <2> QED
    BY <1>1, <2>1, <2>2, <2>3, <2>4, <2>5
       DEF Labelled, Settled, Placed, Libraries, Sourcing, BuildLldb,
           BuildKernel, Finishing
<1>9. CASE Exit
  <2>1. UNCHANGED disk /\ script'.pc = "idle"
    BY <1>9, GoFields DEF Exit
  <2>2. script.cached
    BY <1>1, <1>9 DEF Labelled, Exit, TypeOK, Scripts
  <2> QED
    BY <1>1, <1>9, <2>1, <2>2 DEF Labelled, Exit, Settled
<1>10. CASE Check
  <2>1. UNCHANGED disk /\ script'.version = v
        /\ script'.pc = IF script.cached THEN "colab" ELSE "fetch"
    BY <1>10, GoFields DEF Check
  <2>2. CASE script.cached
    BY <1>1, <1>10, <2>1, <2>2 DEF Labelled, Check, Settled, Placed
  <2>3. CASE ~script.cached
    BY <1>1, <1>10, <2>1, <2>3 DEF Labelled, Check, Settled, Placed, Libraries,
       Sourcing, BuildLldb, BuildKernel, Finishing
  <2> QED
    BY <2>2, <2>3
<1>11. CASE Fetch
  <2>1. /\ disk'.made = disk.made /\ disk'.swiftVersion = old
        /\ disk'.toolchain = disk.toolchain /\ disk'.archive = disk.archive
    BY <1>11 DEF Fetch, Stage, TypeOK, Disks
  <2>2. script'.pc = "place" /\ script'.version = v
    BY <1>11, GoFields DEF Fetch
  <2> QED
    BY <1>1, <1>11, <2>1, <2>2 DEF Labelled, Fetch, Settled, Placed, Libraries,
       Sourcing, BuildLldb, BuildKernel, Finishing
<1>12. CASE Place
  <2>1. v \in Versions
    BY <1>12 DEF Place, Running
  <2>2. /\ disk'.made = disk.made /\ disk'.swiftVersion = old
        /\ disk'.toolchain = disk.staged[v] /\ disk'.archive = disk.archive
    BY <1>12 DEF Place, TypeOK, Disks
  <2>3. script'.pc = "markSwift" /\ script'.version = v
    BY <1>12, GoFields DEF Place
  <2>4. disk.staged[v] # NoDirectory =>
            Len(disk.staged[v]) = 1 /\ disk.staged[v][1].of = v
    <3>1. disk.staged[v] # NoDirectory =>
              \E whole \in BOOLEAN : disk.staged[v] = <<Toolchain(v, whole)>>
      BY <2>1 DEF Running
    <3> QED
      BY SMTT(30), <3>1, OneToolchain
  <2>5. Len(disk.staged[v]) <= 1
    BY <2>1, <2>4, ArchiveType, AtMostOne
  <2> QED
    BY <1>1, <1>12, <2>1, <2>2, <2>3, <2>4, <2>5 DEF Labelled, Place, Settled,
       Placed, Libraries, Sourcing, BuildLldb, BuildKernel, Finishing
<1>14. CASE script.pc \in Placed /\ ~UNCHANGED vars
  <2>1. SameToolchains /\ script'.pc \in Placed \cup {"idle"}
    BY <1>1, <1>14, PlacedStep
  <2> QED
    BY <1>1, <1>14, <2>1 DEF Labelled, SameToolchains, Settled, Placed, Libraries,
       Sourcing, BuildLldb, BuildKernel, Finishing
<1>15. CASE UNCHANGED vars
  BY <1>1, <1>15 DEF vars, Labelled
<1> QED
  BY <1>1, <1>3, <1>4, <1>5, <1>6, <1>7, <1>8, <1>9, <1>10, <1>11, <1>12,
     <1>14, <1>15
     DEF Next, Colab, Clone, PlaceColab, Include, MarkColab, Lldb, Clang,
     LinkLldb, MarkLldb, Kernel, Swiftc, LinkKernel, MarkKernel, Register,
     MarkRegister, End, Placed, Libraries, Sourcing, BuildLldb, BuildKernel,
     Finishing

-----------------------------------------------------------------------------
(* Runs that nothing disturbs: the toolchains. *)

LEMMA UndisturbedStep ==
    ASSUME TypeOK, [Next]_vars, Undisturbed'
    PROVE  Undisturbed /\ ~Kill /\ ~MayFail
<1>1. spent'.kills = 0 /\ spent'.failures = 0
  BY DEF Undisturbed
<1>2. spent.kills = 0 /\ spent.failures = 0 /\ ~Kill
  BY <1>1, SpentStep
<1>3. ~MayFail
  BY <1>1, <1>2 DEF MayFail, TypeOK
<1> QED
  BY <1>2, <1>3 DEF Undisturbed

LEMMA NoExit ==
    ASSUME TypeOK, Labelled, WholeToolchains, Undisturbed PROVE ~Exit
<1> SUFFICES ASSUME Exit PROVE FALSE
  OBVIOUS
<1>1. CASE script.cached
  <2>1. disk.toolchain = <<Toolchain(script.version, TRUE)>>
    BY <1>1 DEF Exit, WholeToolchains, At
  <2>2. disk.toolchain # NoDirectory
    BY <2>1 DEF NoDirectory
  <2> QED
    BY <1>1, <2>2 DEF Exit, TypeOK, Scripts
<1>2. CASE ~script.cached
  BY <1>2 DEF Exit, Labelled, Undisturbed, At, TypeOK, Scripts
<1> QED
  BY <1>1, <1>2

(* What the last run came to changes at the end of one. *)
LEMMA LastStep ==
    ASSUME [Next]_vars, ~Exit, ~End, ~Kill PROVE UNCHANGED last
BY DEF Next, vars, Start, MakeLayout, Decide, SwapOut, MoveAway, PutAway,
   SwapIn, SwapMark, Check, Fetch, Place, MarkSwift, Colab, Clone,
   PlaceColab, Include, MarkColab, Lldb, Clang, LinkLldb, MarkLldb, Kernel,
   Swiftc, LinkKernel, MarkKernel, Register, MarkRegister

LEMMA InitWhole == Init => WholeToolchains
BY DEF Init, WholeToolchains, At, Settled, Placed, Sourcing, Libraries, BuildLldb,
   BuildKernel, Finishing, NoDirectory

LEMMA WholeStep ==
    ASSUME TypeOK, Running, Backed, Labelled, WholeToolchains, [Next]_vars
    PROVE  WholeToolchains'
<1> SUFFICES ASSUME Undisturbed' PROVE WholeToolchains'
  BY DEF WholeToolchains
<1> DEFINE v == script.version
           old == disk.swiftVersion
           Archives == \A w \in Versions : disk.archive[w] # NoDirectory =>
                           disk.archive[w] = <<Toolchain(w, TRUE)>>
<1>1. Undisturbed /\ ~Kill /\ ~MayFail /\ ~Exit
  BY UndisturbedStep, NoExit
<1>2. spent.kills = 0 /\ spent.failures = 0
  BY <1>1 DEF Undisturbed
<1>3. last'.outcome \in {"none", "done"}
  BY <1>1, LastStep DEF WholeToolchains, End
<1>4. Archives
  BY <1>1 DEF WholeToolchains
<1> HIDE DEF Archives
<1> USE DEF At
<1>5. CASE Start
  <2>1. UNCHANGED disk /\ script'.pc \in {"layout", "decide"}
    BY <1>5 DEF Start
  <2>2. old # None => disk.toolchain = <<Toolchain(old, TRUE)>>
    BY <1>1, <1>5 DEF WholeToolchains, Start, Settled
  <2> QED
    BY <1>3, <1>4, <2>1, <2>2 DEF WholeToolchains, Archives, Placed, Sourcing,
       Libraries, BuildLldb, BuildKernel, Finishing
<1>6. CASE MakeLayout
  <2>1. /\ disk'.toolchain = disk.toolchain /\ disk'.archive = disk.archive
        /\ disk'.swiftVersion = old
    BY <1>6 DEF MakeLayout, TypeOK, Disks
  <2>2. script'.pc \in {"layout", "decide"}
    BY <1>6, GoFields DEF MakeLayout
  <2> QED
    BY <1>1, <1>3, <1>6, <2>1, <2>2 DEF WholeToolchains, MakeLayout, Settled,
       Placed, Sourcing, Libraries, BuildLldb, BuildKernel, Finishing
<1>7. CASE Decide
  <2>1. UNCHANGED disk /\ script'.version = v
    BY <1>7 DEF Decide, TypeOK, Scripts
  <2>2. /\ script'.pc \in {"check"} \cup Choosing
        /\ script'.pc = "check" /\ script'.cached => old # None /\ old = v
    BY <1>7 DEF Decide, Choosing, TypeOK, Scripts
  <2>3. old # None => disk.toolchain = <<Toolchain(old, TRUE)>>
    BY <1>1, <1>7 DEF WholeToolchains, Decide, Settled
  <2> QED
    BY <1>1, <1>3, <1>4, <2>1, <2>2, <2>3 DEF WholeToolchains, Archives, Choosing,
       Placed, Sourcing, Libraries, BuildLldb, BuildKernel, Finishing
<1>8. CASE SwapOut \/ MoveAway
  <2>1. old \in Versions
    BY <1>8 DEF SwapOut, MoveAway, Choosing, Running, TypeOK, Disks, Files
  <2>2. disk.toolchain # NoDirectory => disk.archive[old] = NoDirectory
    BY <1>2, <1>8, <2>1, NoneAssumption DEF Labelled, SwapOut, MoveAway, Choosing, Settled
  <2>3. PICK to \in {"swapIn", "check"} :
            PutAway(to) /\ (to = "check" => ~script.cached)
    BY <1>2, <1>8 DEF SwapOut, MoveAway, Labelled
  <2>4. /\ disk'.archive =
              IF disk.toolchain = NoDirectory THEN disk.archive
              ELSE [disk.archive EXCEPT ![old] = disk.toolchain]
        /\ script'.pc = to
    BY <2>1, <2>2, <2>3, PutAwayTidily
  <2>5. script'.cached = script.cached
    BY <2>3, GoFields DEF PutAway
  <2>6. disk.toolchain = <<Toolchain(old, TRUE)>>
    BY <1>1, <1>8, <2>1, NoneAssumption DEF WholeToolchains, SwapOut, MoveAway, Choosing, Settled
  <2>7. \A w \in Versions : disk'.archive[w] # NoDirectory =>
            disk'.archive[w] = <<Toolchain(w, TRUE)>>
    BY <1>4, <2>1, <2>4, <2>6 DEF Archives, TypeOK, Disks
  <2> QED
    BY <1>3, <2>3, <2>4, <2>5, <2>7 DEF WholeToolchains, Settled, Choosing, Placed,
       Sourcing, Libraries, BuildLldb, BuildKernel, Finishing
<1>9. CASE SwapIn
  <2>1. v \in Versions /\ disk.toolchain = NoDirectory
        /\ disk.archive[v] # NoDirectory
    BY <1>2, <1>9 DEF Labelled, SwapIn, Running
  <2>2. /\ disk'.toolchain = disk.archive[v]
        /\ disk'.archive = [disk.archive EXCEPT ![v] = NoDirectory]
        /\ script'.pc = "swapMark" /\ script'.version = v
    BY <1>9, <2>1, SwapInTidily
  <2>3. \A w \in Versions : disk'.archive[w] # NoDirectory =>
            disk'.archive[w] = <<Toolchain(w, TRUE)>>
    BY <1>4, <2>1, <2>2 DEF Archives, TypeOK, Disks
  <2>4. disk.archive[v] = <<Toolchain(v, TRUE)>>
    BY <1>4, <2>1 DEF Archives
  <2> QED
    BY <1>3, <2>2, <2>3, <2>4 DEF WholeToolchains, Settled, Choosing, Placed,
       Sourcing, Libraries, BuildLldb, BuildKernel, Finishing
<1>10. CASE SwapMark \/ MarkSwift
  <2>1. disk.made = Len(Layout)
    BY <1>2, <1>10 DEF Labelled, SwapMark, MarkSwift
  <2>2. /\ disk'.swiftVersion = v
        /\ disk'.toolchain = disk.toolchain /\ disk'.archive = disk.archive
    BY <1>10, <2>1, AllMade DEF SwapMark, MarkSwift, Marked, TypeOK, Disks
  <2>3. script'.pc \in {"check", "colab"} /\ script'.version = v
    BY <1>10, GoFields DEF SwapMark, MarkSwift
  <2>4. disk.toolchain = <<Toolchain(v, TRUE)>>
    BY <1>1, <1>10 DEF WholeToolchains, SwapMark, MarkSwift
  <2> QED
    BY <1>3, <1>4, <2>2, <2>3, <2>4 DEF WholeToolchains, Archives, Settled,
       Choosing, Placed, Sourcing, Libraries, BuildLldb, BuildKernel, Finishing
<1>11. CASE Check
  <2>1. UNCHANGED disk /\ script'.version = v
        /\ script'.pc = IF script.cached THEN "colab" ELSE "fetch"
    BY <1>11, GoFields DEF Check
  <2>2. script.cached => disk.toolchain = <<Toolchain(v, TRUE)>> /\ old = v
    BY <1>1, <1>2, <1>11 DEF WholeToolchains, Labelled, Check
  <2> QED
    BY <1>3, <1>4, <2>1, <2>2 DEF WholeToolchains, Archives, Settled,
       Choosing, Placed, Sourcing, Libraries, BuildLldb, BuildKernel, Finishing
<1>12. CASE Fetch
  <2>1. disk'.archive = disk.archive
    BY <1>12 DEF Fetch, Stage, TypeOK, Disks
  <2>2. script'.pc = "place"
    BY <1>12, GoFields DEF Fetch
  <2> QED
    BY <1>3, <1>4, <2>1, <2>2 DEF WholeToolchains, Archives, Settled,
       Choosing, Placed, Sourcing, Libraries, BuildLldb, BuildKernel, Finishing
<1>13. CASE Place
  <2>1. disk'.toolchain = disk.staged[v] /\ disk'.archive = disk.archive
    BY <1>13 DEF Place, TypeOK, Disks
  <2>2. script'.pc = "markSwift" /\ script'.version = v
    BY <1>13, GoFields DEF Place
  <2>3. disk.staged[v] = <<Toolchain(v, TRUE)>>
    BY <1>2, <1>13 DEF Place, Backed
  <2> QED
    BY <1>3, <1>4, <2>1, <2>2, <2>3 DEF WholeToolchains, Archives, Settled,
       Choosing, Placed, Sourcing, Libraries, BuildLldb, BuildKernel, Finishing
<1>14. CASE script.pc \in Placed /\ ~UNCHANGED vars
  <2>1. /\ SameToolchains /\ script'.version = v
        /\ script'.pc \in Placed \cup {"idle"}
    BY <1>1, <1>14, PlacedStep
  <2>2. disk.toolchain = <<Toolchain(v, TRUE)>> /\ old = v
    BY <1>1, <1>14 DEF WholeToolchains
  <2> QED
    BY <1>3, <1>4, <2>1, <2>2 DEF WholeToolchains, Archives, SameToolchains,
       Settled, Choosing, Placed, Sourcing, Libraries, BuildLldb, BuildKernel,
       Finishing
<1>15. CASE UNCHANGED vars
  BY <1>1, <1>15 DEF vars, WholeToolchains
<1> QED
  BY <1>1, <1>5, <1>6, <1>7, <1>8, <1>9, <1>10, <1>11, <1>12, <1>13, <1>14, <1>15
     DEF Next, Colab, Clone, PlaceColab, Include, MarkColab, Lldb, Clang,
     LinkLldb, MarkLldb, Kernel, Swiftc, LinkKernel, MarkKernel, Register,
     MarkRegister, End, Placed, Libraries, Sourcing, BuildLldb, BuildKernel,
     Finishing

-----------------------------------------------------------------------------
(* Runs that nothing disturbs: the sources and the libraries. *)

SameSources ==
    /\ disk'.cloned = disk.cloned /\ disk'.sources = disk.sources
    /\ disk'.include = disk.include
    /\ disk'.downloadedColab = disk.downloadedColab

SameLldb ==
    /\ disk'.lldbVersion = disk.lldbVersion /\ disk'.lldb = disk.lldb
    /\ disk'.lldbLink = disk.lldbLink

SameKernel ==
    /\ disk'.kernelVersion = disk.kernelVersion /\ disk'.kernel = disk.kernel
    /\ disk'.kernelLink = disk.kernelLink
    /\ disk'.markedRegistered = disk.markedRegistered
    /\ disk'.registered = disk.registered

(* The first part of the script comes to the sources at most, and leaves   *)
(* them and the libraries alone.                                           *)
LEMMA EarlyStep ==
    ASSUME TypeOK, [Next]_vars, script.pc \notin Placed
    PROVE  /\ SameSources /\ SameLldb /\ SameKernel
           /\ script'.pc \notin Placed \ {"colab"}
<1> USE DEF TypeOK, Disks, SameSources, SameLldb, SameKernel
<1>1. CASE Start \/ MakeLayout \/ Decide
  <2>1. SameSources /\ SameLldb /\ SameKernel
    BY <1>1 DEF Start, MakeLayout, Decide
  <2>2. script'.pc \in {"layout", "decide", "check", "swapOut", "moveAway"}
    <3>1. CASE Start
      BY <3>1 DEF Start
    <3>2. CASE MakeLayout
      BY <3>2, GoFields DEF MakeLayout
    <3>3. CASE Decide
      BY <3>3 DEF Decide, Scripts
    <3> QED
      BY <1>1, <3>1, <3>2, <3>3
  <2> QED
    BY <2>1, <2>2 DEF Placed, Libraries, Sourcing, BuildLldb, BuildKernel, Finishing
<1>2. CASE SwapOut \/ MoveAway \/ SwapIn
  <2>1. SameSources /\ SameLldb /\ SameKernel
    <3>1. CASE UNCHANGED disk
      BY <3>1
    <3>2. CASE ~UNCHANGED disk /\ (SwapOut \/ MoveAway)
      <4>1. \E v : disk' = [disk EXCEPT !.archive[v] = @ \o disk.toolchain,
                                       !.toolchain = NoDirectory]
        BY <3>2 DEF SwapOut, MoveAway, PutAway
      <4> QED
        BY <4>1
    <3>3. CASE ~UNCHANGED disk /\ SwapIn
      BY <3>3 DEF SwapIn
    <3> QED
      BY <1>2, <3>1, <3>2, <3>3
  <2>2. script'.pc \in {"swapIn", "check", "swapMark"}
    BY <1>2, GoFields DEF SwapOut, MoveAway, PutAway, SwapIn
  <2> QED
    BY <2>1, <2>2 DEF Placed, Libraries, Sourcing, BuildLldb, BuildKernel, Finishing
<1>3. CASE SwapMark \/ Exit \/ Check
  <2>1. SameSources /\ SameLldb /\ SameKernel
    BY <1>3 DEF SwapMark, Exit, Check
  <2>2. script'.pc \in {"check", "idle", "colab", "fetch"}
    <3>1. CASE SwapMark \/ Exit
      BY <3>1, GoFields DEF SwapMark, Exit
    <3>2. CASE Check
      BY <3>2, GoFields DEF Check
    <3> QED
      BY <1>3, <3>1, <3>2
  <2> QED
    BY <2>1, <2>2 DEF Placed, Libraries, Sourcing, BuildLldb, BuildKernel, Finishing
<1>4. CASE Fetch \/ Place \/ MarkSwift \/ Kill
  <2>1. SameSources /\ SameLldb /\ SameKernel
    <3>1. CASE Fetch \/ Kill
      <4>1. UNCHANGED disk \/ \E whole \in BOOLEAN : Stage(whole)
        BY <3>1 DEF Fetch, Kill
      <4> QED
        BY <4>1 DEF Stage
    <3>2. CASE Place \/ MarkSwift
      BY ZenonT(40), <3>2 DEF Place, MarkSwift
    <3> QED
      BY <1>4, <3>1, <3>2
  <2>2. script'.pc \in {"place", "markSwift", "colab", "idle"}
    <3>1. CASE Kill
      BY <3>1, GoFields DEF Kill
    <3>2. CASE Fetch \/ Place \/ MarkSwift
      BY <3>2, GoFields DEF Fetch, Place, MarkSwift
    <3> QED
      BY <1>4, <3>1, <3>2
  <2> QED
    BY <2>1, <2>2 DEF Placed, Libraries, Sourcing, BuildLldb, BuildKernel, Finishing
<1>5. CASE UNCHANGED vars
  BY <1>5 DEF vars
<1>6. ~(Colab \/ Clone \/ PlaceColab \/ Include \/ MarkColab \/ Lldb \/ Clang
        \/ LinkLldb \/ MarkLldb \/ Kernel \/ Swiftc \/ LinkKernel \/ MarkKernel
        \/ Register \/ MarkRegister \/ End)
  BY DEF Colab, Clone, PlaceColab, Include, MarkColab, Lldb, Clang,
     LinkLldb, MarkLldb, Kernel, Swiftc, LinkKernel, MarkKernel, Register,
     MarkRegister, End, At, Placed, Libraries, Sourcing, BuildLldb, BuildKernel,
     Finishing
<1> QED
  BY <1>1, <1>2, <1>3, <1>4, <1>5, <1>6 DEF Next

LEMMA InitSources == Init => SourcesThere
BY DEF Init, SourcesThere, At, Libraries, BuildLldb, BuildKernel, Finishing

(* So does the last part with the sources. *)
LEMMA LateStep ==
    ASSUME TypeOK, [Next]_vars, script.pc \in Libraries, ~Kill, ~UNCHANGED vars
    PROVE  SameSources /\ script'.pc \in Libraries \cup {"idle"}
<1> USE DEF TypeOK, Disks, SameSources
<1>1. CASE Lldb \/ Clang \/ LinkLldb \/ MarkLldb
  <2>1. SameSources
    BY <1>1 DEF Lldb, Clang, LinkLldb, MarkLldb
  <2>2. \E to \in Libraries : Go(to)
    BY <1>1 DEF Lldb, Clang, LinkLldb, MarkLldb, Libraries, BuildLldb
  <2> QED
    BY <2>1, <2>2, GoFields
<1>2. CASE Kernel \/ Swiftc \/ LinkKernel \/ MarkKernel
  <2>1. SameSources
    BY <1>2 DEF Kernel, Swiftc, LinkKernel, MarkKernel
  <2>2. \E to \in Libraries : Go(to)
    BY <1>2 DEF Kernel, Swiftc, LinkKernel, MarkKernel, Libraries,
       BuildKernel, Finishing
  <2> QED
    BY <2>1, <2>2, GoFields
<1>3. CASE Register \/ MarkRegister \/ End
  <2>1. SameSources
    BY <1>3 DEF Register, MarkRegister, End
  <2>2. \E to \in Libraries \cup {"idle"} : Go(to)
    BY <1>3 DEF Register, MarkRegister, End, Libraries, Finishing
  <2> QED
    BY <2>1, <2>2, GoFields
<1>4. ~(Start \/ MakeLayout \/ Decide \/ SwapOut \/ MoveAway \/ SwapIn \/ SwapMark
        \/ Exit \/ Check \/ Fetch \/ Place \/ MarkSwift \/ Colab \/ Clone
        \/ PlaceColab \/ Include \/ MarkColab)
  BY DEF Start, MakeLayout, Decide, SwapOut, MoveAway, SwapIn, SwapMark, Exit,
     Check, Fetch, Place, MarkSwift, Colab, Clone, PlaceColab, Include,
     MarkColab, At, Libraries, BuildLldb, BuildKernel, Finishing
<1> QED
  BY <1>1, <1>2, <1>3, <1>4 DEF Next

(* Which step is taken from a place in the middle. *)
LEMMA SourcingSteps ==
    ASSUME [Next]_vars, script.pc \in {"colab"} \cup Sourcing, ~Kill
    PROVE  Colab \/ Clone \/ PlaceColab \/ Include \/ MarkColab \/ UNCHANGED vars
BY DEF Next, Start, MakeLayout, Decide, SwapOut, MoveAway, SwapIn, SwapMark, Exit,
   Check, Fetch, Place, MarkSwift, Lldb, Clang, LinkLldb, MarkLldb, Kernel,
   Swiftc, LinkKernel, MarkKernel, Register, MarkRegister, End, At, Sourcing

LEMMA ColabStep ==
    ASSUME [Next]_vars, script.pc = "colab", ~Kill
    PROVE  Colab \/ UNCHANGED vars
BY SourcingSteps DEF Clone, PlaceColab, Include, MarkColab, At

LEMMA SourcesStep ==
    ASSUME TypeOK, Labelled, SourcesThere, [Next]_vars
    PROVE  SourcesThere'
<1> SUFFICES ASSUME Undisturbed' PROVE SourcesThere'
  BY DEF SourcesThere
<1>1. Undisturbed /\ ~Kill /\ ~MayFail
  BY UndisturbedStep
<1>2. script.pc \notin {"idle", "layout"} =>
          Has("include") /\ Has("progress")
  BY <1>1, AllMade DEF Labelled, Undisturbed
<1> USE DEF At, Sourcing, Libraries, BuildLldb, BuildKernel, Finishing
<1>3. CASE script.pc \notin Placed
  <2>1. SameSources /\ SameLldb /\ script'.pc \notin Placed \ {"colab"}
    BY <1>3, EarlyStep
  <2> QED
    BY <1>1, <1>3, <2>1 DEF SourcesThere, SameSources, SameLldb, Placed
<1>4. CASE Colab
  <2> DEFINE rebuild == script.mode = "dev" \/ ~disk.downloadedColab
  <2>1. CASE ~rebuild
    <3>1. UNCHANGED disk /\ script'.pc = "lldb"
      BY <1>4, <2>1, GoFields DEF Colab
    <3> QED
      BY <1>1, <1>4, <2>1, <3>1 DEF SourcesThere, Colab
  <2>2. CASE rebuild
    <3>1. disk' = [disk EXCEPT !.sources = FALSE, !.lldb = None]
          /\ script'.pc = "clone"
      BY <1>4, <2>2, GoFields DEF Colab
    <3>2. /\ disk'.include = disk.include /\ disk'.lldbVersion = disk.lldbVersion
          /\ disk'.downloadedColab = disk.downloadedColab
      BY <3>1 DEF TypeOK, Disks
    <3> QED
      BY <1>1, <1>4, <3>1, <3>2 DEF SourcesThere, Colab
  <2> QED
    BY <2>1, <2>2
<1>5. CASE Clone
  <2>1. disk' = [disk EXCEPT !.cloned = TRUE] /\ script'.pc = "placeColab"
    BY <1>1, <1>5, GoFields DEF Clone
  <2>2. /\ disk'.include = disk.include /\ disk'.lldbVersion = disk.lldbVersion
        /\ disk'.downloadedColab = disk.downloadedColab /\ disk'.cloned
    BY <2>1 DEF TypeOK, Disks
  <2> QED
    BY <1>1, <1>5, <2>1, <2>2 DEF SourcesThere, Clone
<1>6. CASE PlaceColab
  <2>1. script'.pc = "include"
    BY <1>6, GoFields DEF PlaceColab
  <2>2. /\ disk'.include = disk.include /\ disk'.lldbVersion = disk.lldbVersion
        /\ disk'.downloadedColab = disk.downloadedColab
        /\ disk'.sources = disk.cloned
    BY <1>6 DEF PlaceColab, TypeOK, Disks
  <2> QED
    BY <1>1, <1>6, <2>1, <2>2 DEF SourcesThere, PlaceColab
<1>7. CASE Include
  <2>1. script'.pc = "markColab"
    BY <1>7, GoFields DEF Include
  <2>2. disk.sources /\ Has("include")
    BY <1>1, <1>2, <1>7 DEF SourcesThere, Include
  <2>3. /\ disk'.lldbVersion = disk.lldbVersion
        /\ disk'.downloadedColab = disk.downloadedColab
        /\ disk'.sources = disk.sources /\ disk'.include
    BY <1>7, <2>2 DEF Include, TypeOK, Disks
  <2> QED
    BY <1>1, <2>1, <2>2, <2>3 DEF SourcesThere
<1>8. CASE MarkColab
  <2>1. script'.pc = "lldb"
    BY <1>8, GoFields DEF MarkColab
  <2>2. disk.sources /\ disk.include /\ Has("progress")
    BY <1>1, <1>2, <1>8 DEF SourcesThere, MarkColab
  <2>3. /\ disk'.include = disk.include /\ disk'.sources = disk.sources
        /\ disk'.downloadedColab
    BY <1>8, <2>2 DEF MarkColab, TypeOK, Disks
  <2> QED
    BY <1>1, <2>1, <2>2, <2>3 DEF SourcesThere
<1>9. CASE script.pc \in Libraries /\ ~UNCHANGED vars
  <2>1. SameSources /\ script'.pc \in Libraries \cup {"idle"}
    BY <1>1, <1>9, LateStep
  <2> QED
    BY <1>1, <1>9, <2>1 DEF SourcesThere, SameSources
<1>10. CASE UNCHANGED vars
  BY <1>1, <1>10 DEF vars, SourcesThere
<1> QED
  BY <1>1, <1>3, <1>4, <1>5, <1>6, <1>7, <1>8, <1>9, <1>10, SourcingSteps DEF Placed

(* The sources and a whole toolchain: the libraries can be built. *)
LEMMA BuildPossible ==
    ASSUME WholeToolchains, SourcesThere, Undisturbed, script.pc \in Libraries
    PROVE  CanBuild /\ disk.toolchain[1].of = script.version
<1>1. disk.toolchain = <<Toolchain(script.version, TRUE)>> /\ disk.sources
  BY DEF WholeToolchains, SourcesThere, Placed
<1>2. disk.toolchain # NoDirectory
  BY <1>1 DEF NoDirectory
<1>3. disk.toolchain[1].whole /\ disk.toolchain[1].of = script.version
  BY <1>1, WholeToolchain
<1> QED
  BY <1>1, <1>2, <1>3 DEF CanBuild

LEMMA SourcingStep ==
    ASSUME TypeOK, [Next]_vars, script.pc \in Sourcing, ~Kill, ~UNCHANGED vars
    PROVE  /\ SameLldb /\ SameKernel
           /\ script'.pc \in Sourcing \cup {"lldb"}
           /\ script'.version = script.version /\ script'.mode = script.mode
<1>1. Clone \/ PlaceColab \/ Include \/ MarkColab
  BY SourcingSteps DEF Colab, At, Sourcing
<1>2. SameLldb /\ SameKernel
  <2> USE DEF TypeOK, Disks, SameLldb, SameKernel
  <2>1. CASE UNCHANGED disk
    BY <2>1
  <2>2. CASE Clone
    BY <2>1, <2>2 DEF Clone
  <2>3. CASE PlaceColab
    BY <2>3 DEF PlaceColab
  <2>4. CASE Include
    BY <2>4 DEF Include
  <2>5. CASE MarkColab
    BY <2>5 DEF MarkColab
  <2> QED
    BY <1>1, <2>2, <2>3, <2>4, <2>5
<1>3. \E to \in Sourcing \cup {"lldb"} : Go(to)
  BY <1>1 DEF Clone, PlaceColab, Include, MarkColab, Sourcing
<1> QED
  BY <1>2, <1>3, GoFields

LEMMA LldbSteps ==
    ASSUME [Next]_vars, script.pc \in {"lldb"} \cup BuildLldb, ~Kill
    PROVE  Lldb \/ Clang \/ LinkLldb \/ MarkLldb \/ UNCHANGED vars
BY DEF Next, Start, MakeLayout, Decide, SwapOut, MoveAway, SwapIn, SwapMark, Exit,
   Check, Fetch, Place, MarkSwift, Colab, Clone, PlaceColab, Include, MarkColab,
   Kernel, Swiftc, LinkKernel, MarkKernel, Register, MarkRegister, End, At,
   BuildLldb

LEMMA KernelSteps ==
    ASSUME [Next]_vars, ~Kill,
           script.pc \in {"kernel"} \cup BuildKernel \cup Finishing
    PROVE  Kernel \/ Swiftc \/ LinkKernel \/ MarkKernel \/ Register
           \/ MarkRegister \/ End \/ UNCHANGED vars
BY DEF Next, Start, MakeLayout, Decide, SwapOut, MoveAway, SwapIn, SwapMark, Exit,
   Check, Fetch, Place, MarkSwift, Colab, Clone, PlaceColab, Include, MarkColab,
   Lldb, Clang, LinkLldb, MarkLldb, At, BuildKernel, Finishing

LEMMA InitLldb == Init => LldbThere
BY DEF Init, LldbThere, BuildLldb, BuildKernel, Finishing

LEMMA LldbStep ==
    ASSUME TypeOK, Running, Labelled, WholeToolchains, SourcesThere, LldbThere,
           [Next]_vars
    PROVE  LldbThere'
<1> SUFFICES ASSUME Undisturbed' PROVE LldbThere'
  BY DEF LldbThere
<1> DEFINE v == script.version
<1>1. Undisturbed /\ ~Kill /\ ~MayFail
  BY UndisturbedStep
<1>2. script.pc \notin {"idle", "layout"} => Has("lib") /\ Has("progress")
  BY <1>1, AllMade DEF Labelled, Undisturbed
<1> USE DEF At, Sourcing, Libraries, BuildLldb, BuildKernel, Finishing
<1>3. CASE script.pc \notin Placed
  <2>1. SameLldb /\ script'.pc \notin Placed \ {"colab"}
    BY <1>3, EarlyStep
  <2> QED
    BY <1>1, <1>3, <2>1 DEF LldbThere, SameLldb, Placed
<1>4. CASE Colab
  <2> DEFINE rebuild == script.mode = "dev" \/ ~disk.downloadedColab
  <2>1. CASE ~rebuild
    <3>1. UNCHANGED disk /\ script'.pc = "lldb"
      BY <1>4, <2>1, GoFields DEF Colab
    <3> QED
      BY <1>1, <1>4, <3>1 DEF LldbThere, Colab
  <2>2. CASE rebuild
    <3>1. disk' = [disk EXCEPT !.sources = FALSE, !.lldb = None]
          /\ script'.pc = "clone" /\ script'.mode = script.mode
      BY <1>4, <2>2, GoFields DEF Colab
    <3>2. disk'.lldbVersion = disk.lldbVersion /\ disk'.lldbLink = disk.lldbLink
      BY <3>1 DEF TypeOK, Disks
    <3>3. disk.downloadedColab \/ disk.lldbVersion = None
      BY <1>1 DEF SourcesThere
    <3> QED
      BY <1>1, <1>4, <2>2, <3>1, <3>2, <3>3 DEF LldbThere, Colab
  <2> QED
    BY <2>1, <2>2
<1>5. CASE script.pc \in Sourcing /\ ~UNCHANGED vars
  <2>1. /\ SameLldb /\ script'.pc \in Sourcing \cup {"lldb"}
        /\ script'.mode = script.mode
    BY <1>1, <1>5, SourcingStep
  <2> QED
    BY <1>1, <1>5, <2>1 DEF LldbThere, SameLldb
<1>6. CASE Lldb
  <2>1. /\ UNCHANGED disk /\ script'.version = v
        /\ script'.pc = IF Rebuilds(disk.lldbVersion) THEN "clang" ELSE "kernel"
    BY <1>6, GoFields DEF Lldb
  <2>2. ~Rebuilds(disk.lldbVersion) =>
            script.mode # "dev" /\ disk.lldbVersion # None /\ disk.lldbVersion = v
    BY DEF Rebuilds
  <2> QED
    BY <1>1, <1>6, <2>1, <2>2 DEF LldbThere, Lldb
<1>7. CASE Clang
  <2>1. CanBuild /\ disk.toolchain[1].of = v
    BY <1>1, <1>7, BuildPossible DEF Clang
  <2>2. disk' = [disk EXCEPT !.lldb = v]
    BY <1>1, <1>7, <2>1 DEF Clang
  <2>3. disk'.lldb = v /\ disk'.lldbLink = disk.lldbLink
    BY <2>2 DEF TypeOK, Disks
  <2>4. script'.pc = "linkLldb" /\ script'.version = v
    BY <1>7, GoFields DEF Clang
  <2> QED
    BY <1>1, <2>3, <2>4 DEF LldbThere
<1>8. CASE LinkLldb
  <2>1. disk.sources /\ Has("lib") /\ disk.lldb = v
    BY <1>1, <1>2, <1>8 DEF LinkLldb, SourcesThere, LldbThere
  <2>2. disk.lldbLink \in {"none", "right"}
    BY <1>1 DEF LldbThere, TypeOK, Disks, Links
  <2>3. Linked(disk.lldbLink, disk.sources) = "right"
    BY <2>1, <2>2 DEF Linked
  <2>4. disk'.lldbLink = "right" /\ disk'.lldb = v
    BY <1>8, <2>1, <2>3 DEF LinkLldb, TypeOK, Disks
  <2>5. script'.pc = "markLldb" /\ script'.version = v
    BY <1>8, GoFields DEF LinkLldb
  <2> QED
    BY <1>1, <2>4, <2>5 DEF LldbThere
<1>9. CASE MarkLldb
  <2>1. disk.lldb = v /\ disk.lldbLink = "right" /\ Has("progress")
    BY <1>1, <1>2, <1>9 DEF MarkLldb, LldbThere
  <2>2. /\ disk'.lldbLink = "right" /\ disk'.lldb = v /\ disk'.lldbVersion = v
    BY <1>9, <2>1 DEF MarkLldb, Marked, TypeOK, Disks
  <2>3. script'.pc = "kernel" /\ script'.version = v
    BY <1>9, GoFields DEF MarkLldb
  <2> QED
    BY <1>1, <2>2, <2>3 DEF LldbThere
<1>10. CASE script.pc \in {"kernel"} \cup BuildKernel \cup Finishing
            /\ ~UNCHANGED vars
  <2>1. Kernel \/ Swiftc \/ LinkKernel \/ MarkKernel \/ Register
        \/ MarkRegister \/ End
    BY <1>1, <1>10, KernelSteps
  <2>2. SameLldb
    BY <2>1 DEF Kernel, Swiftc, LinkKernel, MarkKernel, Register, MarkRegister,
       End, SameLldb, TypeOK, Disks
  <2>3. \E to \in BuildKernel \cup Finishing \cup {"idle"} : Go(to)
    BY <2>1 DEF Kernel, Swiftc, LinkKernel, MarkKernel, Register, MarkRegister,
       End
  <2>4. /\ script'.pc \in BuildKernel \cup Finishing \cup {"idle"}
        /\ script'.version = v
    BY <2>3, GoFields
  <2> QED
    BY <1>1, <1>10, <2>2, <2>4 DEF LldbThere, SameLldb
<1>11. CASE UNCHANGED vars
  BY <1>1, <1>11 DEF vars, LldbThere
<1> QED
  BY <1>1, <1>3, <1>4, <1>5, <1>6, <1>7, <1>8, <1>9, <1>10, <1>11,
     ColabStep, LldbSteps DEF Placed

LEMMA InitKernel == Init => KernelThere
BY DEF Init, KernelThere, BuildKernel, Finishing

LEMMA KernelStep ==
    ASSUME TypeOK, Running, Labelled, WholeToolchains, SourcesThere, KernelThere,
           [Next]_vars
    PROVE  KernelThere'
<1> SUFFICES ASSUME Undisturbed' PROVE KernelThere'
  BY DEF KernelThere
<1> DEFINE v == script.version
<1>1. Undisturbed /\ ~Kill /\ ~MayFail
  BY UndisturbedStep
<1>2. script.pc \notin {"idle", "layout"} =>
          Has("lib") /\ Has("packages") /\ Has("progress")
  BY <1>1, AllMade DEF Labelled, Undisturbed
<1> USE DEF At, Sourcing, Libraries, BuildLldb, BuildKernel, Finishing
<1>3. CASE script.pc \notin Placed
  <2>1. SameKernel /\ script'.pc \notin Placed \ {"colab"}
    BY <1>3, EarlyStep
  <2> QED
    BY <1>1, <1>3, <2>1 DEF KernelThere, SameKernel, Placed
<1>4. CASE Colab \/ Lldb \/ Clang \/ LinkLldb \/ MarkLldb
  <2>1. SameKernel
    BY ZenonT(40), <1>4 DEF Colab, Lldb, Clang, LinkLldb, MarkLldb, TypeOK, Disks, SameKernel
  <2>2. \E to \in {"clone", "lldb", "kernel"} \cup BuildLldb : Go(to)
    BY <1>4 DEF Colab, Lldb, Clang, LinkLldb, MarkLldb
  <2>3. script'.pc \in {"clone", "lldb", "kernel"} \cup BuildLldb
    BY <2>2, GoFields
  <2> QED
    BY <1>1, <1>4, <2>1, <2>3
       DEF KernelThere, SameKernel, Colab, Lldb, Clang, LinkLldb, MarkLldb
<1>5. CASE script.pc \in Sourcing /\ ~UNCHANGED vars
  <2>1. SameKernel /\ script'.pc \in Sourcing \cup {"lldb"}
    BY <1>1, <1>5, SourcingStep
  <2> QED
    BY <1>1, <1>5, <2>1 DEF KernelThere, SameKernel
<1>6. CASE Kernel
  <2>1. CASE Rebuilds(disk.kernelVersion)
    <3>1. disk' = [disk EXCEPT !.kernel = None] /\ script'.pc = "swiftc"
      BY <1>6, <2>1, GoFields DEF Kernel
    <3>2. /\ disk'.kernelLink = disk.kernelLink
          /\ disk'.markedRegistered = disk.markedRegistered
          /\ disk'.registered = disk.registered
      BY <3>1 DEF TypeOK, Disks
    <3> QED
      BY <1>1, <1>6, <3>1, <3>2 DEF KernelThere, Kernel
  <2>2. CASE ~Rebuilds(disk.kernelVersion)
    <3>1. UNCHANGED disk /\ script'.pc = "register" /\ script'.version = v
      BY <1>6, <2>2, GoFields DEF Kernel
    <3>2. disk.kernelVersion # None /\ disk.kernelVersion = v
      BY <2>2 DEF Rebuilds
    <3> QED
      BY <1>1, <1>6, <3>1, <3>2 DEF KernelThere, Kernel
  <2> QED
    BY <2>1, <2>2
<1>7. CASE Swiftc
  <2>1. CanBuild /\ disk.toolchain[1].of = v /\ Has("packages")
    BY <1>1, <1>2, <1>7, BuildPossible DEF Swiftc
  <2>2. disk' = [disk EXCEPT !.kernel = v]
    BY <1>1, <1>7, <2>1 DEF Swiftc
  <2>3. /\ disk'.kernel = v /\ disk'.kernelLink = disk.kernelLink
        /\ disk'.markedRegistered = disk.markedRegistered
        /\ disk'.registered = disk.registered
    BY <2>2 DEF TypeOK, Disks
  <2>4. script'.pc = "linkKernel" /\ script'.version = v
    BY <1>7, GoFields DEF Swiftc
  <2> QED
    BY <1>1, <1>7, <2>3, <2>4 DEF KernelThere, Swiftc
<1>8. CASE LinkKernel
  <2>1. disk.sources /\ Has("lib") /\ Has("packages") /\ disk.kernel = v
    BY <1>1, <1>2, <1>8 DEF LinkKernel, SourcesThere, KernelThere
  <2>2. disk.kernelLink \in {"none", "right"}
    BY <1>1 DEF KernelThere, TypeOK, Disks, Links
  <2>3. Linked(disk.kernelLink, disk.sources /\ Has("packages")) = "right"
    BY <2>1, <2>2 DEF Linked
  <2>4. /\ disk'.kernelLink = "right" /\ disk'.kernel = v
        /\ disk'.markedRegistered = disk.markedRegistered
        /\ disk'.registered = disk.registered
    BY <1>8, <2>1, <2>3 DEF LinkKernel, TypeOK, Disks
  <2>5. script'.pc = "markKernel" /\ script'.version = v
    BY <1>8, GoFields DEF LinkKernel
  <2> QED
    BY <1>1, <1>8, <2>4, <2>5 DEF KernelThere, LinkKernel
<1>9. CASE MarkKernel
  <2>1. disk.kernel = v /\ disk.kernelLink = "right" /\ Has("progress")
    BY <1>1, <1>2, <1>9 DEF MarkKernel, KernelThere
  <2>2. /\ disk'.kernelLink = "right" /\ disk'.kernel = v
        /\ disk'.kernelVersion = v
        /\ disk'.markedRegistered = disk.markedRegistered
        /\ disk'.registered = disk.registered
    BY <1>9, <2>1 DEF MarkKernel, Marked, TypeOK, Disks
  <2>3. script'.pc = "register" /\ script'.version = v
    BY <1>9, GoFields DEF MarkKernel
  <2> QED
    BY <1>1, <1>9, <2>2, <2>3 DEF KernelThere, MarkKernel
<1>10. CASE Register
  <2>1. /\ disk.kernel = v /\ disk.kernelLink = "right" /\ v # None
        /\ disk.kernelVersion # None => disk.kernel = disk.kernelVersion
    BY <1>1, <1>10, NoneAssumption DEF Register, KernelThere, Running
  <2>2. CanBuild
    BY <1>1, <1>10, BuildPossible DEF Register
  <2>3. CASE script.mode = "dev" \/ ~disk.markedRegistered
    <3>1. /\ disk'.registered /\ disk'.kernel = disk.kernel
          /\ disk'.kernelLink = disk.kernelLink
          /\ disk'.kernelVersion = disk.kernelVersion
      BY <1>10, <2>1, <2>2, <2>3 DEF Register, CanBuild, TypeOK, Disks
    <3>2. script'.pc = "markRegister" /\ script'.version = v
      BY <1>10, <2>3, GoFields DEF Register
    <3> QED
      BY <1>1, <2>1, <3>1, <3>2 DEF KernelThere
  <2>4. CASE ~(script.mode = "dev" \/ ~disk.markedRegistered)
    <3>1. UNCHANGED disk /\ script'.pc = "end" /\ script'.version = v
      BY <1>10, <2>4, GoFields DEF Register
    <3> QED
      BY <1>1, <1>10, <2>1, <2>4, <3>1 DEF KernelThere, Register
  <2> QED
    BY <2>3, <2>4
<1>11. CASE MarkRegister
  <2>1. /\ disk'.registered = disk.registered /\ disk'.kernel = disk.kernel
        /\ disk'.kernelLink = disk.kernelLink
        /\ disk'.kernelVersion = disk.kernelVersion
    BY <1>11 DEF MarkRegister, TypeOK, Disks
  <2>2. script'.pc = "end" /\ script'.version = v
    BY <1>11, GoFields DEF MarkRegister
  <2> QED
    BY <1>1, <1>11, <2>1, <2>2 DEF KernelThere, MarkRegister
<1>12. CASE End
  <2>1. UNCHANGED disk /\ script'.pc = "idle"
    BY <1>12, GoFields DEF End
  <2> QED
    BY <1>1, <1>12, <2>1 DEF KernelThere, End
<1>13. CASE UNCHANGED vars
  BY <1>1, <1>13 DEF vars, KernelThere
<1> QED
  BY <1>1, <1>3, <1>4, <1>5, <1>6, <1>7, <1>8, <1>9, <1>10, <1>11, <1>12, <1>13,
     ColabStep, LldbSteps, KernelSteps DEF Placed

-----------------------------------------------------------------------------
(* The theorems. *)

LEMMA InstalledStep ==
    ASSUME TypeOK, Labelled, WholeToolchains, SourcesThere, LldbThere, KernelThere,
           InstalledAsAsked, [Next]_vars
    PROVE  InstalledAsAsked'
<1> SUFFICES ASSUME Undisturbed', At("idle")' PROVE InstalledAsAsked'
  BY DEF InstalledAsAsked
<1>1. Undisturbed /\ ~Kill /\ ~Exit
  BY UndisturbedStep, NoExit
<1>2. CASE End
  <2>1. UNCHANGED disk /\ last'.version = script.version
    BY <1>2 DEF End
  <2>2. disk.include
    BY <1>1, <1>2 DEF End, At, SourcesThere, Libraries, Finishing
  <2> QED
    BY <1>1, <1>2, <2>1, <2>2 DEF InstalledAsAsked, End, At, WholeToolchains,
       LldbThere, KernelThere, Placed, Libraries, Finishing
<1>3. CASE UNCHANGED vars
  BY <1>1, <1>3 DEF vars, InstalledAsAsked, At
<1>4. End \/ UNCHANGED vars
  <2>1. script.pc \in Placed => End \/ UNCHANGED vars
    <3> SUFFICES ASSUME script.pc \in Placed, ~UNCHANGED vars PROVE End
      OBVIOUS
    <3>1. ASSUME script.pc = "colab" \/ script.pc \in Sourcing PROVE FALSE
      <4>1. \E to \in {"lldb"} \cup Sourcing : Go(to)
        BY <1>1, <3>1, SourcingSteps DEF Colab, Clone, PlaceColab, Include,
           MarkColab, Sourcing
      <4> QED
        BY <4>1, GoFields DEF At, Sourcing
    <3>2. ASSUME script.pc \in {"lldb"} \cup BuildLldb PROVE FALSE
      <4>1. \E to \in {"kernel"} \cup BuildLldb : Go(to)
        BY <1>1, <3>2, LldbSteps DEF Lldb, Clang, LinkLldb, MarkLldb, BuildLldb
      <4> QED
        BY <4>1, GoFields DEF At, BuildLldb
    <3>3. ASSUME ~End, script.pc \in {"kernel"} \cup BuildKernel \cup Finishing
          PROVE FALSE
      <4>1. \E to \in BuildKernel \cup Finishing : Go(to)
        BY <1>1, <3>3, KernelSteps DEF Kernel, Swiftc, LinkKernel, MarkKernel,
           Register, MarkRegister, BuildKernel, Finishing
      <4> QED
        BY <4>1, GoFields DEF At, BuildKernel, Finishing
    <3> QED
      BY <3>1, <3>2, <3>3 DEF Placed, Libraries
  <2>2. script.pc \notin Placed => UNCHANGED vars
    <3> SUFFICES ASSUME script.pc \notin Placed, ~UNCHANGED vars PROVE FALSE
      OBVIOUS
    <3>1. CASE Start
      BY <3>1 DEF Start, At
    <3>2. CASE MakeLayout
      BY <3>2, GoFields DEF MakeLayout, At
    <3>3. CASE Decide
      BY <3>3 DEF Decide, At, TypeOK, Scripts
    <3>4. CASE SwapOut \/ MoveAway \/ SwapIn \/ SwapMark
      BY <3>4, GoFields DEF SwapOut, MoveAway, PutAway, SwapIn, SwapMark, At
    <3>5. CASE Check
      BY <3>5, GoFields DEF Check, At
    <3>6. CASE Fetch
      BY <3>6, GoFields DEF Fetch, At
    <3>7. CASE Place
      BY <3>7, GoFields DEF Place, At
    <3>8. CASE MarkSwift
      BY <3>8, GoFields DEF MarkSwift, At
    <3> QED
      BY <1>1, <3>1, <3>2, <3>3, <3>4, <3>5, <3>6, <3>7, <3>8 DEF Next, Colab, Clone,
         PlaceColab, Include, MarkColab, Lldb, Clang, LinkLldb, MarkLldb,
         Kernel, Swiftc, LinkKernel, MarkKernel, Register, MarkRegister, End,
         At, Placed, Libraries, Sourcing, BuildLldb, BuildKernel, Finishing
  <2> QED
    BY <2>1, <2>2
<1> QED
  BY <1>2, <1>3, <1>4

LEMMA InitInvariant == Init => IInv
<1>1. Init => InstalledAsAsked
  BY DEF Init, InstalledAsAsked
<1> QED
  BY <1>1, InitType, InitRunning, InitBacked, InitLabelled, InitWhole, InitSources,
     InitLldb, InitKernel DEF IInv

LEMMA InvariantStep == IInv /\ [Next]_vars => IInv'
BY TypeStep, RunningStep, BackedStep, LabelledStep, WholeStep, SourcesStep,
   LldbStep, KernelStep, InstalledStep DEF IInv

(* The inductive invariant. *)
THEOREM Invariance == Spec => []IInv
BY InitInvariant, InvariantStep, PTL DEF Spec

(* A run that nothing disturbs leaves what it was asked for                *)
(* (install_swift.sh:63-224).                                              *)
THEOREM RunsInstall == Spec => []InstalledAsAsked
BY Invariance, PTL DEF IInv

(* Switching between versions never trips the script's assertions          *)
(* (install_swift.sh:81-89).                                               *)
THEOREM RunsGoThrough == Spec => []NeverRefuses
<1>1. IInv => NeverRefuses
  BY DEF IInv, WholeToolchains, NeverRefuses
<1> QED
  BY <1>1, Invariance, PTL

(* Failures alone never put a toolchain under the name of another          *)
(* (install_swift.sh:63-79, 109-113).                                      *)
THEOREM LabelsTrue == Spec => []TrueLabels
<1>1. IInv => TrueLabels
  BY DEF IInv, Labelled, TrueLabels, At, Settled
<1> QED
  BY <1>1, Invariance, PTL

(* Kills alone never leave a marker of a toolchain that is nowhere         *)
(* (install_swift.sh:68-76, 109-113).                                      *)
THEOREM MarkersBacked == Spec => []MarkerBacked
<1>1. IInv => MarkerBacked
  BY DEF IInv, Backed, MarkerBacked
<1> QED
  BY <1>1, Invariance, PTL

(* Failures and kills together never cost a toolchain                      *)
(* (install_swift.sh:70-75, 111).                                          *)
THEOREM ToolchainsKept == Spec => NothingLost
<1>1. IInv /\ [Next]_vars => [Kept \subseteq Kept']_vars
  BY KeptStep DEF IInv
<1> QED
  BY <1>1, Invariance, PTL DEF Spec, NothingLost

-----------------------------------------------------------------------------
(* The kernels that the installation leads to: for every number of runs,   *)
(* starts, kills and resets the language of a start follows from the start *)
(* before it, and an installation in release mode leads to Swift kernels   *)
(* only.                                                                   *)

LEMMA StartupInitially == StartupInit => StartupInv
<1> SUFFICES ASSUME StartupInit PROVE StartupInv
  OBVIOUS
<1> USE DEF StartupInit, FreshDisk, NoStart
<1>1. StartupTypeOK
  BY DEF StartupTypeOK
<1>2. FilesInStep
  BY DEF FilesInStep
<1>3. AlwaysSwift
  BY DEF AlwaysSwift
<1>4. Registered
  BY DEF Registered
<1> QED
  BY <1>1, <1>2, <1>3, <1>4 DEF StartupInv

(* Types. *)
LEMMA StartupTypeStep ==
  StartupTypeOK /\ [StartupNext]_startupVars => StartupTypeOK'
<1> SUFFICES ASSUME StartupTypeOK, [StartupNext]_startupVars PROVE StartupTypeOK'
  OBVIOUS
<1> USE DEF StartupTypeOK, Languages, scriptVars, files, startup, history
<1>1. CASE Run
  BY <1>1 DEF Run, Spend
<1>2. CASE MakeDirectories
  BY <1>2 DEF MakeDirectories
<1>3. CASE WriteRuntime
  BY <1>3 DEF WriteRuntime
<1>4. CASE WriteMode
  BY <1>4 DEF WriteMode
<1>5. CASE Install
  BY <1>5 DEF Install
<1>6. CASE InstallFails
  BY <1>6 DEF InstallFails
<1>7. CASE RegisterKernel
  BY <1>7 DEF RegisterKernel
<1>8. CASE RegisterFails
  BY <1>8 DEF RegisterFails
<1>9. CASE Touch
  BY <1>9 DEF Touch
<1>10. CASE ScriptEnds
  BY <1>10 DEF ScriptEnds
<1>11. CASE KillScript
  BY <1>11 DEF KillScript, Spend
<1>12. CASE StartKernel
  BY <1>12 DEF StartKernel, Spend
<1>13. CASE ReadFiles
  BY <1>13 DEF ReadFiles
<1>14. CASE ToggleRuntime
  BY <1>14 DEF ToggleRuntime, NextRuntime, Other
<1>15. CASE Activate
  BY <1>15 DEF Activate
<1>16. CASE Stop
  BY <1>16 DEF Stop
<1>17. CASE FactoryReset
  BY <1>17 DEF FactoryReset, Spend, NoStart
<1>18. CASE UNCHANGED startupVars
  BY <1>18 DEF startupVars
<1> QED
  BY <1>1, <1>2, <1>3, <1>4, <1>5, <1>6, <1>7, <1>8, <1>9,
       <1>10, <1>11, <1>12, <1>13, <1>14, <1>15, <1>16, <1>17,
               <1>18 DEF StartupNext, Script, Process

(* Who writes the runtime file, and what it says. *)
LEMMA FilesStep == StartupTypeOK /\ FilesInStep /\ [StartupNext]_startupVars
        => FilesInStep'
<1> SUFFICES ASSUME StartupTypeOK /\ FilesInStep, [StartupNext]_startupVars
             PROVE  FilesInStep'
  OBVIOUS
<1> USE DEF StartupTypeOK, FilesInStep, Languages, scriptVars, files, startup,
            history
<1>1. CASE Run
  BY <1>1 DEF Run, Spend
<1>2. CASE MakeDirectories
  BY <1>2 DEF MakeDirectories
<1>3. CASE WriteRuntime
  BY <1>3 DEF WriteRuntime, NextRuntime, Other
<1>4. CASE WriteMode
  BY <1>4 DEF WriteMode
<1>5. CASE Install
  BY <1>5 DEF Install
<1>6. CASE InstallFails
  BY <1>6 DEF InstallFails
<1>7. CASE RegisterKernel
  BY <1>7 DEF RegisterKernel
<1>8. CASE RegisterFails
  BY <1>8 DEF RegisterFails
<1>9. CASE Touch
  BY <1>9 DEF Touch
<1>10. CASE ScriptEnds
  BY <1>10 DEF ScriptEnds
<1>11. CASE KillScript
  BY <1>11 DEF KillScript, Spend
<1>12. CASE StartKernel
  BY <1>12 DEF StartKernel, Spend
<1>13. CASE ReadFiles
  BY <1>13 DEF ReadFiles
<1>14. CASE ToggleRuntime
  BY <1>14 DEF ToggleRuntime, NextRuntime, Other
<1>15. CASE Activate
  BY <1>15 DEF Activate
<1>16. CASE Stop
  BY <1>16 DEF Stop
<1>17. CASE FactoryReset
  BY <1>17 DEF FactoryReset, Spend, NoStart
<1>18. CASE UNCHANGED startupVars
  BY <1>18 DEF startupVars
<1> QED
  BY <1>1, <1>2, <1>3, <1>4, <1>5, <1>6, <1>7, <1>8, <1>9,
       <1>10, <1>11, <1>12, <1>13, <1>14, <1>15, <1>16, <1>17,
               <1>18 DEF StartupNext, Script, Process

(* Without dev mode nothing names Python. *)
LEMMA SwiftStep == StartupTypeOK /\ AlwaysSwift /\ [StartupNext]_startupVars
        => AlwaysSwift'
<1> SUFFICES ASSUME StartupTypeOK /\ AlwaysSwift, [StartupNext]_startupVars
             PROVE  AlwaysSwift'
  OBVIOUS
<1> USE DEF StartupTypeOK, AlwaysSwift, Languages, scriptVars, files, startup,
            history
<1>1. CASE Run
  BY <1>1 DEF Run, Spend
<1>2. CASE MakeDirectories
  BY <1>2 DEF MakeDirectories
<1>3. CASE WriteRuntime
  BY <1>3 DEF WriteRuntime
<1>4. CASE WriteMode
  BY <1>4 DEF WriteMode
<1>5. CASE Install
  BY <1>5 DEF Install
<1>6. CASE InstallFails
  BY <1>6 DEF InstallFails
<1>7. CASE RegisterKernel
  BY <1>7 DEF RegisterKernel
<1>8. CASE RegisterFails
  BY <1>8 DEF RegisterFails
<1>9. CASE Touch
  BY <1>9 DEF Touch
<1>10. CASE ScriptEnds
  BY <1>10 DEF ScriptEnds
<1>11. CASE KillScript
  BY <1>11 DEF KillScript, Spend
<1>12. CASE StartKernel
  BY <1>12 DEF StartKernel, Spend
<1>13. CASE ReadFiles
  BY <1>13 DEF ReadFiles
<1>14. CASE ToggleRuntime
  BY <1>14 DEF ToggleRuntime, NextRuntime, Other
<1>15. CASE Activate
  BY <1>15 DEF Activate
<1>16. CASE Stop
  BY <1>16 DEF Stop
<1>17. CASE FactoryReset
  BY <1>17 DEF FactoryReset, Spend, NoStart
<1>18. CASE UNCHANGED startupVars
  BY <1>18 DEF startupVars
<1> QED
  BY <1>1, <1>2, <1>3, <1>4, <1>5, <1>6, <1>7, <1>8, <1>9,
       <1>10, <1>11, <1>12, <1>13, <1>14, <1>15, <1>16, <1>17,
               <1>18 DEF StartupNext, Script, Process

(* The marker is backed by the launcher. *)
LEMMA RegisteredStep == StartupTypeOK /\ Registered /\ [StartupNext]_startupVars
        => Registered'
<1> SUFFICES ASSUME StartupTypeOK /\ Registered, [StartupNext]_startupVars
             PROVE  Registered'
  OBVIOUS
<1> USE DEF StartupTypeOK, Registered, scriptVars, files, startup, history
<1>1. CASE Run
  BY <1>1 DEF Run, Spend
<1>2. CASE MakeDirectories
  BY <1>2 DEF MakeDirectories
<1>3. CASE WriteRuntime
  BY <1>3 DEF WriteRuntime
<1>4. CASE WriteMode
  BY <1>4 DEF WriteMode
<1>5. CASE Install
  BY <1>5 DEF Install
<1>6. CASE InstallFails
  BY <1>6 DEF InstallFails
<1>7. CASE RegisterKernel
  BY <1>7 DEF RegisterKernel
<1>8. CASE RegisterFails
  BY <1>8 DEF RegisterFails
<1>9. CASE Touch
  BY <1>9 DEF Touch
<1>10. CASE ScriptEnds
  BY <1>10 DEF ScriptEnds
<1>11. CASE KillScript
  BY <1>11 DEF KillScript, Spend
<1>12. CASE StartKernel
  BY <1>12 DEF StartKernel, Spend
<1>13. CASE ReadFiles
  BY <1>13 DEF ReadFiles
<1>14. CASE ToggleRuntime
  BY <1>14 DEF ToggleRuntime
<1>15. CASE Activate
  BY <1>15 DEF Activate
<1>16. CASE Stop
  BY <1>16 DEF Stop
<1>17. CASE FactoryReset
  BY <1>17 DEF FactoryReset, Spend, NoStart
<1>18. CASE UNCHANGED startupVars
  BY <1>18 DEF startupVars
<1> QED
  BY <1>1, <1>2, <1>3, <1>4, <1>5, <1>6, <1>7, <1>8, <1>9,
       <1>10, <1>11, <1>12, <1>13, <1>14, <1>15, <1>16, <1>17,
               <1>18 DEF StartupNext, Script, Process

LEMMA StartupStep == StartupInv /\ [StartupNext]_startupVars => StartupInv'
BY StartupTypeStep, FilesStep, SwiftStep,
    RegisteredStep DEF StartupInv

(* The inductive invariant holds in every behaviour                        *)
(* (CreateKernel.swift:3-32, install_swift.sh:27-59, 209-234).             *)
THEOREM StartupInvariance == StartupSpec => []StartupInv
<1> QED
  BY StartupInitially, StartupStep, PTL DEF StartupSpec

(* In dev mode kernels alternate between the languages, in release mode    *)
(* they keep theirs, through crashes, kills and runs of the script         *)
(* (CreateKernel.swift:11-31).                                             *)
THEOREM LanguageAlternates == StartupSpec => []LanguageFollowsMode
<1>1. StartupInv => LanguageFollowsMode
  BY DEF StartupInv, FilesInStep, LanguageFollowsMode, NextRuntime, Other, Languages
<1> QED
  BY <1>1, StartupInvariance, PTL

(* After an undisturbed installation in release mode only Swift kernels    *)
(* start (README.md:32-34, install_swift.sh:48-59, 211-224).               *)
THEOREM SwiftAfterInstall == StartupSpec => RestartEntersSwift
<1>1. StartupInv /\ [StartupNext]_startupVars =>
    (complete /\ ~disturbed /\ modes = {"release"}
         /\ kernel' \notin {kernel, "none"} => kernel' # "python3")
  <2> SUFFICES ASSUME StartupInv, [StartupNext]_startupVars,
            complete, ~disturbed, modes = {"release"},
            kernel' \notin {kernel, "none"}
                 PROVE  kernel' # "python3"
    OBVIOUS
  <2>1. launcher = "create" /\ "dev" \notin modes
    BY DEF StartupInv, Registered
  <2>2. \/ StartKernel \/ ReadFiles
          \/ ToggleRuntime \/ Activate
    BY DEF StartupNext, Script, Process, Run, MakeDirectories, WriteRuntime,
               WriteMode, Install, InstallFails,
                       RegisterKernel, RegisterFails,
               Touch, ScriptEnds, KillScript, Stop,
                       FactoryReset, startup, startupVars
  <2>3. CASE StartKernel
    BY <2>1, <2>3 DEF StartKernel
  <2>4. CASE ReadFiles
    BY <2>4 DEF ReadFiles
  <2>5. CASE ToggleRuntime
    BY <2>5 DEF ToggleRuntime
  <2>6. CASE Activate
    BY <2>1, <2>6 DEF Activate, StartupInv, AlwaysSwift
  <2> QED
    BY <2>2, <2>3, <2>4, <2>5, <2>6
<1> QED
  BY <1>1, StartupInvariance, PTL DEF StartupSpec, RestartEntersSwift

=============================================================================
