--------------------------- MODULE PackageInstall ---------------------------
(***************************************************************************)
(* The directives %install and %install-location: which folder a package   *)
(* is built in, and what its installation leaves for the next ones, in the *)
(* same kernel or after a restart of the runtime, which may come at any    *)
(* moment.                                                                 *)
(***************************************************************************)
EXTENDS Naturals, Sequences, FiniteSets

CONSTANTS
    Specs,         \* package specifications
    Blank,         \* the specification '', of which no build succeeds
    Locations,     \* the directories that %install-location may name
    Existing,      \* those that exist; none is made by a directive
    Default,       \* /opt/swift/build
    Modules,       \* Swift modules
    Provides,      \* the modules that the build of a package produces
    ModuleMaps,    \* Clang modulemaps
    Named,         \* those whose text begins with the name of a module
    Maps,          \* the modulemaps of a package and what it depends on
    None,
    MaxInstalls, MaxRestarts, MaxFailures   \* bounds

ASSUME PackagesAssumption ==
    /\ Blank \in Specs /\ Default \in Existing /\ Existing \subseteq Locations
    /\ Provides \in [Specs -> SUBSET Modules]
    /\ Maps \in [Specs -> Seq(ModuleMaps)]
    /\ Named \subseteq ModuleMaps
    /\ None \notin Specs \cup Locations \cup Modules \cup ModuleMaps
    /\ \A l, k \in Locations : k # <<l, "index">>   \* a directory is no file
    /\ MaxInstalls \in Nat /\ MaxRestarts \in Nat /\ MaxFailures \in Nat

VARIABLES
    disk,      \* per location: index, folders, builds, module links, maps
    link,      \* where /opt/swift/install_location points to
    kernel,    \* the kernel's memory: the location, the packages it read, ...
    job,       \* the running %install
    installed, \* history: <<location, spec, id>> of completed installations
    atStart,   \* history: the maps that were there when the kernel started
    warned,    \* history: the modules this kernel warned of
    spent      \* history: installs, restarts and failures so far

vars == <<disk, link, kernel, job, installed, atStart, warned, spent>>

Ids == 1..MaxInstalls

Idle == [pc |-> "idle", spec |-> None, id |-> 0, todo |-> {}, at |-> 0]

(* installLocation, installedPackages, installedPackagesLocation and       *)
(* loadedClangModules of a new kernel; None is nil.                        *)
NewKernel == [location |-> Default, packages |-> <<>>, read |-> None,
              clang |-> {}, clangRead |-> FALSE]

Init ==
    /\ disk = [l \in Locations |->
                 [index |-> <<>>, manifest |-> [n \in Ids |-> None],
                  built |-> [n \in Ids |-> None],
                  links |-> [m \in Modules |-> 0], maps |-> {}]]
    /\ link = None
    /\ kernel = NewKernel /\ job = Idle
    /\ installed = {} /\ warned = {}
    /\ atStart = [l \in Locations |-> {}]
    /\ spent = [installs |-> 0, restarts |-> 0, failures |-> 0]

Here    == kernel.location
At(pc)  == job.pc = pc
Go(pc)  == job' = [job EXCEPT !.pc = pc]
Fails   == job' = Idle

MayFail ==
    /\ spent.failures < MaxFailures
    /\ spent' = [spent EXCEPT !.failures = @ + 1]

(* The directory of a modulemap: by the module's name, or else by the      *)
(* package and the position.                                               *)
MapFolder(map, id, position) ==
    IF map \in Named THEN <<"module", map>>
    ELSE <<"modulenoname", id, position>>

(* The lines of the index that are not empty, in their order: the k-th has *)
(* k of them up to its place.                                              *)
Lines(s) ==
    LET kept == {n \in DOMAIN s : s[n] # Blank}
    IN  [k \in 1..Cardinality(kept) |->
            s[CHOOSE n \in kept : Cardinality({m \in kept : m <= n}) = k]]

(* What installedPackagesLocation is set to: the file, not its directory.  *)
IndexFile(l) == <<l, "index">>

-----------------------------------------------------------------------------
SetLocation ==
    /\ At("idle")
    /\ \E l \in Locations \ {Here} : kernel' = [kernel EXCEPT !.location = l]
    /\ UNCHANGED <<disk, link, job, installed, atStart, warned, spent>>

Start ==
    /\ At("idle") /\ spent.installs < MaxInstalls
    /\ \E s \in Specs : job' = [Idle EXCEPT !.pc = "unlink", !.spec = s]
    /\ spent' = [spent EXCEPT !.installs = @ + 1]
    /\ UNCHANGED <<disk, link, kernel, installed, atStart, warned>>

(* install_location is removed and made again. *)
Unlink ==
    /\ At("unlink") /\ Go("relink") /\ link' = None
    /\ UNCHANGED <<disk, kernel, installed, atStart, warned, spent>>

Relink ==
    /\ At("relink") /\ Go("read") /\ link' = Here
    /\ UNCHANGED <<disk, kernel, installed, atStart, warned, spent>>

(* A step that fails ends the installation. *)
GiveUp == Fails /\ MayFail /\ UNCHANGED <<installed, atStart, warned>>

RelinkFails ==
    /\ At("relink") /\ GiveUp
    /\ UNCHANGED <<disk, link, kernel>>

(* Faulty: the list is kept as long as the location stays. *)
ReadPackages_Cached ==
    /\ At("read") /\ Go("assign")
    /\ kernel' = IF kernel.read # Here
                 THEN [kernel EXCEPT !.packages = Lines(disk[Here].index),
                                     !.read = Here]
                 ELSE kernel
    /\ UNCHANGED <<disk, link, installed, atStart, warned, spent>>

ReadPackages ==
    /\ At("read") /\ Go("assign")
    /\ kernel' = IF kernel.read # Here
                 THEN [kernel EXCEPT !.packages = Lines(disk[Here].index),
                                     !.read = IndexFile(Here)]
                 ELSE kernel
    /\ UNCHANGED <<disk, link, installed, atStart, warned, spent>>

(* Faulty: a new package comes first. *)
AssignId_First ==
    /\ At("assign")
    /\ kernel' = [kernel EXCEPT !.packages =
                    <<job.spec>> \o SelectSeq(@, LAMBDA s : s # job.spec)]
    /\ job' = [job EXCEPT !.pc = "index", !.id = 1]
    /\ UNCHANGED <<disk, link, installed, atStart, warned, spent>>

(* The position of the specification, at the end when it is new. *)
AssignId ==
    /\ At("assign")
    /\ LET known == {n \in DOMAIN kernel.packages :
                        kernel.packages[n] = job.spec}
       IN \/ /\ known # {} /\ UNCHANGED kernel
             /\ \E n \in known : job' = [job EXCEPT !.pc = "index", !.id = n]
          \/ /\ known = {}
             /\ kernel' = [kernel EXCEPT !.packages = Append(@, job.spec)]
             /\ job' = [job EXCEPT !.pc = "index",
                                   !.id = Len(kernel.packages) + 1]
    /\ UNCHANGED <<disk, link, installed, atStart, warned, spent>>

WriteIndex ==
    /\ At("index")
    /\ IF Here \in Existing
       THEN /\ disk' = [disk EXCEPT ![Here].index = kernel.packages]
            /\ Go("manifest")
       ELSE Fails /\ UNCHANGED disk
    /\ UNCHANGED <<link, kernel, installed, atStart, warned, spent>>

WriteManifest ==
    /\ At("manifest") /\ Go("build")
    /\ disk' = [disk EXCEPT ![Here].manifest[job.id] = job.spec]
    /\ UNCHANGED <<link, kernel, installed, atStart, warned, spent>>

(* Of the folder's two files the manifest is the first. *)
WriteManifestFails ==
    /\ At("manifest") /\ GiveUp
    /\ \/ UNCHANGED disk
       \/ disk' = [disk EXCEPT ![Here].manifest[job.id] = job.spec]
    /\ UNCHANGED <<link, kernel>>

(* swift-build, of whatever the folder's manifest says. *)
Build ==
    /\ At("build")
    /\ LET spec == disk[Here].manifest[job.id]
       IN \/ /\ spec # Blank
             /\ disk' = [disk EXCEPT ![Here].built[job.id] = spec]
             /\ Go("clangModules") /\ UNCHANGED spent
          \/ spec = Blank /\ Fails /\ UNCHANGED <<disk, spent>>
          \/ spec # Blank /\ Fails /\ MayFail /\ UNCHANGED disk
    /\ UNCHANGED <<link, kernel, installed, atStart, warned>>

(* What swift-build printed is refused, after it has built the package. *)
OutputRefused ==
    /\ At("build") /\ GiveUp
    /\ LET spec == disk[Here].manifest[job.id]
       IN spec # Blank /\ disk' = [disk EXCEPT ![Here].built[job.id] = spec]
    /\ UNCHANGED <<link, kernel>>

(* loadedClangModules: the named modules, read by the first installation   *)
(* that comes this far.                                                    *)
WithClangModules ==
    IF kernel.clangRead THEN kernel
    ELSE [kernel EXCEPT !.clangRead = TRUE, !.clang =
            {f[2] : f \in {g \in {x[1] : x \in disk[Here].maps} :
                              g[1] = "module"}}]

(* The database of the build is looked for when they have been read. *)
DatabaseMissing ==
    /\ At("clangModules") /\ GiveUp
    /\ kernel' = WithClangModules
    /\ UNCHANGED <<disk, link>>

ReadClangModules ==
    /\ At("clangModules")
    /\ kernel' = WithClangModules
    /\ job' = [job EXCEPT !.pc = "links", !.todo = Provides[job.spec]]
    /\ UNCHANGED <<disk, link, installed, atStart, warned, spent>>

(* Each module's link is removed and made again. *)
DropModule ==
    /\ At("links")
    /\ \E m \in job.todo :
          /\ disk' = [disk EXCEPT ![Here].links[m] = 0]
          /\ job' = [job EXCEPT !.pc = "link", !.at = m]
    /\ UNCHANGED <<link, kernel, installed, atStart, warned, spent>>

(* Faulty: the links lead to the folder after. *)
LinkModule_NextFolder ==
    /\ At("link")
    /\ disk' = [disk EXCEPT ![Here].links[job.at] = job.id + 1]
    /\ job' = [job EXCEPT !.pc = "links", !.todo = @ \ {job.at}, !.at = 0]
    /\ UNCHANGED <<link, kernel, installed, atStart, warned, spent>>

LinkModule ==
    /\ At("link")
    /\ disk' = [disk EXCEPT ![Here].links[job.at] = job.id]
    /\ job' = [job EXCEPT !.pc = "links", !.todo = @ \ {job.at}, !.at = 0]
    /\ UNCHANGED <<link, kernel, installed, atStart, warned, spent>>

(* The old link is gone, and the new one cannot be made. *)
LinkModuleFails ==
    /\ At("link") /\ GiveUp
    /\ UNCHANGED <<disk, link, kernel>>

LinksDone ==
    /\ At("links") /\ job.todo = {}
    /\ job' = [job EXCEPT !.pc = "maps", !.at = 1]
    /\ UNCHANGED <<disk, link, kernel, installed, atStart, warned, spent>>

(* Faulty: a module that was written counts as loaded. *)
WriteMap_Loads ==
    /\ At("maps") /\ job.at <= Len(Maps[job.spec])
    /\ LET map == Maps[job.spec][job.at]
       IN /\ disk' = [disk EXCEPT ![Here].maps =
                        @ \cup {<<MapFolder(map, job.id, job.at), map>>}]
          /\ job' = [job EXCEPT !.at = @ + 1, !.todo =
                       IF map \in Named \ kernel.clang THEN @ \cup {map} ELSE @]
          /\ kernel' = [kernel EXCEPT !.clang = @ \cup {map}]
    /\ UNCHANGED <<link, installed, atStart, warned, spent>>

(* A modulemap is written into its directory; todo is warningClangModules. *)
WriteMap ==
    /\ At("maps") /\ job.at <= Len(Maps[job.spec])
    /\ LET map == Maps[job.spec][job.at]
       IN /\ disk' = [disk EXCEPT ![Here].maps =
                        @ \cup {<<MapFolder(map, job.id, job.at), map>>}]
          /\ job' = [job EXCEPT !.at = @ + 1, !.todo =
                       IF map \in Named \ kernel.clang THEN @ \cup {map} ELSE @]
    /\ UNCHANGED <<link, kernel, installed, atStart, warned, spent>>

(* A modulemap cannot be written. *)
WriteMapFails ==
    /\ At("maps") /\ job.at <= Len(Maps[job.spec]) /\ GiveUp
    /\ UNCHANGED <<disk, link, kernel>>

Warn ==
    /\ At("maps") /\ job.at > Len(Maps[job.spec])
    /\ warned' = warned \cup job.todo
    /\ Go("dlopen")
    /\ UNCHANGED <<disk, link, kernel, installed, atStart, spent>>

(* dlopen in the REPL process. *)
Load ==
    /\ At("dlopen") /\ job' = Idle
    /\ \/ /\ installed' = installed \cup {<<Here, job.spec, job.id>>}
          /\ UNCHANGED spent
       \/ MayFail /\ UNCHANGED installed
    /\ UNCHANGED <<disk, link, kernel, atStart, warned>>

(* The runtime is restarted, in the middle of an installation or not, by   *)
(* the user or because the kernel trapped: on text that is not UTF-8, or   *)
(* where Python raises in a call that is not a throwing one (json.loads).  *)
Restart ==
    /\ spent.restarts < MaxRestarts
    /\ spent' = [spent EXCEPT !.restarts = @ + 1]
    /\ kernel' = NewKernel /\ job' = Idle /\ warned' = {}
    /\ atStart' = [l \in Locations |-> {x[2] : x \in disk[l].maps}]
    /\ UNCHANGED <<disk, link, installed>>

-----------------------------------------------------------------------------
Package == Unlink \/ Relink \/ ReadPackages \/ AssignId \/ WriteIndex
           \/ WriteManifest \/ Build

Search  == ReadClangModules \/ DropModule \/ LinkModule \/ LinksDone
           \/ WriteMap \/ Warn

Failure == RelinkFails \/ WriteManifestFails \/ OutputRefused
           \/ DatabaseMissing \/ LinkModuleFails \/ WriteMapFails

Next == SetLocation \/ Start \/ Package \/ Search \/ Failure \/ Load
        \/ Restart

Spec == Init /\ [][Next]_vars

-----------------------------------------------------------------------------
(* Properties. *)

(* A package keeps its place in the index of its location, and with it its *)
(* folder, over restarts, failed installations and blank specifications    *)
(* (ProcessInstalls.swift:166-196, 240-253).                               *)
IdsStable ==
    [][\A l \in Locations : \A n \in DOMAIN disk[l].index :
          disk[l].index[n] # Blank =>
              /\ n \in DOMAIN disk'[l].index
              /\ disk'[l].index[n] = disk[l].index[n]]_vars

(* No later installation builds another package into the folder of one     *)
(* that was installed (ProcessInstalls.swift:244-251, 308-334).            *)
InstalledStaysBuilt ==
    \A x \in installed : disk[x[1]].built[x[3]] = x[2]

(* A module's link leads to a build that produces the module, at any       *)
(* moment, the middle of an installation included                          *)
(* (ProcessInstalls.swift:443-455).                                        *)
LinksProvide ==
    \A l \in Locations, m \in Modules :
        LET n == disk[l].links[m]
        IN n # 0 => /\ n \in Ids /\ disk[l].built[n] # None
                    /\ m \in Provides[disk[l].built[n]]

(* While modulemaps are only written in one location, an installation that *)
(* completes has warned of each of its named Clang modules that was not    *)
(* there when the kernel started, also when an earlier attempt of the same *)
(* kernel wrote it and failed (ProcessInstalls.swift:198-219, 387-389,     *)
(* 507-536).                                                               *)
OneLocation == \A l \in Locations \ {Default} : disk[l].maps = {}

WarnedOfNew ==
    OneLocation =>
        \A x \in installed : \A k \in DOMAIN Maps[x[2]] :
            Maps[x[2]][k] \in Named =>
                Maps[x[2]][k] \in atStart[Default] \cup warned

-----------------------------------------------------------------------------
(* What makes the properties inductive. *)

PCs == {"idle", "unlink", "relink", "read", "assign", "index", "manifest",
        "build", "clangModules", "links", "link", "maps", "dlopen"}

Folders == ({"module"} \X ModuleMaps) \cup ({"modulenoname"} \X Nat \X Nat)

Disks == [index    : Seq(Specs),
          manifest : [Ids -> Specs \cup {None}],
          built    : [Ids -> Specs \cup {None}],
          links    : [Modules -> Nat],
          maps     : SUBSET (Folders \X ModuleMaps)]

Kernels == [location  : Locations,
            packages  : Seq(Specs),
            read      : {None} \cup {IndexFile(l) : l \in Locations},
            clang     : SUBSET ModuleMaps,
            clangRead : BOOLEAN]

Jobs == [pc   : PCs,
         spec : Specs \cup {None},
         id   : Nat,
         todo : SUBSET (Modules \cup ModuleMaps),
         at   : Nat \cup Modules]

TypeOK ==
    /\ disk \in [Locations -> Disks]
    /\ link \in Locations \cup {None}
    /\ kernel \in Kernels
    /\ job \in Jobs
    /\ installed \subseteq Locations \X Specs \X Ids
    /\ atStart \in [Locations -> SUBSET ModuleMaps]
    /\ warned \subseteq Modules \cup ModuleMaps
    /\ spent \in [installs : Nat, restarts : Nat, failures : Nat]

(* Only the last line of an index can be empty: the lines are filtered     *)
(* whenever they are read.                                                 *)
Tidy(s) == \A n \in DOMAIN s : s[n] = Blank => n = Len(s)

(* The packages of s keep their places in t. *)
Kept(s, t) == \A n \in DOMAIN s : s[n] # Blank => n \in DOMAIN t /\ t[n] = s[n]

(* What a folder was built from is what the index says of it. *)
IndexTrue ==
    \A l \in Locations :
        /\ Tidy(disk[l].index)
        /\ \A n \in Ids : disk[l].built[n] # None =>
              /\ disk[l].built[n] # Blank
              /\ n \in DOMAIN disk[l].index
              /\ disk[l].index[n] = disk[l].built[n]

(* There are as many folders as installations were begun at most. *)
Room ==
    /\ spent.installs <= MaxInstalls
    /\ \A l \in Locations :
          /\ Len(disk[l].index) <= spent.installs
          /\ job.pc \in {"unlink", "relink", "read", "assign"} =>
                Len(disk[l].index) < spent.installs
    /\ job.pc = "index" => Len(kernel.packages) <= spent.installs

(* The running installation works in the folder of its package. *)
JobTrue ==
    /\ job.pc # "idle" => job.spec \in Specs
    /\ job.pc = "assign" => kernel.packages = Lines(disk[Here].index)
    /\ job.pc = "index" =>
          /\ Tidy(kernel.packages) /\ Kept(disk[Here].index, kernel.packages)
          /\ job.id \in DOMAIN kernel.packages
          /\ kernel.packages[job.id] = job.spec
    /\ job.pc \in {"manifest", "build", "clangModules", "links", "link", "maps",
                   "dlopen"} =>
          /\ job.id \in Ids /\ job.id \in DOMAIN disk[Here].index
          /\ disk[Here].index[job.id] = job.spec
    /\ job.pc = "build" => disk[Here].manifest[job.id] = job.spec
    /\ job.pc \in {"clangModules", "links", "link", "maps", "dlopen"} =>
          disk[Here].built[job.id] = job.spec
    /\ job.pc \in {"links", "link"} => job.todo \subseteq Provides[job.spec]
    /\ job.pc = "link" => job.at \in Provides[job.spec]
    /\ job.pc = "maps" => job.at \in Nat \ {0}

(* The modulemaps of the packages that were installed are on the disk, and *)
(* so are those that the running installation has got through.             *)
Written(l) == {x[2] : x \in disk[l].maps}

MapsThere ==
    /\ \A l \in Locations : \A x \in disk[l].maps :
          x[1][1] = "module" => x[1][2] = x[2]
    /\ \A x \in installed : \A k \in DOMAIN Maps[x[2]] :
          Maps[x[2]][k] \in Written(x[1])
    /\ job.pc \in {"maps", "dlopen"} =>
          \A k \in DOMAIN Maps[job.spec] :
              job.pc = "dlopen" \/ k < job.at =>
                  Maps[job.spec][k] \in Written(Here)

(* A kernel reads the modules before it writes any.                        *)
ClangTrue ==
    /\ job.pc \in {"links", "link", "maps", "dlopen"} => kernel.clangRead
    /\ ~kernel.clangRead =>
          kernel.clang = {} /\ \A l \in Locations : atStart[l] = Written(l)
    /\ OneLocation => kernel.clang \subseteq atStart[Default]

(* What the running installation has written and is not loaded is in its   *)
(* list, and then in the warning.                                          *)
JobWarns ==
    job.pc \in {"maps", "dlopen"} =>
        \A k \in DOMAIN Maps[job.spec] :
            /\ Maps[job.spec][k] \in Named
            /\ job.pc = "dlopen" \/ k < job.at
            => Maps[job.spec][k] \in kernel.clang \cup
                   (IF job.pc = "maps" THEN job.todo ELSE warned)

IInv ==
    /\ TypeOK /\ IndexTrue /\ Room /\ JobTrue
    /\ InstalledStaysBuilt /\ LinksProvide
    /\ MapsThere /\ ClangTrue /\ JobWarns /\ WarnedOfNew

=============================================================================
