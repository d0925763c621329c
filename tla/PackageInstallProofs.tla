------------------------ MODULE PackageInstallProofs ------------------------
(***************************************************************************)
(* A package keeps its place in the index and its build in its folder, and *)
(* the links to modules lead to builds that provide them: for all packages *)
(* and locations, whatever fails and whenever the runtime is restarted.    *)
(* The last part is about Subprocesses, the commands of directives, which  *)
(* make the flags that packages are built with.                            *)
(***************************************************************************)
EXTENDS PackageInstall, Subprocesses, SequenceTheorems, FiniteSetTheorems, TLAPS

(* Of an index in which at most the last line is empty, all other lines    *)
(* are read, at their places.                                              *)
LEMMA LinesOfTidy ==
    ASSUME NEW s \in Seq(Specs), Tidy(s)
    PROVE  /\ Lines(s) \in Seq(Specs)
           /\ Len(Lines(s)) <= Len(s)
           /\ \A n \in DOMAIN Lines(s) : Lines(s)[n] # Blank
           /\ Kept(s, Lines(s))
<1> DEFINE kept == {n \in DOMAIN s : s[n] # Blank}
           c == IF \E n \in DOMAIN s : s[n] = Blank THEN Len(s) - 1 ELSE Len(s)
<1>1. Len(s) \in Nat /\ DOMAIN s = 1..Len(s) /\ \A n \in DOMAIN s : s[n] \in Specs
  OBVIOUS
<1>2. c \in Nat /\ c <= Len(s) /\ kept = 1..c
  BY <1>1 DEF Tidy
<1> HIDE DEF c, kept
<1>3. ASSUME NEW k \in 0..c PROVE Cardinality(1..k) = k
  BY <1>2, <1>3, FS_Interval
<1>4. Lines(s) = [k \in 1..c |->
                    s[CHOOSE n \in 1..c : Cardinality({m \in 1..c : m <= n}) = k]]
  <2> DEFINE Picked(K, size) ==
                [k \in 1..size |->
                    s[CHOOSE n \in K : Cardinality({m \in K : m <= n}) = k]]
  <2>1. Lines(s) = Picked(kept, Cardinality(kept))
    BY DEF Lines, kept
  <2> HIDE DEF Picked
  <2>2. Cardinality(kept) = c
    BY <1>2, <1>3
  <2>3. Lines(s) = Picked(1..c, c)
    BY <1>2, <2>1, <2>2
  <2>4. QED
    BY <2>3 DEF Picked
<1>5. ASSUME NEW k \in 1..c
      PROVE  (CHOOSE n \in 1..c : Cardinality({m \in 1..c : m <= n}) = k) = k
  <2>1. ASSUME NEW n \in 1..c PROVE Cardinality({m \in 1..c : m <= n}) = n
    <3>1. {m \in 1..c : m <= n} = 1..n /\ n \in 0..c
      BY <1>2
    <3>2. QED
      BY <1>3, <3>1
  <2>2. QED
    BY <2>1
<1>6. Lines(s) = [k \in 1..c |-> s[k]]
  BY <1>4, <1>5
<1>7. \A k \in 1..c : k \in DOMAIN s /\ s[k] \in Specs /\ s[k] # Blank
  BY <1>1, <1>2 DEF kept
<1>8. Lines(s) \in Seq(Specs) /\ Len(Lines(s)) = c /\ DOMAIN Lines(s) = 1..c
  BY <1>2, <1>6, <1>7, SeqDef
<1>9. Kept(s, Lines(s))
  BY <1>1, <1>2, <1>6, <1>8 DEF Kept, kept
<1>10. QED
  BY <1>2, <1>6, <1>7, <1>8, <1>9

(* A specification at the end of lines that are not empty. *)
LEMMA OneMoreLine ==
    ASSUME NEW s \in Seq(Specs), NEW e \in Specs, \A n \in DOMAIN s : s[n] # Blank
    PROVE  /\ Append(s, e) \in Seq(Specs) /\ Len(Append(s, e)) = Len(s) + 1
           /\ Tidy(Append(s, e)) /\ Kept(s, Append(s, e))
           /\ Len(s) + 1 \in DOMAIN Append(s, e) /\ Append(s, e)[Len(s) + 1] = e
<1>1. /\ Len(s) \in Nat /\ DOMAIN s = 1..Len(s)
      /\ Append(s, e) \in Seq(Specs) /\ Len(Append(s, e)) = Len(s) + 1
      /\ DOMAIN Append(s, e) = 1..(Len(s) + 1)
      /\ \A n \in 1..Len(s) : Append(s, e)[n] = s[n]
      /\ Append(s, e)[Len(s) + 1] = e
  OBVIOUS
<1>2. QED
  BY <1>1 DEF Tidy, Kept

LEMMA KeptTransitive ==
    ASSUME NEW r, NEW s, NEW t, Kept(r, s), Kept(s, t) PROVE Kept(r, t)
BY DEF Kept

-----------------------------------------------------------------------------

(* The directory that a modulemap is written to is one of the folders. *)
LEMMA FolderType ==
    ASSUME NEW map \in ModuleMaps, NEW id \in Nat, NEW position \in Nat
    PROVE  MapFolder(map, id, position) \in Folders
BY DEF MapFolder, Folders

(* The named modules of the maps that were written. *)
LEMMA NamedType ==
    ASSUME NEW maps, maps \subseteq Folders \X ModuleMaps
    PROVE  {f[2] : f \in {g \in {x[1] : x \in maps} : g[1] = "module"}}
               \subseteq ModuleMaps
<1>1. ASSUME NEW g \in Folders, g[1] = "module" PROVE g[2] \in ModuleMaps
  BY <1>1 DEF Folders
<1>2. \A x \in maps : x[1] \in Folders
  OBVIOUS
<1>3. QED
  BY <1>1, <1>2

LEMMA DiskType ==
    ASSUME TypeOK, NEW l \in Locations
    PROVE  /\ disk[l] \in Disks
           /\ disk[l].index \in Seq(Specs) /\ Len(disk[l].index) \in Nat
           /\ disk[l].manifest \in [Ids -> Specs \cup {None}]
           /\ disk[l].built \in [Ids -> Specs \cup {None}]
           /\ disk[l].links \in [Modules -> Nat]
           /\ disk[l].maps \subseteq Folders \X ModuleMaps
<1>1. disk[l] \in Disks
  BY DEF TypeOK
<1>2. disk[l].index \in Seq(Specs)
  BY <1>1 DEF Disks
<1>3. QED
  BY <1>1, <1>2 DEF Disks

LEMMA InitType == Init => TypeOK
<1> SUFFICES ASSUME Init PROVE TypeOK
  OBVIOUS
<1>1. /\ Default \in Locations /\ None \notin Specs
      /\ <<>> \in Seq(Specs)
  BY PackagesAssumption
<1>2. disk \in [Locations -> Disks]
  BY <1>1 DEF Init, Disks
<1>3. kernel \in Kernels
  BY <1>1 DEF Init, NewKernel, Kernels
<1>4. job \in Jobs
  BY DEF Init, Idle, Jobs, PCs
<1>5. QED
  BY <1>2, <1>3, <1>4 DEF Init, TypeOK

(* The fields that the failing steps count with. *)
LEMMA SpentType ==
    ASSUME TypeOK, MayFail \/ UNCHANGED spent
    PROVE  /\ spent' \in [installs : Nat, restarts : Nat, failures : Nat]
           /\ spent'.installs = spent.installs
BY DEF TypeOK, MayFail

LEMMA IdleType == Idle \in Jobs /\ Idle.pc = "idle"
BY DEF Idle, Jobs, PCs

(* The types of the parts of the state that steps work with. *)
LEMMA Types ==
    ASSUME TypeOK
    PROVE  /\ Here \in Locations /\ job.id \in Nat /\ job.pc \in PCs
           /\ kernel.packages \in Seq(Specs) /\ kernel.clang \in SUBSET ModuleMaps
           /\ kernel.read \in {None} \cup {IndexFile(l) : l \in Locations}
           /\ job.todo \subseteq Modules \cup ModuleMaps
           /\ job.at \in Nat \cup Modules /\ job.spec \in Specs \cup {None}
           /\ spent.installs \in Nat
BY DEF TypeOK, Here, Kernels, Jobs

(* The lines are read again by every installation: what says that they     *)
(* were read is a file, and is compared with a directory.                  *)
LEMMA AlwaysRead ==
    ASSUME TypeOK PROVE kernel.read # Here
BY Types, PackagesAssumption DEF IndexFile

(* One location of the disk changes. *)
LEMMA DiskStep ==
    ASSUME TypeOK, NEW d \in Disks, disk' = [disk EXCEPT ![Here] = d]
    PROVE  /\ disk' \in [Locations -> Disks]
           /\ disk'[Here] = d
           /\ \A l \in Locations : l # Here => disk'[l] = disk[l]
BY Types DEF TypeOK

(* A step of an installation that fails ends it, and can leave the disk    *)
(* with a new manifest or a new build.                                     *)
LEMMA FailureEnds ==
    ASSUME Failure
    PROVE  /\ job' = Idle /\ job'.pc = "idle" /\ MayFail
           /\ UNCHANGED <<link, installed, atStart, warned>>
           /\ kernel' = kernel \/ DatabaseMissing
BY IdleType DEF Failure, GiveUp, Fails, RelinkFails, WriteManifestFails,
   OutputRefused, DatabaseMissing, LinkModuleFails, WriteMapFails

LEMMA FailureLeaves ==
    ASSUME TypeOK, Failure, NEW l \in Locations
    PROVE  /\ disk'[l].index = disk[l].index
           /\ disk'[l].links = disk[l].links
           /\ disk'[l].maps = disk[l].maps
           /\ \/ disk'[l].built = disk[l].built
              \/ /\ OutputRefused /\ l = Here
                 /\ disk[l].manifest[job.id] # Blank
                 /\ disk'[l].built =
                       [disk[l].built EXCEPT ![job.id] = disk[l].manifest[job.id]]
<1>t. Here \in Locations /\ disk \in [Locations -> Disks] /\ disk[Here] \in Disks
      /\ disk[l] \in Disks
  BY Types, DiskType DEF TypeOK
<1>1. CASE disk' = disk
  BY <1>1
<1>2. CASE disk' = [disk EXCEPT ![Here].manifest[job.id] = job.spec]
  BY <1>t, <1>2 DEF Disks
<1>3. CASE OutputRefused
  <2> DEFINE spec == disk[Here].manifest[job.id]
  <2>1. spec # Blank /\ disk' = [disk EXCEPT ![Here].built[job.id] = spec]
    BY <1>3 DEF OutputRefused
  <2>2. QED
    BY <1>t, <1>3, <2>1 DEF Disks
<1>4. QED
  BY <1>1, <1>2, <1>3 DEF Failure, RelinkFails, WriteManifestFails,
     DatabaseMissing, LinkModuleFails, WriteMapFails

LEMMA FailureType ==
    ASSUME TypeOK, JobTrue, Failure, kernel' \in Kernels
    PROVE  TypeOK'
<1>d. disk[Here] \in Disks
  BY Types, DiskType
<1>1. disk' \in [Locations -> Disks]
  <2>1. CASE disk' = disk
    BY <2>1 DEF TypeOK
  <2>2. CASE WriteManifestFails
             /\ disk' = [disk EXCEPT ![Here].manifest[job.id] = job.spec]
    <3>1. job.id \in Ids /\ job.spec \in Specs
      BY <2>2 DEF WriteManifestFails, At, JobTrue
    <3>2. [disk[Here] EXCEPT !.manifest[job.id] = job.spec] \in Disks
      BY <1>d, <3>1 DEF Disks
    <3>3. QED
      BY <2>2, <3>2, DiskStep
  <2>3. CASE OutputRefused
    <3> DEFINE spec == disk[Here].manifest[job.id]
    <3>1. job.id \in Ids /\ spec \in Specs
      BY <2>3, Types DEF OutputRefused, At, JobTrue
    <3>2. disk' = [disk EXCEPT ![Here].built[job.id] = spec]
      BY <2>3 DEF OutputRefused
    <3>3. [disk[Here] EXCEPT !.built[job.id] = spec] \in Disks
      BY <1>d, <3>1 DEF Disks
    <3>4. QED
      BY <3>2, <3>3, DiskStep
  <2>4. QED
    BY <2>1, <2>2, <2>3 DEF Failure, RelinkFails, WriteManifestFails,
       DatabaseMissing, LinkModuleFails, WriteMapFails
<1>2. QED
  BY <1>1, FailureEnds, IdleType, SpentType DEF TypeOK

LEMMA TypeStep ==
    ASSUME TypeOK, JobTrue, IndexTrue, [Next]_vars
    PROVE  TypeOK'
<1>t. /\ Here \in Locations /\ job \in Jobs /\ kernel \in Kernels
      /\ spent \in [installs : Nat, restarts : Nat, failures : Nat]
      /\ Default \in Locations
  BY Types, PackagesAssumption DEF TypeOK
<1>d. disk[Here] \in Disks
  BY <1>t, DiskType
<1>i. Idle \in Jobs
  BY IdleType
<1> USE DEF At, Go, Fails
<1>1. CASE SetLocation
  BY <1>1, <1>t DEF SetLocation, TypeOK, Kernels
<1>2. CASE Start
  <2>1. PICK s \in Specs : job' = [Idle EXCEPT !.pc = "unlink", !.spec = s]
    BY <1>2 DEF Start
  <2>2. job' \in Jobs
    BY <2>1 DEF Idle, Jobs, PCs
  <2>3. spent' \in [installs : Nat, restarts : Nat, failures : Nat]
    BY <1>2, <1>t DEF Start
  <2>4. QED
    BY <1>2, <2>2, <2>3 DEF Start, TypeOK
<1>3. CASE Unlink \/ Relink
  BY <1>3, <1>t DEF Unlink, Relink, TypeOK, Jobs, PCs
<1>4. CASE ReadPackages
  <2>1. Lines(disk[Here].index) \in Seq(Specs)
    BY <1>t, DiskType, LinesOfTidy DEF IndexTrue
  <2>2. kernel' \in Kernels
    BY <1>4, <1>t, <2>1 DEF ReadPackages, Kernels
  <2>3. job' \in Jobs
    BY <1>4, <1>t DEF ReadPackages, Jobs, PCs
  <2>4. QED
    BY <1>4, <2>2, <2>3 DEF ReadPackages, TypeOK
<1>5. CASE AssignId
  <2>1. /\ job.spec \in Specs /\ kernel.packages \in Seq(Specs)
    BY <1>5, Types DEF AssignId, JobTrue
  <2>2. Append(kernel.packages, job.spec) \in Seq(Specs) /\ Len(kernel.packages) + 1 \in Nat
        /\ DOMAIN kernel.packages \subseteq Nat
    BY <2>1
  <2>3. kernel' \in Kernels
    BY <1>5, <1>t, <2>2 DEF AssignId, Kernels
  <2>4. job' \in Jobs
    <3>1. PICK n \in Nat : job' = [job EXCEPT !.pc = "index", !.id = n]
      BY <1>5, <2>2 DEF AssignId
    <3>2. QED
      BY <1>t, <3>1 DEF Jobs, PCs
  <2>5. QED
    BY <1>5, <2>3, <2>4 DEF AssignId, TypeOK
<1>6. CASE WriteIndex
  <2>1. CASE Here \in Existing
    <3>1. [disk[Here] EXCEPT !.index = kernel.packages] \in Disks
      BY <1>d, Types DEF Disks
    <3>2. disk' \in [Locations -> Disks]
      BY <1>6, <2>1, <3>1, DiskStep DEF WriteIndex
    <3>3. job' \in Jobs
      BY <1>6, <2>1, <1>t DEF WriteIndex, Jobs, PCs
    <3>4. QED
      BY <1>6, <3>2, <3>3 DEF WriteIndex, TypeOK
  <2>2. CASE Here \notin Existing
    BY <1>6, <2>2, <1>i DEF WriteIndex, TypeOK
  <2>3. QED
    BY <2>1, <2>2
<1>7. CASE WriteManifest
  <2>1. job.id \in Ids /\ job.spec \in Specs
    BY <1>7 DEF WriteManifest, JobTrue
  <2>2. [disk[Here] EXCEPT !.manifest[job.id] = job.spec] \in Disks
    BY <1>d, <2>1 DEF Disks
  <2>3. disk' \in [Locations -> Disks]
    BY <1>7, <2>2, DiskStep DEF WriteManifest
  <2>4. job' \in Jobs
    BY <1>7, <1>t DEF WriteManifest, Jobs, PCs
  <2>5. QED
    BY <1>7, <2>3, <2>4 DEF WriteManifest, TypeOK
<1>8. CASE Build
  <2> DEFINE spec == disk[Here].manifest[job.id]
  <2>1. job.id \in Ids /\ spec \in Specs
    BY <1>8, Types DEF Build, JobTrue
  <2>2. spent' \in [installs : Nat, restarts : Nat, failures : Nat]
    BY <1>8, <1>t, SpentType DEF Build
  <2>3. CASE disk' = [disk EXCEPT ![Here].built[job.id] = spec]
             /\ job' = [job EXCEPT !.pc = "clangModules"]
    <3>1. [disk[Here] EXCEPT !.built[job.id] = spec] \in Disks
      BY <1>d, <2>1 DEF Disks
    <3>2. disk' \in [Locations -> Disks]
      BY <2>3, <3>1, DiskStep
    <3>3. job' \in Jobs
      BY <2>3, <1>t DEF Jobs, PCs
    <3>4. QED
      BY <1>8, <2>2, <3>2, <3>3 DEF Build, TypeOK
  <2>4. CASE disk' = disk /\ job' = Idle
    BY <1>8, <2>2, <2>4, <1>i DEF Build, TypeOK
  <2>5. QED
    BY <1>8, <2>3, <2>4 DEF Build
<1>c. ASSUME ReadClangModules \/ DatabaseMissing PROVE kernel' \in Kernels
  <2>1. disk[Here].maps \subseteq Folders \X ModuleMaps
    BY <1>t, DiskType
  <2> DEFINE read == {f[2] : f \in {g \in {x[1] : x \in disk[Here].maps} :
                                          g[1] = "module"}}
  <2>2. read \subseteq ModuleMaps
    BY <2>1, NamedType
  <2>3. kernel' = kernel \/ kernel' = [kernel EXCEPT !.clangRead = TRUE, !.clang = read]
    BY <1>c DEF ReadClangModules, DatabaseMissing, WithClangModules
  <2> HIDE DEF read
  <2>4. QED
    BY <1>t, <2>2, <2>3 DEF Kernels
<1>9. CASE ReadClangModules
  <2>1. kernel' \in Kernels
    BY <1>9, <1>c
  <2>2. job' \in Jobs
    <3>1. Provides[job.spec] \subseteq Modules
      BY <1>9, PackagesAssumption DEF ReadClangModules, JobTrue
    <3>2. QED
      BY <1>9, <1>t, <3>1 DEF ReadClangModules, Jobs, PCs
  <2>3. QED
    BY <1>9, <2>1, <2>2 DEF ReadClangModules, TypeOK
<1>10. CASE DropModule
  <2>1. PICK m \in job.todo : /\ disk' = [disk EXCEPT ![Here].links[m] = 0]
                              /\ job' = [job EXCEPT !.pc = "link", !.at = m]
    BY <1>10 DEF DropModule
  <2>2. m \in Modules
    BY <1>10, PackagesAssumption DEF DropModule, JobTrue
  <2>3. [disk[Here] EXCEPT !.links[m] = 0] \in Disks
    BY <1>d, <2>2 DEF Disks
  <2>4. disk' \in [Locations -> Disks]
    BY <2>1, <2>3, DiskStep
  <2>5. job' \in Jobs
    BY <1>t, <2>1, <2>2 DEF Jobs, PCs
  <2>6. QED
    BY <1>10, <2>4, <2>5 DEF DropModule, TypeOK
<1>11. CASE LinkModule
  <2>1. job.at \in Modules
    BY <1>11, PackagesAssumption DEF LinkModule, JobTrue
  <2>2. [disk[Here] EXCEPT !.links[job.at] = job.id] \in Disks
    BY <1>d, <2>1, Types DEF Disks
  <2>3. disk' \in [Locations -> Disks]
    BY <1>11, <2>2, DiskStep DEF LinkModule
  <2>4. job' \in Jobs
    BY <1>11, <1>t DEF LinkModule, Jobs, PCs
  <2>5. QED
    BY <1>11, <2>3, <2>4 DEF LinkModule, TypeOK
<1>12. CASE LinksDone
  <2>1. job' \in Jobs
    BY <1>12, <1>t DEF LinksDone, Jobs, PCs
  <2>2. QED
    BY <1>12, <2>1 DEF LinksDone, TypeOK
<1>13. CASE WriteMap
  <2> DEFINE map == Maps[job.spec][job.at]
             new == <<MapFolder(map, job.id, job.at), map>>
  <2>1. job.spec \in Specs /\ job.at \in Nat \ {0}
    BY <1>13 DEF WriteMap, JobTrue
  <2>2. map \in ModuleMaps
    <3>1. Maps[job.spec] \in Seq(ModuleMaps)
      BY <2>1, PackagesAssumption
    <3>2. QED
      BY <1>13, <2>1, <3>1 DEF WriteMap
  <2>3. new \in Folders \X ModuleMaps
    BY <2>1, <2>2, FolderType, Types
  <2>4. /\ disk' = [disk EXCEPT ![Here].maps = @ \cup {new}]
        /\ job' = [job EXCEPT !.at = @ + 1, !.todo =
                       IF map \in Named \ kernel.clang THEN @ \cup {map} ELSE @]
    BY <1>13 DEF WriteMap
  <2> HIDE DEF map, new
  <2>5. [disk[Here] EXCEPT !.maps = @ \cup {new}] \in Disks
    BY <1>d, <2>3 DEF Disks
  <2>6. disk' \in [Locations -> Disks]
    BY <2>4, <2>5, DiskStep
  <2>7. job' \in Jobs
    <3>1. PICK t \in SUBSET (Modules \cup ModuleMaps) :
              job' = [job EXCEPT !.at = job.at + 1, !.todo = t]
      BY <2>2, <2>4, Types
    <3>2. job.at + 1 \in Nat
      BY <2>1
    <3>3. QED
      BY <1>t, <3>1, <3>2 DEF Jobs
  <2>8. QED
    BY <1>13, <2>6, <2>7 DEF WriteMap, TypeOK
<1>14. CASE Failure
  BY <1>14, <1>c, <1>t, FailureEnds, FailureType
<1>15. CASE Warn
  <2>1. job' \in Jobs
    BY <1>15, <1>t DEF Warn, Jobs, PCs
  <2>2. warned' \subseteq Modules \cup ModuleMaps
    BY <1>15, Types DEF Warn, TypeOK
  <2>3. QED
    BY <1>15, <2>1, <2>2 DEF Warn, TypeOK
<1>16. CASE Load
  <2>1. spent' \in [installs : Nat, restarts : Nat, failures : Nat]
    BY <1>16, SpentType DEF Load
  <2>2. job.id \in Ids /\ job.spec \in Specs
    BY <1>16 DEF Load, JobTrue
  <2>3. installed' \subseteq Locations \X Specs \X Ids
    BY <1>16, <1>t, <2>2 DEF Load, TypeOK
  <2>4. QED
    BY <1>16, <1>i, <2>1, <2>3 DEF Load, TypeOK
<1>17. CASE Restart
  <2>1. kernel' \in Kernels
    BY <1>17, <1>t DEF Restart, NewKernel, Kernels
  <2>2. spent' \in [installs : Nat, restarts : Nat, failures : Nat]
    BY <1>17, <1>t DEF Restart
  <2>3. atStart' \in [Locations -> SUBSET ModuleMaps]
    <3>1. ASSUME NEW l \in Locations PROVE {x[2] : x \in disk[l].maps} \subseteq ModuleMaps
      BY DiskType
    <3>2. QED
      BY <1>17, <3>1 DEF Restart
  <2>4. QED
    BY <1>17, <1>i, <2>1, <2>2, <2>3 DEF Restart, TypeOK
<1>18. CASE UNCHANGED vars
  BY <1>18 DEF vars, TypeOK
<1>19. QED
  BY <1>1, <1>2, <1>3, <1>4, <1>5, <1>6, <1>7, <1>8, <1>9, <1>10, <1>11, <1>12,
     <1>13, <1>14, <1>15, <1>16, <1>17, <1>18 DEF Next, Package, Search

-----------------------------------------------------------------------------

(* An index is changed by WriteIndex only, what was built by a build only. *)
LEMMA IndexKept ==
    ASSUME TypeOK, [Next]_vars, NEW l \in Locations
    PROVE  /\ \/ disk'[l].index = disk[l].index
              \/ WriteIndex /\ l = Here /\ disk'[l].index = kernel.packages
           /\ \/ disk'[l].built = disk[l].built
              \/ /\ Build \/ OutputRefused
                 /\ l = Here /\ disk[l].manifest[job.id] # Blank
                 /\ disk'[l].built =
                       [disk[l].built EXCEPT ![job.id] = disk[l].manifest[job.id]]
<1>t. Here \in Locations /\ disk \in [Locations -> Disks] /\ disk[Here] \in Disks
      /\ disk[l] \in Disks
  BY Types, DiskType DEF TypeOK
<1>1. CASE disk' = disk
  BY <1>1
<1>2. CASE WriteIndex
  <2>1. CASE Here \in Existing
    <3>1. disk' = [disk EXCEPT ![Here].index = kernel.packages]
      BY <1>2, <2>1 DEF WriteIndex
    <3>2. QED
      BY <1>t, <1>2, <3>1 DEF Disks
  <2>2. CASE Here \notin Existing
    BY <1>1, <1>2, <2>2 DEF WriteIndex
  <2>3. QED
    BY <2>1, <2>2
<1>3. CASE WriteManifest
  BY <1>t, <1>3 DEF WriteManifest, Disks
<1>4. CASE Build
  <2> DEFINE spec == disk[Here].manifest[job.id]
  <2>1. CASE spec # Blank /\ disk' = [disk EXCEPT ![Here].built[job.id] = spec]
    BY <1>t, <1>4, <2>1 DEF Disks
  <2>2. QED
    BY <1>1, <1>4, <2>1 DEF Build
<1>5. CASE DropModule
  BY <1>t, <1>5 DEF DropModule, Disks
<1>6. CASE LinkModule
  BY <1>t, <1>6 DEF LinkModule, Disks
<1>7. CASE WriteMap
  <2>1. PICK new : disk' = [disk EXCEPT ![Here].maps = @ \cup {new}]
    BY <1>7 DEF WriteMap
  <2>2. QED
    BY <1>t, <2>1 DEF Disks
<1>8. CASE SetLocation \/ Start \/ Unlink \/ Relink \/ ReadPackages \/ AssignId
           \/ ReadClangModules \/ LinksDone \/ Warn \/ Load \/ Restart
           \/ UNCHANGED vars
  BY <1>1, <1>8 DEF SetLocation, Start, Unlink, Relink, ReadPackages, AssignId,
     ReadClangModules, LinksDone, Warn, Load, Restart, vars
<1>9. CASE Failure
  BY <1>9, FailureLeaves
<1>10. QED
  BY <1>2, <1>3, <1>4, <1>5, <1>6, <1>7, <1>8, <1>9 DEF Next, Package, Search

(* Packages keep their places in the index when it is written again. *)
LEMMA PlacesKept ==
    ASSUME TypeOK, JobTrue, [Next]_vars, NEW l \in Locations
    PROVE  Kept(disk[l].index, disk'[l].index)
<1>1. CASE disk'[l].index = disk[l].index
  BY <1>1 DEF Kept
<1>2. CASE WriteIndex /\ l = Here /\ disk'[l].index = kernel.packages
  BY <1>2 DEF WriteIndex, At, JobTrue
<1>3. QED
  BY <1>1, <1>2, IndexKept

(* What is built into a folder is what the index says of it. *)
LEMMA BuiltStep ==
    ASSUME TypeOK, JobTrue, [Next]_vars, NEW l \in Locations, NEW n \in Ids
    PROVE  \/ disk'[l].built[n] = disk[l].built[n]
           \/ /\ disk'[l].built[n] = disk[l].index[n] /\ n \in DOMAIN disk[l].index
              /\ disk[l].index[n] \in Specs \ {Blank}
<1>1. CASE disk'[l].built = disk[l].built
  BY <1>1
<1>2. CASE /\ Build \/ OutputRefused
           /\ l = Here /\ disk[l].manifest[job.id] # Blank
           /\ disk'[l].built =
                 [disk[l].built EXCEPT ![job.id] = disk[l].manifest[job.id]]
  <2>1. /\ job.spec \in Specs /\ disk[l].manifest[job.id] = job.spec
        /\ job.id \in DOMAIN disk[l].index /\ disk[l].index[job.id] = job.spec
    BY <1>2 DEF Build, OutputRefused, At, JobTrue
  <2>2. disk[l].built \in [Ids -> Specs \cup {None}]
    BY DiskType
  <2>3. QED
    BY <1>2, <2>1, <2>2
<1>3. QED
  BY <1>1, <1>2, IndexKept

(* A build is never replaced by another one. *)
LEMMA BuildsStay ==
    ASSUME TypeOK, JobTrue, IndexTrue, [Next]_vars,
           NEW l \in Locations, NEW n \in Ids, disk[l].built[n] # None
    PROVE  disk'[l].built[n] = disk[l].built[n]
BY BuiltStep DEF IndexTrue

LEMMA IndexStep ==
    ASSUME TypeOK, JobTrue, IndexTrue, [Next]_vars
    PROVE  IndexTrue'
<1> SUFFICES ASSUME NEW l \in Locations
             PROVE  /\ Tidy(disk'[l].index)
                    /\ \A n \in Ids : disk'[l].built[n] # None =>
                          /\ disk'[l].built[n] # Blank
                          /\ n \in DOMAIN disk'[l].index
                          /\ disk'[l].index[n] = disk'[l].built[n]
  BY DEF IndexTrue, Tidy
<1>1. Tidy(disk'[l].index)
  <2>1. CASE disk'[l].index = disk[l].index
    BY <2>1 DEF IndexTrue
  <2>2. CASE WriteIndex /\ disk'[l].index = kernel.packages
    BY <2>2 DEF WriteIndex, At, JobTrue
  <2>3. QED
    BY <2>1, <2>2, IndexKept
<1>2. ASSUME NEW n \in Ids, disk'[l].built[n] # None
      PROVE  /\ disk'[l].built[n] # Blank
             /\ n \in DOMAIN disk'[l].index
             /\ disk'[l].index[n] = disk'[l].built[n]
  <2>1. /\ disk'[l].built[n] # Blank /\ n \in DOMAIN disk[l].index
        /\ disk[l].index[n] = disk'[l].built[n]
    BY <1>2, BuiltStep DEF IndexTrue
  <2>2. QED
    BY <2>1, PlacesKept DEF Kept
<1>3. QED
  BY <1>1, <1>2

(* Every installation adds one line to an index at most. *)
LEMMA RoomStep ==
    ASSUME TypeOK, JobTrue, IndexTrue, Room, [Next]_vars
    PROVE  Room'
<1>l. \A l \in Locations : Len(disk[l].index) \in Nat
  BY DiskType
<1>s. spent.installs \in Nat /\ MaxInstalls \in Nat /\ Here \in Locations
  BY Types, PackagesAssumption
<1>j. job \in Jobs
  BY DEF TypeOK
<1> USE DEF At, Go, Fails
<1>1. CASE Start
  <2>1. /\ job.pc = "idle" /\ spent.installs < MaxInstalls /\ disk' = disk
        /\ job'.pc = "unlink" /\ spent'.installs = spent.installs + 1
    BY <1>1, <1>s DEF Start, Idle, TypeOK
  <2>2. QED
    BY <1>l, <1>s, <2>1 DEF Room
<1>2. CASE Unlink \/ Relink \/ ReadPackages
  <2>1. /\ job.pc \in {"unlink", "relink", "read"}
        /\ job'.pc \in {"relink", "read", "assign"} /\ UNCHANGED <<disk, spent>>
    BY <1>2, <1>j DEF Unlink, Relink, ReadPackages, Jobs
  <2>2. QED
    BY <2>1 DEF Room
<1>3. CASE AssignId
  <2>1. /\ job.pc = "assign" /\ job'.pc = "index" /\ UNCHANGED <<disk, spent>>
        /\ kernel' = kernel \/ kernel'.packages = Append(kernel.packages, job.spec)
    BY <1>3, <1>j DEF AssignId, Jobs, TypeOK, Kernels
  <2>2. Len(disk[Here].index) < spent.installs
    BY <1>s, <2>1 DEF Room
  <2>3. kernel.packages \in Seq(Specs) /\ Len(kernel.packages) <= Len(disk[Here].index)
    BY <1>s, <2>1, DiskType, LinesOfTidy DEF JobTrue, IndexTrue
  <2>4. Len(kernel'.packages) <= spent.installs
    <3>1. job.spec \in Specs /\ Len(kernel.packages) \in Nat
      BY <2>1, <2>3 DEF JobTrue
    <3>2. Len(Append(kernel.packages, job.spec)) = Len(kernel.packages) + 1
      BY <2>3, <3>1
    <3>3. QED
      BY <1>l, <1>s, <2>1, <2>2, <2>3, <3>1, <3>2
  <2>5. QED
    BY <2>1, <2>4 DEF Room
<1>4. CASE WriteIndex
  <2>1. /\ job.pc = "index" /\ job'.pc \in {"manifest", "idle"} /\ spent' = spent
    BY <1>4, <1>j DEF WriteIndex, Jobs, Idle
  <2>2. \A l \in Locations : Len(disk'[l].index) <= spent.installs
    BY <2>1, IndexKept DEF Room
  <2>3. QED
    BY <2>1, <2>2 DEF Room
<1>5. ASSUME job'.pc \notin {"unlink", "relink", "read", "assign", "index"},
             spent'.installs = spent.installs, ~WriteIndex
      PROVE  Room'
  <2>1. \A l \in Locations : disk'[l].index = disk[l].index
    BY <1>5, IndexKept
  <2>2. QED
    BY <1>5, <2>1 DEF Room
<1>6. CASE WriteManifest \/ Build
  <2>1. /\ job'.pc \in {"build", "clangModules", "idle"} /\ ~WriteIndex
        /\ spent'.installs = spent.installs
    BY <1>6, <1>j, SpentType DEF WriteManifest, Build, WriteIndex, Jobs, Idle
  <2>2. QED
    BY <1>5, <2>1
<1>7. CASE ReadClangModules \/ DropModule \/ LinkModule \/ LinksDone
  <2>1. /\ job'.pc \in {"links", "link", "maps"} /\ ~WriteIndex
        /\ spent'.installs = spent.installs
    BY <1>7, <1>j DEF ReadClangModules, DropModule, LinkModule, LinksDone,
       WriteIndex, Jobs
  <2>2. QED
    BY <1>5, <2>1
<1>8. CASE WriteMap \/ Warn \/ Load
  <2>1. job'.pc \in {"maps", "dlopen", "idle"}
    <3>1. CASE WriteMap
      <4>1. job.pc = "maps" /\ \E a, t : job' = [job EXCEPT !.at = a, !.todo = t]
        BY <3>1 DEF WriteMap
      <4>2. QED
        BY <1>j, <4>1 DEF Jobs
    <3>2. CASE Warn \/ Load
      BY <1>j, <3>2 DEF Warn, Load, Jobs, Idle
    <3>3. QED
      BY <1>8, <3>1, <3>2
  <2>2. ~WriteIndex
    BY <1>8 DEF WriteMap, Warn, Load, WriteIndex
  <2>3. spent'.installs = spent.installs
    BY <1>8, SpentType DEF WriteMap, Warn, Load
  <2>4. QED
    BY <1>5, <2>1, <2>2, <2>3
<1>9. CASE Restart
  <2>1. job'.pc = "idle" /\ disk' = disk /\ spent'.installs = spent.installs
    BY <1>9 DEF Restart, Idle, TypeOK
  <2>2. QED
    BY <2>1 DEF Room
<1>10. CASE SetLocation
  BY <1>10 DEF SetLocation, Room
<1>11. CASE UNCHANGED vars
  BY <1>11 DEF vars, Room
<1>12. CASE Failure
  <2>1. \A l \in Locations : disk'[l].index = disk[l].index
    BY <1>12, FailureLeaves
  <2>2. job'.pc = "idle" /\ spent'.installs = spent.installs
    BY <1>12, FailureEnds, SpentType
  <2>3. QED
    BY <2>1, <2>2 DEF Room
<1>13. QED
  BY <1>1, <1>2, <1>3, <1>4, <1>6, <1>7, <1>8, <1>9, <1>10, <1>11, <1>12
     DEF Next, Package, Search

-----------------------------------------------------------------------------

(* What JobTrue says of the folder, once it is chosen. *)
InFolder == job.id \in Ids /\ job.id \in DOMAIN disk[Here].index
            /\ disk[Here].index[job.id] = job.spec /\ job.spec \in Specs

(* The index keeps the place of the package, unless it is empty. *)
LEMMA FolderKept ==
    ASSUME TypeOK, JobTrue, [Next]_vars, InFolder, ~WriteIndex,
           Here' = Here, job'.id = job.id, job'.spec = job.spec
    PROVE  InFolder'
BY IndexKept, Types DEF InFolder

LEMMA JobStep ==
    ASSUME TypeOK, JobTrue, IndexTrue, Room, [Next]_vars
    PROVE  JobTrue'
<1>j. job \in Jobs /\ Here \in Locations /\ kernel \in Kernels
  BY Types DEF TypeOK
<1> USE DEF At, Go, Fails
<1>i. job' = Idle => JobTrue'
  BY DEF Idle, JobTrue
<1>1. CASE SetLocation
  BY <1>1 DEF SetLocation, JobTrue
<1>2. CASE Start
  <2>1. job'.pc = "unlink" /\ job'.spec \in Specs
    BY <1>2 DEF Start, Idle
  <2>2. QED
    BY <2>1 DEF JobTrue
<1>3. CASE Unlink \/ Relink
  <2>1. job'.pc \in {"relink", "read"} /\ job'.spec = job.spec /\ job.spec \in Specs
    BY <1>3, <1>j DEF Unlink, Relink, Jobs, JobTrue
  <2>2. QED
    BY <2>1 DEF JobTrue
<1>4. CASE ReadPackages
  <2>1. job'.pc = "assign" /\ job'.spec = job.spec /\ job.spec \in Specs
    BY <1>4, <1>j DEF ReadPackages, Jobs, JobTrue
  <2>2. /\ kernel'.packages = Lines(disk[Here].index) /\ Here' = Here
        /\ disk' = disk
    BY <1>4, <1>j, AlwaysRead DEF ReadPackages, Here, Kernels
  <2>3. QED
    BY <2>1, <2>2 DEF JobTrue
<1>5. CASE AssignId
  <2>1. /\ job.pc = "assign" /\ job'.pc = "index" /\ job'.spec = job.spec
        /\ job.spec \in Specs /\ disk' = disk
    BY <1>5, <1>j DEF AssignId, Jobs, JobTrue
  <2>2. Here' = Here
    BY <1>5, <1>j DEF AssignId, Here, Kernels
  <2>3. /\ kernel.packages \in Seq(Specs)
        /\ \A n \in DOMAIN kernel.packages : kernel.packages[n] # Blank
        /\ Kept(disk[Here].index, kernel.packages)
    BY <1>j, <2>1, DiskType, LinesOfTidy DEF JobTrue, IndexTrue
  <2>4. CASE kernel' = kernel
             /\ \E n \in DOMAIN kernel.packages :
                   kernel.packages[n] = job.spec /\ job'.id = n
    BY <2>1, <2>2, <2>3, <2>4 DEF JobTrue, Tidy
  <2>5. CASE kernel'.packages = Append(kernel.packages, job.spec)
             /\ job'.id = Len(kernel.packages) + 1
    <3>1. /\ Tidy(kernel'.packages) /\ Kept(kernel.packages, kernel'.packages)
          /\ job'.id \in DOMAIN kernel'.packages
          /\ kernel'.packages[job'.id] = job.spec
      BY <2>1, <2>3, <2>5, OneMoreLine
    <3>2. Kept(disk[Here].index, kernel'.packages)
      BY <2>3, <3>1, KeptTransitive
    <3>3. QED
      BY <2>1, <2>2, <3>1, <3>2 DEF JobTrue
  <2>6. QED
    BY <1>5, <1>j, <2>4, <2>5 DEF AssignId, Jobs, Kernels
<1>6. CASE WriteIndex
  <2>1. CASE Here \in Existing
    <3>1. /\ job.pc = "index" /\ job'.pc = "manifest" /\ Here' = Here
          /\ job'.id = job.id /\ job'.spec = job.spec /\ job.spec \in Specs
          /\ disk' = [disk EXCEPT ![Here].index = kernel.packages]
      BY <1>6, <1>j, <2>1 DEF WriteIndex, Here, Jobs, JobTrue
    <3>2. disk'[Here].index = kernel.packages
      BY <1>j, <3>1, DiskType DEF TypeOK, Disks
    <3>3. job.id \in DOMAIN kernel.packages /\ kernel.packages[job.id] = job.spec
      BY <3>1 DEF JobTrue
    <3>4. job.id \in Ids
      <4>1. kernel.packages \in Seq(Specs) /\ Len(kernel.packages) <= spent.installs
            /\ spent.installs <= MaxInstalls /\ spent.installs \in Nat
        BY <3>1, Types DEF Room
      <4>2. job.id \in 1..Len(kernel.packages) /\ Len(kernel.packages) \in Nat
        BY <3>3, <4>1
      <4>3. QED
        BY <4>1, <4>2, PackagesAssumption DEF Ids
    <3>5. QED
      BY <3>1, <3>2, <3>3, <3>4 DEF JobTrue
  <2>2. CASE Here \notin Existing
    BY <1>6, <1>i, <2>2 DEF WriteIndex
  <2>3. QED
    BY <2>1, <2>2
<1>7. CASE WriteManifest
  <2>1. /\ InFolder /\ ~WriteIndex /\ Here' = Here /\ job'.pc = "build"
        /\ job'.id = job.id /\ job'.spec = job.spec
        /\ disk' = [disk EXCEPT ![Here].manifest[job.id] = job.spec]
    BY <1>7, <1>j DEF WriteManifest, WriteIndex, Here, Jobs, JobTrue, InFolder
  <2>2. disk'[Here].manifest[job.id] = job.spec
    BY <1>j, <2>1, DiskType DEF TypeOK, Disks, InFolder
  <2>3. InFolder'
    BY <2>1, FolderKept
  <2>4. QED
    BY <2>1, <2>2, <2>3 DEF JobTrue, InFolder
<1>8. CASE Build
  <2>1. /\ InFolder /\ ~WriteIndex /\ Here' = Here
        /\ disk[Here].manifest[job.id] = job.spec
    BY <1>8 DEF Build, WriteIndex, Here, JobTrue, InFolder
  <2>2. CASE disk' = [disk EXCEPT ![Here].built[job.id] = disk[Here].manifest[job.id]]
             /\ job' = [job EXCEPT !.pc = "clangModules"]
    <3>1. /\ job'.pc = "clangModules" /\ job'.id = job.id /\ job'.spec = job.spec
      BY <1>j, <2>2 DEF Jobs
    <3>2. disk'[Here].built[job.id] = job.spec
      BY <1>j, <2>1, <2>2, DiskType DEF TypeOK, Disks, InFolder
    <3>3. InFolder'
      BY <2>1, <3>1, FolderKept
    <3>4. QED
      BY <2>1, <3>1, <3>2, <3>3 DEF JobTrue, InFolder
  <2>3. CASE job' = Idle
    BY <1>i, <2>3
  <2>4. QED
    BY <1>8, <2>2, <2>3 DEF Build
<1>9. ASSUME job.pc \in {"clangModules", "links", "link", "maps"},
             job'.pc \in {"links", "link", "maps", "dlopen"},
             ~WriteIndex, Here' = Here, job'.id = job.id, job'.spec = job.spec
      PROVE  InFolder' /\ disk'[Here].built[job.id] = job.spec
  <2>1. InFolder /\ disk[Here].built[job.id] = job.spec
    BY <1>9 DEF JobTrue, InFolder
  <2>2. InFolder'
    BY <1>9, <2>1, FolderKept
  <2>3. disk[Here].built[job.id] # None
    BY <2>1, PackagesAssumption DEF InFolder
  <2>4. QED
    BY <1>j, <2>1, <2>2, <2>3, BuildsStay DEF InFolder
<1>10. CASE ReadClangModules
  <2>1. /\ job.pc = "clangModules" /\ job'.pc = "links" /\ ~WriteIndex
        /\ job'.id = job.id /\ job'.spec = job.spec /\ job'.todo = Provides[job.spec]
    BY <1>10, <1>j DEF ReadClangModules, WriteIndex, Jobs
  <2>2. Here' = Here
    BY <1>10, <1>j DEF ReadClangModules, WithClangModules, Here, Kernels
  <2>3. QED
    BY <1>9, <2>1, <2>2 DEF JobTrue, InFolder
<1>11. CASE DropModule
  <2>1. /\ job.pc = "links" /\ job'.pc = "link" /\ ~WriteIndex /\ Here' = Here
        /\ job'.id = job.id /\ job'.spec = job.spec /\ job'.todo = job.todo
        /\ job'.at \in job.todo
    BY <1>11, <1>j DEF DropModule, WriteIndex, Here, Jobs
  <2>2. QED
    BY <1>9, <2>1 DEF JobTrue, InFolder
<1>12. CASE LinkModule
  <2>1. /\ job.pc = "link" /\ job'.pc = "links" /\ ~WriteIndex /\ Here' = Here
        /\ job'.id = job.id /\ job'.spec = job.spec /\ job'.todo \subseteq job.todo
    BY <1>12, <1>j DEF LinkModule, WriteIndex, Here, Jobs
  <2>2. QED
    BY <1>9, <2>1 DEF JobTrue, InFolder
<1>13. CASE LinksDone \/ Warn
  <2>1. /\ job.pc \in {"links", "maps"} /\ job'.pc \in {"maps", "dlopen"}
        /\ ~WriteIndex /\ Here' = Here
        /\ job'.id = job.id /\ job'.spec = job.spec
        /\ job'.pc = "maps" => job'.at = 1
    BY <1>13, <1>j DEF LinksDone, Warn, WriteIndex, Here, Jobs
  <2>2. QED
    BY <1>9, <2>1 DEF JobTrue, InFolder
<1>14. CASE WriteMap
  <2>1. PICK t : job' = [job EXCEPT !.at = job.at + 1, !.todo = t]
    BY <1>14 DEF WriteMap
  <2>2. job.pc = "maps" /\ ~WriteIndex /\ Here' = Here /\ job.at \in Nat \ {0}
    BY <1>14 DEF WriteMap, WriteIndex, Here, JobTrue
  <2>3. job'.pc = "maps" /\ job'.id = job.id /\ job'.spec = job.spec
        /\ job'.at = job.at + 1
    BY <1>j, <2>1, <2>2 DEF Jobs
  <2>4. QED
    BY <1>9, <2>2, <2>3 DEF JobTrue, InFolder
<1>15. CASE Failure \/ Load \/ Restart
  BY <1>15, <1>i, FailureEnds DEF Load, Restart
<1>16. CASE UNCHANGED vars
  BY <1>16 DEF vars, JobTrue, Here
<1>17. QED
  BY <1>1, <1>2, <1>3, <1>4, <1>5, <1>6, <1>7, <1>8, <1>10, <1>11, <1>12,
     <1>13, <1>14, <1>15, <1>16 DEF Next, Package, Search

-----------------------------------------------------------------------------

LEMMA InstalledStep ==
    ASSUME TypeOK, JobTrue, IndexTrue, InstalledStaysBuilt, [Next]_vars
    PROVE  InstalledStaysBuilt'
<1>1. ASSUME NEW x \in installed PROVE disk'[x[1]].built[x[3]] = x[2]
  <2>1. x[1] \in Locations /\ x[2] \in Specs /\ x[3] \in Ids
    BY DEF TypeOK
  <2>2. disk[x[1]].built[x[3]] = x[2] /\ x[2] # None
    BY <2>1, PackagesAssumption DEF InstalledStaysBuilt
  <2>3. QED
    BY <2>1, <2>2, BuildsStay
<1>2. CASE installed' = installed
  BY <1>1, <1>2 DEF InstalledStaysBuilt
<1>3. CASE Load
  <2>1. disk[Here].built[job.id] = job.spec /\ disk' = disk
    BY <1>3 DEF Load, At, JobTrue
  <2>2. installed' \subseteq installed \cup {<<Here, job.spec, job.id>>}
    BY <1>3 DEF Load
  <2>3. QED
    BY <1>1, <2>1, <2>2 DEF InstalledStaysBuilt
<1>4. CASE Failure
  BY <1>2, <1>4, FailureEnds
<1>5. QED
  BY <1>2, <1>3, <1>4 DEF Next, Package, Search, SetLocation, Start, Unlink, Relink,
     ReadPackages, AssignId, WriteIndex, WriteManifest, Build, ReadClangModules,
     DropModule, LinkModule, LinksDone, WriteMap, Warn, Restart, vars

(* A link is removed, or made to the folder of the running installation.   *)
LEMMA LinkStep ==
    ASSUME TypeOK, JobTrue, [Next]_vars, NEW l \in Locations, NEW m \in Modules
    PROVE  \/ disk'[l].links[m] \in {disk[l].links[m], 0}
           \/ LinkModule /\ l = Here /\ m = job.at /\ disk'[l].links[m] = job.id
<1>t. Here \in Locations /\ disk \in [Locations -> Disks] /\ disk[Here] \in Disks
      /\ disk[l] \in Disks
  BY Types, DiskType DEF TypeOK
<1>1. CASE disk' = disk
  BY <1>1
<1>2. CASE WriteIndex
  <2>1. CASE disk' = [disk EXCEPT ![Here].index = kernel.packages]
    BY <1>t, <2>1 DEF Disks
  <2>2. QED
    BY <1>1, <1>2, <2>1 DEF WriteIndex
<1>3. CASE WriteManifest
  BY <1>t, <1>3 DEF WriteManifest, Disks
<1>4. CASE Build
  <2>1. CASE disk' = [disk EXCEPT ![Here].built[job.id] = disk[Here].manifest[job.id]]
    BY <1>t, <2>1 DEF Disks
  <2>2. QED
    BY <1>1, <1>4, <2>1 DEF Build
<1>5. CASE DropModule
  <2>1. PICK d \in job.todo : disk' = [disk EXCEPT ![Here].links[d] = 0]
    BY <1>5 DEF DropModule
  <2>2. QED
    BY <1>t, <2>1 DEF Disks
<1>6. CASE LinkModule
  BY <1>t, <1>6 DEF LinkModule, Disks
<1>7. CASE WriteMap
  <2>1. PICK new : disk' = [disk EXCEPT ![Here].maps = @ \cup {new}]
    BY <1>7 DEF WriteMap
  <2>2. QED
    BY <1>t, <2>1 DEF Disks
<1>8. CASE SetLocation \/ Start \/ Unlink \/ Relink \/ ReadPackages \/ AssignId
           \/ ReadClangModules \/ LinksDone \/ Warn \/ Load \/ Restart
           \/ UNCHANGED vars
  BY <1>1, <1>8 DEF SetLocation, Start, Unlink, Relink, ReadPackages, AssignId,
     ReadClangModules, LinksDone, Warn, Load, Restart, vars
<1>9. CASE Failure
  BY <1>9, FailureLeaves
<1>10. QED
  BY <1>2, <1>3, <1>4, <1>5, <1>6, <1>7, <1>8, <1>9 DEF Next, Package, Search

LEMMA LinksStep ==
    ASSUME TypeOK, JobTrue, IndexTrue, LinksProvide, [Next]_vars
    PROVE  LinksProvide'
<1> SUFFICES ASSUME NEW l \in Locations, NEW m \in Modules, disk'[l].links[m] # 0
             PROVE  LET n == disk'[l].links[m]
                    IN  /\ n \in Ids /\ disk'[l].built[n] # None
                        /\ m \in Provides[disk'[l].built[n]]
  BY DEF LinksProvide
<1>1. PICK n \in Ids : /\ n = disk'[l].links[m] /\ disk[l].built[n] # None
                       /\ m \in Provides[disk[l].built[n]]
  <2>1. CASE disk'[l].links[m] = disk[l].links[m]
    BY <2>1 DEF LinksProvide
  <2>2. CASE LinkModule /\ l = Here /\ m = job.at /\ disk'[l].links[m] = job.id
    <3>1. /\ job.id \in Ids /\ job.spec \in Specs /\ job.at \in Provides[job.spec]
          /\ disk[Here].built[job.id] = job.spec
      BY <2>2 DEF LinkModule, At, JobTrue
    <3>2. QED
      BY <2>2, <3>1, PackagesAssumption
  <2>3. QED
    BY <2>1, <2>2, LinkStep
<1>2. disk'[l].built[n] = disk[l].built[n]
  BY <1>1, BuildsStay
<1>3. QED
  BY <1>1, <1>2

-----------------------------------------------------------------------------
(* The warning about new Clang modules.                                    *)

LEMMA MapsStep ==
    ASSUME TypeOK, [Next]_vars, NEW l \in Locations
    PROVE  \/ disk'[l].maps = disk[l].maps
           \/ /\ WriteMap /\ l = Here
              /\ disk'[l].maps = disk[l].maps \cup
                     {<<MapFolder(Maps[job.spec][job.at], job.id, job.at),
                        Maps[job.spec][job.at]>>}
<1>t. Here \in Locations /\ disk \in [Locations -> Disks] /\ disk[Here] \in Disks
      /\ disk[l] \in Disks
  BY Types, DiskType DEF TypeOK
<1>1. CASE disk' = disk
  BY <1>1
<1>2. CASE WriteIndex
  <2>1. CASE disk' = [disk EXCEPT ![Here].index = kernel.packages]
    BY <1>t, <2>1 DEF Disks
  <2>2. QED
    BY <1>1, <1>2, <2>1 DEF WriteIndex
<1>3. CASE WriteManifest
  BY <1>t, <1>3 DEF WriteManifest, Disks
<1>4. CASE Build
  <2>1. CASE disk' = [disk EXCEPT ![Here].built[job.id] = disk[Here].manifest[job.id]]
    BY <1>t, <2>1 DEF Disks
  <2>2. QED
    BY <1>1, <1>4, <2>1 DEF Build
<1>5. CASE DropModule
  <2>1. PICK d \in job.todo : disk' = [disk EXCEPT ![Here].links[d] = 0]
    BY <1>5 DEF DropModule
  <2>2. QED
    BY <1>t, <2>1 DEF Disks
<1>6. CASE LinkModule
  BY <1>t, <1>6 DEF LinkModule, Disks
<1>7. CASE WriteMap
  <2> DEFINE new == <<MapFolder(Maps[job.spec][job.at], job.id, job.at),
                      Maps[job.spec][job.at]>>
  <2>1. disk' = [disk EXCEPT ![Here].maps = @ \cup {new}]
    BY <1>7 DEF WriteMap
  <2> HIDE DEF new
  <2>2. disk'[Here].maps = disk[Here].maps \cup {new}
    BY <1>t, <2>1 DEF Disks
  <2>3. l # Here => disk'[l] = disk[l]
    BY <1>t, <2>1
  <2>4. QED
    BY <1>7, <2>2, <2>3 DEF new
<1>8. CASE SetLocation \/ Start \/ Unlink \/ Relink \/ ReadPackages \/ AssignId
           \/ ReadClangModules \/ LinksDone \/ Warn \/ Load \/ Restart
           \/ UNCHANGED vars
  BY <1>1, <1>8 DEF SetLocation, Start, Unlink, Relink, ReadPackages, AssignId,
     ReadClangModules, LinksDone, Warn, Load, Restart, vars
<1>9. CASE Failure
  BY <1>9, FailureLeaves
<1>10. QED
  BY <1>2, <1>3, <1>4, <1>5, <1>6, <1>7, <1>8, <1>9 DEF Next, Package, Search

(* What was written stays, and one location stays the only one backwards.  *)
LEMMA WrittenStays ==
    ASSUME TypeOK, [Next]_vars
    PROVE  /\ \A l \in Locations : Written(l) \subseteq Written(l)'
           /\ OneLocation' => OneLocation
<1>1. ASSUME NEW l \in Locations PROVE disk[l].maps \subseteq disk'[l].maps
  BY MapsStep
<1>2. QED
  BY <1>1 DEF Written, OneLocation

LEMMA StartsUnlinking == Start => job'.pc = "unlink"
<1> SUFFICES ASSUME Start PROVE job'.pc = "unlink"
  OBVIOUS
<1>1. PICK s \in Specs : job' = [Idle EXCEPT !.pc = "unlink", !.spec = s]
  BY DEF Start
<1>2. QED
  BY <1>1 DEF Idle

(* Where an installation is with its modulemaps. *)
LEMMA MapsProgress ==
    ASSUME TypeOK, JobTrue, [Next]_vars, job'.pc \in {"maps", "dlopen"}
    PROVE  /\ Here' = Here /\ job'.spec = job.spec /\ kernel' = kernel
           /\ job.spec \in Specs
           /\ \/ LinksDone /\ job'.pc = "maps" /\ job'.at = 1 /\ disk' = disk
              \/ /\ WriteMap /\ job.pc = "maps" /\ job'.pc = "maps"
                 /\ job'.at = job.at + 1 /\ job.at \in Nat
                 /\ job.at \in DOMAIN Maps[job.spec]
              \/ /\ Warn /\ job.pc = "maps" /\ job'.pc = "dlopen"
                 /\ \A k \in DOMAIN Maps[job.spec] : k < job.at
              \/ UNCHANGED vars
<1>j. job \in Jobs
  BY DEF TypeOK
<1>m. \A s \in Specs : /\ DOMAIN Maps[s] = 1..Len(Maps[s])
                       /\ Len(Maps[s]) \in Nat
  BY PackagesAssumption
<1> USE DEF At, Go, Fails
<1>1. CASE LinksDone
  BY <1>1, <1>j DEF LinksDone, Jobs, JobTrue, Here
<1>2. CASE WriteMap
  <2>1. PICK t : job' = [job EXCEPT !.at = job.at + 1, !.todo = t]
    BY <1>2 DEF WriteMap
  <2>2. /\ job.pc = "maps" /\ job.spec \in Specs /\ job.at \in Nat \ {0}
        /\ job.at <= Len(Maps[job.spec]) /\ kernel' = kernel
    BY <1>2 DEF WriteMap, JobTrue
  <2>3. job'.pc = "maps" /\ job'.at = job.at + 1 /\ job'.spec = job.spec
    BY <1>j, <2>1, <2>2 DEF Jobs
  <2>4. QED
    BY <1>2, <1>m, <2>2, <2>3 DEF Here
<1>3. CASE Warn
  <2>1. /\ job.pc = "maps" /\ job.spec \in Specs /\ job.at \in Nat \ {0}
        /\ job.at > Len(Maps[job.spec]) /\ kernel' = kernel
        /\ job'.pc = "dlopen" /\ job'.spec = job.spec
    BY <1>3, <1>j DEF Warn, JobTrue, Jobs
  <2>2. QED
    BY <1>3, <1>m, <2>1 DEF Here
<1>4. CASE UNCHANGED vars
  BY <1>4 DEF vars, JobTrue, Here
<1>5. ~(SetLocation \/ Unlink \/ Relink \/ ReadPackages \/ AssignId
        \/ WriteManifest \/ ReadClangModules \/ DropModule \/ LinkModule)
  BY <1>j DEF SetLocation, Unlink, Relink, ReadPackages, AssignId, WriteManifest,
     ReadClangModules, DropModule, LinkModule, Jobs
<1>6. ~(WriteIndex \/ Build)
  BY <1>j, IdleType DEF WriteIndex, Build, Jobs
<1>8. ~(Failure \/ Load \/ Restart)
  BY IdleType, FailureEnds DEF Load, Restart
<1>9. ~Start
  BY StartsUnlinking
<1>7. QED
  BY <1>1, <1>2, <1>3, <1>4, <1>5, <1>6, <1>8, <1>9 DEF Next, Package, Search

LEMMA InstalledGrows ==
    ASSUME [Next]_vars
    PROVE  \/ installed' = installed
           \/ /\ Load /\ installed' = installed \cup {<<Here, job.spec, job.id>>}
              /\ job.pc = "dlopen" /\ UNCHANGED <<disk, kernel, atStart, warned>>
BY FailureEnds DEF Next, Package, Search, SetLocation, Start, Unlink, Relink,
   ReadPackages, AssignId, WriteIndex, WriteManifest, Build, ReadClangModules,
   DropModule, LinkModule, LinksDone, WriteMap, Warn, Load, At, Restart, vars

LEMMA MapsThereStep ==
    ASSUME TypeOK, JobTrue, MapsThere, [Next]_vars
    PROVE  MapsThere'
<1>1. ASSUME NEW l \in Locations, NEW x \in disk'[l].maps, x[1][1] = "module"
      PROVE  x[1][2] = x[2]
  <2> DEFINE map == Maps[job.spec][job.at]
             folder == MapFolder(map, job.id, job.at)
  <2>1. CASE x \in disk[l].maps
    BY <1>1, <2>1 DEF MapsThere
  <2>2. CASE x = <<folder, map>>
    <3>1. folder[1] = "module"
      BY <1>1, <2>2
    <3>2. folder = <<"module", map>>
      BY <3>1 DEF MapFolder
    <3>3. QED
      BY <2>2, <3>2
  <2>3. QED
    BY <2>1, <2>2, MapsStep
<1>2. ASSUME NEW x \in installed', NEW k \in DOMAIN Maps[x[2]]
      PROVE  Maps[x[2]][k] \in Written(x[1])'
  <2>1. CASE x \in installed
    <3>1. x[1] \in Locations
      BY <2>1 DEF TypeOK
    <3>2. Maps[x[2]][k] \in Written(x[1])
      BY <1>2, <2>1 DEF MapsThere
    <3>3. QED
      BY <3>1, <3>2, WrittenStays
  <2>2. CASE x = <<Here, job.spec, job.id>> /\ job.pc = "dlopen" /\ disk' = disk
    <3>1. Maps[x[2]][k] \in Written(Here)
      BY <1>2, <2>2 DEF MapsThere
    <3>2. QED
      BY <2>2, <3>1 DEF Written
  <2>3. QED
    BY <2>1, <2>2, InstalledGrows
<1>3. ASSUME job'.pc \in {"maps", "dlopen"},
             NEW k \in DOMAIN Maps[job'.spec], job'.pc = "dlopen" \/ k < job'.at
      PROVE  Maps[job'.spec][k] \in Written(Here)'
  <2>1. /\ Here' = Here /\ job'.spec = job.spec /\ k \in DOMAIN Maps[job.spec]
        /\ Here \in Locations /\ k \in Nat \ {0}
    <3>1. DOMAIN Maps[job'.spec] \subseteq Nat \ {0}
      BY <1>3, MapsProgress, PackagesAssumption
    <3>2. QED
      BY <1>3, <3>1, MapsProgress, Types
  <2>2. CASE job'.pc = "maps" /\ job'.at = 1
    BY <1>3, <2>1, <2>2
  <2>3. CASE job.pc \in {"maps", "dlopen"} /\ (job.pc = "dlopen" \/ k < job.at)
    <3>1. Maps[job.spec][k] \in Written(Here)
      BY <2>1, <2>3 DEF MapsThere
    <3>2. QED
      BY <2>1, <3>1, WrittenStays
  <2>4. CASE WriteMap /\ k = job.at
    <3> DEFINE map == Maps[job.spec][job.at]
               new == <<MapFolder(map, job.id, job.at), map>>
    <3>1. disk' = [disk EXCEPT ![Here].maps = @ \cup {new}]
      BY <2>4 DEF WriteMap
    <3>2. new \in disk'[Here].maps
      <4> HIDE DEF new
      <4>1. QED
        BY <2>1, <3>1, DiskType DEF TypeOK, Disks
    <3>3. map \in Written(Here)'
      BY <2>1, <3>2 DEF Written
    <3>4. QED
      BY <2>1, <2>4, <3>3
  <2>5. QED
    <3>1. CASE UNCHANGED vars
      BY <1>3, <2>3, <3>1 DEF vars
    <3>2. CASE WriteMap /\ job.pc = "maps" /\ job'.pc = "maps"
               /\ job'.at = job.at + 1 /\ job.at \in Nat
      BY <1>3, <2>1, <2>3, <2>4, <3>2
    <3>3. CASE job.pc = "maps" /\ \A n \in DOMAIN Maps[job.spec] : n < job.at
      BY <2>1, <2>3, <3>3
    <3>4. QED
      BY <1>3, <2>2, <3>1, <3>2, <3>3, MapsProgress
<1>4. QED
  BY <1>1, <1>2, <1>3 DEF MapsThere

LEMMA ClangKept ==
    ASSUME TypeOK, [Next]_vars, ~ReadClangModules, ~DatabaseMissing, ~Restart
    PROVE  /\ kernel'.clang = kernel.clang /\ kernel'.clangRead = kernel.clangRead
           /\ atStart' = atStart /\ warned \subseteq warned'
<1>1. kernel \in Kernels
  BY DEF TypeOK
<1>2. CASE SetLocation
  BY <1>1, <1>2 DEF SetLocation, Kernels
<1>3. CASE ReadPackages
  BY <1>1, <1>3 DEF ReadPackages, Kernels
<1>4. CASE AssignId
  BY <1>1, <1>4 DEF AssignId, Kernels
<1>5. CASE Start \/ Unlink \/ Relink \/ WriteIndex \/ WriteManifest \/ Build
           \/ DropModule \/ LinkModule \/ LinksDone \/ WriteMap
           \/ Warn \/ Load \/ UNCHANGED vars
  BY <1>5 DEF Start, Unlink, Relink, WriteIndex, WriteManifest, Build, DropModule,
     LinkModule, LinksDone, WriteMap, Warn, Load, vars
<1>6. CASE Failure
  BY <1>6, FailureEnds
<1>7. QED
  BY <1>2, <1>3, <1>4, <1>5, <1>6 DEF Next, Package, Search

(* Modulemaps are written by a kernel that has read the modules.           *)
LEMMA ReadBefore ==
    ASSUME TypeOK, ClangTrue, [Next]_vars, ~ReadClangModules,
           job'.pc \in {"links", "link", "maps", "dlopen"}
    PROVE  kernel.clangRead /\ ~Restart
<1>1. job \in Jobs
  BY DEF TypeOK
<1> USE DEF At, Go, Fails
<1>2. job.pc \in {"links", "link", "maps", "dlopen"} \/ UNCHANGED job
  <2>1. CASE WriteMap
    BY <2>1 DEF WriteMap
  <2>2. ~(Unlink \/ Relink \/ ReadPackages \/ AssignId \/ WriteManifest)
    BY <1>1 DEF Unlink, Relink, ReadPackages, AssignId, WriteManifest, Jobs
  <2>3. ~(WriteIndex \/ Build)
    BY <1>1, IdleType DEF WriteIndex, Build, Jobs
  <2>4. ~(Failure \/ Load \/ Restart)
    BY IdleType, FailureEnds DEF Load, Restart
  <2>5. ~Start
    BY StartsUnlinking
  <2>6. QED
    BY <2>1, <2>2, <2>3, <2>4, <2>5 DEF Next, Package, Search, SetLocation, DropModule,
       LinkModule, LinksDone, Warn, vars
<1>3. ~Restart
  BY IdleType DEF Restart
<1>4. QED
  BY <1>2, <1>3 DEF ClangTrue

LEMMA ClangStep ==
    ASSUME TypeOK, MapsThere, ClangTrue, [Next]_vars
    PROVE  ClangTrue'
<1>k. kernel \in Kernels /\ Here \in Locations /\ Default \in Locations
      /\ atStart \in [Locations -> SUBSET ModuleMaps]
  BY Types, PackagesAssumption DEF TypeOK
<1>1. CASE ReadClangModules \/ DatabaseMissing
  <2> DEFINE read == {f[2] : f \in {g \in {x[1] : x \in disk[Here].maps} :
                                        g[1] = "module"}}
  <2>1. read \subseteq Written(Here)
    BY <1>k DEF MapsThere, Written
  <2>2. /\ UNCHANGED <<disk, atStart>>
        /\ kernel' = IF kernel.clangRead THEN kernel
                     ELSE [kernel EXCEPT !.clangRead = TRUE, !.clang = read]
    BY <1>1 DEF ReadClangModules, DatabaseMissing, GiveUp, WithClangModules
  <2> HIDE DEF read
  <2>3. kernel'.clangRead
    BY <1>k, <2>2 DEF Kernels
  <2>4. \/ kernel'.clang = kernel.clang
        \/ kernel'.clang = read /\ ~kernel.clangRead
    BY <1>k, <2>2 DEF Kernels
  <2>5. OneLocation' => kernel'.clang \subseteq atStart'[Default]
    <3> SUFFICES ASSUME OneLocation, kernel'.clang = read, ~kernel.clangRead
                 PROVE  read \subseteq atStart[Default]
      BY <2>2, <2>4 DEF ClangTrue, OneLocation
    <3>1. atStart[Here] = Written(Here)
      BY <1>k DEF ClangTrue
    <3>2. Here # Default => Written(Here) = {}
      BY <1>k DEF OneLocation, Written
    <3>3. QED
      BY <2>1, <3>1, <3>2
  <2>6. QED
    BY <2>3, <2>5 DEF ClangTrue
<1>2. CASE Restart
  <2>1. /\ job'.pc = "idle" /\ kernel'.clang = {} /\ disk' = disk
        /\ atStart' = [l \in Locations |-> Written(l)]
    BY <1>2, IdleType DEF Restart, NewKernel, Written
  <2>2. \A l \in Locations : atStart'[l] = Written(l)'
    BY <2>1 DEF Written
  <2>3. QED
    BY <2>1, <2>2 DEF ClangTrue
<1>3. CASE ~ReadClangModules /\ ~DatabaseMissing /\ ~Restart
  <2>1. /\ kernel'.clang = kernel.clang /\ kernel'.clangRead = kernel.clangRead
        /\ atStart' = atStart
    BY <1>3, ClangKept
  <2>2. job'.pc \in {"links", "link", "maps", "dlopen"} => kernel'.clangRead
    BY <1>3, <2>1, ReadBefore
  <2>3. ASSUME ~kernel'.clangRead, NEW l \in Locations
        PROVE  atStart'[l] = Written(l)'
    <3>1. job.pc # "maps"
      BY <2>1, <2>3 DEF ClangTrue
    <3>2. disk'[l].maps = disk[l].maps
      BY <3>1, MapsStep DEF WriteMap, At
    <3>3. QED
      BY <2>1, <2>3, <3>2 DEF ClangTrue, Written
  <2>4. QED
    BY <2>1, <2>2, <2>3, WrittenStays DEF ClangTrue
<1>4. QED
  BY <1>1, <1>2, <1>3

LEMMA JobWarnsStep ==
    ASSUME TypeOK, JobTrue, JobWarns, [Next]_vars
    PROVE  JobWarns'
<1> DEFINE Listed == IF job.pc = "maps" THEN job.todo ELSE warned
<1> SUFFICES ASSUME job'.pc \in {"maps", "dlopen"}, NEW k \in DOMAIN Maps[job'.spec],
                    Maps[job'.spec][k] \in Named,
                    job'.pc = "dlopen" \/ k < job'.at
             PROVE  Maps[job'.spec][k] \in kernel'.clang \cup Listed'
  BY DEF JobWarns
<1>1. /\ job'.spec = job.spec /\ k \in DOMAIN Maps[job.spec] /\ kernel' = kernel
      /\ k \in Nat \ {0}
  <2>1. DOMAIN Maps[job'.spec] \subseteq Nat \ {0}
    BY MapsProgress, PackagesAssumption
  <2>2. QED
    BY <2>1, MapsProgress
<1>2. ASSUME job.pc \in {"maps", "dlopen"}, job.pc = "dlopen" \/ k < job.at
      PROVE  Maps[job.spec][k] \in kernel.clang \cup Listed
  BY <1>1, <1>2 DEF JobWarns
<1>3. CASE job'.pc = "maps" /\ job'.at = 1
  BY <1>1, <1>3
<1>4. CASE WriteMap /\ job.pc = "maps" /\ job'.pc = "maps"
           /\ job'.at = job.at + 1 /\ job.at \in Nat
  <2> DEFINE map == Maps[job.spec][job.at]
  <2>1. job'.todo = IF map \in Named \ kernel.clang THEN job.todo \cup {map}
                    ELSE job.todo
    BY <1>4 DEF WriteMap, TypeOK, Jobs
  <2>2. CASE k = job.at
    BY <1>1, <1>4, <2>1, <2>2
  <2>3. CASE k < job.at
    BY <1>1, <1>2, <1>4, <2>1, <2>3
  <2>4. QED
    BY <1>1, <1>4, <2>2, <2>3
<1>5. CASE Warn /\ job.pc = "maps" /\ job'.pc = "dlopen"
           /\ \A n \in DOMAIN Maps[job.spec] : n < job.at
  <2>1. warned' = warned \cup job.todo
    BY <1>5 DEF Warn
  <2>2. QED
    BY <1>1, <1>2, <1>5, <2>1
<1>6. CASE UNCHANGED vars
  BY <1>1, <1>2, <1>6 DEF vars
<1>7. QED
  BY <1>3, <1>4, <1>5, <1>6, MapsProgress

LEMMA WarnedStep ==
    ASSUME TypeOK, MapsThere, ClangTrue, JobWarns, WarnedOfNew, [Next]_vars
    PROVE  WarnedOfNew'
<1> SUFFICES ASSUME OneLocation', NEW x \in installed', NEW k \in DOMAIN Maps[x[2]],
                    Maps[x[2]][k] \in Named
             PROVE  Maps[x[2]][k] \in atStart'[Default] \cup warned'
  BY DEF WarnedOfNew
<1>1. OneLocation /\ Default \in Locations
  BY WrittenStays, PackagesAssumption
<1>2. CASE Restart
  <2>1. /\ x \in installed
        /\ atStart' = [l \in Locations |-> Written(l)]
    BY <1>2 DEF Restart, Written
  <2>2. Maps[x[2]][k] \in Written(x[1]) /\ x[1] \in Locations
    BY <2>1 DEF MapsThere, TypeOK
  <2>3. x[1] = Default
    BY <1>1, <2>2 DEF OneLocation, Written
  <2>4. QED
    BY <1>1, <2>1, <2>2, <2>3
<1>3. CASE ~Restart
  <2>1. atStart' = atStart /\ warned \subseteq warned'
    BY <1>3, ClangKept DEF ReadClangModules, DatabaseMissing, GiveUp
  <2>2. CASE x \in installed
    BY <1>1, <2>1, <2>2 DEF WarnedOfNew
  <2>3. CASE x = <<Here, job.spec, job.id>> /\ job.pc = "dlopen"
    <3>1. Maps[job.spec][k] \in kernel.clang \cup warned
      BY <2>3 DEF JobWarns
    <3>2. kernel.clang \subseteq atStart[Default]
      BY <1>1 DEF ClangTrue
    <3>3. QED
      BY <2>1, <2>3, <3>1, <3>2
  <2>4. QED
    BY <2>2, <2>3, InstalledGrows
<1>4. QED
  BY <1>2, <1>3

-----------------------------------------------------------------------------

LEMMA InitInvariant == Init => IInv
<1> SUFFICES ASSUME Init PROVE IInv
  OBVIOUS
<1>1. TypeOK
  BY InitType
<1>2. \A l \in Locations :
          /\ disk[l].index = <<>> /\ \A n \in Ids : disk[l].built[n] = None
          /\ \A m \in Modules : disk[l].links[m] = 0
  BY DEF Init
<1>3. IndexTrue
  BY <1>2 DEF IndexTrue, Tidy
<1>4. job.pc = "idle" /\ spent.installs = 0 /\ installed = {}
  BY DEF Init, Idle
<1>5. Room
  BY <1>2, <1>4, PackagesAssumption DEF Room
<1>6. JobTrue
  BY <1>4 DEF JobTrue
<1>7. InstalledStaysBuilt /\ LinksProvide
  BY <1>2, <1>4 DEF InstalledStaysBuilt, LinksProvide
<1>8. /\ \A l \in Locations : disk[l].maps = {} /\ atStart[l] = {}
      /\ kernel.clang = {} /\ warned = {}
  BY DEF Init, NewKernel
<1>9. MapsThere /\ JobWarns /\ WarnedOfNew
  BY <1>4, <1>8 DEF MapsThere, JobWarns, WarnedOfNew
<1>10. ClangTrue
  BY <1>4, <1>8 DEF ClangTrue, Written
<1>11. QED
  BY <1>1, <1>3, <1>5, <1>6, <1>7, <1>9, <1>10 DEF IInv

(* The inductive invariant of PackageInstall, its type invariant included. *)
THEOREM Invariance == Spec => []IInv
<1>1. IInv /\ [Next]_vars => IInv'
  BY TypeStep, IndexStep, RoomStep, JobStep, InstalledStep, LinksStep,
     MapsThereStep, ClangStep, JobWarnsStep, WarnedStep DEF IInv
<1>2. QED
  BY InitInvariant, <1>1, PTL DEF Spec

(* The folder of an installed package is never built again from another    *)
(* package.                                                                *)
THEOREM BuildsKept == Spec => []InstalledStaysBuilt
<1>1. IInv => InstalledStaysBuilt
  BY DEF IInv
<1>2. QED
  BY <1>1, Invariance, PTL

(* The link of a module leads to a build that provides the module.         *)
THEOREM LinksLead == Spec => []LinksProvide
<1>1. IInv => LinksProvide
  BY DEF IInv
<1>2. QED
  BY <1>1, Invariance, PTL

(* A package never changes its place in the index of its location.         *)
THEOREM PlacesStable == Spec => IdsStable
<1>1. IInv /\ [Next]_vars =>
          [\A l \in Locations : \A n \in DOMAIN disk[l].index :
              disk[l].index[n] # Blank =>
                  /\ n \in DOMAIN disk'[l].index
                  /\ disk'[l].index[n] = disk[l].index[n]]_vars
  BY PlacesKept DEF IInv, Kept
<1>2. QED
  BY <1>1, Invariance, PTL DEF Spec, IdsStable

(* As long as one location is in use, an installation has warned of every  *)
(* named Clang module that its kernel could not import from the start,     *)
(* whatever failed before and however often the runtime was restarted      *)
(* (ProcessInstalls.swift:198-219, 387-389, 507-536).                      *)
THEOREM WarningsComplete == Spec => []WarnedOfNew
<1>1. IInv => WarnedOfNew
  BY DEF IInv
<1>2. QED
  BY <1>1, Invariance, PTL

-----------------------------------------------------------------------------
(* The commands of directives (Subprocesses), from which the flags of      *)
(* swift-build come.                                                       *)

(* What Append does to a rising sequence of places. *)
LEMMA AppendPlace ==
  ASSUME NEW s \in Seq(Nat), NEW n \in Nat, Rising(s), \A k \in Elements(s) : k < n
  PROVE  /\ Append(s, n) \in Seq(Nat) /\ Rising(Append(s, n))
         /\ Elements(Append(s, n)) = Elements(s) \cup {n}
<1> DEFINE t == Append(s, n)
<1>1. /\ Len(s) \in Nat /\ DOMAIN s = 1..Len(s)
      /\ t \in Seq(Nat) /\ DOMAIN t = 1..(Len(s) + 1) /\ t[Len(s) + 1] = n
      /\ \A k \in 1..Len(s) : t[k] = s[k]
  OBVIOUS
<1> HIDE DEF t
<1>2. Rising(t)
  <2> SUFFICES ASSUME NEW j \in DOMAIN t, NEW k \in DOMAIN t, j < k
               PROVE  t[j] < t[k]
    BY DEF Rising
  <2>1. j \in DOMAIN s /\ t[j] = s[j] /\ s[j] \in Elements(s)
    BY <1>1 DEF Elements
  <2>2. CASE k \in DOMAIN s
    BY <1>1, <2>1, <2>2 DEF Rising
  <2>3. CASE k = Len(s) + 1
    BY <1>1, <2>1, <2>3
  <2> QED
    BY <1>1, <2>2, <2>3
<1>3. Elements(t) \subseteq Elements(s) \cup {n}
  BY <1>1 DEF Elements
<1>4. Elements(s) \subseteq Elements(t)
  BY <1>1 DEF Elements
<1>5. n \in Elements(t)
  <2>1. Len(s) + 1 \in DOMAIN t
    BY <1>1
  <2> QED
    BY <1>1, <2>1 DEF Elements
<1> QED
  BY <1>1, <1>2, <1>3, <1>4, <1>5 DEF t

LEMMA CommandsInitially == CommandsInit => CommandsInv
<1> SUFFICES ASSUME CommandsInit PROVE CommandsInv
  OBVIOUS
<1>0. /\ pc = "idle" /\ command = "system" /\ output = <<>> /\ written = 0
      /\ exited = TRUE /\ holder = FALSE /\ taken = 0 /\ inside = FALSE
      /\ shown = <<>> /\ word = 0 /\ flags = <<>> /\ asked = <<>>
  BY DEF CommandsInit
<1>1. CommandsTypeOK
  <2>1. /\ output \in Seq(Kinds(command)) /\ Len(output) = 0
        /\ shown \in Seq(Nat) /\ flags \in Seq(Nat)
        /\ asked \in Seq(Words \cup Kinds("include"))
    BY <1>0
  <2>2. written \in 0..Len(output) /\ taken \in 0..written /\ word \in 0..Len(output)
    BY <1>0, <2>1
  <2>3. exited \in BOOLEAN /\ holder \in BOOLEAN /\ inside \in BOOLEAN
    BY <1>0
  <2> QED
    BY <1>0, <2>1, <2>2, <2>3 DEF CommandsTypeOK
<1>2. Stages
  BY <1>0 DEF Stages
<1>3. ShownSoFar
  BY <1>0 DEF ShownSoFar
<1>4. FlagsAsAsked
  BY <1>0 DEF FlagsAsAsked, Elements, SinceClear, Rising
<1> QED
  BY <1>1, <1>2, <1>3, <1>4 DEF CommandsInv

(* What a child prints is a sequence of lines of its kind. *)
LEMMA OutputsType ==
  ASSUME NEW c, NEW o \in Outputs(c) PROVE o \in Seq(Kinds(c))
<1>1. PICK n \in 0..MaxOutput : o \in [1..n -> Kinds(c)]
  BY DEF Outputs
<1>2. n \in Nat
  OBVIOUS
<1> QED
  BY <1>1, <1>2

LEMMA CommandsTypeStep ==
  CommandsTypeOK /\ Stages /\ [CommandsNext]_commandsVars
    => CommandsTypeOK'
<1> SUFFICES ASSUME CommandsTypeOK, Stages, [CommandsNext]_commandsVars PROVE CommandsTypeOK'
  OBVIOUS
<1> USE DEF child
<1>l. Len(output) \in Nat /\ written \in Nat /\ taken \in Nat
  BY DEF CommandsTypeOK
<1>1. ASSUME NEW c \in {"system", "build", "include"}, NEW first, Popen(c, first)
      PROVE  CommandsTypeOK'
  <2>1. output' \in Seq(Kinds(c)) /\ command' = c
    BY <1>1, OutputsType DEF Popen
  <2>2. Len(output') \in Nat
    BY <2>1
  <2>3. /\ written' = 0 /\ taken' = 0 /\ word' = 0 /\ exited' = FALSE
        /\ inside' = FALSE /\ shown' = <<>> /\ flags' = flags /\ asked' = asked
    BY <1>1 DEF Popen
  <2>4. holder' \in BOOLEAN
    BY <1>1 DEF Popen
  <2>5. written' \in 0..Len(output') /\ taken' \in 0..written' /\ word' \in 0..Len(output')
    BY <2>2, <2>3
  <2>6. exited' \in BOOLEAN /\ inside' \in BOOLEAN
    BY <2>3
  <2>7. /\ shown' \in Seq(Nat) /\ flags' \in Seq(Nat)
        /\ asked' \in Seq(Words \cup Kinds("include"))
    BY <2>3 DEF CommandsTypeOK
  <2> QED
    BY <2>1, <2>4, <2>5, <2>6, <2>7 DEF CommandsTypeOK
<1>2. CASE StartSystem \/ StartBuild \/ StartInclude
  BY <1>1, <1>2 DEF StartSystem, StartBuild, StartInclude
<1>3. CASE SetFlags
  <2>1. /\ UNCHANGED <<command, child, taken, inside, shown, word>>
        /\ \/ UNCHANGED <<flags, asked>>
           \/ \E line \in FlagLines : \E c \in 0..Len(line) :
                 /\ flags' = (IF c = 0 THEN flags ELSE <<>>) \o Places(line, c)
                 /\ asked' = asked \o line
    BY <1>3 DEF SetFlags
  <2>2. CASE UNCHANGED <<flags, asked>>
    BY <2>1, <2>2 DEF CommandsTypeOK
  <2>3. CASE \E line \in FlagLines : \E c \in 0..Len(line) :
                 /\ flags' = (IF c = 0 THEN flags ELSE <<>>) \o Places(line, c)
                 /\ asked' = asked \o line
    <3>1. PICK line \in FlagLines : \E c \in 0..Len(line) :
                 /\ flags' = (IF c = 0 THEN flags ELSE <<>>) \o Places(line, c)
                 /\ asked' = asked \o line
      BY <2>3
    <3>2. line \in Seq(Words)
      BY DEF FlagLines
    <3>3. PICK c \in 0..Len(line) :
                 /\ flags' = (IF c = 0 THEN flags ELSE <<>>) \o Places(line, c)
                 /\ asked' = asked \o line
      BY <3>1
    <3>4. Len(asked) \in Nat /\ Len(line) \in Nat /\ c \in Nat
      BY <3>2 DEF CommandsTypeOK
    <3>5. Places(line, c) \in Seq(Nat)
      BY <3>2, <3>4 DEF Places
    <3>6. flags' \in Seq(Nat)
      BY <3>3, <3>5 DEF CommandsTypeOK
    <3>7. asked' \in Seq(Words \cup Kinds("include"))
      <4>1. line \in Seq(Words \cup Kinds("include"))
        BY <3>2
      <4> QED
        BY <3>3, <4>1 DEF CommandsTypeOK
    <3> QED
      BY <2>1, <3>6, <3>7 DEF CommandsTypeOK
  <2> QED
    BY <2>1, <2>2, <2>3
<1>4. CASE Wait \/ BuildEnds \/ TakeIncludes \/ WordsEnd \/ Exit \/ HolderEnds
  BY <1>4
       DEF Wait, BuildEnds, TakeIncludes, WordsEnd, Exit,
           HolderEnds, CommandsTypeOK
<1>5. CASE Read
  BY <1>5, <1>l DEF Read, CommandsTypeOK
<1>6. CASE PublishText
  <2>1. /\ UNCHANGED <<command, child, taken, inside, word, flags, asked>>
        /\ shown' = shown \/ shown' = [k \in DOMAIN output |-> k]
    BY <1>6 DEF PublishText
  <2>2. [k \in DOMAIN output |-> k] \in Seq(Nat)
    BY <1>l DEF CommandsTypeOK
  <2> QED
    BY <2>1, <2>2 DEF CommandsTypeOK
<1>7. CASE ReadLine
  <2>1. /\ taken' = taken + 1 /\ InPipe > 0
        /\ UNCHANGED <<command, child, word, flags, asked>>
        /\ shown' = shown \/ shown' = Append(shown, taken')
    BY <1>7 DEF ReadLine
  <2>2. inside' \in BOOLEAN
    BY <1>7 DEF ReadLine, CommandsTypeOK
  <2>3. taken' \in 0..written
    BY <1>l, <2>1 DEF InPipe, CommandsTypeOK
  <2>4. shown' \in Seq(Nat)
    <3>1. taken' \in Nat /\ shown \in Seq(Nat)
      BY <1>l, <2>1 DEF CommandsTypeOK
    <3> QED
      BY <2>1, <3>1
  <2> QED
    BY <2>1, <2>2, <2>3, <2>4 DEF CommandsTypeOK
<1>8. CASE ReadPartialLine
  BY <1>8, <1>l DEF ReadPartialLine, InPipe, CommandsTypeOK
<1>9. CASE TakeWord
  <2>1. /\ word' = word + 1 /\ word < Len(output) /\ pc = "words"
        /\ asked' = Append(asked, output[word'])
        /\ flags' = flags \/ flags' = Append(flags, Len(asked'))
        /\ UNCHANGED <<command, child, taken, inside, shown>>
    BY <1>9 DEF TakeWord
  <2>2. command = "include"
    BY <2>1 DEF Stages
  <2>3. word' \in 1..Len(output) /\ word' \in 0..Len(output)
    BY <1>l, <2>1 DEF CommandsTypeOK
  <2>4. output[word'] \in Words \cup Kinds("include")
    BY <2>2, <2>3 DEF CommandsTypeOK
  <2>5. asked' \in Seq(Words \cup Kinds("include")) /\ Len(asked') \in Nat
    BY <2>1, <2>4 DEF CommandsTypeOK
  <2>6. flags' \in Seq(Nat)
    <3>1. flags \in Seq(Nat)
      BY DEF CommandsTypeOK
    <3>2. Append(flags, Len(asked')) \in Seq(Nat)
      BY <2>5, <3>1
    <3> QED
      BY <2>1, <3>1, <3>2
  <2> QED
    BY <2>1, <2>3, <2>5, <2>6 DEF CommandsTypeOK
<1>10. CASE WriteLine
  BY <1>10, <1>l DEF WriteLine, CommandsTypeOK
<1>11. CASE NextDirective
  <2>1. /\ command' = "system" /\ output' = <<>> /\ written' = 0 /\ exited' = TRUE
        /\ holder' = FALSE /\ taken' = 0 /\ inside' = FALSE /\ shown' = <<>>
        /\ word' = 0 /\ UNCHANGED <<flags, asked>>
    BY <1>11 DEF NextDirective
  <2>2. /\ output' \in Seq(Kinds(command')) /\ Len(output') = 0
        /\ shown' \in Seq(Nat)
    BY <2>1
  <2>3. written' \in 0..Len(output') /\ taken' \in 0..written' /\ word' \in 0..Len(output')
    BY <2>1, <2>2
  <2>4. exited' \in BOOLEAN /\ holder' \in BOOLEAN /\ inside' \in BOOLEAN
    BY <2>1
  <2>5. flags' \in Seq(Nat) /\ asked' \in Seq(Words \cup Kinds("include"))
    BY <2>1 DEF CommandsTypeOK
  <2> QED
    BY <2>1, <2>2, <2>3, <2>4, <2>5 DEF CommandsTypeOK
<1>12. CASE UNCHANGED commandsVars
  BY <1>12 DEF commandsVars, CommandsTypeOK
<1> QED
  BY <1>2, <1>3, <1>4, <1>5, <1>6, <1>7, <1>8, <1>9, <1>10, <1>11, <1>12
     DEF CommandsNext, Kernel, Child

LEMMA CommandsStagesStep ==
  CommandsTypeOK /\ Stages /\ [CommandsNext]_commandsVars
    => Stages'
<1> SUFFICES ASSUME CommandsTypeOK, Stages, [CommandsNext]_commandsVars PROVE Stages'
  OBVIOUS
<1> USE DEF child, Stages
<1>1. CASE StartSystem \/ StartBuild \/ StartInclude
  BY <1>1 DEF StartSystem, StartBuild, StartInclude, Popen
<1>2. CASE SetFlags
  BY <1>2 DEF SetFlags
<1>3. CASE Wait \/ Read \/ BuildEnds \/ TakeIncludes \/ TakeWord \/ WordsEnd
  BY <1>3
       DEF Wait, Read, BuildEnds, TakeIncludes, TakeWord,
           WordsEnd
<1>4. CASE PublishText
  BY <1>4 DEF PublishText
<1>5. CASE ReadLine \/ ReadPartialLine
  <2>1. /\ pc = "readline" /\ pc' \in {"readline", "crashed", "raised"}
        /\ UNCHANGED <<command, output, written, exited>>
    BY <1>5 DEF ReadLine, ReadPartialLine
  <2> QED
    BY <2>1
<1>6. CASE WriteLine \/ Exit \/ HolderEnds
  BY <1>6 DEF WriteLine, Exit, HolderEnds
<1>7. CASE NextDirective
  <2>1. Len(<<>>) = 0
    OBVIOUS
  <2> QED
    BY <1>7, <2>1 DEF NextDirective
<1>8. CASE UNCHANGED commandsVars
  BY <1>8 DEF commandsVars
<1> QED
  BY <1>1, <1>2, <1>3, <1>4, <1>5, <1>6, <1>7, <1>8
       DEF CommandsNext, Kernel, Child

(* Whether a line is inside of an object depends on the one before it. *)
LEMMA NextInObject ==
  ASSUME CommandsTypeOK, NEW k \in DOMAIN output
  PROVE  InObject(k + 1) <=>
            (output[k] = "{" \/ (output[k] # "}" /\ InObject(k)))
<1>1. k \in Nat /\ k > 0
  BY DEF CommandsTypeOK
<1>2. ASSUME InObject(k + 1)
      PROVE  output[k] = "{" \/ (output[k] # "}" /\ InObject(k))
  <2>1. PICK j \in 1..k : /\ output[j] = "{"
                          /\ \A l \in (j + 1)..k : output[l] # "}"
    <3>1. (k + 1) - 1 = k
      BY <1>1
    <3> QED
      BY <1>2, <3>1 DEF InObject
  <2>2. CASE j = k
    BY <2>1, <2>2
  <2>3. CASE j # k
    <3>1. /\ j \in 1..(k - 1) /\ k \in (j + 1)..k
          /\ \A l \in (j + 1)..(k - 1) : l \in (j + 1)..k
      BY <1>1, <2>3
    <3> QED
      BY <2>1, <3>1 DEF InObject
  <2> QED
    BY <2>2, <2>3
<1>3. ASSUME output[k] = "{" PROVE InObject(k + 1)
  <2>1. k \in 1..((k + 1) - 1) /\ (k + 1)..((k + 1) - 1) = {}
    BY <1>1
  <2> QED
    BY <1>3, <2>1 DEF InObject
<1>4. ASSUME output[k] # "}", InObject(k) PROVE InObject(k + 1)
  <2>1. PICK j \in 1..(k - 1) : /\ output[j] = "{"
                                /\ \A l \in (j + 1)..(k - 1) : output[l] # "}"
    BY <1>4 DEF InObject
  <2>2. /\ j \in 1..((k + 1) - 1)
        /\ \A l \in (j + 1)..((k + 1) - 1) : l = k \/ l \in (j + 1)..(k - 1)
    BY <1>1
  <2> QED
    BY <1>4, <2>1, <2>2 DEF InObject
<1> QED
  BY <1>2, <1>3, <1>4

(* What of a build has been shown. *)
LEMMA ShownStep ==
  CommandsTypeOK /\ Stages /\ ShownSoFar /\ [CommandsNext]_commandsVars
    => ShownSoFar'
<1> SUFFICES ASSUME CommandsTypeOK, Stages, ShownSoFar, [CommandsNext]_commandsVars, command' = "build"
             PROVE  ShownSoFar'
  BY DEF ShownSoFar
<1> USE DEF child
<1>l. /\ Len(output) \in Nat
      /\ written \in Nat /\ written <= Len(output)
      /\ taken \in Nat /\ taken <= written
  BY DEF CommandsTypeOK
<1>d. DOMAIN output = 1..Len(output) /\ shown \in Seq(Nat)
  BY DEF CommandsTypeOK
<1>o. \A k \in Outside : k \in Nat
  BY <1>d, <1>l DEF Outside
<1>k. ASSUME output' = output
     PROVE Outside' = Outside /\ \A k : InObject(k)' = InObject(k)
  BY <1>k DEF Outside, InObject
<1>1. CASE StartBuild
  <2>1. /\ output' \in Seq(Kinds("build")) /\ taken' = 0 /\ inside' = FALSE
        /\ shown' = <<>> /\ pc' = "readline"
    BY <1>1, OutputsType DEF StartBuild, Popen
  <2>2. \A k \in Outside' : ~(k <= 0)
    BY <2>1 DEF Outside
  <2>3. Elements(<<>>) = {} /\ Rising(<<>>)
    BY DEF Elements, Rising
  <2>4. ~InObject(1)'
    BY DEF InObject
  <2> QED
    BY <2>1, <2>2, <2>3, <2>4 DEF ShownSoFar
<1>2. CASE ReadLine
  <2>1. /\ pc = "readline" /\ taken' = taken + 1 /\ InPipe > 0 /\ output' = output
        /\ inside' = (CASE Line = "{" -> TRUE [] Line = "}" -> FALSE
                        [] OTHER -> inside)
        /\ shown' = IF Line = "text" /\ ~inside THEN Append(shown, taken') ELSE shown
        /\ pc' = pc \/ pc' = "crashed"
    BY <1>2 DEF ReadLine
  <2>2. command = "build"
    BY <2>1 DEF Stages
  <2>3. taken' \in DOMAIN output /\ Line = output[taken'] /\ taken' \in Nat
    <3>1. taken' = taken + 1 /\ written - taken > 0
      BY <2>1 DEF InPipe
    <3>2. taken' \in 1..Len(output)
      BY <1>l, <3>1
    <3> QED
      BY <1>d, <3>1, <3>2 DEF Line
  <2>4. inside <=> InObject(taken')
    BY <2>1, <2>2 DEF ShownSoFar
  <2>5. inside' <=> InObject(taken' + 1)
    BY <2>1, <2>3, <2>4, NextInObject DEF CommandsTypeOK
  <2>6. Elements(shown) = {k \in Outside : k <= taken} /\ Rising(shown)
    BY <2>2 DEF ShownSoFar
  <2>7. taken' \in Outside <=> Line = "text" /\ ~inside
    BY <2>3, <2>4 DEF Outside
  <2>8. {k \in Outside : k <= taken'} =
           {k \in Outside : k <= taken} \cup (IF taken' \in Outside THEN {taken'} ELSE {})
    <3>1. taken' = taken + 1
      BY <2>1
    <3>2. \A k \in Outside : k <= taken' <=> (k <= taken \/ k = taken')
      BY <1>l, <1>o, <3>1
    <3> QED
      BY <3>2
  <2>9. Elements(shown') = {k \in Outside : k <= taken'} /\ Rising(shown')
    <3>1. CASE taken' \in Outside
      <4>1. shown' = Append(shown, taken')
        BY <2>1, <2>7, <3>1
      <4>2. \A k \in Elements(shown) : k < taken'
        <5>1. taken' = taken + 1
          BY <2>1
        <5> QED
          BY <1>l, <1>o, <2>6, <5>1
      <4> QED
        BY <1>d, <2>3, <2>6, <2>8, <3>1, <4>1, <4>2, AppendPlace
    <3>2. CASE taken' \notin Outside
      BY <2>1, <2>6, <2>7, <2>8, <3>2
    <3> QED
      BY <3>1, <3>2
  <2> QED
    BY <1>k, <2>1, <2>5, <2>9 DEF ShownSoFar, Elements, Rising
<1>3. CASE ReadPartialLine
  <2>1. /\ pc = "readline" /\ exited /\ InPipe = 1 /\ Line = "partial"
        /\ taken' = taken + 1 /\ pc' = "raised" /\ UNCHANGED <<output, shown, command>>
    BY <1>3 DEF ReadPartialLine
  <2>2. written = Len(output) /\ command = "build"
    BY <2>1 DEF Stages
  <2>3. taken' = Len(output) /\ taken' \notin Outside
    <3>1. taken' = taken + 1 /\ written - taken = 1 /\ output[taken + 1] = "partial"
      BY <2>1 DEF InPipe, Line
    <3>2. taken' = written
      BY <1>l, <3>1
    <3> QED
      BY <2>2, <3>1, <3>2 DEF Outside
  <2>4. {k \in Outside : k <= taken'} = {k \in Outside : k <= taken}
    <3>1. taken' = taken + 1
      BY <2>1
    <3> QED
      BY <1>l, <1>o, <2>3, <3>1
  <2>5. Elements(shown) = {k \in Outside : k <= taken} /\ Rising(shown)
    BY <2>2 DEF ShownSoFar
  <2> QED
    BY <1>k, <2>1, <2>3, <2>4, <2>5 DEF ShownSoFar, Elements, Rising
<1>4. CASE BuildEnds
  <2>1. /\ pc = "readline" /\ exited /\ InPipe = 0 /\ pc' \in {"ended", "raised"}
        /\ UNCHANGED <<output, shown, command, taken>>
    BY <1>4 DEF BuildEnds, EndOfFile
  <2>2. written = Len(output) /\ command = "build"
    BY <2>1 DEF Stages
  <2>3. taken = Len(output)
    <3>1. written - taken = 0
      BY <2>1 DEF InPipe
    <3> QED
      BY <1>l, <2>2, <3>1
  <2>4. Elements(shown) = {k \in Outside : k <= taken} /\ Rising(shown)
    BY <2>2 DEF ShownSoFar
  <2> QED
    BY <1>k, <2>1, <2>3, <2>4 DEF ShownSoFar, Elements, Rising
<1>5. CASE WriteLine \/ Exit \/ HolderEnds \/ UNCHANGED commandsVars
  <2>1. UNCHANGED <<pc, command, output, shown, taken, inside>>
    BY <1>5 DEF WriteLine, Exit, HolderEnds, commandsVars
  <2> QED
    BY <1>k, <2>1 DEF ShownSoFar, Elements, Rising
<1>6. ~(\/ StartSystem \/ StartInclude \/ SetFlags \/ Wait
        \/ Read \/ PublishText
        \/ TakeIncludes \/ TakeWord \/ WordsEnd \/ NextDirective)
  BY
       DEF StartSystem, StartInclude, Popen, SetFlags, Wait,
           Read, PublishText,
     TakeIncludes, TakeWord, WordsEnd, NextDirective, Stages
<1> QED
  BY <1>1, <1>2, <1>3, <1>4, <1>5, <1>6 DEF CommandsNext, Kernel, Child

LEMMA LineType == \A line \in FlagLines : line \in Seq(Words)
  BY DEF FlagLines

(* Two rising sequences of places, the one after the other. *)
LEMMA ConcatPlaces ==
  ASSUME NEW s \in Seq(Nat), NEW t \in Seq(Nat), Rising(s), Rising(t),
         \A k \in Elements(s), l \in Elements(t) : k < l
  PROVE  /\ Rising(s \o t)
         /\ Elements(s \o t) = Elements(s) \cup Elements(t)
<1> DEFINE u == s \o t
<1>1. /\ Len(s) \in Nat /\ DOMAIN s = 1..Len(s)
      /\ Len(t) \in Nat /\ DOMAIN t = 1..Len(t)
      /\ DOMAIN u = 1..(Len(s) + Len(t))
      /\ \A k \in 1..Len(s) : u[k] = s[k]
      /\ \A k \in 1..Len(t) : u[Len(s) + k] = t[k]
  OBVIOUS
<1> HIDE DEF u
<1>2. ASSUME NEW k \in DOMAIN u
      PROVE  \/ k \in DOMAIN s /\ u[k] = s[k]
             \/ /\ k - Len(s) \in DOMAIN t /\ k > Len(s)
                /\ u[k] = t[k - Len(s)]
  <2>1. CASE k <= Len(s)
    BY <1>1, <2>1
  <2>2. CASE k > Len(s)
    <3>1. k - Len(s) \in 1..Len(t) /\ Len(s) + (k - Len(s)) = k
      BY <1>1, <2>2
    <3> QED
      BY <1>1, <2>2, <3>1
  <2> QED
    BY <1>1, <2>1, <2>2
<1>3. Rising(u)
  <2> SUFFICES ASSUME NEW j \in DOMAIN u, NEW k \in DOMAIN u, j < k
               PROVE  u[j] < u[k]
    BY DEF Rising
  <2>1. j \in Nat /\ k \in Nat
    BY <1>1
  <2>2. CASE k \in DOMAIN s
    <3>1. j \in DOMAIN s
      BY <1>1, <2>1, <2>2
    <3> QED
      BY <1>1, <2>2, <3>1 DEF Rising
  <2>3. CASE k \notin DOMAIN s
    <3>1. k - Len(s) \in DOMAIN t /\ u[k] = t[k - Len(s)]
      BY <1>2, <2>3
    <3>2. CASE j \in DOMAIN s
      <4>1. s[j] \in Elements(s) /\ t[k - Len(s)] \in Elements(t) /\ u[j] = s[j]
        BY <1>1, <3>1, <3>2 DEF Elements
      <4> QED
        BY <3>1, <4>1
    <3>3. CASE j \notin DOMAIN s
      <4>1. j - Len(s) \in DOMAIN t /\ u[j] = t[j - Len(s)]
        BY <1>2, <3>3
      <4>2. j - Len(s) < k - Len(s)
        BY <1>1, <2>1
      <4> QED
        BY <3>1, <4>1, <4>2 DEF Rising
    <3> QED
      BY <3>2, <3>3
  <2> QED
    BY <2>2, <2>3
<1>4. Elements(u) \subseteq Elements(s) \cup Elements(t)
  BY <1>2 DEF Elements
<1>5. Elements(s) \subseteq Elements(u)
  BY <1>1 DEF Elements
<1>6. Elements(t) \subseteq Elements(u)
  <2>1. \A k \in DOMAIN t : Len(s) + k \in DOMAIN u
    BY <1>1
  <2> QED
    BY <1>1, <2>1 DEF Elements
<1> QED
  BY <1>3, <1>4, <1>5, <1>6 DEF u

(* The places of the words of a line. *)
LEMMA PlacesOfLine ==
  ASSUME NEW line, Len(line) \in Nat, NEW c \in 0..Len(line), Len(asked) \in Nat
  PROVE  /\ Places(line, c) \in Seq(Nat) /\ Rising(Places(line, c))
         /\ Elements(Places(line, c)) =
               (Len(asked) + c + 1)..(Len(asked) + Len(line))
<1> DEFINE s == Places(line, c)
           n == Len(line) - c
<1>1. n \in Nat /\ c \in Nat
  OBVIOUS
<1>2. /\ DOMAIN s = 1..n /\ \A k \in 1..n : s[k] = Len(asked) + c + k
      /\ s \in [1..n -> Nat]
  BY <1>1 DEF Places
<1>3. s \in Seq(Nat)
  BY <1>1, <1>2
<1> HIDE DEF s
<1>4. Rising(s)
  BY <1>1, <1>2 DEF Rising
<1>5. Elements(s) \subseteq (Len(asked) + c + 1)..(Len(asked) + Len(line))
  BY <1>1, <1>2 DEF Elements
<1>6. ASSUME NEW p \in (Len(asked) + c + 1)..(Len(asked) + Len(line))
      PROVE  p \in Elements(s)
  <2>1. /\ p - Len(asked) - c \in 1..n
        /\ Len(asked) + c + (p - Len(asked) - c) = p
    BY <1>1
  <2> QED
    BY <1>2, <2>1 DEF Elements
<1> QED
  BY <1>3, <1>4, <1>5, <1>6 DEF s

(* The flags are those that were asked for. *)
LEMMA FlagsStep ==
  CommandsTypeOK /\ Stages /\ FlagsAsAsked /\ [CommandsNext]_commandsVars
    => FlagsAsAsked'
<1> SUFFICES ASSUME CommandsTypeOK, Stages, FlagsAsAsked, [CommandsNext]_commandsVars
     PROVE FlagsAsAsked'
  OBVIOUS
<1> DEFINE n == Len(asked)
           Good(k) == asked[k] \in {"flag", "-I"}
<1>d. n \in Nat /\ DOMAIN asked = 1..n /\ flags \in Seq(Nat)
  BY DEF CommandsTypeOK
<1>f. /\ Rising(flags)
      /\ \A k : k \in Elements(flags) <=>
            /\ k \in 1..n /\ Good(k)
            /\ \A l \in k..n : asked[l] # "$clear"
  BY <1>d DEF FlagsAsAsked, SinceClear
<1>1. ASSUME UNCHANGED <<flags, asked>> PROVE FlagsAsAsked'
  BY <1>1 DEF FlagsAsAsked, SinceClear, Elements, Rising
<1>2. CASE TakeWord
  <2> DEFINE w == output[word']
  <2>1. /\ pc = "words" /\ word < Len(output) /\ word' = word + 1
        /\ asked' = Append(asked, w)
        /\ flags' = IF w = "-I" THEN Append(flags, Len(asked')) ELSE flags
    BY <1>2 DEF TakeWord
  <2>2. w \in {"-I", "other", "quote", "junk"}
    <3>1. command = "include"
      BY <2>1 DEF Stages
    <3>2. output \in Seq(Kinds("include")) /\ Len(output) \in Nat
      BY <3>1 DEF CommandsTypeOK
    <3>3. word' \in 1..Len(output)
      BY <2>1, <3>2 DEF CommandsTypeOK
    <3> QED
      BY <3>2, <3>3 DEF Kinds
  <2>3. /\ Len(asked') = n + 1 /\ DOMAIN asked' = 1..(n + 1)
        /\ asked'[n + 1] = w /\ \A k \in 1..n : asked'[k] = asked[k]
    BY <2>1 DEF CommandsTypeOK
  <2> HIDE DEF w
  <2>4. SinceClear' = SinceClear \cup {n + 1}
    <3>1. ASSUME NEW k \in 1..n PROVE k \in SinceClear' <=> k \in SinceClear
      <4>1. \A l : l \in k..(n + 1) <=> l \in k..n \/ l = n + 1
        BY <1>d
      <4>2. \A l \in k..n : l \in 1..n
        BY <1>d
      <4>3. (\A l \in k..(n + 1) : asked'[l] # "$clear")
              <=> (\A l \in k..n : asked[l] # "$clear")
        BY <2>2, <2>3, <4>1, <4>2
      <4>4. k \in 1..(n + 1)
        BY <1>d
      <4> QED
        BY <1>d, <2>3, <4>3, <4>4 DEF SinceClear
    <3>2. n + 1 \in SinceClear'
      <4>1. \A l \in (n + 1)..(n + 1) : l = n + 1
        BY <1>d
      <4> QED
        BY <1>d, <2>2, <2>3, <4>1 DEF SinceClear
    <3>3. \A k \in SinceClear' : k \in 1..n \/ k = n + 1
      BY <1>d, <2>3 DEF SinceClear
    <3>4. \A k \in SinceClear : k \in 1..n
      BY <1>d DEF SinceClear
    <3> QED
      BY <3>1, <3>2, <3>3, <3>4
  <2>5. /\ {k \in SinceClear' : asked'[k] \in {"flag", "-I"}} =
           Elements(flags) \cup (IF w = "-I" THEN {n + 1} ELSE {})
    <3>1. \A k \in SinceClear : k \in 1..n
      BY <1>d DEF SinceClear
    <3>2. \A k \in SinceClear : asked'[k] = asked[k]
      BY <2>3, <3>1
    <3>3. Elements(flags) = {k \in SinceClear : asked[k] \in {"flag", "-I"}}
      BY DEF FlagsAsAsked
    <3> QED
      BY <2>2, <2>3, <2>4, <3>2, <3>3
  <2>6. CASE w = "-I"
    <3>1. flags' = Append(flags, n + 1)
      BY <2>1, <2>3, <2>6
    <3>2. \A k \in Elements(flags) : k < n + 1
      BY <1>d, <1>f
    <3>3. Rising(flags') /\ Elements(flags') = Elements(flags) \cup {n + 1}
      BY <1>d, <1>f, <3>1, <3>2, AppendPlace
    <3> QED
      BY <2>5, <2>6, <3>3 DEF FlagsAsAsked, Rising, Elements
  <2>7. CASE w # "-I"
    <3>1. flags' = flags
      BY <2>1, <2>7
    <3> QED
      BY <1>f, <2>5, <2>7, <3>1 DEF FlagsAsAsked, Rising, Elements
  <2> QED
    BY <2>6, <2>7
<1>3. CASE SetFlags
  <2>0. PICK line \in FlagLines :
          \E c \in 0..Len(line) :
          /\ LastClear(line, c)
          /\ \/ UNCHANGED <<flags, asked>>
             \/ /\ ~Contains(line, "$other") /\ ~Contains(AfterClear(line, c), "quote")
                /\ flags' = (IF c = 0 THEN flags ELSE <<>>) \o Places(line, c)
                /\ asked' = asked \o line
    BY <1>3 DEF SetFlags
  <2>1. PICK c \in 0..Len(line) :
          /\ LastClear(line, c)
          /\ \/ UNCHANGED <<flags, asked>>
             \/ /\ ~Contains(line, "$other") /\ ~Contains(AfterClear(line, c), "quote")
                /\ flags' = (IF c = 0 THEN flags ELSE <<>>) \o Places(line, c)
                /\ asked' = asked \o line
    BY <2>0
  <2>2. ASSUME ~Contains(line, "$other"), ~Contains(AfterClear(line, c), "quote"),
               flags' = (IF c = 0 THEN flags ELSE <<>>) \o Places(line, c),
               asked' = asked \o line
        PROVE  FlagsAsAsked'
    <3> DEFINE m == Len(line)
               old == IF c = 0 THEN flags ELSE <<>>
    <3>1. line \in Seq(Words)
      BY LineType
    <3>2. /\ m \in Nat /\ DOMAIN line = 1..m /\ c \in Nat /\ c <= m
          /\ \A k \in 1..m : line[k] \in Words
      BY <3>1
    <3>3. /\ Len(asked') = n + m /\ DOMAIN asked' = 1..(n + m)
          /\ \A k \in 1..n : asked'[k] = asked[k]
          /\ \A k \in 1..m : asked'[n + k] = line[k]
      <4>1. /\ asked \in Seq(Words \cup Kinds("include"))
            /\ line \in Seq(Words \cup Kinds("include"))
        BY <3>1 DEF CommandsTypeOK
      <4> QED
        BY <2>2, <4>1
    <3>4. \A k \in (c + 1)..m : line[k] = "flag"
      <4> SUFFICES ASSUME NEW k \in (c + 1)..m PROVE line[k] = "flag"
        OBVIOUS
      <4>1. k \in 1..m
        BY <3>2
      <4>2. line[k] # "$clear"
        BY <2>1 DEF LastClear
      <4>3. line[k] # "$other"
        BY <2>2, <3>2, <4>1 DEF Contains
      <4>4. line[k] # "quote"
        <5>1. /\ AfterClear(line, c) = [i \in 1..(m - c) |-> line[c + 1 + i - 1]]
          BY <3>1, <3>2, SubSeqProperties DEF AfterClear
        <5>2. k - c \in 1..(m - c) /\ c + 1 + (k - c) - 1 = k
          BY <3>2
        <5>3. Len(AfterClear(line, c)) = m - c
          <6>1. m - c \in Nat
            BY <3>2
          <6> QED
            BY <5>1, <6>1
        <5> QED
          BY <2>2, <5>1, <5>2, <5>3 DEF Contains
      <4> QED
        BY <3>2, <4>1, <4>2, <4>3, <4>4 DEF Words
    <3>5. \A p \in (n + c + 1)..(n + m) : asked'[p] = "flag"
      <4> SUFFICES ASSUME NEW p \in (n + c + 1)..(n + m) PROVE asked'[p] = "flag"
        OBVIOUS
      <4>1. /\ p - n \in (c + 1)..m /\ p - n \in 1..m /\ n + (p - n) = p
        BY <1>d, <3>2
      <4> QED
        BY <3>3, <3>4, <4>1
    <3>6. /\ Rising(old) /\ old \in Seq(Nat)
          /\ \A k : k \in Elements(old) <=>
                /\ c = 0 /\ k \in 1..n /\ Good(k)
                /\ \A l \in k..n : asked[l] # "$clear"
      BY <1>d, <1>f DEF Elements, Rising
    <3> HIDE DEF old
    <3>7. /\ Rising(flags')
          /\ Elements(flags') = Elements(old) \cup ((n + c + 1)..(n + m))
      <4>1. /\ Places(line, c) \in Seq(Nat) /\ Rising(Places(line, c))
            /\ Elements(Places(line, c)) = (n + c + 1)..(n + m)
        BY <1>d, <3>2, PlacesOfLine
      <4>2. \A k \in Elements(old), l \in (n + c + 1)..(n + m) : k < l
        BY <1>d, <3>2, <3>6
      <4>3. flags' = old \o Places(line, c)
        BY <2>2 DEF old
      <4> QED
        BY <3>6, <4>1, <4>2, <4>3, ConcatPlaces
    <3>8. ASSUME NEW k \in 1..(n + m)
          PROVE  k \in Elements(flags') <=>
                    /\ asked'[k] \in {"flag", "-I"}
                    /\ \A l \in k..(n + m) : asked'[l] # "$clear"
      <4>1. CASE k > n + c
        <5>1. k \in (n + c + 1)..(n + m)
              /\ \A l \in k..(n + m) : l \in (n + c + 1)..(n + m)
          BY <1>d, <3>2, <4>1
        <5> QED
          BY <3>5, <3>7, <5>1
      <4>2. CASE k <= n + c /\ c # 0
        <5>1. /\ n + c \in k..(n + m) /\ c \in 1..m
          BY <1>d, <3>2, <4>2
        <5>2. asked'[n + c] = "$clear"
          BY <2>1, <3>3, <4>2, <5>1 DEF LastClear
        <5>3. k \notin (n + c + 1)..(n + m) /\ k \notin Elements(old)
          BY <1>d, <3>2, <3>6, <4>2
        <5> QED
          BY <3>7, <5>1, <5>2, <5>3
      <4>3. CASE k <= n /\ c = 0
        <5>1. k \in 1..n /\ k \notin (n + c + 1)..(n + m) /\ k \in 1..(n + m)
          BY <1>d, <3>2, <4>3
        <5>2. \A l : l \in k..(n + m) <=> (l \in k..n \/ l \in (n + c + 1)..(n + m))
          BY <1>d, <3>2, <4>3
        <5>3. \A l \in k..n : l \in 1..n
          BY <1>d
        <5>4. (\A l \in k..(n + m) : asked'[l] # "$clear")
                <=> (\A l \in k..n : asked[l] # "$clear")
          BY <3>3, <3>5, <5>2, <5>3
        <5>5. asked'[k] = asked[k]
          BY <3>3, <5>1
        <5>6. k \in Elements(flags') <=> k \in Elements(old)
          BY <3>7, <5>1
        <5> QED
          BY <3>6, <4>3, <5>1, <5>4, <5>5, <5>6
      <4> QED
        BY <1>d, <3>2, <4>1, <4>2, <4>3
    <3>9. \A k \in Elements(flags') : k \in 1..(n + m)
      BY <1>d, <3>2, <3>6, <3>7
    <3>10. Elements(flags)' = {k \in SinceClear' : asked'[k] \in {"flag", "-I"}}
      <4>1. Elements(flags)' = Elements(flags')
        BY DEF Elements
      <4>2. SinceClear' = {k \in 1..(n + m) : \A l \in k..(n + m) : asked'[l] # "$clear"}
        BY <3>3 DEF SinceClear
      <4> QED
        BY <3>8, <3>9, <4>1, <4>2
    <3> QED
      BY <3>7, <3>10 DEF FlagsAsAsked, Rising
  <2> QED
    BY <1>1, <2>1, <2>2
<1>4. CASE StartSystem \/ StartBuild \/ StartInclude \/ WriteLine \/ Exit
           \/ HolderEnds \/ NextDirective \/ UNCHANGED commandsVars
  BY <1>1, <1>4
       DEF StartSystem, StartBuild, StartInclude, Popen,
           WriteLine, Exit,
     HolderEnds, NextDirective, commandsVars
<1>5. CASE Wait \/ Read \/ PublishText \/ ReadLine \/ ReadPartialLine
           \/ BuildEnds \/ TakeIncludes \/ WordsEnd
  BY <1>1, <1>5
       DEF Wait, Read, PublishText, ReadLine, ReadPartialLine,
           BuildEnds,
     TakeIncludes, WordsEnd
<1> QED
  BY <1>2, <1>3, <1>4, <1>5 DEF CommandsNext, Kernel, Child

LEMMA CommandsStep == CommandsInv /\ [CommandsNext]_commandsVars => CommandsInv'
  BY CommandsTypeStep, CommandsStagesStep, ShownStep, FlagsStep DEF CommandsInv

(* The inductive invariant holds throughout. *)
THEOREM CommandsInvariance == CommandsSpec => []CommandsInv
<1>1. CommandsInit => CommandsInv
  BY CommandsInitially
<1>2. CommandsInv /\ [CommandsNext]_commandsVars => CommandsInv'
  BY CommandsStep
<1> QED
  BY <1>1, <1>2, PTL DEF CommandsSpec

(* swift-build is called with what was asked for since the last $clear     *)
(* (ProcessInstalls.swift:47-77, 113-123).                                 *)
THEOREM FlagsInForce == CommandsSpec => []FlagsAsAsked
<1>1. CommandsInv => FlagsAsAsked
  BY DEF CommandsInv
<1> QED
  BY <1>1, CommandsInvariance, PTL

(* A build that was read to its end has shown the lines outside of JSON    *)
(* objects (ProcessInstalls.swift:334-364).                                *)
THEOREM BuildShown == CommandsSpec => []ShowsBuild
<1>1. CommandsInv => ShowsBuild
  <2> SUFFICES ASSUME CommandsInv, command = "build", pc \in {"ended", "raised"}
               PROVE  Elements(shown) = Outside /\ Rising(shown)
    BY DEF ShowsBuild
  <2>1. /\ Elements(shown) = {k \in Outside : k <= taken} /\ Rising(shown)
        /\ taken = Len(output)
    BY DEF CommandsInv, ShownSoFar
  <2>2. \A k \in Outside : k <= Len(output)
    <3>1. DOMAIN output = 1..Len(output) /\ Len(output) \in Nat
      BY DEF CommandsInv, CommandsTypeOK
    <3> QED
      BY <3>1 DEF Outside
  <2> QED
    BY <2>1, <2>2
<1> QED
  BY <1>1, CommandsInvariance, PTL

=============================================================================
