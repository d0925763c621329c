------------------------- MODULE ReplSessionProofs -------------------------
(***************************************************************************)
(* A cell runs only in a prepared process, which is never replaced, and no *)
(* process is given the code of a file twice: for all sets of files, all   *)
(* sequences of cells, edits and failures.                                 *)
(***************************************************************************)
EXTENDS ReplSession, SequenceTheorems, TLAPS

(* Sequences of names and of paths, kept together in the proofs of steps. *)
LEMMA CellType == Cells \subseteq Seq(Names)
<1> SUFFICES ASSUME NEW c \in Cells PROVE c \in Seq(Names)
  OBVIOUS
<1>1. PICK n \in 1..MaxLines : c \in [1..n -> Names]
  BY DEF Cells
<1>2. n \in Nat
  BY MaxLinesAssumption
<1> QED
  BY <1>1, <1>2, SeqDef

(* What an %include puts in was not read before, and is a path. *)
LEMMA ChosenIsNew ==
    ASSUME TypeOK, NEW n \in Names, Candidates(n) # {}
    PROVE  Chosen(n) \in Paths /\ Chosen(n) \notin read
<1>1. PICK p \in Candidates(n) : TRUE
  OBVIOUS
<1>2. p \in Paths /\ p \notin read /\ p[2] = n
  BY <1>1 DEF Candidates, TypeOK
<1>3. p = <<"include", n>> \/ p = <<"content", n>>
  BY <1>2 DEF Paths, Dirs
<1> QED
  BY <1>1, <1>2, <1>3 DEF Chosen, Candidates, Paths, Dirs

(* The elements of a sequence with one more at its end. *)
LEMMA AppendElements ==
    ASSUME NEW S, NEW s \in Seq(S), NEW e \in S
    PROVE  /\ Append(s, e) \in Seq(S)
           /\ \A k \in DOMAIN Append(s, e) :
                 \/ k \in DOMAIN s /\ Append(s, e)[k] = s[k]
                 \/ k = Len(s) + 1 /\ Append(s, e)[k] = e
  BY AppendProperties

(* The elements of two sequences one after the other. *)
LEMMA ConcatElements ==
    ASSUME NEW S, NEW s \in Seq(S), NEW t \in Seq(S)
    PROVE  /\ s \o t \in Seq(S)
           /\ \A k \in DOMAIN (s \o t) :
                 \/ k \in DOMAIN s /\ (s \o t)[k] = s[k]
                 \/ /\ k - Len(s) \in DOMAIN t /\ k \in Nat
                    /\ (s \o t)[k] = t[k - Len(s)]
  BY ConcatProperties

-----------------------------------------------------------------------------
(* Types. *)

(* The initial state has its types. *)
LEMMA InitType == Init => TypeOK
<1> SUFFICES ASSUME Init PROVE TypeOK
  OBVIOUS
<1>1. files \subseteq Paths
  BY CommunicatorAssumption DEF Init, Paths, Dirs
<1>2. /\ cell \in Seq(Names) /\ lines \in Seq(Names)
      /\ text \in Seq(Paths) /\ given \in Seq(Paths)
  BY EmptySeq DEF Init
<1>3. spent \in [cells : Nat, edits : Nat, failures : Nat]
  BY DEF Init
<1> QED
  BY <1>1, <1>2, <1>3 DEF Init, TypeOK, PCs

(* The count of failures stays a number. *)
LEMMA FailureType ==
    ASSUME spent \in [cells : Nat, edits : Nat, failures : Nat], MayFail
    PROVE  spent' \in [cells : Nat, edits : Nat, failures : Nat]
<1>1. spent.failures + 1 \in Nat
  OBVIOUS
<1> QED
  BY <1>1, SMTT(30) DEF MayFail

(* Every step keeps the types. *)
LEMMA NextType == TypeOK /\ [Next]_vars => TypeOK'
<1> SUFFICES ASSUME TypeOK, [Next]_vars PROVE TypeOK'
  OBVIOUS
<1>s. <<Communicator>> \in Seq(Names) /\ <<>> \in Seq(Paths)
  BY CommunicatorAssumption
<1>f. MayFail => spent' \in [cells : Nat, edits : Nat, failures : Nat]
  BY FailureType DEF TypeOK
<1>1. CASE Edit
  BY <1>1, SMTT(30) DEF Edit, TypeOK, Paths, Dirs
<1>2. CASE StartCell
  <2>1. cell' \in Seq(Names)
    BY <1>2, CellType DEF StartCell
  <2>2. spent' \in [cells : Nat, edits : Nat, failures : Nat]
    BY <1>2, SMTT(30) DEF StartCell, TypeOK
  <2>3. lines' \in Seq(Names) /\ text' \in Seq(Paths) /\ pc' \in PCs
    BY <1>2, <1>s, <2>1 DEF StartCell, Preprocess, TypeOK, PCs
  <2> QED
    BY <1>2, <2>1, <2>2, <2>3 DEF StartCell, TypeOK
<1>3. CASE Launch
  <2>1. /\ process' \in Nat
        /\ defined' \subseteq Paths
        /\ declared' \in BOOLEAN
    <3>1. process \in Nat /\ declared \in BOOLEAN /\ defined \subseteq Paths
      BY DEF TypeOK
    <3>2. process' \in Nat
      BY <1>3, <3>1 DEF Launch
    <3>3. defined' \subseteq Paths
      BY <1>3, <3>1 DEF Launch
    <3>4. declared' \in BOOLEAN
      BY <1>3, <3>1 DEF Launch
    <3> QED
      BY <3>2, <3>3, <3>4
  <2>2. lines' \in Seq(Names) /\ text' \in Seq(Paths) /\ given' \in Seq(Paths)
    BY <1>3, <1>s DEF Launch, Preprocess, TypeOK
  <2>3. spent' \in [cells : Nat, edits : Nat, failures : Nat]
    BY <1>3, <1>f DEF Launch, TypeOK
  <2> QED
    BY <1>3, <2>1, <2>2, <2>3 DEF Launch, TypeOK, PCs
<1>4. CASE Declare
  BY <1>4, <1>f DEF Declare, TypeOK, PCs
<1>5. CASE BitWidth
  BY <1>5, <1>s, <1>f DEF BitWidth, Preprocess, TypeOK, PCs
<1>6. CASE ReadInclude
  <2>1. Head(lines) \in Names /\ Tail(lines) \in Seq(Names)
    BY <1>6 DEF ReadInclude, TypeOK
  <2>2. Chosen(Head(lines)) \in Paths
    BY <1>6, <2>1, ChosenIsNew DEF ReadInclude
  <2>3. text' \in Seq(Paths)
    BY <1>6, <2>2, AppendElements DEF ReadInclude, TypeOK
  <2> QED
    BY <1>6, <2>1, <2>2, <2>3 DEF ReadInclude, TypeOK
<1>7. CASE SkipInclude
  <2>1. Tail(lines) \in Seq(Names)
    BY <1>7 DEF SkipInclude, TypeOK
  <2> QED
    BY <1>7, <2>1 DEF SkipInclude, TypeOK
<1>8. CASE IncludeNotFound
  BY <1>8 DEF IncludeNotFound, TypeOK, PCs
<1>9. CASE Execute
  <2>1. given' \in Seq(Paths)
    BY <1>9, ConcatElements DEF Execute, TypeOK
  <2>2. Elements(text) \subseteq Paths
    BY DEF Elements, TypeOK
  <2> QED
    BY <1>9, <1>f, <2>1, <2>2 DEF Execute, TypeOK, PCs
<1>10. CASE ReadTraps
  BY <1>10 DEF ReadTraps, TypeOK, PCs
<1>11. CASE UNCHANGED vars
  BY <1>11 DEF vars, TypeOK
<1> QED
  BY <1>1, <1>2, <1>3, <1>4, <1>5, <1>6, <1>7, <1>8, <1>9, <1>10, <1>11
     DEF Next, InitSwift, Include

-----------------------------------------------------------------------------
(* The preparation of the process. *)

LEMMA NextPrepared == TypeOK /\ Prepared /\ [Next]_vars => Prepared'
<1> SUFFICES ASSUME TypeOK, Prepared, [Next]_vars PROVE Prepared'
  OBVIOUS
<1>1. CASE Edit \/ StartCell
  BY <1>1 DEF Edit, StartCell, Prepared
<1>2. CASE InitSwift
  BY <1>2 DEF InitSwift, Launch, Declare, BitWidth, Prepared
<1>3. CASE Include
  BY <1>3 DEF Include, ReadInclude, SkipInclude, IncludeNotFound,
              ReadTraps, Prepared
<1>4. CASE Execute
  BY <1>4 DEF Execute, Prepared
<1>5. CASE UNCHANGED vars
  BY <1>5 DEF vars, Prepared
<1> QED
  BY <1>1, <1>2, <1>3, <1>4, <1>5 DEF Next

-----------------------------------------------------------------------------
(* The code that is put in. *)

LEMMA NextFresh == TypeOK /\ Fresh /\ [Next]_vars => Fresh'
<1> SUFFICES ASSUME TypeOK, Fresh, [Next]_vars PROVE Fresh'
  OBVIOUS
<1>e. DOMAIN <<>> = {}
  OBVIOUS
<1>1. CASE Edit
  BY <1>1 DEF Edit, Fresh, GivenOnce
<1>2. CASE StartCell
  BY <1>2, <1>e DEF StartCell, Preprocess, Fresh, GivenOnce
<1>3. CASE Launch
  BY <1>3, <1>e DEF Launch, Preprocess, Fresh, GivenOnce
<1>4. CASE Declare
  BY <1>4 DEF Declare, Fresh, GivenOnce
<1>5. CASE BitWidth
  BY <1>5, <1>e DEF BitWidth, Preprocess, Fresh, GivenOnce
<1>6. CASE ReadInclude
  <2> DEFINE c == Chosen(Head(lines))
  <2>1. Head(lines) \in Names
    BY <1>6 DEF ReadInclude, TypeOK
  <2>2. c \in Paths /\ c \notin read
    BY <1>6, <2>1, ChosenIsNew DEF ReadInclude
  <2>3. /\ text' = Append(text, c) /\ read' = read \cup {c}
        /\ UNCHANGED <<pc, given>> /\ pc \in {"communicator", "cell"}
    BY <1>6 DEF ReadInclude
  <2> HIDE DEF c
  <2>4. \A k \in DOMAIN text' :
           \/ k \in DOMAIN text /\ text'[k] = text[k] /\ text[k] \in read
           \/ k = Len(text) + 1 /\ text'[k] = c
    BY <2>2, <2>3, AppendElements DEF TypeOK, Fresh
  <2>5. \A a, b \in DOMAIN text' : text'[a] = text'[b] => a = b
    BY <2>2, <2>3, <2>4 DEF Fresh
  <2>6. \A a \in DOMAIN given, b \in DOMAIN text' : given[a] # text'[b]
    BY <2>2, <2>3, <2>4 DEF Fresh
  <2> QED
    BY <2>2, <2>3, <2>4, <2>5, <2>6 DEF Fresh, GivenOnce
<1>7. CASE SkipInclude
  BY <1>7 DEF SkipInclude, Fresh, GivenOnce
<1>8. CASE IncludeNotFound
  BY <1>8 DEF IncludeNotFound, Fresh, GivenOnce
<1>9. CASE Execute
  <2>1. /\ given' = given \o text /\ UNCHANGED <<text, read>>
        /\ pc \in {"communicator", "cell"}
        /\ pc' \in {"declare", "idle"}
    BY <1>9 DEF Execute
  <2>2. \A k \in DOMAIN given' :
           \/ k \in DOMAIN given /\ given'[k] = given[k]
           \/ /\ k - Len(given) \in DOMAIN text /\ k \in Nat
              /\ given'[k] = text[k - Len(given)]
    BY <2>1, ConcatElements DEF TypeOK
  <2>3. \A a, b \in DOMAIN given' : given'[a] = given'[b] => a = b
    <3>1. Len(given) \in Nat
      BY DEF TypeOK
    <3> QED
      BY <2>1, <2>2, <3>1 DEF Fresh, GivenOnce
  <2> QED
    BY <2>1, <2>2, <2>3 DEF Fresh, GivenOnce
<1>10. CASE ReadTraps
  BY <1>10 DEF ReadTraps, Fresh, GivenOnce
<1>11. CASE UNCHANGED vars
  BY <1>11 DEF vars, Fresh, GivenOnce
<1> QED
  BY <1>1, <1>2, <1>3, <1>4, <1>5, <1>6, <1>7, <1>8, <1>9, <1>10, <1>11
     DEF Next, InitSwift, Include

-----------------------------------------------------------------------------
(* The inductive invariant. *)
THEOREM Invariance == Spec => []IInv
<1>1. Init => IInv
  <2>1. Init => Prepared /\ Fresh
    BY DEF Init, Prepared, Fresh, GivenOnce
  <2> QED
    BY <2>1, InitType DEF IInv
<1>2. IInv /\ [Next]_vars => IInv'
  BY NextType, NextPrepared, NextFresh DEF IInv
<1> QED
  BY <1>1, <1>2, PTL DEF Spec

(* A cell is run only in a prepared process. *)
THEOREM RunsPrepared == Spec => []ReadyMeansPrepared
<1>1. IInv => ReadyMeansPrepared
  BY DEF IInv, Prepared, ReadyMeansPrepared
<1> QED
  BY <1>1, Invariance, PTL

(* No process is given the code of a path twice. *)
THEOREM CodeGivenOnce == Spec => []GivenOnce
<1>1. IInv => GivenOnce
  BY DEF IInv, Fresh
<1> QED
  BY <1>1, Invariance, PTL

(* The process of a ready session is never replaced. *)
THEOREM ProcessKept == Spec => ReadyKeepsProcess
<1>1. IInv /\ [Next]_vars => [initialized => process' = process]_vars
  BY DEF IInv, Prepared, Next, Edit, StartCell, InitSwift, Launch, Declare,
     BitWidth, Include, ReadInclude, SkipInclude, IncludeNotFound,
     ReadTraps, Execute, vars
<1> QED
  BY <1>1, Invariance, PTL DEF Spec, ReadyKeepsProcess

=============================================================================
