------------------------- MODULE CellProtocolProofs -------------------------
(***************************************************************************)
(* The order of the messages that CellProtocol promises to a front end.    *)
(***************************************************************************)
EXTENDS CellProtocol, TLAPS

Entries == [kind : StreamKinds \cup OutcomeKinds, cell : Nat]

IsLog == iopub \in Seq(Entries)

CellIsLast ==
    /\ cell \in Nat
    /\ \A i \in DOMAIN iopub : iopub[i].cell \in Nat /\ iopub[i].cell <= cell

(* While a cell is being executed, it has not been concluded. *)
Unconcluded ==
    phase = "busy" =>
        \A i \in DOMAIN iopub : iopub[i].cell = cell => iopub[i].kind \notin OutcomeKinds

PInv == IsLog /\ CellIsLast /\ Unconcluded /\ CellsInOrder /\ OutcomeIsLast

AnswerTypes == [cell : Nat, status : {"ok", "error", "raised"}]

(* A finished cell was answered once, in agreement with what it published; *)
(* an unfinished one is not answered yet.                                  *)
Answered ==
    /\ phase \in {"idle", "busy", "concluded", "down"}
    /\ replies \in Seq(AnswerTypes)
    /\ \A i \in DOMAIN replies :
          /\ replies[i].cell <= cell
          /\ phase \in {"busy", "concluded"} => replies[i].cell < cell
    /\ phase = "concluded" =>
          /\ conclusion \in Conclusions
          /\ Outcomes(cell) = {conclusion} \cap OutcomeKinds
    /\ AnswersAgree

(* A message is appended after all others. *)
Appended(k, n) ==
    /\ n \in Nat
    /\ \A i \in DOMAIN iopub : i \in Nat /\ i < n /\ iopub'[i] = iopub[i]
    /\ DOMAIN iopub' = DOMAIN iopub \cup {n}
    /\ iopub'[n].kind = k
    /\ iopub'[n].cell = cell

LEMMA PostStep ==
    ASSUME IsLog, cell \in Nat, NEW k \in StreamKinds \cup OutcomeKinds, Post(k)
    PROVE  IsLog' /\ Appended(k, Len(iopub) + 1)
<1>1. [kind |-> k, cell |-> cell] \in Entries
  BY DEF Entries
<1>2. IsLog'
  BY <1>1 DEF Post, IsLog
<1>3. /\ Len(iopub) \in Nat
      /\ DOMAIN iopub = 1..Len(iopub)
      /\ DOMAIN iopub' = 1..(Len(iopub) + 1)
      /\ \A i \in 1..Len(iopub) : iopub'[i] = iopub[i]
      /\ iopub'[Len(iopub) + 1] = [kind |-> k, cell |-> cell]
  BY <1>1 DEF Post, IsLog
<1>4. QED
  BY <1>2, <1>3 DEF Appended

(* A message of the cell being executed keeps the cells in order, and a    *)
(* cell that was not concluded may publish or be concluded.                *)
LEMMA AppendedStep ==
    ASSUME CellIsLast, CellsInOrder, OutcomeIsLast, Unconcluded, phase = "busy",
           NEW k, NEW n, Appended(k, n), cell' = cell
    PROVE  /\ CellIsLast' /\ CellsInOrder' /\ OutcomeIsLast'
           /\ k \notin OutcomeKinds => Unconcluded'
<1>1. CellIsLast'
  BY DEF CellIsLast, Appended
<1>2. CellsInOrder'
  BY DEF CellIsLast, CellsInOrder, Appended
<1>3. OutcomeIsLast'
  BY DEF CellIsLast, OutcomeIsLast, Unconcluded, Appended
<1>4. k \notin OutcomeKinds => Unconcluded'
  BY DEF Unconcluded, Appended
<1>5. QED
  BY <1>1, <1>2, <1>3, <1>4

LEMMA PublishStep == ASSUME PInv, Publish PROVE PInv'
<1>1. PICK k \in StreamKinds : Post(k)
  BY DEF Publish
<1>2. k \notin OutcomeKinds
  BY DEF StreamKinds, OutcomeKinds, ErrorKinds
<1>3. IsLog' /\ Appended(k, Len(iopub) + 1)
  BY <1>1, PostStep DEF PInv, CellIsLast
<1>4. phase = "busy" /\ cell' = cell
  BY DEF Publish
<1>5. QED
  BY <1>2, <1>3, <1>4, AppendedStep DEF PInv

LEMMA ConcludeStep == ASSUME PInv, Conclude PROVE PInv'
<1>1. phase = "busy" /\ phase' = "concluded" /\ cell' = cell
  BY DEF Conclude
<1>2. PICK k \in Conclusions :
          IF k \in OutcomeKinds THEN Post(k) ELSE UNCHANGED iopub
  BY DEF Conclude
<1>3. Unconcluded'
  BY <1>1 DEF Unconcluded
<1>4. CASE k \notin OutcomeKinds
  BY <1>1, <1>2, <1>3, <1>4
     DEF PInv, IsLog, CellIsLast, CellsInOrder, OutcomeIsLast
<1>5. CASE k \in OutcomeKinds
  <2>1. IsLog' /\ Appended(k, Len(iopub) + 1)
    BY <1>2, <1>5, PostStep DEF PInv, CellIsLast
  <2>2. QED
    BY <1>1, <1>3, <2>1, AppendedStep DEF PInv
<1>6. QED
  BY <1>4, <1>5

(* The next cell has published nothing. *)
LEMMA BeginStep == ASSUME PInv, Begin PROVE PInv'
<1>1. cell' = cell + 1 /\ phase' = "busy" /\ iopub' = iopub
  BY DEF Begin
<1>2. IsLog' /\ CellsInOrder' /\ OutcomeIsLast'
  BY <1>1 DEF PInv, IsLog, CellsInOrder, OutcomeIsLast
<1>3. CellIsLast' /\ Unconcluded'
  BY <1>1 DEF PInv, CellIsLast, Unconcluded
<1>4. QED
  BY <1>2, <1>3 DEF PInv

LEMMA InvariantStep == PInv /\ [Next]_vars => PInv'
<1> SUFFICES ASSUME PInv, [Next]_vars PROVE PInv'
  OBVIOUS
<1>1. CASE Answer \/ Die
  BY <1>1 DEF Answer, Die, PInv, IsLog, CellIsLast, Unconcluded, CellsInOrder, OutcomeIsLast
<1>2. CASE UNCHANGED vars
  BY <1>2 DEF vars, PInv, IsLog, CellIsLast, Unconcluded, CellsInOrder, OutcomeIsLast
<1>3. QED
  BY <1>1, <1>2, BeginStep, PublishStep, ConcludeStep DEF Next

(* Messages are ordered by cells, and the concluding message is the last   *)
(* one of its cell.                                                        *)
THEOREM MessageOrder == Spec => [](CellsInOrder /\ OutcomeIsLast)
<1>1. Init => PInv
  BY DEF Init, PInv, IsLog, CellIsLast, Unconcluded, CellsInOrder, OutcomeIsLast
<1>2. PInv /\ [Next]_vars => PInv'
  BY InvariantStep
<1>3. PInv => CellsInOrder /\ OutcomeIsLast
  BY DEF PInv
<1>4. QED
  BY <1>1, <1>2, <1>3, PTL DEF Spec

-----------------------------------------------------------------------------

(* A message changes the outcomes of its own cell only. *)
LEMMA OutcomesAppended ==
    ASSUME NEW k, NEW n, Appended(k, n), cell' = cell, NEW c
    PROVE  Outcomes(c)' = Outcomes(c) \cup (IF c = cell THEN {k} \cap OutcomeKinds
                                            ELSE {})
<1>1. /\ DOMAIN iopub' = DOMAIN iopub \cup {n}
      /\ \A i \in DOMAIN iopub : i # n /\ iopub'[i] = iopub[i]
      /\ iopub'[n].kind = k /\ iopub'[n].cell = cell
  BY DEF Appended
<1> DEFINE Of(log) == {log[i].kind : i \in {j \in DOMAIN log : log[j].cell = c}}
<1>2. Of(iopub') = Of(iopub) \cup (IF c = cell THEN {k} ELSE {})
  BY <1>1
<1>3. Outcomes(c)' = Of(iopub') \cap OutcomeKinds /\ Outcomes(c) = Of(iopub) \cap OutcomeKinds
  BY DEF Outcomes
<1>4. QED
  BY <1>2, <1>3

(* What agreed still does when the outcomes of the answered cells are what *)
(* they were.                                                              *)
LEMMA SameOutcomes ==
    ASSUME AnswersAgree, replies' = replies,
           \A i \in DOMAIN replies : Outcomes(replies[i].cell)' = Outcomes(replies[i].cell)
    PROVE  AnswersAgree'
BY DEF AnswersAgree

LEMMA LogKept ==
    ASSUME iopub' = iopub PROVE \A c : Outcomes(c)' = Outcomes(c)
BY DEF Outcomes

LEMMA AnswersTyped ==
    ASSUME Answered
    PROVE  \A i \in DOMAIN replies : replies[i].cell \in Nat
<1>1. replies \in Seq(AnswerTypes)
  BY DEF Answered
<1>2. \A i \in DOMAIN replies : replies[i] \in AnswerTypes
  BY <1>1
<1>3. QED
  BY <1>2 DEF AnswerTypes

LEMMA BeginAnswered == ASSUME PInv, Answered, Begin PROVE Answered'
<1>1. /\ phase' = "busy" /\ cell' = cell + 1 /\ cell \in Nat
      /\ UNCHANGED <<conclusion, iopub, replies>>
  BY DEF Begin, PInv, CellIsLast
<1>2. AnswersAgree'
  BY <1>1, LogKept, SameOutcomes DEF Answered
<1>3. \A i \in DOMAIN replies : replies[i].cell \in Nat
  BY AnswersTyped
<1>4. QED
  BY <1>1, <1>2, <1>3 DEF Answered

LEMMA PublishAnswered == ASSUME PInv, Answered, Publish PROVE Answered'
<1>1. PICK k \in StreamKinds : Post(k)
  BY DEF Publish
<1>2. /\ phase = "busy" /\ cell \in Nat
      /\ UNCHANGED <<phase, cell, conclusion, replies>>
  BY DEF Publish, PInv, CellIsLast
<1>3. {k} \cap OutcomeKinds = {}
  BY DEF StreamKinds, OutcomeKinds, ErrorKinds
<1>4. \A c : Outcomes(c)' = Outcomes(c)
  <2>1. Appended(k, Len(iopub) + 1)
    BY <1>1, <1>2, PostStep DEF PInv
  <2>2. \A c : Outcomes(c)' = Outcomes(c) \cup (IF c = cell THEN {k} \cap OutcomeKinds
                                               ELSE {})
    BY <1>2, <2>1, OutcomesAppended
  <2>3. QED
    BY <1>3, <2>2
<1>5. AnswersAgree'
  BY <1>2, <1>4, SameOutcomes DEF Answered
<1>6. QED
  BY <1>2, <1>5 DEF Answered

LEMMA ConcludeAnswered == ASSUME PInv, Answered, Conclude PROVE Answered'
<1>1. /\ phase = "busy" /\ phase' = "concluded" /\ cell \in Nat
      /\ UNCHANGED <<cell, replies>>
  BY DEF Conclude, PInv, CellIsLast
<1>2. PICK k \in Conclusions :
          /\ conclusion' = k
          /\ IF k \in OutcomeKinds THEN Post(k) ELSE UNCHANGED iopub
  BY DEF Conclude
<1>3. Outcomes(cell) = {}
  BY <1>1 DEF PInv, Unconcluded, Outcomes
<1>4. /\ Outcomes(cell)' = {k} \cap OutcomeKinds
      /\ \A i \in DOMAIN replies : Outcomes(replies[i].cell)' = Outcomes(replies[i].cell)
  <2>1. CASE k \notin OutcomeKinds
    <3>1. cell' = cell /\ replies' = replies /\ \A c : Outcomes(c)' = Outcomes(c)
      BY <1>1, <1>2, <2>1, LogKept
    <3>2. {k} \cap OutcomeKinds = {}
      BY <2>1
    <3>3. Outcomes(cell)' = Outcomes(cell)
      BY <3>1
    <3>4. QED
      BY <1>3, <3>1, <3>2, <3>3
  <2>2. CASE k \in OutcomeKinds
    <3>1. Appended(k, Len(iopub) + 1)
      BY <1>1, <1>2, <2>2, PostStep DEF PInv
    <3>2. \A c : Outcomes(c)' = Outcomes(c) \cup (IF c = cell THEN {k} \cap OutcomeKinds
                                                 ELSE {})
      BY <1>1, <3>1, OutcomesAppended
    <3>3. \A i \in DOMAIN replies : replies[i].cell # cell
      BY <1>1 DEF Answered, AnswerTypes
    <3>4. Outcomes(cell)' = {k} \cap OutcomeKinds
      <4>1. Outcomes(cell') = Outcomes(cell)
        BY <1>1
      <4>2. QED
        BY <1>1, <1>3, <3>2, <4>1 DEF Outcomes
    <3>5. QED
      BY <1>1, <3>2, <3>3, <3>4
  <2>3. QED
    BY <2>1, <2>2
<1>5. AnswersAgree'
  BY <1>1, <1>4, SameOutcomes DEF Answered
<1>6. QED
  BY <1>1, <1>2, <1>4, <1>5 DEF Answered

LEMMA AnswerAnswered == ASSUME PInv, Answered, Answer PROVE Answered'
<1> DEFINE new == [cell |-> cell, status |-> Status(conclusion)]
<1>1. /\ phase = "concluded" /\ phase' = "idle" /\ cell \in Nat
      /\ replies' = Append(replies, new)
      /\ UNCHANGED <<cell, iopub>>
      /\ conclusion \in Conclusions
      /\ Outcomes(cell) = {conclusion} \cap OutcomeKinds
  BY DEF Answer, PInv, CellIsLast, Answered
<1>2. /\ new \in AnswerTypes
      /\ CASE new.status = "ok"     -> Outcomes(new.cell) \subseteq {"value"}
           [] new.status = "error"  -> \E k \in ErrorKinds : Outcomes(new.cell) = {k}
           [] new.status = "raised" -> Outcomes(new.cell) \subseteq {"bad"}
  BY <1>1 DEF AnswerTypes, Status, Conclusions, OutcomeKinds, ErrorKinds
<1> HIDE DEF new
<1>3. replies \in Seq(AnswerTypes)
  BY DEF Answered
<1>4. /\ replies' \in Seq(AnswerTypes)
      /\ \A i \in DOMAIN replies' : \/ i \in DOMAIN replies /\ replies'[i] = replies[i]
                                    \/ replies'[i] = new
  BY <1>1, <1>2, <1>3
<1>5. \A c : Outcomes(c)' = Outcomes(c)
  BY <1>1 DEF Outcomes
<1>6. AnswersAgree'
  BY <1>2, <1>4, <1>5 DEF AnswersAgree, Answered
<1>7. new.cell = cell
  BY DEF new
<1>8. QED
  BY <1>1, <1>4, <1>6, <1>7 DEF Answered

(* Whatever happens in a cell, its answer agrees with what was published   *)
(* for it.                                                                 *)
THEOREM RepliesMatch == Spec => []AnswersAgree
<1>1. Init => PInv /\ Answered
  <2>1. Init => PInv
    BY DEF Init, PInv, IsLog, CellIsLast, Unconcluded, CellsInOrder, OutcomeIsLast
  <2>2. Init => Answered
    BY DEF Init, Answered, AnswersAgree
  <2>3. QED
    BY <2>1, <2>2
<1>2. PInv /\ Answered /\ [Next]_vars => PInv' /\ Answered'
  <2> SUFFICES ASSUME PInv, Answered, [Next]_vars PROVE PInv' /\ Answered'
    OBVIOUS
  <2>1. PInv'
    BY InvariantStep
  <2>2. CASE Die \/ UNCHANGED vars
    <3>1. UNCHANGED <<cell, conclusion, iopub, replies>> /\ phase' \in {phase, "down"}
      BY <2>2 DEF Die, vars
    <3>2. \A c : Outcomes(c)' = Outcomes(c)
      BY <3>1 DEF Outcomes
    <3>3. AnswersAgree'
      BY <3>1, <3>2, SameOutcomes DEF Answered
    <3>4. Outcomes(cell)' = Outcomes(cell)
      BY <3>1 DEF Outcomes
    <3>5. QED
      BY <2>1, <3>1, <3>3, <3>4 DEF Answered
  <2>3. CASE Begin \/ Publish \/ Conclude \/ Answer
    BY <2>1, <2>3, BeginAnswered, PublishAnswered, ConcludeAnswered, AnswerAnswered
  <2>4. QED
    BY <2>1, <2>2, <2>3 DEF Next
<1>3. Answered => AnswersAgree
  BY DEF Answered
<1>4. QED
  BY <1>1, <1>2, <1>3, PTL DEF Spec

=============================================================================
