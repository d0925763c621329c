-------------------------- MODULE WireFormatProofs --------------------------
(***************************************************************************)
(* The writer of the display messages stays inside its buffer, and what    *)
(* the reader finds there and sends is what was displayed: the way through *)
(* the buffer implements Transfer, for every list of messages and every    *)
(* initial capacity of two words or more.                                  *)
(***************************************************************************)
EXTENDS WireFormat, TLAPS

(* A part takes a natural number of words. *)
LEMMA WordsOfType == ASSUME NEW n \in Nat PROVE WordsOf(n) \in Nat
  BY DEF WordsOf

(* The messages are sequences of sizes. *)
LEMMA InputType ==
    ASSUME TypeOK
    PROVE  /\ input \in Seq(Seq(Nat))
           /\ Len(input) \in Nat
           /\ \A m \in 1..Len(input) :
                 /\ input[m] \in Seq(Nat) /\ input[m] # <<>>
                 /\ Len(input[m]) \in Nat /\ Len(input[m]) > 0
                 /\ \A p \in 1..Len(input[m]) : input[m][p] \in Nat
<1>1. input \in Inputs
  BY DEF TypeOK
<1>2. input \in Seq(Seq(Nat)) /\ \A m \in DOMAIN input : input[m] # <<>>
  BY <1>1, InputsAssumption
<1>3. Len(input) \in Nat /\ DOMAIN input = 1..Len(input)
  BY <1>2
<1>4. ASSUME NEW m \in 1..Len(input)
      PROVE  /\ input[m] \in Seq(Nat) /\ input[m] # <<>>
             /\ Len(input[m]) \in Nat /\ Len(input[m]) > 0
             /\ \A p \in 1..Len(input[m]) : input[m][p] \in Nat
  <2>1. input[m] \in Seq(Nat) /\ input[m] # <<>>
    BY <1>2, <1>3
  <2> QED
    BY <2>1
<1> QED
  BY <1>2, <1>3, <1>4

(* What is read as a number is one. *)
LEMMA NumberAtType == ASSUME TypeOK, NEW w PROVE NumberAt(w) \in Nat
  BY DEF NumberAt, TypeOK

(* Numbers, data and junk are told apart. *)
LEMMA WordKinds ==
    /\ \A n \in Nat : Number(n).n \in Nat
    /\ Junk.tag # "number"
    /\ \A m, p, k : Word(m, p, k).tag # "number"
  BY DEF Number, Junk, Word

(* While a part is written its size is a natural number. *)
LEMMA CountType ==
    ASSUME IInv,
           \/ pc \in {"double", "write"}
           \/ pc = "part" /\ j <= Len(input[i])
    PROVE  Count \in Nat /\ WordsOf(Count) \in Nat
<1>1. \A m \in 1..Len(input) : Len(input[m]) \in Nat
  BY InputType DEF IInv
<1>2. i \in 1..Len(input) /\ j \in 1..Len(input[i])
  BY <1>1 DEF IInv, Reserved, TypeOK
<1>3. Count \in Nat
  BY <1>2, InputType DEF Count, IInv
<1> QED
  BY <1>3, WordsOfType

(* The initial states are good. *)
LEMMA InitIInv == Init => IInv
<1> SUFFICES ASSUME Init PROVE IInv
  OBVIOUS
<1>1. mem = <<>> /\ capacity = 0
  BY DEF Init
<1>2. DOMAIN mem = 0..(capacity - 1) /\ DOMAIN mem = {}
  <2>1. DOMAIN <<>> = {} /\ 0..(0 - 1) = {}
    OBVIOUS
  <2> QED
    BY <1>1, <2>1
<1>3. /\ input \in Inputs /\ pc = "trigger" /\ i = 1 /\ j = 1
      /\ size = 0 /\ capacity = 0 /\ grown = 0 /\ live = FALSE
  BY DEF Init
<1>4. TypeOK
  BY <1>2, <1>3 DEF TypeOK, PCs
<1>5. Reserved
  BY <1>3 DEF Reserved
<1> QED
  BY <1>4, <1>5 DEF IInv

(* Every step keeps the inductive invariant. *)
LEMMA NextIInv == IInv /\ [Next]_vars => IInv'
<1> SUFFICES ASSUME IInv, [Next]_vars PROVE IInv'
  OBVIOUS
<1> USE DEF IInv
<1>t. /\ \A m \in 1..Len(input) : Len(input[m]) \in Nat /\ Len(input[m]) > 0
      /\ Len(input) \in Nat
  BY InputType
<1>w. \/ pc \in {"double", "write"}
      \/ pc = "part" /\ j <= Len(input[i])
      => Count \in Nat /\ WordsOf(Count) \in Nat
  BY CountType
<1>1. CASE Trigger
  <2>1. CASE pc' = "message" /\ size' = 1 /\ capacity' = InitialCapacity
    <3>1. DOMAIN mem' = 0..(capacity' - 1)
      BY <1>1, <2>1 DEF Trigger
    <3>2. TypeOK'
        <4>1. /\ mem' = [w \in 0..(InitialCapacity - 1) |->
                          IF w = 0 THEN Number(Len(input)) ELSE Junk]
            /\ live' = TRUE /\ UNCHANGED <<input, i, j, grown>>
        BY <1>1, <2>1 DEF Trigger
      <4>2. \A w \in DOMAIN mem' : mem'[w].tag = "number" => mem'[w].n \in Nat
        BY <4>1, <1>t, WordKinds
      <4> QED
        BY <2>1, <3>1, <4>1, <4>2, CapacityAssumption DEF TypeOK, PCs
    <3>3. i = 1 /\ i' = 1 /\ input' = input
      BY <1>1 DEF Trigger, Reserved
    <3>4. Reserved'
      BY <2>1, <3>3, <1>t, CapacityAssumption DEF Reserved
    <3> QED
      BY <3>2, <3>4
  <2>2. CASE pc' = "failed" /\ UNCHANGED <<size, capacity, live, mem>>
    BY <1>1, <2>2 DEF Trigger, TypeOK, Reserved, PCs
  <2> QED
    BY <1>1, <2>1, <2>2 DEF Trigger
<1>2. CASE WriteMessageHeader
  <2>1. /\ pc = "message" /\ i <= Len(input) /\ pc' = "part"
        /\ size' = size + 1 /\ j' = 1
        /\ mem' = [mem EXCEPT ![size] = Number(Len(input[i]))]
        /\ UNCHANGED <<input, i, capacity, grown, live>>
    BY <1>2 DEF WriteMessageHeader
  <2>2. i \in 1..Len(input) /\ size + 1 <= capacity
    BY <2>1, <1>t DEF Reserved, TypeOK
  <2>3. Number(Len(input[i])).n \in Nat
    BY <2>2, <1>t, WordKinds
  <2>4. TypeOK'
    BY <2>1, <2>3 DEF TypeOK, PCs
  <2>5. Reserved'
    BY <2>1, <2>2, <1>t DEF Reserved, TypeOK
  <2> QED
    BY <2>4, <2>5
<1>3. CASE NextMessage
  BY <1>3, <1>t DEF NextMessage, TypeOK, Reserved, PCs
<1>4. CASE ReadFails
  <2>1. /\ pc' = "failed" /\ live' = FALSE
        /\ UNCHANGED <<input, i, j, size, capacity, grown, mem>>
    BY <1>4 DEF ReadFails
  <2> QED
    BY <2>1 DEF TypeOK, Reserved, PCs
<1>5. CASE MeasurePart
  <2>1. /\ pc = "part" /\ j <= Len(input[i])
        /\ pc' \in {"double", "write"}
        /\ pc' = "write" => ~(size + Needed(Count) > capacity)
        /\ grown' = 2 * capacity \/ grown' = grown
        /\ UNCHANGED <<input, i, j, size, capacity, mem, live>>
    BY <1>5 DEF MeasurePart
  <2>2. TypeOK'
    BY <2>1 DEF TypeOK, PCs
  <2>3. Count \in Nat /\ WordsOf(Count) \in Nat /\ Count' = Count
    BY <2>1, <1>w DEF Count
  <2>4. (pc = "write" => size + Needed(Count) <= capacity)'
    BY <2>1, <2>3 DEF Needed, TypeOK, WordsOf
  <2> QED
    BY <2>1, <2>2, <2>4 DEF Reserved
<1>6. CASE Double
  BY <1>6 DEF Double, TypeOK, Reserved, PCs
<1>7. CASE Reallocate
  <2>1. TypeOK'
    <3>1. /\ mem' = [w \in 0..(grown - 1) |-> IF w < size THEN mem[w] ELSE Junk]
          /\ capacity' = grown /\ pc' = "write" /\ size <= capacity
          /\ UNCHANGED <<input, i, j, size, grown, live>>
      BY <1>7 DEF Reallocate, Reserved
    <3>2. \A w \in DOMAIN mem' : mem'[w].tag = "number" => mem'[w].n \in Nat
      BY <3>1, WordKinds DEF TypeOK
    <3> QED
      BY <3>1, <3>2 DEF TypeOK, PCs
  <2>2. Needed(Count) \in Nat
    BY <1>7, <1>w DEF Reallocate, Needed
  <2>3. grown \in Nat /\ size \in Nat
    BY DEF TypeOK
  <2>4. /\ pc = "double" /\ pc' = "write" /\ capacity' = grown
        /\ size + Needed(Count) <= grown
        /\ UNCHANGED <<input, i, j, size>>
    BY <1>7 DEF Reallocate
  <2>5. Count' = Count
    BY <2>4 DEF Count
  <2>6. size + 1 <= grown
    BY <2>3, <2>4, <1>w DEF Needed, TypeOK
  <2>7. (size + Needed(Count) <= capacity)'
    BY <2>4, <2>5 DEF Needed, WordsOf
  <2>8. i \in 1..Len(input) /\ j \in 1..(Len(input[i]) + 1) /\ j <= Len(input[i])
    BY <2>4 DEF Reserved
  <2>9. size <= grown
    BY <2>3, <2>6
  <2> QED
    BY <2>1, <2>4, <2>6, <2>7, <2>8, <2>9 DEF Reserved
<1>8. CASE WritePart
  <2>1. TypeOK'
    <3>1. /\ mem' = [w \in DOMAIN mem |->
                       IF w = size THEN Number(Count)
                       ELSE IF w \in (size + 1)..(size + WordsOf(Count))
                            THEN Word(i, j, w - size) ELSE mem[w]]
          /\ pc' = "part" /\ j' = j + 1 /\ size' = size + 1 + WordsOf(Count)
          /\ UNCHANGED <<input, i, capacity, grown, live>>
          /\ Count \in Nat /\ WordsOf(Count) \in Nat
      BY <1>8, <1>w DEF WritePart
    <3>2. \A w \in DOMAIN mem' : mem'[w].tag = "number" => mem'[w].n \in Nat
      BY <3>1, WordKinds DEF TypeOK
    <3> QED
      BY <3>1, <3>2 DEF TypeOK, PCs
  <2>2. size' + 1 <= capacity'
    BY <1>8, <1>w DEF WritePart, Reserved, Needed, TypeOK
  <2>3. /\ pc = "write" /\ pc' = "part" /\ j' = j + 1
        /\ UNCHANGED <<input, i, capacity>>
    BY <1>8 DEF WritePart
  <2>4. i \in 1..Len(input) /\ j \in 1..Len(input[i])
    BY <2>3, <1>t DEF Reserved, TypeOK
  <2>5. j' \in 1..(Len(input[i]) + 1)
    BY <2>3, <2>4, <1>t
  <2>6. size' <= capacity'
    <3>1. size \in Nat /\ capacity \in Nat
      BY DEF TypeOK
    <3>2. size' = size + 1 + WordsOf(Count) /\ WordsOf(Count) \in Nat
      BY <1>8, <1>w DEF WritePart
    <3> QED
      BY <3>1, <3>2, <2>2, <2>3
  <2> QED
    BY <2>1, <2>2, <2>3, <2>4, <2>5, <2>6 DEF Reserved
<1>9. CASE Read
  <2>1. \A w : NumberAt(w) \in Nat
    BY NumberAtType
  <2>2. CASE StartReading
    BY <2>2 DEF StartReading, TypeOK, Reserved, PCs
  <2>3. CASE ReadMessageHeader
    BY <2>1, <2>3 DEF ReadMessageHeader, TypeOK, Reserved, PCs
  <2>4. CASE ReadPart
    BY SMTT(30), <2>1, <2>4 DEF ReadPart, TypeOK, Reserved, PCs
  <2>5. CASE EndOfMessage
    BY <2>5 DEF EndOfMessage, TypeOK, Reserved, PCs
  <2>6. CASE EndOfStream
    BY <2>6 DEF EndOfStream, TypeOK, Reserved, PCs
  <2> QED
    BY <1>9, <2>2, <2>3, <2>4, <2>5, <2>6 DEF Read
<1>10. CASE Send \/ SendFails \/ Free
  BY <1>10 DEF Send, SendFails, Free, TypeOK, Reserved, PCs
<1>11. CASE UNCHANGED vars
  BY <1>11 DEF vars, TypeOK, Reserved, Count
<1> QED
  BY <1>1, <1>2, <1>3, <1>4, <1>5, <1>6, <1>7, <1>8, <1>9, <1>10, <1>11
     DEF Next, Write

(* The inductive invariant holds. *)
THEOREM Invariance == Spec => []IInv
<1> QED
  BY InitIInv, NextIInv, PTL DEF Spec

(* Nothing is written outside the buffer. *)
THEOREM WriterInBounds == Spec => []InBounds
<1>1. IInv => InBounds
  <2> SUFFICES ASSUME IInv PROVE InBounds
    OBVIOUS
  <2>1. pc = "write" => WordsOf(Count) \in Nat
    BY CountType
  <2>2. /\ DOMAIN mem = 0..(capacity - 1)
        /\ size \in Nat /\ capacity \in Nat
    BY DEF IInv, TypeOK
  <2>3. ASSUME pc = "message" PROVE size \in DOMAIN mem
    BY <2>2, <2>3 DEF IInv, Reserved
  <2>4. ASSUME pc = "write"
        PROVE  size..(size + WordsOf(Count)) \subseteq DOMAIN mem
    <3>1. size + (1 + WordsOf(Count) + 1) <= capacity
      BY <2>4 DEF IInv, Reserved, Needed
    <3>2. WordsOf(Count) \in Nat
      BY <2>1, <2>4
    <3> QED
      BY <2>2, <3>1, <3>2
  <2> QED
    BY <2>3, <2>4 DEF InBounds
<1> QED
  BY <1>1, Invariance, PTL

-----------------------------------------------------------------------------
(* The contents of the buffer.                                             *)

(* What is laid out for a message: the number of its parts, and its parts. *)
LEMMA Items ==
    ASSUME TypeOK, NEW m \in 1..Len(input), NEW p \in 0..Len(input[m])
    PROVE  /\ m \in Nat /\ p \in Nat /\ m > 0
           /\ Len(input[m]) \in Nat
           /\ Span(m, p) \in Nat /\ Span(m, p) > 0
           /\ Value(m, p) \in Nat
<1>1. m \in Nat /\ m > 0 /\ Len(input[m]) \in Nat
  BY InputType
<1>2. p \in Nat
  BY <1>1
<1>3. p # 0 => input[m][p] \in Nat
  BY <1>1, <1>2, InputType
<1>4. p # 0 => WordsOf(input[m][p]) \in Nat
  BY <1>3, WordsOfType
<1> QED
  BY <1>1, <1>2, <1>3, <1>4 DEF Span, Value

(* The next position can be recorded, and the others stay. *)
Recordable(pos, a, b, v) ==
    \E q \in Positions :
        /\ q[a][b] = v
        /\ \A m, p \in Nat : m # a \/ p # b => q[m][p] = pos[m][p]

LEMMA OnePosition ==
    ASSUME NEW pos \in Positions, NEW a \in Nat, NEW b \in Nat, NEW v \in Nat
    PROVE  Recordable(pos, a, b, v)
<1> DEFINE q == [pos EXCEPT ![a] = [pos[a] EXCEPT ![b] = v]]
<1>1. pos[a] \in [Nat -> Nat]
  BY DEF Positions
<1>2. q \in Positions
  BY <1>1 DEF Positions
<1>3. q[a][b] = v
  BY <1>1 DEF Positions
<1>4. ASSUME NEW m \in Nat, NEW p \in Nat, m # a \/ p # b
      PROVE  q[m][p] = pos[m][p]
  BY <1>1, <1>4 DEF Positions
<1> HIDE DEF q
<1> QED
  BY <1>2, <1>3, <1>4 DEF Recordable

(* What is in the buffer stays there when a step leaves its words alone.   *)
LEMMA HoldsKept ==
    ASSUME TypeOK, NEW pos \in Positions, NEW q \in Positions,
           NEW m \in 1..Len(input), NEW p \in 0..Len(input[m]),
           Holds(pos, m, p), input' = input,
           q[m][p] = pos[m][p], q[m][p + 1] = pos[m][p + 1],
           \A w \in 0..(pos[m][p + 1] - 1) : mem'[w] = mem[w],
           pos[m][p + 1] <= (IF Writing' THEN size' ELSE capacity')
    PROVE  Holds(q, m, p)'
<1>1. /\ p \in Nat /\ m \in Nat /\ Span(m, p) \in Nat /\ Span(m, p) > 0
      /\ pos[m][p] \in Nat /\ pos[m][p + 1] \in Nat
  <2>1. p \in Nat /\ m \in Nat /\ Span(m, p) \in Nat /\ Span(m, p) > 0
    BY Items
  <2>2. p + 1 \in Nat
    BY <2>1
  <2>3. pos[m] \in [Nat -> Nat]
    BY <2>1 DEF Positions
  <2> QED
    BY <2>1, <2>2, <2>3
<1>2. Span(m, p)' = Span(m, p) /\ Value(m, p)' = Value(m, p)
  BY DEF Span, Value
<1>3. mem'[pos[m][p]] = mem[pos[m][p]]
  BY <1>1 DEF Holds
<1>4. ASSUME NEW k \in 1..(Span(m, p) - 1)
      PROVE  mem'[pos[m][p] + k] = Word(m, p, k)
  <2>1. \A a, b, n \in Nat : \A l \in 1..(n - 1) : b = a + n => a + l \in 0..(b - 1)
    OBVIOUS
  <2>2. pos[m][p + 1] = pos[m][p] + Span(m, p)
    BY DEF Holds
  <2>3. pos[m][p] + k \in 0..(pos[m][p + 1] - 1)
    BY <1>1, <2>1, <2>2
  <2> QED
    BY <2>3 DEF Holds
<1>5. mem'[q[m][p]] = Number(Value(m, p))
  BY <1>3 DEF Holds
<1> QED
  BY <1>2, <1>4, <1>5 DEF Holds

(* Before the parts are read there is no view that could be wrong.         *)
LEMMA NoViews ==
    ASSUME TypeOK, input' = input, views' = <<>>, pc' \notin {"readPart", "send"},
           NEW pos
    PROVE  Views(pos)'
<1>1. Len(views') = 0 /\ Len(input) \in Nat
  BY InputType
<1> QED
  BY <1>1 DEF Views

LEMMA TriggerPlaces ==
    ASSUME TransferInv, Trigger
    PROVE  Located'
<1>1. CASE pc' = "failed"
  BY <1>1 DEF Located, Writing, Reading
<1>2. CASE pc' = "message"
  <2> DEFINE pos == [m \in Nat |-> [p \in Nat |-> 1]]
  <2>1. /\ i = 1 /\ i' = 1 /\ input' = input /\ size' = 1 /\ views' = <<>>
        /\ mem' = [w \in 0..(InitialCapacity - 1) |->
                      IF w = 0 THEN Number(Len(input)) ELSE Junk]
    BY <1>2 DEF Trigger, TransferInv, IInv, Reserved, Phases
  <2>2. pos \in Positions /\ pos[1][0] = 1
    BY DEF Positions
  <2> HIDE DEF pos
  <2>3. mem'[0] = Number(Len(input))
    BY <2>1, CapacityAssumption
  <2>4. \A m \in 1..Len(input) : ~(m < 1)
    BY InputType DEF TransferInv, IInv
  <2>5. Laid(pos)'
    BY <1>2, <2>1, <2>2, <2>3, <2>4 DEF Laid, Written, Writing
  <2>6. Follows(pos)'
    BY <1>2, <2>1, <2>2 DEF Follows
  <2>7. Views(pos)'
    BY <1>2, <2>1, NoViews DEF TransferInv, IInv
  <2> QED
    BY <2>2, <2>5, <2>6, <2>7 DEF Located
<1> QED
  BY <1>1, <1>2 DEF Trigger

(* The header of a message, with no part yet.                              *)
LEMMA HeaderPlaces ==
    ASSUME TransferInv, WriteMessageHeader
    PROVE  Located'
<1>1. /\ pc = "message" /\ pc' = "part" /\ j' = 1 /\ size' = size + 1
      /\ mem' = [mem EXCEPT ![size] = Number(Len(input[i]))]
      /\ UNCHANGED <<input, i, capacity, views>> /\ views = <<>>
      /\ i \in 1..Len(input) /\ i \in Nat /\ size \in Nat /\ size + 1 <= capacity
      /\ capacity \in Nat /\ DOMAIN mem = 0..(capacity - 1) /\ TypeOK
      /\ Len(input) \in Nat
  BY InputType DEF WriteMessageHeader, TransferInv, IInv, TypeOK, Reserved, Phases, Writing
<1>2. PICK pos \in Positions : Laid(pos) /\ Follows(pos)
  BY <1>1 DEF TransferInv, Located, Writing
<1>3. size > 0 /\ size = pos[i][0]
  BY <1>1, <1>2 DEF Follows, Writing
<1>4. PICK q \in Positions :
          /\ q[i][1] = size + 1
          /\ \A m, p \in Nat : m # i \/ p # 1 => q[m][p] = pos[m][p]
  <2>1. i \in Nat /\ size \in Nat
    BY <1>1
  <2>2. Recordable(pos, i, 1, size + 1)
    BY <2>1, OnePosition
  <2> QED
    BY <2>2 DEF Recordable
<1>5. \A w \in 0..(size - 1) : mem'[w] = mem[w]
  BY <1>1
<1>6. mem'[size] = Number(Len(input[i])) /\ mem'[0] = mem[0]
  BY <1>1, <1>3
<1>7. ASSUME NEW m \in 1..Len(input), NEW p \in 0..Len(input[m]), Written(m, p)'
      PROVE  Holds(q, m, p)'
  <2>1. m \in Nat /\ p \in Nat /\ pos[m][p + 1] \in Nat
    BY <1>1, Items DEF Positions
  <2>2. CASE m < i
    <3>1. Holds(pos, m, p)
      BY <1>2, <2>2 DEF Laid, Written
    <3>2. pos[m][p + 1] <= size
      BY <1>1, <3>1 DEF Holds, Writing
    <3>3. q[m][p] = pos[m][p] /\ q[m][p + 1] = pos[m][p + 1]
      BY <1>4, <2>1, <2>2
    <3>4. \A w \in 0..(pos[m][p + 1] - 1) : mem'[w] = mem[w]
      BY <1>1, <1>5, <2>1, <3>2
    <3>5. pos[m][p + 1] <= (IF Writing' THEN size' ELSE capacity')
      BY <1>1, <2>1, <3>2 DEF Writing
    <3> QED
      BY <1>1, <3>1, <3>3, <3>4, <3>5, HoldsKept
  <2>3. CASE m = i /\ p = 0
    <3>1. q[i][0] = size /\ q[i][1] = size + 1
      BY <1>1, <1>3, <1>4
    <3>2. Span(m, p)' = 1 /\ Value(m, p)' = Len(input[i])
      BY <1>1, <2>3 DEF Span, Value
    <3>3. 1..(1 - 1) = {}
      OBVIOUS
    <3> QED
      BY <1>1, <1>3, <1>6, <2>3, <3>1, <3>2, <3>3 DEF Holds, Writing
  <2> QED
    BY <1>1, <1>7, <2>1, <2>2, <2>3 DEF Written, Writing
<1>8. Laid(q)'
  <2>1. q[1][0] = 1
    BY <1>2, <1>4 DEF Laid
  <2>2. ASSUME NEW m \in 1..Len(input), m < i
        PROVE  q[m + 1][0] = q[m][Len(input[m]) + 1]
    <3>1. m \in Nat /\ Len(input[m]) \in Nat
      BY <1>1, InputType
    <3>2. pos[m + 1][0] = pos[m][Len(input[m]) + 1]
      BY <1>2, <2>2 DEF Laid
    <3> QED
      BY <1>4, <2>2, <3>1, <3>2
  <2> QED
    BY <1>1, <1>2, <1>6, <1>7, <2>1, <2>2 DEF Laid, Writing
<1>9. Follows(q)'
  BY <1>1, <1>4 DEF Follows
<1>10. Views(q)'
  BY <1>1, NoViews
<1> QED
  BY <1>8, <1>9, <1>10 DEF Located

(* The last part of a message is written: the next begins where it ends.   *)
LEMMA NextMessagePlaces ==
    ASSUME TransferInv, NextMessage
    PROVE  Located'
<1>1. /\ pc = "part" /\ pc' = "message" /\ i' = i + 1 /\ j = Len(input[i]) + 1
      /\ UNCHANGED <<input, j, size, capacity, mem, views>> /\ views = <<>>
      /\ i \in 1..Len(input) /\ i \in Nat /\ size \in Nat /\ TypeOK
      /\ Len(input) \in Nat /\ Len(input[i]) \in Nat
  BY InputType
     DEF NextMessage, TransferInv, IInv, TypeOK, Reserved, Phases, Writing
<1>2. PICK pos \in Positions : Laid(pos) /\ Follows(pos)
  BY <1>1 DEF TransferInv, Located, Writing
<1>3. size > 0 /\ size = pos[i][Len(input[i]) + 1]
  BY <1>1, <1>2 DEF Follows, Writing
<1>4. PICK q \in Positions :
          /\ q[i + 1][0] = size
          /\ \A m, p \in Nat : m # i + 1 \/ p # 0 => q[m][p] = pos[m][p]
  <2>1. i \in Nat /\ size \in Nat
    BY <1>1
  <2>2. Recordable(pos, i + 1, 0, size)
    BY <2>1, OnePosition
  <2> QED
    BY <2>2 DEF Recordable
<1>5. ASSUME NEW m \in 1..Len(input), NEW p \in 0..Len(input[m]), Written(m, p)'
      PROVE  Holds(q, m, p)'
  <2>1. m \in Nat /\ p \in Nat /\ pos[m][p + 1] \in Nat
    BY <1>1, Items DEF Positions
  <2>2. m < i \/ m = i
    BY <1>1, <1>5, <2>1 DEF Written, Writing
  <2>3. Holds(pos, m, p)
    <3>1. Written(m, p)
      BY <1>1, <2>1, <2>2 DEF Written
    <3> QED
      BY <1>2, <3>1 DEF Laid
  <2>4. q[m][p] = pos[m][p] /\ q[m][p + 1] = pos[m][p + 1]
    BY <1>1, <1>4, <2>1, <2>2
  <2>5. pos[m][p + 1] <= (IF Writing' THEN size' ELSE capacity')
    BY <1>1, <2>3 DEF Holds, Writing
  <2> QED
    BY <1>1, <2>3, <2>4, <2>5, HoldsKept
<1>6. Laid(q)'
  <2>1. q[1][0] = 1
    BY <1>1, <1>2, <1>4 DEF Laid
  <2>2. ASSUME NEW m \in 1..Len(input), m < i + 1
        PROVE  q[m + 1][0] = q[m][Len(input[m]) + 1]
    <3>1. m \in Nat /\ Len(input[m]) \in Nat
      BY <1>1, InputType
    <3>2. CASE m < i
      <4>1. pos[m + 1][0] = pos[m][Len(input[m]) + 1]
        BY <1>2, <3>2 DEF Laid
      <4> QED
        BY <1>1, <1>4, <3>1, <3>2, <4>1
    <3>3. CASE m = i
      BY <1>1, <1>3, <1>4, <3>3
    <3> QED
      BY <1>1, <2>2, <3>1, <3>2, <3>3
  <2> QED
    BY <1>1, <1>2, <1>5, <2>1, <2>2 DEF Laid, Writing
<1>7. Follows(q)'
  BY <1>1, <1>3, <1>4 DEF Follows
<1>8. Views(q)'
  BY <1>1, NoViews
<1> QED
  BY <1>6, <1>7, <1>8 DEF Located

(* A step between two parts moves nothing: the buffer may be a new one, but *)
(* what was written was copied to the same words.                          *)
LEMMA PartPlaces ==
    ASSUME TransferInv,
           pc \in {"part", "double"}, pc' \in {"double", "write"},
           UNCHANGED <<input, i, j, size, views>>,
           \A w \in 0..(size - 1) : mem'[w] = mem[w]
    PROVE  Located'
<1>1. /\ views = <<>> /\ size \in Nat /\ TypeOK
      /\ Len(input) \in Nat
  BY InputType DEF TransferInv, IInv, TypeOK, Phases, Writing
<1>2. PICK pos \in Positions : Laid(pos) /\ Follows(pos)
  BY DEF TransferInv, Located, Writing
<1>3. size > 0 /\ size = pos[i][j]
  BY <1>2 DEF Follows, Writing
<1>4. ASSUME NEW m \in 1..Len(input), NEW p \in 0..Len(input[m]), Written(m, p)'
      PROVE  Holds(pos, m, p)'
  <2>1. m \in Nat /\ p \in Nat /\ pos[m][p + 1] \in Nat
    BY <1>1, Items DEF Positions
  <2>2. Holds(pos, m, p)
    BY <1>2, <1>4 DEF Laid, Written, Writing
  <2>3. pos[m][p + 1] <= size
    BY <2>2 DEF Holds, Writing
  <2>4. \A w \in 0..(pos[m][p + 1] - 1) : mem'[w] = mem[w]
    BY <1>1, <2>1, <2>3
  <2>5. pos[m][p + 1] <= (IF Writing' THEN size' ELSE capacity')
    BY <2>3 DEF Writing
  <2> QED
    BY <1>1, <2>2, <2>4, <2>5, HoldsKept
<1>5. Laid(pos)'
  <2>1. mem'[0] = mem[0]
    BY <1>1, <1>3
  <2>2. pos[1][0] = 1 /\ mem[0] = Number(Len(input))
    BY <1>2 DEF Laid
  <2>3. \A m \in 1..Len(input) : m < i =>
            pos[m + 1][0] = pos[m][Len(input[m]) + 1]
    BY <1>2 DEF Laid
  <2> QED
    BY <1>4, <2>1, <2>2, <2>3 DEF Laid, Writing
<1>6. Follows(pos)'
  BY <1>3 DEF Follows
<1>7. Views(pos)'
  BY <1>1, NoViews
<1> QED
  BY <1>5, <1>6, <1>7 DEF Located

(* A part is written where the writer is. *)
LEMMA WritePartPlaces ==
    ASSUME TransferInv, WritePart
    PROVE  Located'
<1>1. /\ pc = "write" /\ pc' = "part" /\ j' = j + 1
      /\ size' = size + 1 + WordsOf(Count)
      /\ mem' = [w \in DOMAIN mem |->
                   IF w = size THEN Number(Count)
                   ELSE IF w \in (size + 1)..(size + WordsOf(Count))
                        THEN Word(i, j, w - size) ELSE mem[w]]
      /\ UNCHANGED <<input, i, capacity, views>> /\ views = <<>>
  BY DEF WritePart, TransferInv, Phases, Writing
<1>2. /\ i \in 1..Len(input) /\ j \in 1..Len(input[i]) /\ TypeOK
      /\ i \in Nat /\ j \in Nat /\ size \in Nat /\ capacity \in Nat
      /\ DOMAIN mem = 0..(capacity - 1)
      /\ Len(input) \in Nat /\ Len(input[i]) \in Nat
  BY <1>1, InputType DEF TransferInv, IInv, TypeOK, Reserved
<1>3. /\ Count \in Nat /\ WordsOf(Count) \in Nat
      /\ size + 1 + WordsOf(Count) + 1 <= capacity
  <2>1. Count \in Nat /\ WordsOf(Count) \in Nat
    BY <1>1, CountType DEF TransferInv
  <2>2. size + Needed(Count) <= capacity
    BY <1>1 DEF TransferInv, IInv, Reserved
  <2> QED
    BY <1>2, <2>1, <2>2 DEF Needed
<1>4. PICK pos \in Positions : Laid(pos) /\ Follows(pos)
  BY <1>1 DEF TransferInv, Located, Writing
<1>5. size > 0 /\ size = pos[i][j]
  BY <1>1, <1>4 DEF Follows, Writing
<1>6. PICK q \in Positions :
          /\ q[i][j + 1] = size'
          /\ \A m, p \in Nat : m # i \/ p # j + 1 => q[m][p] = pos[m][p]
  <2>1. i \in Nat /\ j \in Nat /\ size' \in Nat
    BY <1>1, <1>2, <1>3
  <2>2. Recordable(pos, i, j + 1, size')
    BY <2>1, OnePosition
  <2> QED
    BY <2>2 DEF Recordable
<1>7. \A w \in 0..(size - 1) : mem'[w] = mem[w]
  BY <1>1, <1>2, <1>3
<1>8. /\ mem'[size] = Number(Count) /\ mem'[0] = mem[0]
      /\ \A k \in 1..WordsOf(Count) : mem'[size + k] = Word(i, j, k)
  <2>1. mem'[size] = Number(Count) /\ mem'[0] = mem[0]
    <3>1. size \in DOMAIN mem /\ 0 \in 0..(size - 1)
      BY SMTT(30), <1>2, <1>3, <1>5
    <3> QED
      BY <1>1, <1>7, <3>1
  <2>2. ASSUME NEW k \in 1..WordsOf(Count) PROVE mem'[size + k] = Word(i, j, k)
    <3>1. /\ size + k \in DOMAIN mem /\ size + k # size
          /\ size + k \in (size + 1)..(size + WordsOf(Count))
          /\ (size + k) - size = k
      BY <1>2, <1>3
    <3> QED
      BY <1>1, <3>1
  <2> QED
    BY <2>1, <2>2
<1>9. ASSUME NEW m \in 1..Len(input), NEW p \in 0..Len(input[m]), Written(m, p)'
      PROVE  Holds(q, m, p)'
  <2>1. m \in Nat /\ p \in Nat /\ pos[m][p + 1] \in Nat
    BY <1>2, Items DEF Positions
  <2>2. CASE m < i \/ (m = i /\ p < j)
    <3>1. Holds(pos, m, p)
      BY <1>1, <1>4, <2>2 DEF Laid, Written
    <3>2. pos[m][p + 1] <= size
      BY <1>1, <3>1 DEF Holds, Writing
    <3>3. q[m][p] = pos[m][p] /\ q[m][p + 1] = pos[m][p + 1]
      BY SMTT(30), <1>2, <1>6, <2>1, <2>2
    <3>4. \A w \in 0..(pos[m][p + 1] - 1) : mem'[w] = mem[w]
      BY <1>2, <1>7, <2>1, <3>2
    <3>5. pos[m][p + 1] <= (IF Writing' THEN size' ELSE capacity')
      BY SMTT(30), <1>1, <1>2, <1>3, <2>1, <3>2 DEF Writing
    <3> QED
      BY <1>1, <1>2, <3>1, <3>3, <3>4, <3>5, HoldsKept
  <2>3. CASE m = i /\ p = j
    <3>1. q[i][j] = size /\ q[i][j + 1] = size'
      BY <1>2, <1>5, <1>6
    <3>2. Span(m, p)' = 1 + WordsOf(Count) /\ Value(m, p)' = Count
      BY <1>1, <1>2, <2>3 DEF Span, Value, Count
    <3>4. size' = size + (1 + WordsOf(Count))
      BY <1>1, <1>2, <1>3
    <3>5. (q[m][p])' = size /\ (q[m][p + 1])' = size'
      BY <1>1, <2>3, <3>1
    <3>6. q[m][p] = size /\ q[m][p + 1] = size'
      BY <2>3, <3>1
    <3>7. \A k \in 1..(Span(m, p)' - 1) : mem'[q[m][p] + k] = Word(m, p, k)
      <4> SUFFICES ASSUME NEW k \in 1..WordsOf(Count)
                   PROVE  mem'[q[m][p] + k] = Word(m, p, k)
        <5>1. Span(m, p)' - 1 = WordsOf(Count)
          BY <1>3, <3>2
        <5> QED
          BY <5>1
      <4> QED
        BY <1>8, <2>3, <3>6
    <3>8. q[m][p + 1] <= IF Writing' THEN size' ELSE capacity'
      BY <1>1, <1>2, <1>3, <3>6 DEF Writing
    <3> QED
      BY <1>5, <1>8, <3>2, <3>4, <3>6, <3>7, <3>8 DEF Holds
  <2> QED
    BY <1>1, <1>2, <1>9, <2>1, <2>2, <2>3 DEF Written, Writing
<1>10. Laid(q)'
  <2>1. q[1][0] = 1
    <3>1. pos[1][0] = 1
      BY <1>4 DEF Laid
    <3>2. 0 # j + 1
      BY <1>2
    <3> QED
      BY <1>6, <3>1, <3>2
  <2>2. ASSUME NEW m \in 1..Len(input), m < i
        PROVE  q[m + 1][0] = q[m][Len(input[m]) + 1]
    <3>1. m \in Nat /\ Len(input[m]) \in Nat
      BY <1>2, InputType
    <3>2. pos[m + 1][0] = pos[m][Len(input[m]) + 1]
      BY <1>4, <2>2 DEF Laid
    <3> QED
      BY SMTT(30), <1>2, <1>6, <2>2, <3>1, <3>2
  <2> QED
    BY <1>1, <1>4, <1>8, <1>9, <2>1, <2>2 DEF Laid, Writing
<1>11. Follows(q)'
  BY <1>1, <1>2, <1>3, <1>6 DEF Follows
<1>12. Views(q)'
  BY <1>1, <1>2, NoViews
<1> QED
  BY <1>10, <1>11, <1>12 DEF Located

(* The reader begins when everything was written. *)
LEMMA StartReadingPlaces ==
    ASSUME TransferInv, StartReading
    PROVE  Located'
<1>1. /\ pc = "message" /\ pc' = "readMessage" /\ i = Len(input) + 1
      /\ size' = 1 /\ size + 1 <= capacity
      /\ UNCHANGED <<input, capacity, mem, views>> /\ views = <<>> /\ TypeOK
      /\ Len(input) \in Nat /\ size \in Nat /\ capacity \in Nat
  BY InputType
     DEF StartReading, TransferInv, IInv, TypeOK, Reserved, Phases, Writing
<1>2. PICK pos \in Positions : Laid(pos)
  BY <1>1 DEF TransferInv, Located, Writing
<1>3. ASSUME NEW m \in 1..Len(input), NEW p \in 0..Len(input[m])
      PROVE  Holds(pos, m, p)'
  <2>1. m < i /\ pos[m][p + 1] \in Nat
    <3>1. m \in Nat /\ p \in Nat /\ p + 1 \in Nat
      BY <1>1, Items
    <3>2. pos[m] \in [Nat -> Nat]
      BY <3>1 DEF Positions
    <3>3. m < i
      BY <1>1, <3>1
    <3> QED
      BY <3>1, <3>2, <3>3
  <2>2. Holds(pos, m, p)
    BY <1>2, <2>1 DEF Laid, Written
  <2>3. pos[m][p + 1] <= (IF Writing' THEN size' ELSE capacity')
    BY <1>1, <2>1, <2>2 DEF Holds, Writing
  <2> QED
    BY <1>1, <2>2, <2>3, HoldsKept
<1>4. Laid(pos)'
  <2>1. \A m \in 1..Len(input) : pos[m + 1][0] = pos[m][Len(input[m]) + 1]
    BY <1>1, <1>2 DEF Laid
  <2> QED
    BY <1>1, <1>2, <1>3, <2>1 DEF Laid
<1>5. Follows(pos)'
  <2>1. pos[1][0] = 1 /\ Len(views') = 0
    BY <1>1, <1>2 DEF Laid
  <2> QED
    BY <1>1, <2>1 DEF Follows, Writing
<1>6. Views(pos)'
  BY <1>1, NoViews
<1> QED
  BY <1>4, <1>5, <1>6 DEF Located

(* The reader changes nothing in the buffer. *)
LEMMA LaidWhileReading ==
    ASSUME NEW pos, Laid(pos), Reading, Reading', UNCHANGED <<input, mem, capacity>>
    PROVE  Laid(pos)'
<1>1. ~Writing /\ ~Writing'
  BY DEF Reading, Writing
<1>2. \A m, p : Holds(pos, m, p)' <=> Holds(pos, m, p)
  BY <1>1 DEF Holds, Span, Value
<1> QED
  BY <1>1, <1>2 DEF Laid, Written

(* Where a number was written, the reader finds it. *)
LEMMA NumberFound ==
    ASSUME TypeOK, NEW pos \in Positions, ~Writing,
           NEW m \in 1..Len(input), NEW p \in 0..Len(input[m]), Holds(pos, m, p)
    PROVE  NumberAt(pos[m][p]) = Value(m, p)
<1>1. /\ pos[m][p] \in Nat /\ pos[m][p + 1] \in Nat
      /\ Span(m, p) \in Nat /\ Span(m, p) > 0
  <2>1. m \in Nat /\ p \in Nat /\ p + 1 \in Nat
    BY Items
  <2>2. pos[m] \in [Nat -> Nat]
    BY <2>1 DEF Positions
  <2> QED
    BY <2>1, <2>2, Items
<1>2. pos[m][p] < capacity
  BY <1>1 DEF Holds, TypeOK
<1>3. pos[m][p] \in DOMAIN mem
  BY <1>1, <1>2 DEF TypeOK
<1> QED
  BY <1>3 DEF NumberAt, Holds, Number

(* The number of messages is the first word, if there is one. *)
LEMMA HeaderFound ==
    ASSUME TypeOK, NEW pos \in Positions, Reading, Laid(pos)
    PROVE  NumberAt(0) = Len(input)
<1>1. mem[0] = Number(Len(input)) /\ Len(input) \in Nat /\ ~Writing
  BY InputType DEF Laid, Reading, Writing
<1>2. CASE Len(input) = 0
  BY <1>1, <1>2 DEF NumberAt, Number
<1>3. CASE Len(input) > 0
  <2>1. 1 \in 1..Len(input) /\ 0 \in 0..Len(input[1])
    BY <1>1, <1>3, InputType
  <2>2. Holds(pos, 1, 0) /\ pos[1][0] = 1
    BY <1>1, <2>1 DEF Laid, Written
  <2>3. pos[1][1] = 2
    BY <2>2 DEF Holds, Span
  <2>4. 2 <= capacity
    BY <1>1, <2>2, <2>3 DEF Holds
  <2>5. 0 \in DOMAIN mem
    BY <2>4 DEF TypeOK
  <2> QED
    BY <1>1, <2>5 DEF NumberAt, Number
<1> QED
  BY <1>1, <1>2, <1>3

(* The views are sequences. *)
LEMMA ViewsType ==
    ASSUME Phases
    PROVE  /\ views \in Seq(Seq([start : Nat, count : Nat])) /\ Len(views) \in Nat
           /\ \A m \in 1..Len(views) :
                 views[m] \in Seq([start : Nat, count : Nat]) /\ Len(views[m]) \in Nat
<1>1. views \in Seq(Seq([start : Nat, count : Nat]))
  BY DEF Phases
<1>2. \A m \in 1..Len(views) : views[m] \in Seq([start : Nat, count : Nat])
  BY <1>1
<1> QED
  BY <1>1, <1>2

(* What Append does to a sequence. *)
LEMMA SequenceEnd ==
    ASSUME NEW T, NEW s \in Seq(T), NEW e \in T
    PROVE  /\ Append(s, e) \in Seq(T) /\ Len(Append(s, e)) = Len(s) + 1
           /\ Append(s, e)[Len(s) + 1] = e
           /\ \A k \in 1..Len(s) : Append(s, e)[k] = s[k]
  OBVIOUS

LEMMA SequenceUpdate ==
    ASSUME NEW T, NEW s \in Seq(T), NEW k, NEW e, k \in DOMAIN s => e \in T
    PROVE  [s EXCEPT ![k] = e] \in Seq(T)
<1>1. PICK n \in Nat : s \in [1..n -> T]
  OBVIOUS
<1>2. [s EXCEPT ![k] = e] \in [1..n -> T]
  BY <1>1
<1> QED
  BY <1>2

(* The header of the next message: no view of its parts yet. *)
LEMMA MessageViews ==
    ASSUME TransferInv, ReadMessageHeader
    PROVE  Located'
<1> DEFINE n == Len(views) + 1
<1>1. /\ pc = "readMessage" /\ pc' = "readPart" /\ Len(views) < NumberAt(0)
      /\ i' = NumberAt(size) /\ size' = size + 1 /\ views' = Append(views, <<>>)
      /\ UNCHANGED <<input, capacity, mem>> /\ TypeOK /\ Reading /\ Reading'
      /\ ~Writing
  BY DEF ReadMessageHeader, TransferInv, IInv, Reading, Writing
<1>2. PICK pos \in Positions : Laid(pos) /\ Follows(pos) /\ Views(pos)
  BY <1>1 DEF TransferInv, Located
<1>3. /\ Len(views) \in Nat /\ Len(input) \in Nat /\ n \in 1..Len(input)
      /\ n \in Nat
  BY <1>1, <1>2, HeaderFound, ViewsType, InputType DEF TransferInv
<1>4. size = pos[n][0]
  BY <1>1, <1>2 DEF Follows
<1>5. Holds(pos, n, 0) /\ 0 \in 0..Len(input[n])
  <2>1. 0 \in 0..Len(input[n])
    BY <1>1, <1>3, InputType
  <2> QED
    BY <1>1, <1>2, <1>3, <2>1 DEF Laid, Written
<1>6. i' = Len(input[n])
  BY <1>1, <1>3, <1>4, <1>5, NumberFound DEF Value
<1>7. size' = pos[n][1]
  BY <1>1, <1>4, <1>5 DEF Holds, Span
<1>8. /\ Len(views') = n /\ views'[n] = <<>> /\ views' # <<>>
      /\ \A m \in 1..Len(views) : views'[m] = views[m]
  <2>1. /\ views \in Seq(Seq([start : Nat, count : Nat]))
        /\ <<>> \in Seq([start : Nat, count : Nat])
    BY ViewsType DEF TransferInv
  <2>2. Len(views') = n /\ views'[n] = <<>>
    BY <1>1, <2>1, SequenceEnd
  <2>3. \A m \in 1..Len(views) : views'[m] = views[m]
    BY <1>1, <2>1, SequenceEnd
  <2>4. views' # <<>>
    BY <1>3, <2>2
  <2> QED
    BY <2>2, <2>3, <2>4
<1> HIDE DEF n
<1>9. Follows(pos)'
  <2>1. Len(<<>>) + 1 = 1
    OBVIOUS
  <2> QED
    BY <1>1, <1>7, <1>8, <2>1 DEF Follows, Writing
<1>10. ASSUME NEW m \in 1..n
       PROVE  /\ Len(views'[m]) <= Len(input[m])
              /\ Len(views'[m]) = Len(input[m]) \/ m = n
              /\ \A p \in 1..Len(views'[m]) :
                    views'[m][p] = [start |-> pos[m][p] + 1, count |-> input[m][p]]
  <2>1. CASE m = n
    <3>1. Len(views'[m]) = 0 /\ Len(input[m]) \in Nat
      BY <1>1, <1>3, <1>8, <2>1, InputType
    <3> QED
      BY <2>1, <3>1
  <2>2. CASE m # n
    <3>1. m \in 1..Len(views) /\ views'[m] = views[m]
      BY <1>3, <1>8, <2>2 DEF n
    <3> QED
      BY <1>1, <1>2, <3>1 DEF Views
  <2> QED
    BY <2>1, <2>2
<1>11. Views(pos)'
  BY <1>1, <1>3, <1>6, <1>8, <1>10 DEF Views
<1>12. Laid(pos)'
  BY <1>1, <1>2, LaidWhileReading
<1> QED
  BY <1>9, <1>11, <1>12 DEF Located

(* A part is read where it was written, with the size it was written with. *)
LEMMA PartViews ==
    ASSUME TransferInv, ReadPart
    PROVE  Located'
<1> DEFINE n == Len(views)
           p == Len(views[n]) + 1
           r == [start |-> size + 1, count |-> NumberAt(size)]
<1>1. /\ pc = "readPart" /\ pc' = "readPart" /\ Len(views[n]) < i /\ i' = i
      /\ views' = [views EXCEPT ![n] = Append(@, r)]
      /\ size' = size + 1 + WordsOf(NumberAt(size))
      /\ UNCHANGED <<input, capacity, mem>> /\ TypeOK /\ Reading /\ Reading'
      /\ ~Writing
  BY DEF ReadPart, TransferInv, IInv, Reading, Writing, WordsOf
<1>2. PICK pos \in Positions : Laid(pos) /\ Follows(pos) /\ Views(pos)
  BY <1>1 DEF TransferInv, Located
<1>3. /\ views \in Seq(Seq([start : Nat, count : Nat]))
      /\ n \in Nat /\ n \in 1..Len(input) /\ i = Len(input[n])
  <2>1. views # <<>> /\ n <= Len(input) /\ i = Len(input[n])
    BY <1>1, <1>2 DEF Views
  <2>2. views \in Seq(Seq([start : Nat, count : Nat]))
    BY ViewsType DEF TransferInv
  <2> QED
    BY <1>1, <2>1, <2>2, InputType
<1>4. /\ views[n] \in Seq([start : Nat, count : Nat]) /\ Len(input[n]) \in Nat
      /\ p \in 1..Len(input[n]) /\ p \in Nat
  <2>1. views[n] \in Seq([start : Nat, count : Nat]) /\ Len(input[n]) \in Nat
    BY <1>1, <1>3, InputType
  <2> QED
    BY <1>1, <1>3, <2>1
<1>5. size = pos[n][p]
  BY <1>1, <1>2 DEF Follows
<1> HIDE DEF n, p
<1>6. Holds(pos, n, p) /\ p \in 0..Len(input[n])
  <2>1. p \in 0..Len(input[n])
    BY <1>4
  <2> QED
    BY <1>1, <1>2, <1>3, <2>1 DEF Laid, Written
<1>7. NumberAt(size) = input[n][p]
  <2>1. p # 0
    BY <1>4
  <2> QED
    BY <1>1, <1>3, <1>5, <1>6, <2>1, NumberFound DEF Value
<1>8. size' = pos[n][p + 1]
  <2>1. p # 0 /\ WordsOf(input[n][p]) \in Nat /\ size \in Nat
    <3>1. input[n][p] \in Nat
      BY <1>1, <1>3, <1>4, InputType
    <3>2. WordsOf(input[n][p]) \in Nat
      BY <3>1, WordsOfType
    <3>3. p # 0 /\ size \in Nat
      BY <1>1, <1>4 DEF TypeOK
    <3> QED
      BY <3>2, <3>3
  <2>2. pos[n][p + 1] = size + (1 + WordsOf(input[n][p]))
    BY <1>5, <1>6, <2>1 DEF Holds, Span
  <2> QED
    BY <1>1, <1>7, <2>1, <2>2
<1>9. /\ Len(views') = n
      /\ \A m \in 1..n : m # n => views'[m] = views[m]
      /\ views'[n] = Append(views[n], r)
  BY <1>1, <1>3 DEF n
<1>10. /\ Len(views'[n]) = p
       /\ \A k \in 1..(p - 1) : views'[n][k] = views[n][k]
       /\ views'[n][p] = r
  <2>1. r \in [start : Nat, count : Nat]
    BY <1>1, NumberAtType DEF TypeOK
  <2> HIDE DEF r
  <2> QED
    BY <1>4, <1>9, <2>1, SequenceEnd DEF p
<1>11. ASSUME NEW m \in 1..n
       PROVE  /\ Len(views'[m]) <= Len(input[m])
              /\ Len(views'[m]) = Len(input[m]) \/ m = n
              /\ \A k \in 1..Len(views'[m]) :
                    views'[m][k] = [start |-> pos[m][k] + 1, count |-> input[m][k]]
  <2>1. CASE m = n
    <3>1. ASSUME NEW k \in 1..p
          PROVE  views'[n][k] = [start |-> pos[n][k] + 1, count |-> input[n][k]]
      <4>1. CASE k = p
        BY <1>5, <1>7, <1>10, <4>1
      <4>2. CASE k # p
        <5>1. k \in 1..(p - 1) /\ k \in 1..Len(views[n])
          BY <1>4, <4>2 DEF p
        <5>2. views[n][k] = [start |-> pos[n][k] + 1, count |-> input[n][k]]
          <6>1. n \in 1..Len(views)
            BY <1>3 DEF n
          <6>2. \A l \in 1..Len(views[n]) :
                   views[n][l] = [start |-> pos[n][l] + 1, count |-> input[n][l]]
            BY <1>2, <6>1 DEF Views
          <6> QED
            BY <5>1, <6>2
        <5> QED
          BY <1>10, <5>1, <5>2
      <4> QED
        BY <4>1, <4>2
    <3>2. Len(views'[m]) = p /\ p <= Len(input[m])
      BY <1>4, <1>10, <2>1
    <3> QED
      BY <2>1, <3>1, <3>2
  <2>2. CASE m # n
    <3>1. views'[m] = views[m] /\ m \in 1..Len(views) /\ m # Len(views)
      BY <1>9, <2>2 DEF n
    <3> QED
      BY <1>2, <3>1 DEF Views
  <2> QED
    BY <2>1, <2>2
<1>12. Follows(pos)'
  BY <1>1, <1>8, <1>9, <1>10 DEF Follows, Writing
<1>13. Views(pos)'
  <2>1. views' # <<>> /\ i' = Len(input[n]) /\ n <= Len(input)
    BY <1>1, <1>3, <1>9
  <2> QED
    BY SMTT(30), <1>1, <1>9, <1>11, <2>1 DEF Views
<1>14. Laid(pos)'
  BY <1>1, <1>2, LaidWhileReading
<1> QED
  BY <1>12, <1>13, <1>14 DEF Located

(* After the last part of a message comes the next message. *)
LEMMA EndOfMessagePlaces ==
    ASSUME TransferInv, EndOfMessage
    PROVE  Located'
<1> DEFINE n == Len(views)
<1>1. /\ pc = "readPart" /\ pc' = "readMessage" /\ Len(views[n]) = i
      /\ UNCHANGED <<input, i, size, capacity, mem, views>> /\ TypeOK
      /\ Reading /\ Reading' /\ ~Writing
  BY DEF EndOfMessage, TransferInv, IInv, Reading, Writing
<1>2. PICK pos \in Positions : Laid(pos) /\ Follows(pos) /\ Views(pos)
  BY <1>1 DEF TransferInv, Located
<1>3. n \in Nat /\ n \in 1..Len(input) /\ i = Len(input[n])
  <2>1. views # <<>> /\ n <= Len(input) /\ i = Len(input[n])
    BY <1>1, <1>2 DEF Views
  <2>2. views \in Seq(Seq([start : Nat, count : Nat]))
    BY ViewsType DEF TransferInv
  <2> QED
    BY <1>1, <2>1, <2>2, InputType
<1>4. size = pos[n][Len(input[n]) + 1]
  BY <1>1, <1>2, <1>3 DEF Follows
<1>5. size = pos[n + 1][0]
  BY <1>1, <1>2, <1>3, <1>4 DEF Laid
<1>6. Follows(pos)'
  BY <1>1, <1>5 DEF Follows, Writing
<1>7. Views(pos)'
  BY <1>1, <1>2, <1>3 DEF Views
<1>8. Laid(pos)'
  BY <1>1, <1>2, LaidWhileReading
<1> QED
  BY <1>6, <1>7, <1>8 DEF Located

(* Sending begins when all was read, and leaves what was read. *)
LEMMA SendPlaces ==
    ASSUME TransferInv, EndOfStream \/ Send
    PROVE  Located'
<1>1. /\ pc' = "send" /\ UNCHANGED <<input, size, capacity, mem, views>>
      /\ TypeOK /\ Reading /\ Reading' /\ ~Writing
      /\ \/ pc = "readMessage" /\ Len(views) = NumberAt(0)
         \/ pc = "send"
  BY DEF EndOfStream, Send, TransferInv, IInv, Reading, Writing
<1>2. PICK pos \in Positions : Laid(pos) /\ Views(pos)
  BY <1>1 DEF TransferInv, Located
<1>3. Len(views) = Len(input)
  BY <1>1, <1>2, HeaderFound DEF Views
<1>4. Follows(pos)'
  BY <1>1 DEF Follows, Writing
<1>5. Views(pos)'
  BY <1>1, <1>2, <1>3 DEF Views
<1>6. Laid(pos)'
  BY <1>1, <1>2, LaidWhileReading
<1> QED
  BY <1>4, <1>5, <1>6 DEF Located

(* Every step keeps the places. *)
LEMMA NextLocated == TransferInv /\ [Next]_vars => Located'
<1> SUFFICES ASSUME TransferInv, [Next]_vars PROVE Located'
  OBVIOUS
<1>1. CASE Trigger
  BY <1>1, TriggerPlaces
<1>2. CASE WriteMessageHeader
  BY <1>2, HeaderPlaces
<1>3. CASE NextMessage
  BY <1>3, NextMessagePlaces
<1>4. CASE ReadFails \/ SendFails \/ Free
  BY <1>4 DEF ReadFails, SendFails, Free, Located, Writing, Reading
<1>5. CASE MeasurePart
  BY <1>5, PartPlaces DEF MeasurePart
<1>6. CASE Double
  <2>1. /\ pc = "double" /\ pc' = "double"
        /\ UNCHANGED <<input, i, j, size, mem, views>>
    BY <1>6 DEF Double
  <2> QED
    BY <2>1, PartPlaces
<1>7. CASE Reallocate
  <2>1. /\ pc = "double" /\ pc' = "write"
        /\ UNCHANGED <<input, i, j, size, views>>
        /\ mem' = [w \in 0..(grown - 1) |-> IF w < size THEN mem[w] ELSE Junk]
    BY <1>7 DEF Reallocate
  <2>2. size \in Nat /\ grown \in Nat /\ size <= grown
    <3>1. Count \in Nat /\ WordsOf(Count) \in Nat
      BY <2>1, CountType DEF TransferInv
    <3>2. size \in Nat /\ grown \in Nat /\ size + Needed(Count) <= grown
      BY <1>7 DEF Reallocate, TransferInv, IInv, TypeOK
    <3> QED
      BY <3>1, <3>2 DEF Needed
  <2>3. \A w \in 0..(size - 1) : mem'[w] = mem[w]
    BY <2>1, <2>2
  <2> QED
    BY <2>1, <2>3, PartPlaces
<1>8. CASE WritePart
  BY <1>8, WritePartPlaces
<1>9. CASE Read
  BY <1>9, StartReadingPlaces, MessageViews, PartViews, EndOfMessagePlaces,
     SendPlaces DEF Read
<1>10. CASE Send
  BY <1>10, SendPlaces
<1>11. CASE UNCHANGED vars
  <2>1. Located' <=> Located
    BY <1>11 DEF vars, Located, Laid, Follows, Views, Written, Holds, Span, Value,
          Writing, Reading
  <2> QED
    BY <2>1 DEF TransferInv
<1> QED
  BY <1>1, <1>2, <1>3, <1>4, <1>5, <1>6, <1>7, <1>8, <1>9, <1>10, <1>11
     DEF Next, Write

(* What the views of a message show while the buffer is allocated is what  *)
(* the REPL process displayed.                                             *)
LEMMA ShownAsDisplayed ==
    ASSUME TransferInv, pc = "send", NEW m \in 1..Len(views)
    PROVE  [p \in DOMAIN views[m] |-> Contents(views[m][p])] = Displayed(m)
<1>1. TypeOK /\ Reading /\ ~Writing /\ live
  BY DEF TransferInv, IInv, Phases, Reading, Writing
<1>2. PICK pos \in Positions : Laid(pos) /\ Views(pos)
  BY <1>1 DEF TransferInv, Located
<1>3. /\ m \in Nat /\ m \in 1..Len(input) /\ Len(input[m]) \in Nat
      /\ input[m] \in Seq(Nat)
      /\ views[m] \in Seq([start : Nat, count : Nat])
      /\ Len(views[m]) = Len(input[m])
  <2>1. Len(views) = Len(input) /\ Len(views[m]) = Len(input[m])
    BY <1>2 DEF Views
  <2> QED
    BY <1>1, <2>1, InputType, ViewsType DEF TransferInv
<1>4. DOMAIN views[m] = 1..Len(input[m]) /\ DOMAIN input[m] = 1..Len(input[m])
  BY <1>3
<1>5. ASSUME NEW p \in 1..Len(input[m])
      PROVE  Contents(views[m][p]) =
                [count |-> input[m][p],
                 words |-> [k \in 1..WordsOf(input[m][p]) |-> Word(m, p, k)]]
  <2>1. /\ p \in Nat /\ p \in 0..Len(input[m]) /\ p # 0
        /\ WordsOf(input[m][p]) \in Nat
    <3>1. input[m][p] \in Nat
      BY <1>1, <1>3, InputType
    <3>2. WordsOf(input[m][p]) \in Nat
      BY <3>1, WordsOfType
    <3> QED
      BY SMTT(30), <1>3, <3>2
  <2>2. views[m][p] = [start |-> pos[m][p] + 1, count |-> input[m][p]]
    BY <1>2, <1>3 DEF Views
  <2>3. Holds(pos, m, p) /\ pos[m][p] \in Nat
    <3>1. pos[m] \in [Nat -> Nat]
      BY <1>3 DEF Positions
    <3> QED
      BY <1>1, <1>2, <1>3, <2>1, <3>1 DEF Laid, Written
  <2>4. ASSUME NEW k \in 1..WordsOf(input[m][p])
        PROVE  mem[pos[m][p] + 1 + k - 1] = Word(m, p, k)
    <3>1. k \in 1..(Span(m, p) - 1) /\ pos[m][p] + 1 + k - 1 = pos[m][p] + k
      BY SMTT(30), <2>1, <2>3 DEF Span
    <3> QED
      BY <2>3, <3>1 DEF Holds
  <2>5. /\ views[m][p].count = input[m][p]
        /\ views[m][p].start = pos[m][p] + 1
    BY <2>2
  <2>6. [k \in 1..WordsOf(input[m][p]) |->
           IF live THEN mem[pos[m][p] + 1 + k - 1] ELSE Junk]
        = [k \in 1..WordsOf(input[m][p]) |-> Word(m, p, k)]
    BY <1>1, <2>4
  <2> QED
    BY <2>5, <2>6 DEF Contents
<1> QED
  BY <1>4, <1>5 DEF Displayed

(* Nothing is read before all is written, or sent before all is read. *)
LEMMA NextPhases == TransferInv /\ [Next]_vars => Phases'
<1> SUFFICES ASSUME TransferInv, [Next]_vars PROVE Phases'
  OBVIOUS
<1>1. TypeOK /\ Phases
  BY DEF TransferInv, IInv
<1>2. input' = input
  BY DEF Next, Write, Read, Trigger, WriteMessageHeader, NextMessage, ReadFails,
     MeasurePart, Double, Reallocate, WritePart, StartReading, ReadMessageHeader,
     ReadPart, EndOfMessage, EndOfStream, Send, SendFails, Free, vars
<1>3. \A msg : Displayed(msg)' = Displayed(msg)
  BY <1>2 DEF Displayed, WordsOf, Word
<1>4. sent' = sent =>
        sent' \in Seq({Displayed(msg) : msg \in DOMAIN input})'
  BY <1>1, <1>2, <1>3 DEF Phases
<1>5. CASE Write
  <2>1. views' = views /\ sent' = sent /\ sent = <<>>
        /\ pc' \notin {"readMessage", "readPart", "send"} /\ views = <<>>
    BY <1>1, <1>5 DEF Phases, Writing, Write, Trigger, WriteMessageHeader,
       NextMessage, ReadFails, MeasurePart, Double, Reallocate, WritePart
  <2>2. Writing' => live'
    BY <1>1, <1>5 DEF Phases, Writing, Write, Trigger, WriteMessageHeader,
       NextMessage, ReadFails, MeasurePart, Double, Reallocate, WritePart
  <2>3. ~Reading'
    BY <2>1 DEF Reading
  <2>4. views' \in Seq(Seq([start : Nat, count : Nat]))
    BY <1>1, <2>1 DEF Phases
  <2> QED
    BY <1>4, <2>1, <2>2, <2>3, <2>4 DEF Phases
<1>6. CASE Read
  <2>1. /\ sent' = sent /\ sent = <<>> /\ live' = live /\ live
        /\ pc' \in {"readMessage", "readPart", "send"}
    BY <1>1, <1>6 DEF Phases, Writing, Reading, Read, StartReading,
       ReadMessageHeader, ReadPart, EndOfMessage, EndOfStream
  <2>2. views' \in Seq(Seq([start : Nat, count : Nat]))
    <3>1. views \in Seq(Seq([start : Nat, count : Nat]))
      BY <1>1 DEF Phases
    <3>2. CASE StartReading \/ EndOfMessage \/ EndOfStream
      BY <3>1, <3>2 DEF StartReading, EndOfMessage, EndOfStream
    <3>3. CASE ReadMessageHeader
      <4>1. <<>> \in Seq([start : Nat, count : Nat])
        OBVIOUS
      <4> QED
        BY <3>1, <3>3, <4>1, SequenceEnd DEF ReadMessageHeader
    <3>4. CASE ReadPart
      <4> DEFINE r == [start |-> size + 1, count |-> NumberAt(size)]
      <4>1. r \in [start : Nat, count : Nat]
        BY <1>1, NumberAtType DEF TypeOK
      <4>2. views' = [views EXCEPT ![Len(views)] = Append(@, r)]
        BY <3>4 DEF ReadPart
      <4> HIDE DEF r
      <4>3. ASSUME Len(views) \in DOMAIN views
            PROVE  Append(views[Len(views)], r) \in Seq([start : Nat, count : Nat])
        <5>1. views[Len(views)] \in Seq([start : Nat, count : Nat])
          BY <3>1, <4>3
        <5> QED
          BY <4>1, <5>1, SequenceEnd
      <4> QED
        BY <3>1, <4>2, <4>3, SequenceUpdate
    <3> QED
      BY <1>6, <3>2, <3>3, <3>4 DEF Read
  <2>3. pc' = "send" => Len(sent') <= Len(views')
    <3>1. Len(views') \in Nat /\ Len(sent') = 0
      BY <2>1, <2>2
    <3> QED
      BY <3>1
  <2>4. ~(pc' = "trigger" \/ Writing')
    BY <2>1 DEF Writing
  <2> QED
    BY <1>4, <2>1, <2>2, <2>3, <2>4 DEF Phases
<1>7. CASE Send
  <2>1. /\ pc = "send" /\ pc' = "send" /\ Len(sent) < Len(views)
        /\ views' = views /\ live' = live
    BY <1>7 DEF Send
  <2>2. /\ sent \in Seq({Displayed(msg) : msg \in DOMAIN input})
        /\ Len(sent) \in Nat /\ Len(views) \in Nat
    BY <1>1, ViewsType DEF Phases
  <2>3. Len(sent) + 1 \in 1..Len(views) /\ Len(sent) + 1 \in DOMAIN input
    <3>1. Len(views) = Len(input) /\ DOMAIN input = 1..Len(input)
      <4>1. PICK pos \in Positions : Views(pos)
        BY <2>1 DEF TransferInv, Located, Reading
      <4> QED
        BY <1>1, <2>1, <4>1, InputType DEF Views
    <3> QED
      BY <2>1, <2>2, <3>1
  <2>4. sent' = Append(sent, Displayed(Len(sent) + 1))
    BY <1>7, <2>1, <2>3, ShownAsDisplayed DEF Send
  <2>5. /\ sent' \in Seq({Displayed(msg) : msg \in DOMAIN input})
        /\ Len(sent') = Len(sent) + 1
    BY <2>2, <2>3, <2>4, SequenceEnd
  <2>6. sent' \in Seq({Displayed(msg) : msg \in DOMAIN input})'
    BY <1>2, <1>3, <2>5
  <2>7. Len(sent') <= Len(views')
    BY <2>1, <2>2, <2>5
  <2> QED
    BY <1>1, <2>1, <2>6, <2>7 DEF Phases, Writing, Reading
<1>8. CASE SendFails \/ Free
  BY <1>1, <1>4, <1>8 DEF SendFails, Free, Phases, Writing, Reading
<1>9. CASE UNCHANGED vars
  BY <1>1, <1>4, <1>9 DEF vars, Phases, Writing, Reading
<1> QED
  BY <1>5, <1>6, <1>7, <1>8, <1>9 DEF Next

(* The buffer holds what was displayed, and the reader is where it must be. *)
THEOREM TransferInvariance == Spec => []TransferInv
<1>1. Init => TransferInv
  <2> SUFFICES ASSUME Init PROVE TransferInv
    OBVIOUS
  <2>1. pc = "trigger" /\ views = <<>> /\ sent = <<>> /\ live = FALSE
    BY DEF Init
  <2>2. Phases
    BY <2>1 DEF Phases, Writing, Reading
  <2>3. Located
    BY <2>1 DEF Located, Writing, Reading
  <2> QED
    BY <2>2, <2>3, InitIInv DEF TransferInv
<1>2. TransferInv /\ [Next]_vars => TransferInv'
  BY NextIInv, NextLocated, NextPhases DEF TransferInv
<1> QED
  BY <1>1, <1>2, PTL DEF Spec

(* The detailed transfer keeps the promises of Transfer: the steps that     *)
(* write and read change nothing the front end sees, a send puts the next   *)
(* message of the batch on the socket as the REPL process displayed it, a   *)
(* failure stops the transfer before the end, and the buffer is freed when  *)
(* all was sent.                                                            *)
THEOREM Implements == Spec => ImplementsTransfer
<1> DEFINE batch == [msg \in DOMAIN input |-> Displayed(msg)]
           status == IF pc \in {"done", "failed"} THEN pc ELSE "sending"
<1>1. Init => Abstract!Init
  BY DEF Init, Abstract!Init
<1>2. ASSUME TransferInv, [Next]_vars
      PROVE  [Abstract!Next]_(Abstract!vars)
  <2>1. TypeOK /\ Phases
    BY <1>2 DEF TransferInv, IInv
  <2>2. input' = input
    BY <1>2 DEF Next, Write, Read, Trigger, WriteMessageHeader, NextMessage,
       ReadFails, MeasurePart, Double, Reallocate, WritePart, StartReading,
       ReadMessageHeader, ReadPart, EndOfMessage, EndOfStream, Send, SendFails,
       Free, vars
  <2>3. batch' = batch
    BY <2>2 DEF Displayed, WordsOf, Word
  <2>4. Len(batch) = Len(input)
    BY <2>1, InputType
  <2>5. pc = "send" => Len(views) = Len(input)
    BY <1>2 DEF TransferInv, Located, Views, Reading
  <2> HIDE DEF batch
  <2>6. CASE pc' = "failed" /\ pc \notin {"send", "done", "failed"} /\ sent' = sent
    <3>1. sent = <<>> /\ status = "sending" /\ status' = "failed"
      BY <2>1, <2>6 DEF Phases
    <3> QED
      BY <2>3, <2>6, <3>1 DEF Abstract!Next, Abstract!Fail, batch
  <2>7. CASE /\ pc \notin {"done", "failed"} /\ pc' \notin {"done", "failed"}
             /\ sent' = sent
    BY <2>3, <2>7 DEF Abstract!vars, batch
  <2>8. CASE Trigger \/ ReadFails
    BY <2>1, <2>6, <2>7, <2>8 DEF Trigger, ReadFails
  <2>9. CASE WriteMessageHeader \/ NextMessage \/ MeasurePart \/ Double
             \/ Reallocate \/ WritePart
    BY <2>7, <2>9 DEF WriteMessageHeader, NextMessage, MeasurePart, Double,
       Reallocate, WritePart
  <2>10. CASE Read
    BY <2>7, <2>10 DEF Read, StartReading, ReadMessageHeader, ReadPart,
       EndOfMessage, EndOfStream
  <2>11. CASE Send
    <3>1. /\ pc = "send" /\ pc' = pc /\ Len(sent) < Len(views)
          /\ Len(sent) \in Nat /\ Len(views) \in Nat
          /\ sent' = Append(sent, [p \in DOMAIN views[Len(sent) + 1] |->
                                      Contents(views[Len(sent) + 1][p])])
      BY <2>1, <2>11, ViewsType DEF Send, Phases
    <3>2. Len(sent) + 1 \in 1..Len(views) /\ Len(sent) + 1 \in DOMAIN input
      BY <2>1, <2>5, <3>1, InputType
    <3>3. sent' = Append(sent, batch[Len(sent) + 1])
      BY <1>2, <3>1, <3>2, ShownAsDisplayed DEF batch
    <3>4. Len(sent) < Len(batch)
      BY <2>4, <2>5, <3>1
    <3>5. status = "sending" /\ status' = status
      BY <3>1
    <3>6. Abstract!Send
      BY <2>3, <3>3, <3>4, <3>5 DEF Abstract!Send, batch
    <3> QED
      BY <3>6 DEF Abstract!Next
  <2>12. CASE SendFails
    <3>1. /\ Len(sent) < Len(batch) /\ status = "sending" /\ status' = "failed"
          /\ sent' = sent
      BY <2>4, <2>5, <2>12 DEF SendFails
    <3> QED
      BY <2>3, <3>1 DEF Abstract!Next, Abstract!Fail, batch
  <2>13. CASE Free
    <3>1. /\ Len(sent) = Len(batch) /\ status = "sending" /\ status' = "done"
          /\ sent' = sent
      BY <2>4, <2>5, <2>13 DEF Free
    <3> QED
      BY <2>3, <3>1 DEF Abstract!Next, Abstract!Finish, batch
  <2>14. CASE UNCHANGED vars
    <3>1. sent' = sent /\ status' = status
      BY <2>14 DEF vars
    <3> QED
      BY <2>3, <3>1 DEF Abstract!vars, batch
  <2> QED
    BY <1>2, <2>8, <2>9, <2>10, <2>11, <2>12, <2>13, <2>14 DEF Next, Write
<1> QED
  BY <1>1, <1>2, TransferInvariance, PTL DEF Spec, ImplementsTransfer, Abstract!Spec

=============================================================================
