----------------------- MODULE DisplayPipelineProofs -----------------------
(***************************************************************************)
(* Proofs about DisplayPipeline: for every number of cells and messages,   *)
(* and wherever cells, triggers and transfers fail, a message is sent at   *)
(* most once, in its order, under the cell that displayed it.              *)
(***************************************************************************)
EXTENDS DisplayPipeline, TLAPS

(* A message is added to a sequence of them. *)
LEMMA AppendEntries ==
    ASSUME NEW S, NEW s \in Seq(S), NEW m \in S
    PROVE  /\ Len(s) \in Nat /\ DOMAIN s = 1..Len(s)
           /\ DOMAIN Append(s, m) = 1..(Len(s) + 1)
           /\ \A k \in DOMAIN s : Append(s, m)[k] = s[k]
           /\ Append(s, m)[Len(s) + 1] = m
           /\ \A k \in DOMAIN Append(s, m) : k \in DOMAIN s \/ k = Len(s) + 1
OBVIOUS

LEMMA RisingAppend ==
    ASSUME NEW s \in Seq(Messages), NEW m \in Messages,
           Rising(s), \A k \in DOMAIN s : s[k].n < m.n
    PROVE  Rising(Append(s, m))
<1> DEFINE t == Append(s, m)
<1> SUFFICES ASSUME NEW j \in DOMAIN t, NEW k \in DOMAIN t, j < k
             PROVE  t[j].n < t[k].n
    BY DEF Rising
<1>1. /\ Len(s) \in Nat /\ DOMAIN s = 1..Len(s) /\ DOMAIN t = 1..(Len(s) + 1)
      /\ \A l \in DOMAIN s : t[l] = s[l]
      /\ t[Len(s) + 1] = m
      /\ k \in DOMAIN s \/ k = Len(s) + 1
    BY AppendEntries
<1> HIDE DEF t, Messages
<1>2. j \in DOMAIN s
    BY <1>1
<1>3. CASE k \in DOMAIN s
    BY <1>1, <1>2, <1>3 DEF Rising
<1>4. CASE k = Len(s) + 1
    BY <1>1, <1>2, <1>4
<1> QED
    BY <1>1, <1>3, <1>4

LEMMA InitInvariant == Init => IInv
<1> SUFFICES ASSUME Init PROVE IInv
    OBVIOUS
<1> USE DEF Init
<1>1. TypeOK
    BY DEF TypeOK
<1>2. Parents
    BY DEF Parents
<1>3. Collected
    BY DEF Collected, Genuine, Rising, Before
<1>4. Fetched
    BY DEF Fetched
<1>5. Transferred
    BY DEF Transferred, Genuine, Rising
<1>6. Kept
    BY DEF Kept, LostOnlyWithException
<1> QED
    BY <1>1, <1>2, <1>3, <1>4, <1>5, <1>6 DEF IInv

(* Types. *)
LEMMA TypeStep == TypeOK /\ [Next]_vars => TypeOK'
<1> SUFFICES ASSUME TypeOK, [Next]_vars PROVE TypeOK'
    OBVIOUS
<1> USE DEF TypeOK, Messages, Enabled, repl, transfer, history
<1>1. CASE Begin
    BY <1>1 DEF Begin
<1>2. CASE SetParent
    BY <1>2 DEF SetParent
<1>3. CASE SetParentFails
    BY <1>3 DEF SetParentFails, Raise
<1>4. CASE CellFails
    BY <1>4 DEF CellFails
<1>5. CASE ProcessDies
    BY <1>5 DEF ProcessDies
<1>6. CASE CellSucceeds
    BY <1>6 DEF CellSucceeds
<1>7. CASE Enable
    BY <1>7 DEF Enable
<1>8. CASE Display
    BY <1>8 DEF Display
<1>9. CASE Trigger
    BY <1>9 DEF Trigger
<1>10. CASE TriggerFails
    <2>1. CASE UNCHANGED <<captured, retained>>
        BY <1>10, <2>1 DEF TriggerFails
    <2>2. CASE captured' = <<>>
        BY <1>10, <2>2 DEF TriggerFails
    <2> QED
        BY <1>10, <2>1, <2>2 DEF TriggerFails
<1>11. CASE Fetch
    <2> HIDE DEF Messages
    <2>1. Garbage \in Messages
        BY DEF Garbage, Messages
    <2>2. PICK n \in Nat : DOMAIN addresses = 1..n
        OBVIOUS
    <2>3. batch' \in [1..n -> Messages]
        BY <1>11, <2>1, <2>2 DEF Fetch
    <2>4. batch' \in Seq(Messages)
        <3> HIDE DEF TypeOK
        <3> QED
            BY <2>3
    <2> QED
        BY <1>11, <2>4 DEF Fetch
<1>12. CASE Send
    <2> HIDE DEF Messages
    <2> DEFINE next == batch[Len(out) + 1]
    <2>1. next \in Messages /\ out' = Append(out, next)
        <3>1. Len(out) < Len(batch) /\ Len(out) \in Nat /\ Len(batch) \in Nat
            BY <1>12 DEF Send, T!Send
        <3>2. Len(out) + 1 \in 1..Len(batch)
            BY <3>1
        <3> QED
            BY <1>12, <3>2 DEF Send, T!Send
    <2>2. out' \in Seq(Messages) /\ out'[Len(out')] = next
        BY <2>1
    <2>3. sent' \in Seq(Messages)
        BY <1>12, <2>1, <2>2 DEF Send
    <2> QED
        BY <1>12, <2>2, <2>3 DEF Send, T!Send
<1>13. CASE Finish
    BY <1>13 DEF Finish, T!Finish
<1>14. CASE TransferFails
    BY <1>14 DEF TransferFails, T!Fail, Raise
<1>15. CASE UNCHANGED vars
    BY <1>15 DEF vars
<1> QED
    BY <1>1, <1>2, <1>3, <1>4, <1>5, <1>6, <1>7, <1>8, <1>9,
       <1>10, <1>11, <1>12, <1>13, <1>14, <1>15
    DEF Next, Cell, User, AfterSuccessfulExecution

(* The parent message. *)
LEMMA ParentsStep == TypeOK /\ Parents /\ [Next]_vars => Parents'
<1> SUFFICES ASSUME TypeOK /\ Parents, [Next]_vars PROVE Parents'
    OBVIOUS
<1> USE DEF TypeOK, Parents, Enabled, repl, transfer, history
<1>1. CASE Begin
    BY <1>1 DEF Begin
<1>2. CASE SetParent
    BY <1>2 DEF SetParent
<1>3. CASE SetParentFails
    BY <1>3 DEF SetParentFails, Raise
<1>4. CASE CellFails
    BY <1>4 DEF CellFails
<1>5. CASE ProcessDies
    BY <1>5 DEF ProcessDies
<1>6. CASE CellSucceeds
    BY <1>6 DEF CellSucceeds
<1>7. CASE Enable
    BY <1>7 DEF Enable
<1>8. CASE Display
    BY <1>8 DEF Display
<1>9. CASE Trigger
    BY <1>9 DEF Trigger
<1>10. CASE TriggerFails
    BY <1>10 DEF TriggerFails, Raise
<1>11. CASE Fetch
    BY <1>11 DEF Fetch
<1>12. CASE Send
    BY <1>12 DEF Send, T!Send
<1>13. CASE Finish
    BY <1>13 DEF Finish, T!Finish
<1>14. CASE TransferFails
    BY <1>14 DEF TransferFails, T!Fail, Raise
<1>15. CASE UNCHANGED vars
    BY <1>15 DEF vars
<1> QED
    BY <1>1, <1>2, <1>3, <1>4, <1>5, <1>6, <1>7, <1>8, <1>9,
       <1>10, <1>11, <1>12, <1>13, <1>14, <1>15
    DEF Next, Cell, User, AfterSuccessfulExecution

(* What the socket collected. *)
LEMMA CollectedStep == TypeOK /\ Parents /\ Collected /\ Transferred /\ [Next]_vars => Collected'
<1> SUFFICES ASSUME TypeOK /\ Parents /\ Collected /\ Transferred, [Next]_vars PROVE Collected'
    OBVIOUS
<1> USE DEF TypeOK, Messages, Genuine, Rising, Before, Parents, Collected, Transferred, Enabled, repl, transfer, history
<1>1. CASE Begin
    BY <1>1 DEF Begin
<1>2. CASE SetParent
    BY <1>2 DEF SetParent
<1>3. CASE SetParentFails
    BY <1>3 DEF SetParentFails, Raise
<1>4. CASE CellFails
    BY <1>4 DEF CellFails
<1>5. CASE ProcessDies
    BY <1>5 DEF ProcessDies
<1>6. CASE CellSucceeds
    BY <1>6 DEF CellSucceeds
<1>7. CASE Enable
    BY <1>7 DEF Enable
<1>8. CASE Display
    <2> DEFINE new == [n |-> Len(displayed) + 1, parent |-> parent]
    <2>1. /\ pc = "run" /\ pc' = "run" /\ enabledIn # 0
          /\ captured' = Append(captured, new)
          /\ displayed' = Append(displayed, cell)
          /\ UNCHANGED <<sent, cell, enabledIn>>
        BY <1>8 DEF Display
    <2>2. /\ displayed'[Len(displayed) + 1] = cell
          /\ Len(displayed) + 1 \in DOMAIN displayed'
          /\ \A n \in DOMAIN displayed : /\ n \in DOMAIN displayed'
                                       /\ displayed'[n] = displayed[n]
                                       /\ n < Len(displayed) + 1
        BY SMTT(30), <2>1
    <2>10. captured \in Seq(Messages) /\ new \in Messages
        BY <2>1
    <2>3. \A k \in DOMAIN captured' :
             \/ k \in DOMAIN captured /\ captured'[k] = captured[k]
             \/ k = Len(captured) + 1 /\ captured'[k] = new
        <3> HIDE DEF Messages, TypeOK, Parents, Collected, Transferred
        <3> QED
            BY <2>1, <2>10, AppendEntries
    <2>4. new.parent = IF cell = enabledIn THEN 0 ELSE cell
        BY <2>1
    <2>5. Genuine(captured)'
        <3> SUFFICES ASSUME NEW k \in DOMAIN captured'
                     PROVE  /\ captured'[k].n \in DOMAIN displayed'
                            /\ captured'[k].parent =
                                  IF displayed'[captured'[k].n] = enabledIn THEN 0
                                  ELSE displayed'[captured'[k].n]
            BY <2>1
        <3>1. CASE k \in DOMAIN captured /\ captured'[k] = captured[k]
            <4>1. /\ captured[k].n \in DOMAIN displayed
                  /\ captured[k].parent =
                        IF displayed[captured[k].n] = enabledIn THEN 0
                        ELSE displayed[captured[k].n]
                <5> HIDE DEF TypeOK, Parents, Transferred
                <5> QED
                    BY <3>1
            <4> HIDE DEF TypeOK, Parents, Transferred, Collected
            <4> QED
                BY <2>2, <3>1, <4>1
        <3>2. CASE captured'[k] = new
            BY <2>2, <2>4, <3>2
        <3> QED
            BY <2>3, <3>1, <3>2
    <2>6. \A k \in DOMAIN captured : captured[k].n < new.n
        BY <2>2
    <2>7. Rising(captured)'
        <3>1. Rising(captured)
            OBVIOUS
        <3> HIDE DEF Messages, TypeOK, Parents, Collected, Transferred, Rising
        <3>2. Rising(Append(captured, new))
            BY <2>6, <2>10, <3>1, RisingAppend
        <3> QED
            BY <2>1, <3>2 DEF Rising
    <2>8. \A j \in DOMAIN sent : sent[j].n < new.n
        BY <2>2
    <2>9. Before(sent, captured)'
        BY <2>1, <2>3, <2>8
    <2> HIDE DEF Genuine, Rising, Before
    <2> QED
        BY <2>1, <2>5, <2>7, <2>9
<1>9. CASE Trigger
    BY <1>9 DEF Trigger
<1>10. CASE TriggerFails
    <2>1. pc' = "idle" /\ UNCHANGED <<sent, displayed, enabledIn>>
        BY <1>10 DEF TriggerFails, Raise
    <2>2. captured' = captured \/ captured' = <<>>
        BY <1>10 DEF TriggerFails
    <2>3. CASE captured' = captured
        BY <2>1, <2>3
    <2>4. CASE captured' = <<>>
        BY <2>1, <2>4
    <2> QED
        BY <2>2, <2>3, <2>4
<1>11. CASE Fetch
    BY <1>11 DEF Fetch
<1>12. CASE Send
    BY <1>12 DEF Send, T!Send
<1>13. CASE Finish
    BY <1>13 DEF Finish, T!Finish
<1>14. CASE TransferFails
    BY <1>14 DEF TransferFails, T!Fail, Raise
<1>15. CASE UNCHANGED vars
    BY <1>15 DEF vars
<1> QED
    BY <1>1, <1>2, <1>3, <1>4, <1>5, <1>6, <1>7, <1>8, <1>9,
       <1>10, <1>11, <1>12, <1>13, <1>14, <1>15
    DEF Next, Cell, User, AfterSuccessfulExecution

(* What the trigger returned. *)
LEMMA FetchedStep == TypeOK /\ Collected /\ Fetched /\ [Next]_vars => Fetched'
<1> SUFFICES ASSUME TypeOK /\ Collected /\ Fetched, [Next]_vars PROVE Fetched'
    OBVIOUS
<1> USE DEF TypeOK, Messages, Genuine, Rising, Before, Collected, Fetched, repl, transfer, history
<1>1. CASE Begin
    BY <1>1 DEF Begin
<1>2. CASE SetParent
    BY <1>2 DEF SetParent
<1>3. CASE SetParentFails
    BY <1>3 DEF SetParentFails, Raise
<1>4. CASE CellFails
    BY <1>4 DEF CellFails
<1>5. CASE ProcessDies
    BY <1>5 DEF ProcessDies
<1>6. CASE CellSucceeds
    BY <1>6 DEF CellSucceeds
<1>7. CASE Enable
    BY <1>7 DEF Enable
<1>8. CASE Display
    BY <1>8 DEF Display
<1>9. CASE Trigger
    BY <1>9 DEF Trigger
<1>10. CASE TriggerFails
    BY <1>10 DEF TriggerFails, Raise
<1>11. CASE Fetch
    BY <1>11 DEF Fetch
<1>12. CASE Send
    BY <1>12 DEF Send, T!Send
<1>13. CASE Finish
    BY <1>13 DEF Finish, T!Finish
<1>14. CASE TransferFails
    BY <1>14 DEF TransferFails, T!Fail, Raise
<1>15. CASE UNCHANGED vars
    BY <1>15 DEF vars
<1> QED
    BY <1>1, <1>2, <1>3, <1>4, <1>5, <1>6, <1>7, <1>8, <1>9,
       <1>10, <1>11, <1>12, <1>13, <1>14, <1>15
    DEF Next, Cell, User, AfterSuccessfulExecution

(* What is being sent. *)
LEMMA TransferredStep == TypeOK /\ Parents /\ Fetched /\ Transferred /\ [Next]_vars => Transferred'
<1> SUFFICES ASSUME TypeOK /\ Parents /\ Fetched /\ Transferred, [Next]_vars PROVE Transferred'
    OBVIOUS
<1> USE DEF TypeOK, Messages, Genuine, Rising, Before, Parents, Fetched, Transferred, Enabled, repl, transfer, history
<1>1. CASE Begin
    BY <1>1 DEF Begin
<1>2. CASE SetParent
    BY <1>2 DEF SetParent
<1>3. CASE SetParentFails
    BY <1>3 DEF SetParentFails, Raise
<1>4. CASE CellFails
    BY <1>4 DEF CellFails
<1>5. CASE ProcessDies
    BY <1>5 DEF ProcessDies
<1>6. CASE CellSucceeds
    BY <1>6 DEF CellSucceeds
<1>7. CASE Enable
    BY <1>7 DEF Enable
<1>8. CASE Display
    <2> DEFINE new == [n |-> Len(displayed) + 1, parent |-> parent]
    <2>1. /\ pc = "run" /\ pc' = "run" /\ enabledIn # 0
          /\ captured' = Append(captured, new)
          /\ displayed' = Append(displayed, cell)
          /\ UNCHANGED <<sent, cell, enabledIn>>
        BY <1>8 DEF Display
    <2>2. /\ displayed'[Len(displayed) + 1] = cell
          /\ Len(displayed) + 1 \in DOMAIN displayed'
          /\ \A n \in DOMAIN displayed : /\ n \in DOMAIN displayed'
                                       /\ displayed'[n] = displayed[n]
                                       /\ n < Len(displayed) + 1
        BY SMTT(30), <2>1
    <2>3. Genuine(sent)'
        BY <2>1, <2>2
    <2> HIDE DEF Genuine
    <2> QED
        BY <2>1, <2>3
<1>9. CASE Trigger
    BY <1>9 DEF Trigger
<1>10. CASE TriggerFails
    BY <1>10 DEF TriggerFails, Raise
<1>11. CASE Fetch
    <2>1. /\ pc = "fetch" /\ addresses = retained /\ out' = <<>>
          /\ UNCHANGED <<sent, displayed, enabledIn>>
        BY <1>11 DEF Fetch
    <2>2. \A k \in DOMAIN addresses : addresses[k] \in Elements(retained)
        BY <2>1 DEF Elements
    <2>3. batch' = [k \in DOMAIN addresses |-> addresses[k]]
        BY <1>11, <2>2 DEF Fetch
    <2>4. batch' = addresses
        BY <2>3
    <2>5. /\ Genuine(sent) /\ Rising(sent) /\ Before(sent, addresses)
          /\ Genuine(addresses) /\ Rising(addresses)
        BY <2>1
    <2> HIDE DEF TypeOK, Fetched
    <2>6. /\ Genuine(sent)' /\ Rising(sent)' /\ Before(sent, batch)'
          /\ Genuine(batch)' /\ Rising(batch)'
        <3> HIDE DEF Transferred
        <3> QED
            BY <2>1, <2>4, <2>5
    <2> QED
        BY <2>6
<1>12. CASE Send
    <2> DEFINE next == batch[Len(out) + 1]
    <2>1. /\ pc = "transfer" /\ pc' = "transfer"
          /\ Len(out) + 1 \in DOMAIN batch
          /\ out' = Append(out, next)
          /\ UNCHANGED <<batch, displayed, enabledIn>>
        BY <1>12 DEF Send, T!Send
    <2>2. out'[Len(out')] = next /\ Len(out') = Len(out) + 1
        BY <2>1
    <2>3. sent' = Append(sent, next)
        BY <1>12, <2>2 DEF Send
    <2>10. sent \in Seq(Messages) /\ next \in Messages
        <3> HIDE DEF Messages
        <3> QED
            BY <2>1
    <2>4. \A k \in DOMAIN sent' :
             \/ k \in DOMAIN sent /\ sent'[k] = sent[k]
             \/ k = Len(sent) + 1 /\ sent'[k] = next
        <3> HIDE DEF Messages, TypeOK, Transferred, next
        <3> QED
            BY <2>3, <2>10, AppendEntries
    <2>5. \A j \in DOMAIN sent : sent[j].n < next.n
        BY <2>1
    <2>6. Genuine(sent)'
        <3>1. Genuine(sent) /\ Genuine(batch)
            BY <2>1
        <3> HIDE DEF TypeOK, Transferred
        <3> SUFFICES ASSUME NEW k \in DOMAIN sent'
                     PROVE  /\ sent'[k].n \in DOMAIN displayed
                            /\ sent'[k].parent =
                                  IF displayed[sent'[k].n] = enabledIn THEN 0
                                  ELSE displayed[sent'[k].n]
            BY <2>1
        <3>2. CASE k \in DOMAIN sent /\ sent'[k] = sent[k]
            BY <3>1, <3>2
        <3>3. CASE sent'[k] = next
            BY <2>1, <3>1, <3>3
        <3> QED
            BY <2>4, <3>2, <3>3
    <2>7. Rising(sent)'
        <3>1. Rising(sent)
            OBVIOUS
        <3> HIDE DEF Messages, TypeOK, Fetched, Transferred, Rising, next
        <3>2. Rising(Append(sent, next))
            BY <2>5, <2>10, <3>1, RisingAppend
        <3> QED
            BY <2>3, <3>2 DEF Rising
    <2>8. \A j \in DOMAIN sent', k \in DOMAIN batch :
             k > Len(out') => sent'[j].n < batch[k].n
        <3> SUFFICES ASSUME NEW j \in DOMAIN sent', NEW k \in DOMAIN batch,
                            k > Len(out')
                     PROVE  sent'[j].n < batch[k].n
            OBVIOUS
        <3>1. k > Len(out) + 1 /\ k > Len(out)
            BY <2>2
        <3>2. next.n < batch[k].n
            BY <2>1, <3>1
        <3>3. \A l \in DOMAIN sent : sent[l].n < batch[k].n
            BY <2>1, <3>1
        <3> QED
            BY <2>4, <3>2, <3>3
    <2>9. Genuine(batch)' /\ Rising(batch)'
        BY <2>1
    <2> HIDE DEF Genuine, Rising
    <2> QED
        BY <2>1, <2>6, <2>7, <2>8, <2>9
<1>13. CASE Finish
    BY <1>13 DEF Finish, T!Finish
<1>14. CASE TransferFails
    BY <1>14 DEF TransferFails, T!Fail, Raise
<1>15. CASE UNCHANGED vars
    BY <1>15 DEF vars
<1> QED
    BY <1>1, <1>2, <1>3, <1>4, <1>5, <1>6, <1>7, <1>8, <1>9,
       <1>10, <1>11, <1>12, <1>13, <1>14, <1>15
    DEF Next, Cell, User, AfterSuccessfulExecution

(* Where the messages are. *)
LEMMA KeptStep == TypeOK /\ Fetched /\ Kept /\ [Next]_vars => Kept'
<1> SUFFICES ASSUME TypeOK /\ Fetched /\ Kept, [Next]_vars PROVE Kept'
    OBVIOUS
<1> USE DEF TypeOK, Kept, LostOnlyWithException, Waiting, NumbersOf, Fetched, repl, transfer, history
<1>1. CASE Begin
    BY <1>1 DEF Begin
<1>2. CASE SetParent
    BY <1>2 DEF SetParent
<1>3. CASE SetParentFails
    BY <1>3 DEF SetParentFails, Raise
<1>4. CASE CellFails
    BY <1>4 DEF CellFails
<1>5. CASE ProcessDies
    BY <1>5 DEF ProcessDies
<1>6. CASE CellSucceeds
    BY <1>6 DEF CellSucceeds
<1>7. CASE Enable
    BY <1>7 DEF Enable
<1>8. CASE Display
    <2> DEFINE new == [n |-> Len(displayed) + 1, parent |-> parent]
    <2>1. /\ pc = "run" /\ pc' = "run"
          /\ captured' = Append(captured, new)
          /\ displayed' = Append(displayed, cell)
          /\ UNCHANGED <<sent, cell, raised, addresses>>
        BY <1>8 DEF Display
    <2>2. \A n \in DOMAIN displayed' :
             \/ n \in DOMAIN displayed /\ displayed'[n] = displayed[n]
             \/ n = new.n /\ displayed'[n] = cell
        BY <2>1
    <2>3. NumbersOf(captured) \subseteq NumbersOf(captured)'
        <3>1. \A k \in DOMAIN captured : k \in DOMAIN captured'
                                         /\ captured'[k] = captured[k]
            BY <2>1
        <3> QED
            BY <3>1
    <2>4. new.n \in NumbersOf(captured)'
        <3>1. Len(captured) + 1 \in DOMAIN captured'
              /\ captured'[Len(captured) + 1] = new
            BY <2>1
        <3> QED
            BY <3>1
    <2>5. \A n \in DOMAIN displayed' : displayed'[n] <= cell
        BY <2>2
    <2>6. Waiting \subseteq Waiting' /\ new.n \in Waiting'
        <3> HIDE DEF NumbersOf
        <3> QED
            BY <2>1, <2>3, <2>4
    <2>7. NumbersOf(sent)' = NumbersOf(sent)
        BY <2>1
    <2>8. LostOnlyWithException'
        <3> HIDE DEF Waiting, NumbersOf
        <3> QED
            BY <2>1, <2>2, <2>6, <2>7
    <2> HIDE DEF LostOnlyWithException
    <2> QED
        BY <2>1, <2>5, <2>8
<1>9. CASE Trigger
    BY <1>9 DEF Trigger
<1>10. CASE TriggerFails
    BY <1>10 DEF TriggerFails, Raise
<1>11. CASE Fetch
    <2>1. /\ pc = "fetch" /\ pc' = "transfer" /\ addresses' = <<>> /\ out' = <<>>
          /\ addresses = retained
          /\ UNCHANGED <<captured, sent, displayed, raised, cell>>
        BY <1>11 DEF Fetch
    <2>2. \A k \in DOMAIN addresses : addresses[k] \in Elements(retained)
        BY <2>1 DEF Elements
    <2>3. DOMAIN batch' = DOMAIN addresses
          /\ \A k \in DOMAIN addresses : batch'[k] = addresses[k]
        BY <1>11, <2>2 DEF Fetch
    <2>4. NumbersOf(batch)' = NumbersOf(addresses)
        BY <2>3
    <2>5. Waiting \subseteq Waiting'
        <3>1. Waiting = NumbersOf(captured) \cup NumbersOf(addresses)
            BY <2>1
        <3>2. NumbersOf(captured) \cup NumbersOf(batch)' \subseteq Waiting'
            BY <2>1
        <3> HIDE DEF Waiting, NumbersOf
        <3> QED
            BY <2>4, <3>1, <3>2
    <2>6. LostOnlyWithException'
        <3>1. NumbersOf(sent)' = NumbersOf(sent)
            BY <2>1
        <3> HIDE DEF Waiting, NumbersOf
        <3> QED
            BY <2>1, <2>5, <3>1
    <2>7. \A k \in DOMAIN batch' : ~(k <= Len(out'))
        BY <2>1, <2>3
    <2> HIDE DEF LostOnlyWithException
    <2> QED
        BY <2>1, <2>6, <2>7
<1>12. CASE Send
    <2> DEFINE next == batch[Len(out) + 1]
    <2>1. /\ pc = "transfer" /\ pc' = "transfer" /\ Len(out) \in Nat
          /\ out' = Append(out, next)
          /\ UNCHANGED <<captured, addresses, batch, displayed, raised, cell>>
        BY <1>12 DEF Send, T!Send
    <2>2. out'[Len(out')] = next /\ Len(out') = Len(out) + 1
        BY <2>1
    <2>3. sent' = Append(sent, next)
        BY <1>12, <2>2 DEF Send
    <2>4. NumbersOf(sent) \subseteq NumbersOf(sent)' /\ next.n \in NumbersOf(sent)'
        <3>1. /\ \A k \in DOMAIN sent : k \in DOMAIN sent' /\ sent'[k] = sent[k]
              /\ Len(sent) + 1 \in DOMAIN sent' /\ sent'[Len(sent) + 1] = next
            BY <2>3
        <3> QED
            BY <3>1
    <2>5. Waiting' = Waiting
        BY <2>1
    <2>6. LostOnlyWithException'
        <3> HIDE DEF Waiting, NumbersOf
        <3> QED
            BY <2>1, <2>4, <2>5
    <2>7. \A k \in DOMAIN batch : k <= Len(out') => batch[k].n \in NumbersOf(sent)'
        <3> SUFFICES ASSUME NEW k \in DOMAIN batch, k <= Len(out')
                     PROVE  batch[k].n \in NumbersOf(sent)'
            OBVIOUS
        <3>1. k <= Len(out) \/ k = Len(out) + 1
            BY <2>1, <2>2
        <3> HIDE DEF NumbersOf
        <3> QED
            BY <2>1, <2>4, <3>1
    <2> HIDE DEF LostOnlyWithException
    <2> QED
        BY <2>1, <2>6, <2>7
<1>13. CASE Finish
    <2>1. /\ pc = "transfer" /\ pc' = "idle" /\ Len(out) = Len(batch)
          /\ UNCHANGED <<captured, addresses, sent, displayed, raised, cell>>
        BY <1>13 DEF Finish, T!Finish
    <2>2. \A k \in DOMAIN batch : batch[k].n \in NumbersOf(sent)
        BY <2>1
    <2>3. NumbersOf(batch) \subseteq NumbersOf(sent)
        BY <2>2
    <2>4. Waiting \subseteq Waiting' \cup NumbersOf(batch)
        BY <2>1
    <2>5. LostOnlyWithException'
        <3>1. NumbersOf(sent)' = NumbersOf(sent)
            BY <2>1
        <3> HIDE DEF Waiting, NumbersOf
        <3> QED
            BY <2>1, <2>3, <2>4, <3>1
    <2> HIDE DEF LostOnlyWithException
    <2> QED
        BY <2>1, <2>5
<1>14. CASE TransferFails
    BY <1>14 DEF TransferFails, T!Fail, Raise
<1>15. CASE UNCHANGED vars
    BY <1>15 DEF vars
<1> QED
    BY <1>1, <1>2, <1>3, <1>4, <1>5, <1>6, <1>7, <1>8, <1>9,
       <1>10, <1>11, <1>12, <1>13, <1>14, <1>15
    DEF Next, Cell, User, AfterSuccessfulExecution

LEMMA InvariantStep == IInv /\ [Next]_vars => IInv'
BY TypeStep, ParentsStep, CollectedStep, FetchedStep, TransferredStep, KeptStep DEF IInv

(* The inductive invariant holds in every behaviour                        *)
(* (KernelCommunicator.swift:21-72, Deserialization.swift:9-26).           *)
THEOREM Invariance == Spec => []IInv
<1> QED
    BY InitInvariant, InvariantStep, PTL DEF Spec

(* No message is sent twice, out of order, or from memory that the REPL    *)
(* process had let go (KernelCommunicator.swift:38-48).                    *)
THEOREM OnceInOrder == Spec => []SentOnceInOrder
<1>1. IInv => SentOnceInOrder
    BY DEF IInv, Transferred, Genuine, Rising, SentOnceInOrder
<1> QED
    BY <1>1, Invariance, PTL

(* Each message is sent under the cell that displayed it                   *)
(* (DoExecute.swift:151-153).                                              *)
THEOREM UnderItsCell == Spec => []ParentIsDisplayingCell
<1>1. IInv => ParentIsDisplayingCell
    BY DEF IInv, Transferred, Genuine, ParentIsDisplayingCell
<1> QED
    BY <1>1, Invariance, PTL

(* A message is lost only with an exception that the front end was shown   *)
(* for its cell or a later one (DoExecute.swift:32-41, 151-158).           *)
THEOREM LostIsReported == Spec => []LostOnlyWithException
<1>1. IInv => LostOnlyWithException
    BY DEF IInv, Kept
<1> QED
    BY <1>1, Invariance, PTL

(* A message is also not left behind: the transfer ends with success when  *)
(* its whole batch was sent, at a time when the socket is empty and no     *)
(* address is pending, so what is not sent was lost with an exception      *)
(* (Deserialization.swift:9-26).                                           *)
LEMMA FinishLeavesNothing ==
    ASSUME IInv, Finish
    PROVE  LeavesNothing
<1>1. /\ pc = "transfer" /\ Len(out) = Len(batch)
      /\ UNCHANGED <<captured, addresses, sent, displayed, raised>>
    BY DEF Finish, T!Finish, repl, history
<1>2. captured = <<>> /\ addresses = <<>>
    BY <1>1 DEF IInv, Collected, Kept
<1>3. NumbersOf(captured) = {} /\ NumbersOf(addresses) = {}
    BY <1>2 DEF NumbersOf
<1>4. NumbersOf(batch) \subseteq NumbersOf(sent)
    <2>1. \A k \in DOMAIN batch : k <= Len(out)
        BY <1>1 DEF IInv, TypeOK
    <2>2. \A k \in DOMAIN batch : batch[k].n \in NumbersOf(sent)
        BY <1>1, <2>1 DEF IInv, Kept
    <2> QED
        BY <2>2 DEF NumbersOf
<1>5. Waiting \subseteq NumbersOf(sent)
    BY <1>1, <1>3, <1>4 DEF Waiting
<1>6. LostOnlyWithException
    BY DEF IInv, Kept
<1>7. NumbersOf(sent') = NumbersOf(sent) /\ raised' = raised
    BY <1>1
<1> QED
    BY <1>1, <1>2, <1>5, <1>6, <1>7 DEF LostOnlyWithException, LeavesNothing, Settled

(* After a cell that ended with success every message that was displayed   *)
(* so far was sent, or an exception told that it was lost.                 *)
THEOREM NothingLeftBehind == Spec => SuccessLeavesNothing
<1>1. IInv /\ [Next]_vars =>
        [pc # "idle" /\ pc' = "idle"
            => cell \in raised' \/ CellFails \/ LeavesNothing]_vars
    <2> SUFFICES ASSUME IInv, [Next]_vars, pc # "idle", pc' = "idle"
                 PROVE  cell \in raised' \/ CellFails \/ LeavesNothing
        OBVIOUS
    <2>1. CASE SetParentFails \/ TriggerFails \/ TransferFails
        BY <2>1 DEF SetParentFails, TriggerFails, TransferFails, Raise
    <2>2. CASE Finish
        BY <2>2, FinishLeavesNothing
    <2>3. ~(\/ Begin \/ SetParent \/ ProcessDies \/ CellSucceeds \/ Enable
            \/ Display \/ Trigger \/ Fetch \/ Send \/ UNCHANGED vars)
        BY DEF Begin, SetParent, ProcessDies, CellSucceeds, Enable, Display,
           Trigger, Fetch, Send, vars
    <2> QED
        BY <2>1, <2>2, <2>3 DEF Next, Cell, User, AfterSuccessfulExecution
<1> QED
    BY <1>1, Invariance, PTL DEF Spec, SuccessLeavesNothing

=============================================================================
