----------------------------- MODULE WireFormat -----------------------------
(***************************************************************************)
(* The transfer of display messages from the REPL process to the IOPub     *)
(* socket, after a cell succeeded.  after_successful_execution and         *)
(* read_byte_array write the messages into one buffer that grows by        *)
(* doubling; deserialize walks through it and makes a view of each part;   *)
(* afterSuccessfulExecution sends the messages and frees the buffer.       *)
(*                                                                         *)
(* Memory is counted in words of 8 bytes, the unit of every header and of  *)
(* the rounding of the parts; a part still has a size in bytes.            *)
(***************************************************************************)
EXTENDS Naturals, Sequences

CONSTANTS
    Inputs,           \* lists of messages; a message is a list of part sizes
    InitialCapacity   \* of the buffer, in words (1024 bytes in the code)

(* A display message has at least one part. *)
ASSUME InputsAssumption ==
    /\ Inputs \subseteq Seq(Seq(Nat))
    /\ \A input \in Inputs : \A i \in DOMAIN input : input[i] # <<>>

(* There is room for the first two headers. *)
ASSUME CapacityAssumption == InitialCapacity \in Nat /\ InitialCapacity >= 2

VARIABLES
    input,     \* the messages in the REPL process
    pc,        \* the next statement
    i, j,      \* the message and the part it is about
    size,      \* output_size, and later the position of the reader
    capacity,  \* output_capacity
    grown,     \* new_capacity
    mem,       \* the words of the buffer
    live,      \* the buffer is allocated
    views,     \* the messages read so far: for each part, where and how long
    sent       \* what was sent, as it was when it was sent

vars == <<input, pc, i, j, size, capacity, grown, mem, live, views, sent>>

(* What a word of the buffer holds: a number or a word of a part. *)
Junk         == [tag |-> "junk"]
Number(n)    == [tag |-> "number", n |-> n]
Word(m, p, k) == [tag |-> "data", at |-> <<m, p, k>>]

(* The words that a part of n bytes takes. *)
WordsOf(n) == (n + 7) \div 8

(* Faulty: nothing is kept for the header of the next message. *)
Needed_NoHeader(n) == 1 + WordsOf(n)

(* Header, contents, and the header of the message that may follow. *)
Needed(n) == 1 + WordsOf(n) + 1

(* The bytes of the part that is next. *)
Count == input[i][j]

(* The number a reader finds at a word.  A word that holds no number is    *)
(* never read as one (ImplementsTransfer), so the 0 is arbitrary.          *)
NumberAt(w) ==
    IF w \in DOMAIN mem /\ mem[w].tag = "number" THEN mem[w].n ELSE 0

Init ==
    /\ input \in Inputs
    /\ pc = "trigger"
    /\ i = 1 /\ j = 1
    /\ size = 0 /\ capacity = 0 /\ grown = 0
    /\ mem = <<>> /\ live = FALSE
    /\ views = <<>> /\ sent = <<>>

-----------------------------------------------------------------------------
(* after_successful_execution, in C++. *)

(* The trigger may fail, and then there is no buffer. *)
Trigger ==
    /\ pc = "trigger"
    /\ \/ /\ pc' = "message"
          /\ size' = 1 /\ capacity' = InitialCapacity /\ live' = TRUE
          /\ mem' = [w \in 0..(InitialCapacity - 1) |->
                        IF w = 0 THEN Number(Len(input)) ELSE Junk]
       \/ pc' = "failed" /\ UNCHANGED <<size, capacity, live, mem>>
    /\ UNCHANGED <<input, i, j, grown, views, sent>>

WriteMessageHeader ==
    /\ pc = "message" /\ i <= Len(input)
    /\ mem' = [mem EXCEPT ![size] = Number(Len(input[i]))]
    /\ size' = size + 1
    /\ pc' = "part" /\ j' = 1
    /\ UNCHANGED <<input, i, capacity, grown, live, views, sent>>

NextMessage ==
    /\ pc = "part" /\ j > Len(input[i])
    /\ pc' = "message" /\ i' = i + 1
    /\ UNCHANGED <<input, j, size, capacity, grown, mem, live, views, sent>>

(* The address or the count of a part cannot be read, or its contents, *)
(* which are only read when there are any.                             *)
ReadFails ==
    /\ \/ pc = "part" /\ j <= Len(input[i])
       \/ pc = "write" /\ Count > 0
    /\ pc' = "failed" /\ live' = FALSE
    /\ UNCHANGED <<input, i, j, size, capacity, grown, mem, views, sent>>

MeasurePart ==
    /\ pc = "part" /\ j <= Len(input[i])
    /\ IF size + Needed(Count) > capacity
       THEN pc' = "double" /\ grown' = 2 * capacity
       ELSE pc' = "write" /\ UNCHANGED grown
    /\ UNCHANGED <<input, i, j, size, capacity, mem, live, views, sent>>

(* Faulty: the new capacity is not computed from the last one. *)
Double_Stuck ==
    /\ pc = "double" /\ size + Needed(Count) > grown
    /\ grown' = 2 * capacity
    /\ UNCHANGED <<input, pc, i, j, size, capacity, mem, live, views, sent>>

Double ==
    /\ pc = "double" /\ size + Needed(Count) > grown
    /\ grown' = 2 * grown
    /\ UNCHANGED <<input, pc, i, j, size, capacity, mem, live, views, sent>>

Reallocate ==
    /\ pc = "double" /\ size + Needed(Count) <= grown
    /\ mem' = [w \in 0..(grown - 1) |-> IF w < size THEN mem[w] ELSE Junk]
    /\ capacity' = grown
    /\ pc' = "write"
    /\ UNCHANGED <<input, i, j, size, grown, live, views, sent>>

WritePart ==
    /\ pc = "write"
    /\ mem' = [w \in DOMAIN mem |->
                 IF w = size THEN Number(Count)
                 ELSE IF w \in (size + 1)..(size + WordsOf(Count))
                      THEN Word(i, j, w - size) ELSE mem[w]]
    /\ size' = size + 1 + WordsOf(Count)
    /\ pc' = "part" /\ j' = j + 1
    /\ UNCHANGED <<input, i, capacity, grown, live, views, sent>>

-----------------------------------------------------------------------------
(* deserialize, in Swift: size is the position of its stream pointer. *)

StartReading ==
    /\ pc = "message" /\ i > Len(input)
    /\ pc' = "readMessage"
    /\ size' = 1 /\ i' = 1
    /\ UNCHANGED <<input, j, capacity, grown, mem, live, views, sent>>

ReadMessageHeader ==
    /\ pc = "readMessage" /\ Len(views) < NumberAt(0)
    /\ pc' = "readPart"
    /\ i' = NumberAt(size)
    /\ size' = size + 1
    /\ views' = Append(views, <<>>)
    /\ UNCHANGED <<input, j, capacity, grown, mem, live, sent>>

(* Faulty: a part whose size is a multiple of 8 is given a word more. *)
ReadPart_RoundsUp ==
    /\ pc = "readPart" /\ Len(views[Len(views)]) < i
    /\ views' = [views EXCEPT ![Len(views)] =
                    Append(@, [start |-> size + 1, count |-> NumberAt(size)])]
    /\ size' = size + 1 + NumberAt(size) \div 8 + 1
    /\ UNCHANGED <<input, pc, i, j, capacity, grown, mem, live, sent>>

ReadPart ==
    /\ pc = "readPart" /\ Len(views[Len(views)]) < i
    /\ views' = [views EXCEPT ![Len(views)] =
                    Append(@, [start |-> size + 1, count |-> NumberAt(size)])]
    /\ size' = size + 1 + (NumberAt(size) + 7) \div 8
    /\ UNCHANGED <<input, pc, i, j, capacity, grown, mem, live, sent>>

EndOfMessage ==
    /\ pc = "readPart" /\ Len(views[Len(views)]) = i
    /\ pc' = "readMessage"
    /\ UNCHANGED <<input, i, j, size, capacity, grown, mem, live, views, sent>>

EndOfStream ==
    /\ pc = "readMessage" /\ Len(views) = NumberAt(0)
    /\ pc' = "send"
    /\ UNCHANGED <<input, i, j, size, capacity, grown, mem, live, views, sent>>

(* The bytes a view shows.  The socket is taken to copy them when it is    *)
(* given them.                                                             *)
Contents(v) ==
    [count |-> v.count,
     words |-> [k \in 1..WordsOf(v.count) |->
                   IF live THEN mem[v.start + k - 1] ELSE Junk]]

Send ==
    /\ pc = "send" /\ Len(sent) < Len(views)
    /\ sent' = Append(sent, [p \in DOMAIN views[Len(sent) + 1] |->
                                Contents(views[Len(sent) + 1][p])])
    /\ UNCHANGED <<input, pc, i, j, size, capacity, grown, mem, live, views>>

(* send_multipart throws, past the call of free. *)
SendFails ==
    /\ pc = "send" /\ Len(sent) < Len(views)
    /\ pc' = "failed"
    /\ UNCHANGED <<input, i, j, size, capacity, grown, mem, live, views, sent>>

Free ==
    /\ pc = "send" /\ Len(sent) = Len(views)
    /\ pc' = "done" /\ live' = FALSE
    /\ UNCHANGED <<input, i, j, size, capacity, grown, mem, views, sent>>

-----------------------------------------------------------------------------
Write ==
    \/ Trigger \/ WriteMessageHeader \/ NextMessage \/ ReadFails
    \/ MeasurePart \/ Double \/ Reallocate \/ WritePart

Read ==
    \/ StartReading \/ ReadMessageHeader \/ ReadPart \/ EndOfMessage
    \/ EndOfStream

Next == Write \/ Read \/ Send \/ SendFails \/ Free

Spec == Init /\ [][Next]_vars

(* The code is sequential: it goes on as long as it can. *)
FairSpec == Spec /\ WF_vars(Next)

-----------------------------------------------------------------------------
(* Properties. *)

PCs == {"trigger", "message", "part", "double", "write", "readMessage",
        "readPart", "send", "done", "failed"}

(* Every variable has its type; the buffer is a function on the words that *)
(* were allocated (LLDBProcess.cpp:155-157, 286-297).                      *)
TypeOK ==
    /\ input \in Inputs
    /\ pc \in PCs
    /\ i \in Nat /\ j \in Nat
    /\ size \in Nat /\ capacity \in Nat /\ grown \in Nat
    /\ DOMAIN mem = 0..(capacity - 1)
    /\ \A w \in DOMAIN mem : mem[w].tag = "number" => mem[w].n \in Nat
    /\ live \in BOOLEAN

(* The writer never writes past the end of its buffer: not the header of a *)
(* message, for which no check of the capacity is made at its place, and   *)
(* not a part (LLDBProcess.cpp:163-180, 281-319).                          *)
InBounds ==
    /\ pc = "message" /\ i <= Len(input) => size \in DOMAIN mem
    /\ pc = "write" => size..(size + WordsOf(Count)) \subseteq DOMAIN mem

(* What makes InBounds inductive: behind every part there is a word left,  *)
(* and a message has a part.                                               *)
Reserved ==
    /\ pc = "trigger" => i = 1
    /\ pc = "message" =>
          /\ i \in 1..(Len(input) + 1)
          /\ size + 1 <= capacity
    /\ pc \in {"part", "double", "write"} =>
          /\ i \in 1..Len(input)
          /\ j \in 1..(Len(input[i]) + 1)
          /\ size <= capacity
          /\ j > 1 => size + 1 <= capacity
    /\ pc \in {"double", "write"} => j <= Len(input[i])
    /\ pc = "write" => size + Needed(Count) <= capacity

IInv == TypeOK /\ Reserved

(* The transfer keeps the promises of Transfer: what is sent is what the    *)
(* REPL process displayed, the same messages, parts and bytes in the same  *)
(* order, although the writer moved the buffer and the reader works out    *)
(* every position again (LLDBProcess.cpp:281-319,                          *)
(* Deserialization.swift:19-60).                                           *)
Displayed(msg) ==
    [p \in DOMAIN input[msg] |->
        [count |-> input[msg][p],
         words |-> [k \in 1..WordsOf(input[msg][p]) |-> Word(msg, p, k)]]]

Abstract == INSTANCE Transfer WITH
                batch  <- [msg \in DOMAIN input |-> Displayed(msg)],
                out    <- sent,
                status <- IF pc \in {"done", "failed"} THEN pc ELSE "sending"

ImplementsTransfer == Abstract!Spec

(* The transfer ends, whatever the sizes: the loop that doubles the        *)
(* capacity and both walks over the messages do (LLDBProcess.cpp:286-290). *)
TransferEnds == <>(pc \in {"done", "failed"})

-----------------------------------------------------------------------------
(* What makes ImplementsTransfer inductive.  Message m is written as the   *)
(* number of its parts (p = 0) and then its parts, one after the other;    *)
(* pos[m][p] is where p begins.                                            *)
Writing == pc \in {"message", "part", "double", "write"}
Reading == pc \in {"readMessage", "readPart", "send"}

Span(m, p)  == IF p = 0 THEN 1 ELSE 1 + WordsOf(input[m][p])
Value(m, p) == IF p = 0 THEN Len(input[m]) ELSE input[m][p]

Written(m, p) == Writing => m < i \/ (m = i /\ pc # "message" /\ p < j)

(* What was written is in the buffer, before the position of the writer,   *)
(* and the next part begins where it ends.                                 *)
Holds(pos, m, p) ==
    /\ pos[m][p] > 0 /\ pos[m][p + 1] = pos[m][p] + Span(m, p)
    /\ pos[m][p + 1] <= IF Writing THEN size ELSE capacity
    /\ mem[pos[m][p]] = Number(Value(m, p))
    /\ \A k \in 1..(Span(m, p) - 1) : mem[pos[m][p] + k] = Word(m, p, k)

Laid(pos) ==
    /\ mem[0] = Number(Len(input)) /\ pos[1][0] = 1
    /\ \A m \in 1..Len(input) :
          /\ \A p \in 0..Len(input[m]) : Written(m, p) => Holds(pos, m, p)
          /\ ~Writing \/ m < i =>
                pos[m + 1][0] = pos[m][Len(input[m]) + 1]

(* The writer and the reader are at the position of what comes next.       *)
Follows(pos) ==
    /\ Writing => size > 0
    /\ pc = "message" => size = pos[i][0]
    /\ pc \in {"part", "double", "write"} => size = pos[i][j]
    /\ pc = "readMessage" => size = pos[Len(views) + 1][0]
    /\ pc = "readPart" => size = pos[Len(views)][Len(views[Len(views)]) + 1]

(* The views are of the parts that were read. *)
Views(pos) ==
    /\ Len(views) <= Len(input)
    /\ \A m \in 1..Len(views) :
          /\ Len(views[m]) <= Len(input[m])
          /\ \/ Len(views[m]) = Len(input[m])
             \/ pc = "readPart" /\ m = Len(views)
          /\ \A p \in 1..Len(views[m]) :
                views[m][p] = [start |-> pos[m][p] + 1, count |-> input[m][p]]
    /\ pc = "readPart" => views # <<>> /\ i = Len(input[Len(views)])
    /\ pc = "send" => Len(views) = Len(input)

Positions == [Nat -> [Nat -> Nat]]

Located ==
    Writing \/ Reading =>
        \E pos \in Positions : Laid(pos) /\ Follows(pos) /\ Views(pos)

(* Nothing is read before all is written, or sent before all is read. *)
Phases ==
    /\ views \in Seq(Seq([start : Nat, count : Nat]))
    /\ pc = "trigger" \/ Writing => views = <<>>
    /\ Writing \/ Reading => live
    /\ sent \in Seq({Displayed(msg) : msg \in DOMAIN input})
    /\ pc \notin {"send", "done", "failed"} => sent = <<>>
    /\ pc = "send" => Len(sent) <= Len(views)

TransferInv == IInv /\ Phases /\ Located

=============================================================================
