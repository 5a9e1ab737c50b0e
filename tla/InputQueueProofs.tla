-------------------------- MODULE InputQueueProofs --------------------------
(***************************************************************************)
(* Theorems about InputQueue, for every finite set of inputs, every set of *)
(* tabs and every bound.                                                   *)
(***************************************************************************)
EXTENDS InputQueue, FiniteSetTheorems, SequenceTheorems, TLAPS

Sentence == [input : Input, content : Text, steer : BOOLEAN]

\* The part of the types that the rows and the messages make up.
TableType ==
  /\ item \in [Input -> Row]
  /\ message \in Seq(Sentence)
  /\ failed \in SUBSET Input
  /\ past \in [Input -> SUBSET Row]

-----------------------------------------------------------------------------
(* What a step may do to the rows.                                         *)

Quiet == UNCHANGED <<item, message, failed>> /\ (UNCHANGED past \/ Remember)

\* Row i becomes row.
Rewritten(i, row) == item' = [item EXCEPT ![i] = row] /\ Remember

Born(i) ==
  /\ item[i].status = "absent"
  /\ \E mode \in Mode : Rewritten(i, NewRow(mode))
  /\ UNCHANGED <<message, failed>>

\* The user changes an input that is not decided.
Edited(i) ==
  /\ item[i].status \in {"pending", "failed"}
  /\ \E row \in Row :
       /\ row.status \in {"pending", "cancelled"}
       /\ row.version = item[i].version + 1
       /\ row.at = item[i].at
       /\ Rewritten(i, row)
  /\ UNCHANGED <<message, failed>>

\* The dispatcher cannot attach the files of the input whose turn it is.
Refused(i) ==
  /\ NextInput(i)
  /\ Rewritten(i, [item[i] EXCEPT !.status = "failed", !.version = @ + 1])
  /\ failed' = failed \cup {i}
  /\ UNCHANGED message

\* The dispatcher makes the input whose turn it is the next run.
Dispatched(i) ==
  /\ NextInput(i)
  /\ Rewritten(i, [item[i] EXCEPT !.status = "applied", !.version = @ + 1])
  /\ message' = Append(message, [input |-> i, content |-> item[i].content, steer |-> FALSE])
  /\ UNCHANGED failed

RowStep ==
  \/ Quiet
  \/ \E i \in Input : Born(i) \/ Edited(i) \/ Refused(i) \/ Dispatched(i)
  \/ Consume

-----------------------------------------------------------------------------
(* Types of what the operations build. *)

\* The inputs that exist are finitely many.
LEMMA CreatedFinite == IsFiniteSet(Created) /\ Cardinality(Created) \in Nat
BY FS_Subset, FS_CardinalityType, QueueConstants DEF Created

LEMMA NewRowType ==
  ASSUME NEW mode \in Mode
  PROVE  NewRow(mode) \in Row
<1>1. Cardinality(Created) + 1 \in Nat
  BY CreatedFinite
<1> QED BY <1>1 DEF NewRow, Row, Text

\* A row with another status and the next version.
LEMMA NextVersionType ==
  ASSUME NEW row \in Row, NEW status \in {"pending", "failed", "applied", "cancelled"}
  PROVE  /\ [row EXCEPT !.status = status, !.version = @ + 1] \in Row
         /\ [row EXCEPT !.status = status, !.version = @ + 1].status = status
         /\ [row EXCEPT !.status = status, !.version = @ + 1].version = row.version + 1
         /\ [row EXCEPT !.status = status, !.version = @ + 1].at = row.at
         /\ [row EXCEPT !.status = status, !.version = @ + 1].content = row.content
<1> DEFINE a == [row EXCEPT !.status = status]
           next == row.version + 1
           b == [a EXCEPT !.version = next]
<1>1. next \in Nat
  BY DEF Row
<1> HIDE DEF next
<1>2. a \in Row /\ a.status = status /\ a.at = row.at /\ a.content = row.content
  BY DEF Row
<1>3. a.version = row.version
  BY DEF Row
<1> HIDE DEF a
<1>4. b \in Row /\ b.status = status /\ b.version = next /\ b.at = row.at
        /\ b.content = row.content
  BY <1>1, <1>2 DEF Row
<1>5. b = [row EXCEPT !.status = status, !.version = @ + 1]
  BY <1>3 DEF a, next
<1> HIDE DEF b
<1> QED BY <1>4, <1>5 DEF next

LEMMA ChangedType ==
  ASSUME NEW row \in Row, NEW t \in Tab, NEW change \in {"edit", "mode", "cancel"}
  PROVE  /\ Changed(row, t, change) \in Row
         /\ Changed(row, t, change).status \in {"pending", "cancelled"}
         /\ Changed(row, t, change).version = row.version + 1
         /\ Changed(row, t, change).at = row.at
<1> DEFINE status == IF change = "cancel" THEN "cancelled" ELSE "pending"
           content == IF change = "edit" THEN t ELSE row.content
           mode == IF change = "mode" THEN (IF row.mode = "queue" THEN "steer" ELSE "queue")
                   ELSE row.mode
           next == row.version + 1
           a == [row EXCEPT !.status = status]
           b == [a EXCEPT !.content = content]
           c == [b EXCEPT !.mode = mode]
           d == [c EXCEPT !.version = next]
<1>1. status \in {"pending", "cancelled"} /\ content \in Text /\ mode \in Mode
  BY DEF Row, Text, Mode
<1>2. next \in Nat
  BY DEF Row
<1>3. a \in Row /\ a.content = row.content /\ a.status = status
        /\ a.mode = row.mode /\ a.version = row.version /\ a.at = row.at
  BY <1>1 DEF Row
<1>4. b \in Row /\ b.status = a.status
        /\ b.mode = a.mode /\ b.version = a.version /\ b.at = a.at
  <2> HIDE DEF a, content
  <2> QED BY <1>1, <1>3 DEF Row
<1>5. c \in Row /\ c.status = b.status /\ c.version = b.version /\ c.at = b.at
  <2> HIDE DEF a, b, mode
  <2> QED BY <1>1, <1>4 DEF Row
<1>6. d \in Row /\ d.status = c.status /\ d.version = next /\ d.at = c.at
  <2> HIDE DEF a, b, c, next
  <2> QED BY <1>2, <1>5 DEF Row
<1>7. Changed(row, t, change) = d
  <2>1. Changed(row, t, change) =
          [row EXCEPT !.status = status,
                      !.content = IF change = "edit" THEN t ELSE a.content,
                      !.mode = IF change = "mode"
                               THEN (IF b.mode = "queue" THEN "steer" ELSE "queue")
                               ELSE b.mode,
                      !.version = c.version + 1]
    BY DEF Changed
  <2> QED BY <2>1, <1>3, <1>4, <1>5
<1> HIDE DEF d, next
<1> QED BY <1>1, <1>3, <1>4, <1>5, <1>6, <1>7 DEF next

LEMMA RequestType ==
  ASSUME NEW r \in Requests
  PROVE  /\ r.kind = "create" => r.input \in Input /\ r.mode \in Mode
         /\ r.kind = "change" => /\ r.input \in Input
                                 /\ r.key \in Tab \X Nat
                                 /\ r.change \in {"edit", "mode", "cancel"}
BY DEF Requests, Idle

LEMMA TabRequest ==
  ASSUME TypeOK, NEW t \in Tab
  PROVE  tab[t].request \in Requests
BY DEF TypeOK

-----------------------------------------------------------------------------
(* Every step has one of the shapes. *)

LEMMA InsertedShape ==
  ASSUME TypeOK, NEW i \in Input, NEW mode \in Mode, Remember,
         item' = [item EXCEPT ![i] = Inserted(i, mode)], UNCHANGED <<message, failed>>
  PROVE  RowStep
<1>1. CASE item[i].status = "absent" /\ Cardinality(OpenInputs) < Limit
  BY <1>1 DEF Inserted, Born, Rewritten, RowStep
<1>2. CASE ~(item[i].status = "absent" /\ Cardinality(OpenInputs) < Limit)
  <2>1. item' = item
    BY <1>2 DEF Inserted, TypeOK
  <2> QED BY <2>1 DEF Quiet, RowStep
<1> QED BY <1>1, <1>2

LEMMA ChangeShape ==
  ASSUME TypeOK, NEW t \in Tab, Change(t)
  PROVE  RowStep
<1> DEFINE request == tab[t].request
           row == item[request.input]
<1>1. request.input \in Input /\ request.change \in {"edit", "mode", "cancel"}
  BY TabRequest, RequestType DEF Change
<1>2. UNCHANGED <<message, failed>> /\ Remember
  BY DEF Change, Answer
<1>3. CASE UNCHANGED item
  BY <1>2, <1>3 DEF Quiet, RowStep
<1>4. CASE /\ row.status \in {"pending", "failed"}
           /\ item' = [item EXCEPT ![request.input] = Changed(row, t, request.change)]
  <2>1. row \in Row
    BY <1>1 DEF TypeOK
  <2>2. Edited(request.input)
    BY <1>1, <1>2, <1>4, <2>1, ChangedType DEF Edited, Rewritten
  <2> QED BY <1>1, <2>2 DEF RowStep
<1> QED BY <1>3, <1>4 DEF Change

LEMMA DispatchShape ==
  ASSUME TypeOK, Dispatch
  PROVE  RowStep
<1>1. PICK i \in Input :
        /\ NextInput(i)
        /\ \/ /\ item' = Applied(item, {i})
              /\ message' = Append(message, [input |-> i, content |-> item[i].content,
                                             steer |-> FALSE])
              /\ UNCHANGED failed
           \/ /\ item' = [item EXCEPT ![i].status = "failed", ![i].version = @ + 1]
              /\ failed' = failed \cup {i}
              /\ UNCHANGED message
  BY DEF Dispatch
<1>2. Remember
  BY DEF Dispatch
<1>3. CASE item' = Applied(item, {i}) /\ UNCHANGED failed
           /\ message' = Append(message, [input |-> i, content |-> item[i].content,
                                          steer |-> FALSE])
  <2>1. item' = [item EXCEPT ![i] = [item[i] EXCEPT !.status = "applied", !.version = @ + 1]]
    BY <1>3 DEF Applied, TypeOK
  <2> QED BY <1>1, <1>2, <1>3, <2>1 DEF Dispatched, Rewritten, RowStep
<1>4. CASE /\ item' = [item EXCEPT ![i].status = "failed", ![i].version = @ + 1]
           /\ failed' = failed \cup {i}
           /\ UNCHANGED message
  <2>1. item' = [item EXCEPT ![i] = [item[i] EXCEPT !.status = "failed", !.version = @ + 1]]
    BY <1>4 DEF TypeOK, Row
  <2> QED BY <1>1, <1>2, <1>4, <2>1 DEF Refused, Rewritten, RowStep
<1> QED BY <1>1, <1>3, <1>4

LEMMA StepShape ==
  ASSUME TypeOK, [Next]_vars
  PROVE  RowStep
<1>1. ASSUME NEW t \in Tab, TabStep(t)
      PROVE  RowStep
  <2>1. CASE Create(t)
    <3>1. tab[t].request.input \in Input /\ tab[t].request.mode \in Mode
      BY <2>1, TabRequest, RequestType DEF Create
    <3>2. UNCHANGED <<message, failed>> /\ Remember
      BY <2>1 DEF Create, Answer
    <3>3. item' = [item EXCEPT ![tab[t].request.input] =
                     Inserted(tab[t].request.input, tab[t].request.mode)]
      BY <2>1 DEF Create
    <3> QED BY <3>1, <3>2, <3>3, InsertedShape
  <2>2. CASE Change(t)
    BY <2>2, ChangeShape
  <2>3. CASE ~Create(t) /\ ~Change(t)
    <3>1. CASE Receive(t)
      BY <3>1, Zenon DEF Receive, Quiet, RowStep
    <3>2. ASSUME NEW request, Ask(t, request) PROVE RowStep
      BY <3>2, Zenon DEF Ask, Quiet, RowStep
    <3>3. ~Receive(t) => \E request : Ask(t, request)
      BY <1>1, <2>3, Zenon DEF TabStep, AskCreate, AskChange
    <3> QED BY <3>1, <3>2, <3>3
  <2> QED BY <2>1, <2>2, <2>3
<1>2. ASSUME NEW i \in Input, NEW mode \in Mode, CreateAgain(i, mode)
      PROVE  RowStep
  BY <1>2, InsertedShape DEF CreateAgain
<1>3. CASE Dispatch
  BY <1>3, DispatchShape
<1>4. CASE Consume
  BY <1>4 DEF RowStep
<1>5. CASE RunEnds \/ UserRun \/ UNCHANGED vars
  BY <1>5 DEF RunEnds, UserRun, vars, Quiet, RowStep
<1> QED BY <1>1, <1>2, <1>3, <1>4, <1>5 DEF Next

-----------------------------------------------------------------------------
(* Type correctness. *)

\* Remembering the rows keeps the memory a set of rows.
LEMMA RememberType ==
  ASSUME past \in [Input -> SUBSET Row], item' \in [Input -> Row], Remember
  PROVE  past' \in [Input -> SUBSET Row]
BY DEF Remember

LEMMA RewrittenType ==
  ASSUME TableType, NEW i \in Input, NEW row \in Row, Rewritten(i, row)
  PROVE  /\ item' \in [Input -> Row] /\ past' \in [Input -> SUBSET Row]
         /\ item'[i] = row /\ \A j \in Input : j # i => item'[j] = item[j]
<1>1. item' \in [Input -> Row]
  BY DEF TableType, Rewritten
<1> QED BY <1>1, RememberType DEF TableType, Rewritten

\* What consume does: the steers are applied, and each becomes a message of its own.
LEMMA ConsumeEffect ==
  ASSUME TableType, Consume
  PROVE  /\ item' \in [Input -> Row] /\ past' \in [Input -> SUBSET Row]
         /\ \A j \in Input \ Steers : item'[j] = item[j]
         /\ \A j \in Steers : /\ item[j].status = "pending" /\ item'[j].status = "applied"
                              /\ item'[j].version = item[j].version + 1
                              /\ item'[j].at = item[j].at
                              /\ item'[j].content = item[j].content
         /\ message' \in Seq(Sentence)
         /\ Len(message') >= Len(message)
         /\ \A n \in 1..Len(message) : message'[n] = message[n]
         /\ \A n \in 1..Len(message') : n > Len(message) =>
              /\ message'[n].input \in Steers
              /\ message'[n].content = item[message'[n].input].content
              /\ message'[n].steer
<1>1. \A j \in Steers : j \in Input /\ item[j].status = "pending" /\ item[j] \in Row
  BY DEF Steers, Pending, TableType
<1>2. \A j \in Input \ Steers : item'[j] = item[j]
  BY DEF Consume, Applied
<1>3. \A j \in Steers : item'[j] = [item[j] EXCEPT !.status = "applied", !.version = @ + 1]
  BY <1>1 DEF Consume, Applied
<1>4. \A j \in Steers : /\ item'[j] \in Row /\ item'[j].status = "applied"
                        /\ item'[j].version = item[j].version + 1
                        /\ item'[j].at = item[j].at
                        /\ item'[j].content = item[j].content
  <2> TAKE j \in Steers
  <2> DEFINE row == item[j]
             taken == [row EXCEPT !.status = "applied", !.version = @ + 1]
  <2>1. row \in Row
    BY <1>1
  <2>2. item'[j] = taken
    BY <1>3
  <2> HIDE DEF row
  <2>3. /\ taken \in Row /\ taken.status = "applied" /\ taken.version = row.version + 1
        /\ taken.at = row.at /\ taken.content = row.content
    BY <2>1, NextVersionType
  <2> QED BY <2>2, <2>3 DEF row
<1>5. item' \in [Input -> Row]
  <2>1. item' = [j \in Input |-> item'[j]]
    BY DEF Consume, Applied
  <2>2. \A j \in Input : item'[j] \in Row
    BY <1>2, <1>4 DEF TableType
  <2> QED BY <2>1, <2>2
<1>6. past' \in [Input -> SUBSET Row]
  BY <1>5, RememberType DEF Consume, TableType
<1>7. PICK order \in [1..Cardinality(Steers) -> Steers] :
        message' = message \o [n \in DOMAIN order |->
          [input |-> order[n], content |-> item[order[n]].content, steer |-> TRUE]]
  BY DEF Consume
<1> DEFINE new == [n \in DOMAIN order |->
             [input |-> order[n], content |-> item[order[n]].content, steer |-> TRUE]]
<1>8. Cardinality(Steers) \in Nat
  BY FS_Subset, FS_CardinalityType, QueueConstants DEF Steers, Pending
<1>9. \A n \in 1..Cardinality(Steers) :
        /\ new[n] \in Sentence
        /\ new[n].input \in Steers /\ new[n].steer
        /\ new[n].content = item[new[n].input].content
  BY <1>1 DEF Sentence, Row
<1>10. new \in Seq(Sentence) /\ Len(new) = Cardinality(Steers)
  <2>1. new \in [1..Cardinality(Steers) -> Sentence]
    BY <1>9
  <2> HIDE DEF new
  <2> QED BY <2>1, <1>8, IsASeq, LenProperties
<1> HIDE DEF new
<1>11. message' = message \o new /\ message \in Seq(Sentence)
  BY <1>7 DEF new, TableType
<1>12. /\ message' \in Seq(Sentence) /\ Len(message') = Len(message) + Len(new)
       /\ \A n \in 1..Len(message) : message'[n] = message[n]
       /\ \A n \in 1..Len(message') : n > Len(message) => message'[n] = new[n - Len(message)]
  BY <1>10, <1>11, ConcatProperties, LenProperties
<1>13. Len(message) \in Nat /\ Len(message') \in Nat /\ Len(new) \in Nat
  BY <1>10, <1>11, <1>12, LenProperties
<1>14. ASSUME NEW n \in 1..Len(message'), n > Len(message)
       PROVE  /\ message'[n].input \in Steers
              /\ message'[n].content = item[message'[n].input].content
              /\ message'[n].steer
  <2>1. n - Len(message) \in 1..Cardinality(Steers)
    BY <1>10, <1>12, <1>13, <1>14
  <2> QED BY <2>1, <1>9, <1>12, <1>14
<1> QED BY <1>1, <1>2, <1>4, <1>5, <1>6, <1>12, <1>13, <1>14

\* What a dispatch does to the messages.
LEMMA DispatchedEffect ==
  ASSUME TableType, NEW i \in Input, Dispatched(i)
  PROVE  /\ item'[i] \in Row /\ item'[i].status = "applied"
         /\ item'[i].version = item[i].version + 1
         /\ item'[i].at = item[i].at
         /\ item'[i].content = item[i].content
         /\ item' \in [Input -> Row] /\ past' \in [Input -> SUBSET Row]
         /\ \A j \in Input : j # i => item'[j] = item[j]
         /\ message' \in Seq(Sentence)
         /\ Len(message) \in Nat /\ Len(message') = Len(message) + 1
         /\ \A n \in 1..Len(message) : message'[n] = message[n]
         /\ message'[Len(message) + 1] =
              [input |-> i, content |-> item[i].content, steer |-> FALSE]
<1> DEFINE row == [item[i] EXCEPT !.status = "applied", !.version = @ + 1]
<1>1. item[i] \in Row
  BY DEF TableType
<1>2. /\ row \in Row /\ row.status = "applied" /\ row.version = item[i].version + 1
      /\ row.at = item[i].at /\ row.content = item[i].content
  BY <1>1, NextVersionType
<1>3. Rewritten(i, row)
  BY DEF Dispatched
<1> HIDE DEF row
<1>4. [input |-> i, content |-> item[i].content, steer |-> FALSE] \in Sentence
  BY <1>1 DEF Sentence, Row
<1>5. /\ message \in Seq(Sentence)
      /\ message' = Append(message, [input |-> i, content |-> item[i].content,
                                     steer |-> FALSE])
  BY DEF Dispatched, TableType
<1>6. /\ message' \in Seq(Sentence)
      /\ Len(message) \in Nat /\ Len(message') = Len(message) + 1
      /\ \A n \in 1..Len(message) : message'[n] = message[n]
      /\ message'[Len(message) + 1] =
           [input |-> i, content |-> item[i].content, steer |-> FALSE]
  BY <1>4, <1>5, AppendProperties, LenProperties
<1> QED BY <1>2, <1>3, <1>6, RewrittenType

\* What a refusal does.
LEMMA RefusedEffect ==
  ASSUME TableType, NEW i \in Input, Refused(i)
  PROVE  /\ item'[i] \in Row /\ item'[i].status = "failed"
         /\ item'[i].version = item[i].version + 1
         /\ item'[i].at = item[i].at
         /\ item' \in [Input -> Row] /\ past' \in [Input -> SUBSET Row]
         /\ \A j \in Input : j # i => item'[j] = item[j]
<1> DEFINE row == [item[i] EXCEPT !.status = "failed", !.version = @ + 1]
<1>1. item[i] \in Row
  BY DEF TableType
<1>2. /\ row \in Row /\ row.status = "failed" /\ row.version = item[i].version + 1
      /\ row.at = item[i].at
  BY <1>1, NextVersionType
<1>3. Rewritten(i, row)
  BY DEF Refused
<1> HIDE DEF row
<1> QED BY <1>2, <1>3, RewrittenType

\* What a creation does.
LEMMA BornEffect ==
  ASSUME TableType, NEW i \in Input, Born(i)
  PROVE  /\ item'[i] \in Row /\ item'[i].status = "pending"
         /\ item'[i].version = 1
         /\ item'[i].at = Cardinality(Created) + 1
         /\ item' \in [Input -> Row] /\ past' \in [Input -> SUBSET Row]
         /\ \A j \in Input : j # i => item'[j] = item[j]
         /\ UNCHANGED <<message, failed>>
<1>1. PICK mode \in Mode : Rewritten(i, NewRow(mode))
  BY DEF Born
<1>2. NewRow(mode) \in Row
  BY NewRowType
<1>3. /\ NewRow(mode).status = "pending" /\ NewRow(mode).version = 1
      /\ NewRow(mode).at = Cardinality(Created) + 1
  BY DEF NewRow
<1> QED BY <1>1, <1>2, <1>3, RewrittenType DEF Born

\* What a change does.
LEMMA EditedEffect ==
  ASSUME TableType, NEW i \in Input, Edited(i)
  PROVE  /\ item[i].status \in {"pending", "failed"}
         /\ item'[i] \in Row /\ item'[i].status \in {"pending", "cancelled"}
         /\ item'[i].version = item[i].version + 1
         /\ item'[i].at = item[i].at
         /\ item' \in [Input -> Row] /\ past' \in [Input -> SUBSET Row]
         /\ \A j \in Input : j # i => item'[j] = item[j]
         /\ UNCHANGED <<message, failed>>
BY RewrittenType DEF Edited

LEMMA TableTypeNext ==
  ASSUME TableType, RowStep
  PROVE  TableType'
<1>1. CASE Quiet
  BY <1>1, RememberType DEF Quiet, TableType
<1>2. ASSUME NEW i \in Input, Born(i) \/ Edited(i) \/ Refused(i) \/ Dispatched(i)
      PROVE  TableType'
  <2>1. failed' \in SUBSET Input
    BY <1>2 DEF Born, Edited, Refused, Dispatched, TableType
  <2>2. item' \in [Input -> Row] /\ past' \in [Input -> SUBSET Row]
    BY <1>2, BornEffect, EditedEffect, RefusedEffect, DispatchedEffect
  <2>3. message' \in Seq(Sentence)
    BY <1>2, DispatchedEffect DEF Born, Edited, Refused, TableType
  <2> QED BY <2>1, <2>2, <2>3 DEF TableType
<1>3. CASE Consume
  <2>1. failed' \in SUBSET Input
    BY <1>3 DEF Consume, TableType
  <2> QED BY <1>3, <2>1, ConsumeEffect DEF TableType
<1> QED BY <1>1, <1>2, <1>3 DEF RowStep

\* The part of the types that the tabs and the runs make up.
TabType ==
  /\ mutation \subseteq Tab \X Nat
  /\ active \in BOOLEAN
  /\ runs \in Nat
  /\ tab \in [Tab -> [request : Requests, answer : {"none", "ok", "full", "conflict"},
                      changes : Nat]]

LEMMA TypeParts == TypeOK <=> TableType /\ TabType
BY DEF TypeOK, TableType, TabType, Sentence

LEMMA AskType ==
  ASSUME TypeOK, NEW t \in Tab, NEW request \in Requests, Ask(t, request)
  PROVE  TabType'
<1> DEFINE more == tab[t].changes + (IF request.kind = "change" THEN 1 ELSE 0)
           a == [tab[t] EXCEPT !.request = request]
           b == [a EXCEPT !.answer = "none"]
           c == [b EXCEPT !.changes = more]
           Entry == [request : Requests, answer : {"none", "ok", "full", "conflict"},
                     changes : Nat]
<1>1. tab[t] \in Entry /\ more \in Nat
  BY DEF TypeOK
<1>2. c \in Entry
  <2> HIDE DEF more
  <2>1. a \in Entry
    BY <1>1
  <2> HIDE DEF a
  <2>2. b \in Entry
    BY <2>1
  <2> HIDE DEF b
  <2> QED BY <1>1, <2>2
<1>3. tab' = [tab EXCEPT ![t] = c]
  BY DEF Ask, TypeOK
<1> HIDE DEF c
<1>4. tab' \in [Tab -> Entry]
  <2>1. tab \in [Tab -> Entry]
    BY DEF TypeOK
  <2> HIDE DEF Entry
  <2> QED BY <1>2, <1>3, <2>1
<1>5. mutation' = mutation /\ active' = active /\ runs' = runs
  BY DEF Ask
<1> QED BY <1>4, <1>5 DEF TypeOK, TabType

LEMMA AskCreateType ==
  ASSUME TypeOK, NEW t \in Tab, NEW i \in Input, NEW mode \in Mode, AskCreate(t, i, mode)
  PROVE  TabType'
BY AskType DEF AskCreate, Requests

LEMMA AskChangeType ==
  ASSUME TypeOK, NEW t \in Tab, NEW i \in Input, NEW change \in {"edit", "mode", "cancel"},
         AskChange(t, i, change)
  PROVE  TabType'
<1>1. PICK shown \in past[i] :
        Ask(t, [kind |-> "change", input |-> i, version |-> shown.version,
                key |-> <<t, tab[t].changes + 1>>, change |-> change])
  BY DEF AskChange
<1>2. shown.version \in Nat /\ tab[t].changes + 1 \in Nat
  BY DEF TypeOK, Row
<1>3. [kind |-> "change", input |-> i, version |-> shown.version,
       key |-> <<t, tab[t].changes + 1>>, change |-> change] \in Requests
  BY <1>2 DEF Requests
<1> QED BY <1>1, <1>3, AskType

\* An answer changes nothing else of the tab.
LEMMA AnswerType ==
  ASSUME TypeOK, NEW t \in Tab, NEW answer \in {"none", "ok", "full", "conflict"},
         tab' = [tab EXCEPT ![t].answer = answer]
  PROVE  tab' \in [Tab -> [request : Requests, answer : {"none", "ok", "full", "conflict"},
                          changes : Nat]]
BY DEF TypeOK

LEMMA ReceiveType ==
  ASSUME TypeOK, NEW t \in Tab, Receive(t)
  PROVE  TabType'
<1>1. CASE tab' = [tab EXCEPT ![t].answer = "none"]
  BY <1>1, AnswerType DEF Receive, TypeOK, TabType
<1>2. CASE tab' = [tab EXCEPT ![t].request = Idle, ![t].answer = "none"]
  <2> DEFINE a == [tab EXCEPT ![t].request = Idle]
  <2>1. Idle \in Requests
    BY DEF Requests
  <2>2. a \in [Tab -> [request : Requests, answer : {"none", "ok", "full", "conflict"},
                      changes : Nat]]
    BY <2>1 DEF TypeOK
  <2>3. tab' = [a EXCEPT ![t].answer = "none"]
    BY <1>2
  <2> HIDE DEF a
  <2>4. tab' \in [Tab -> [request : Requests, answer : {"none", "ok", "full", "conflict"},
                         changes : Nat]]
    BY <2>2, <2>3
  <2> QED BY <2>4 DEF Receive, TypeOK, TabType
<1> QED BY <1>1, <1>2 DEF Receive

LEMMA TabTypeNext ==
  ASSUME TypeOK, [Next]_vars
  PROVE  TabType'
<1>1. ASSUME NEW t \in Tab, TabStep(t)
      PROVE  TabType'
  <2>1. CASE Receive(t) \/ \E i \in Input, mode \in Mode : AskCreate(t, i, mode)
    BY <2>1, ReceiveType, AskCreateType
  <2>2. CASE \E i \in Input, change \in {"edit", "mode", "cancel"} : AskChange(t, i, change)
    BY <2>2, AskChangeType
  <2>3. CASE Create(t)
    <3>1. PICK answer \in {"none", "ok", "full", "conflict"} : Answer(t, answer)
      BY <2>3 DEF Create
    <3> QED BY <2>3, <3>1, AnswerType DEF Create, Answer, TypeOK, TabType
  <2>4. CASE Change(t)
    <3>1. PICK answer \in {"none", "ok", "full", "conflict"} : Answer(t, answer)
      BY <2>4 DEF Change
    <3>2. tab[t].request.key \in Tab \X Nat
      BY <2>4, TabRequest, RequestType DEF Change
    <3>3. mutation' \subseteq Tab \X Nat
      BY <2>4, <3>2 DEF Change, TypeOK
    <3> QED BY <3>1, <3>3, AnswerType DEF Answer, TypeOK, TabType
  <2> QED BY <1>1, <2>1, <2>2, <2>3, <2>4 DEF TabStep
<1>2. CASE \E i \in Input, mode \in Mode : CreateAgain(i, mode)
  BY <1>2 DEF CreateAgain, TypeOK, TabType
<1>3. CASE Dispatch
  BY <1>3 DEF Dispatch, TypeOK, TabType
<1>4. CASE Consume
  BY <1>4 DEF Consume, TypeOK, TabType
<1>5. CASE RunEnds
  BY <1>5 DEF RunEnds, TypeOK, TabType
<1>6. CASE UserRun
  BY <1>6 DEF UserRun, TypeOK, TabType
<1>7. CASE UNCHANGED vars
  BY <1>7 DEF vars, TypeOK, TabType
<1> QED BY <1>1, <1>2, <1>3, <1>4, <1>5, <1>6, <1>7 DEF Next

LEMMA TypeInit == Init => TypeOK
<1>1. Absent \in Row
  BY DEF Absent, Row, Mode, Text
<1>2. Idle \in Requests
  BY DEF Requests
<1> QED BY <1>1, <1>2 DEF Init, TypeOK

LEMMA TypeNext ==
  ASSUME TypeOK, [Next]_vars
  PROVE  TypeOK'
BY StepShape, TableTypeNext, TabTypeNext, TypeParts DEF TypeOK, TableType, TabType, Sentence

\* Rows, messages, remembered rows and requests have the types the code gives them.
THEOREM TypeCorrect == Spec => []TypeOK
BY TypeInit, TypeNext, PTL DEF Spec

-----------------------------------------------------------------------------
(* Decisions. *)

LEMMA DecidedStays ==
  ASSUME TypeOK, RowStep, NEW i \in Input, item[i].status \in {"applied", "cancelled"}
  PROVE  item'[i] = item[i]
<1>1. TableType
  BY TypeParts
<1>2. CASE Quiet
  BY <1>2 DEF Quiet
<1>3. ASSUME NEW j \in Input, Born(j) \/ Edited(j) \/ Refused(j) \/ Dispatched(j)
      PROVE  item'[i] = item[i]
  <2>1. item[j].status \notin {"applied", "cancelled"}
    BY <1>3 DEF Born, Edited, Refused, Dispatched, NextInput, Pending
  <2> QED BY <1>1, <1>3, <2>1, BornEffect, EditedEffect, RefusedEffect, DispatchedEffect
<1>4. CASE Consume
  <2>1. i \notin Steers
    BY DEF Steers, Pending
  <2> QED BY <1>1, <1>4, <2>1, ConsumeEffect
<1> QED BY <1>2, <1>3, <1>4 DEF RowStep

\* An input that was sent or cancelled is never changed again: not by a request that is
\* repeated or comes late, nor by a dispatcher that read it before.
THEOREM DecisionsCorrect == Spec => DecisionsLast
<1>1. TypeOK /\ [Next]_vars =>
        [\A i \in Input : item[i].status \in {"applied", "cancelled"} => item'[i] = item[i]]_vars
  BY StepShape, DecidedStays
<1> QED BY <1>1, TypeCorrect, PTL DEF Spec, DecisionsLast

-----------------------------------------------------------------------------
(* What is sent. *)

\* A row that was seen in one version is the row of that version; the row before the sent one
\* could be sent and has its text.
PastRow(i) ==
  /\ item[i].status = "absent" => item[i].version = 0
  /\ \A shown \in past[i] :
       /\ shown.version <= item[i].version
       /\ shown.version = item[i].version => shown = item[i]
       /\ (item[i].status = "applied" /\ shown.version = item[i].version - 1
            /\ shown.version > 0)
            => shown.status \in {"pending", "failed"} /\ shown.content = item[i].content

\* Messages come from applied rows and have their text.
SentRow(i) ==
  \A n \in 1..Len(message) : message[n].input = i =>
    item[i].status = "applied" /\ message[n].content = item[i].content

PastInv == \A i \in Input : PastRow(i) /\ SentRow(i)

\* A row that is kept keeps its memory.
LEMMA PastKept ==
  ASSUME TableType, Quiet \/ Remember, NEW i \in Input, PastRow(i), item'[i] = item[i]
  PROVE  PastRow(i)'
<1>1. \A shown \in past'[i] : shown \in past[i] \/ shown = item[i]
  BY DEF TableType, Quiet, Remember
<1>2. item[i].version \in Nat /\ \A shown \in past[i] : shown.version \in Nat
  BY DEF TableType, Row
<1> QED BY <1>1, <1>2 DEF PastRow

\* A change takes the next version; what becomes applied was pending with the same text.
LEMMA PastChanged ==
  ASSUME TableType, Remember, NEW i \in Input, PastRow(i),
         item'[i] \in Row, item'[i].status # "absent",
         item'[i].version = item[i].version + 1,
         item'[i].status = "applied" => /\ item[i].status = "pending"
                                        /\ item'[i].content = item[i].content
  PROVE  PastRow(i)'
<1>1. \A shown \in past'[i] : shown \in past[i] \/ shown = item'[i]
  BY DEF Remember
<1>2. /\ item[i].version \in Nat /\ item'[i].version \in Nat
      /\ \A shown \in past[i] : shown.version \in Nat
  BY DEF TableType, Row
<1>3. ASSUME NEW shown \in past[i]
      PROVE  /\ shown.version < item'[i].version
             /\ shown.version = item'[i].version - 1 => shown = item[i]
  BY <1>2 DEF PastRow
<1>4. ASSUME NEW shown \in past'[i]
      PROVE  /\ shown.version <= item'[i].version
             /\ shown.version = item'[i].version => shown = item'[i]
             /\ (item'[i].status = "applied" /\ shown.version = item'[i].version - 1)
                  => shown.status \in {"pending", "failed"} /\ shown.content = item'[i].content
  <2>1. CASE shown \in past[i]
    BY <1>2, <1>3, <2>1
  <2>2. CASE shown = item'[i]
    BY <1>2, <2>2
  <2> QED BY <1>1, <2>1, <2>2
<1> QED BY <1>4 DEF PastRow

LEMMA PastRowNext ==
  ASSUME TableType, PastInv, RowStep, NEW i \in Input
  PROVE  PastRow(i)'
<1>1. PastRow(i)
  BY DEF PastInv
<1>2. CASE Quiet
  BY <1>1, <1>2, PastKept DEF Quiet
<1>3. ASSUME NEW j \in Input, Born(j) \/ Edited(j) \/ Refused(j) \/ Dispatched(j)
      PROVE  PastRow(i)'
  <2>1. Remember
    BY <1>3 DEF Born, Edited, Refused, Dispatched, Rewritten
  <2>2. CASE i # j
    <3>1. item'[i] = item[i]
      BY <1>3, <2>2, BornEffect, EditedEffect, RefusedEffect, DispatchedEffect
    <3> QED BY <1>1, <2>1, <3>1, PastKept
  <2>3. CASE i = j /\ Born(j)
    <3>1. item[i].version = 0
      BY <1>1, <2>3 DEF Born, PastRow
    <3>2. /\ item'[i] \in Row /\ item'[i].status = "pending"
          /\ item'[i].version = item[i].version + 1
      BY <2>3, <3>1, BornEffect
    <3> QED BY <1>1, <2>1, <3>2, PastChanged
  <2>4. CASE i = j /\ Edited(j)
    <3>1. /\ item'[i] \in Row /\ item'[i].status \in {"pending", "cancelled"}
          /\ item'[i].version = item[i].version + 1
      BY <2>4, EditedEffect
    <3> QED BY <1>1, <2>1, <3>1, PastChanged
  <2>5. CASE i = j /\ Refused(j)
    <3>1. /\ item'[i] \in Row /\ item'[i].status = "failed"
          /\ item'[i].version = item[i].version + 1
      BY <2>5, RefusedEffect
    <3> QED BY <1>1, <2>1, <3>1, PastChanged
  <2>6. CASE i = j /\ Dispatched(j)
    <3>1. item[i].status = "pending"
      BY <2>6 DEF Dispatched, NextInput, Pending
    <3>2. /\ item'[i] \in Row /\ item'[i].status = "applied"
          /\ item'[i].version = item[i].version + 1
          /\ item'[i].content = item[i].content
      BY <2>6, DispatchedEffect
    <3> QED BY <1>1, <2>1, <3>1, <3>2, PastChanged
  <2> QED BY <1>3, <2>2, <2>3, <2>4, <2>5, <2>6
<1>4. CASE Consume
  <2>1. Remember
    BY <1>4 DEF Consume
  <2>2. CASE i \in Steers
    <3>1. item'[i] \in Row
      BY <1>4, ConsumeEffect
    <3> QED BY <1>1, <1>4, <2>1, <2>2, <3>1, ConsumeEffect, PastChanged
  <2>3. CASE i \notin Steers
    BY <1>1, <1>4, <2>1, <2>3, ConsumeEffect, PastKept
  <2> QED BY <2>2, <2>3
<1> QED BY <1>2, <1>3, <1>4 DEF RowStep

\* The messages only grow, at the end.
LEMMA SentRowNext ==
  ASSUME TypeOK, PastInv, RowStep, NEW i \in Input
  PROVE  SentRow(i)'
<1> DEFINE Old(n) == /\ n \in 1..Len(message)
                     /\ message'[n] = message[n]
<1>1. TableType
  BY TypeParts
<1>2. ASSUME NEW n, Old(n), message'[n].input = i
      PROVE  item'[i].status = "applied" /\ message'[n].content = item'[i].content
  <2>1. item[i].status = "applied" /\ message'[n].content = item[i].content
    BY <1>2 DEF PastInv, SentRow
  <2> QED BY <2>1, DecidedStays
<1>3. CASE Quiet \/ \E j \in Input : Born(j) \/ Edited(j) \/ Refused(j)
  <2>1. UNCHANGED message
    BY <1>3 DEF Quiet, Born, Edited, Refused
  <2> QED BY <1>2, <2>1 DEF SentRow
<1>4. ASSUME NEW j \in Input, Dispatched(j)
      PROVE  SentRow(i)'
  <2>1. /\ Len(message) \in Nat /\ Len(message') = Len(message) + 1
        /\ \A n \in 1..Len(message) : message'[n] = message[n]
        /\ message'[Len(message) + 1] =
             [input |-> j, content |-> item[j].content, steer |-> FALSE]
        /\ item'[j].status = "applied" /\ item'[j].content = item[j].content
    BY <1>1, <1>4, DispatchedEffect
  <2>2. \A n \in 1..Len(message') : Old(n) \/ n = Len(message) + 1
    BY <2>1
  <2>3. /\ message'[Len(message) + 1].input = j
        /\ message'[Len(message) + 1].content = item'[j].content
        /\ item'[j].status = "applied"
    BY <2>1
  <2> QED BY <1>2, <2>2, <2>3 DEF SentRow
<1>5. CASE Consume
  <2>1. \A n \in 1..Len(message') :
          \/ Old(n)
          \/ /\ message'[n].input \in Steers
             /\ message'[n].content = item'[message'[n].input].content
             /\ item'[message'[n].input].status = "applied"
    <3>1. Len(message) \in Nat /\ Len(message') \in Nat
      BY <1>1, <1>5, ConsumeEffect, LenProperties DEF TableType
    <3>2. ASSUME NEW n \in 1..Len(message')
          PROVE  Old(n) \/ n > Len(message)
      BY <1>1, <1>5, <3>1, ConsumeEffect
    <3> QED BY <1>1, <1>5, <3>2, ConsumeEffect
  <2> QED BY <1>2, <2>1 DEF SentRow
<1> QED BY <1>3, <1>4, <1>5 DEF RowStep

LEMMA PastInit == Init => PastInv
BY EmptySeq DEF Init, PastInv, PastRow, SentRow, Absent

LEMMA PastNext ==
  ASSUME TypeOK, PastInv, [Next]_vars
  PROVE  PastInv'
BY StepShape, TypeParts, PastRowNext, SentRowNext DEF PastInv

LEMMA PastCorrect == Spec => []PastInv
BY PastInit, PastNext, TypeCorrect, PTL DEF Spec

\* Two tabs that show the same version show the same row, and what is sent is the row that
\* was shown before: no change is lost between the tab and the model.
THEOREM SentCorrect == Spec => []SentAsShown
<1>1. TypeOK /\ PastInv => SentAsShown
  <2> SUFFICES ASSUME TypeOK, PastInv, NEW i \in Input, NEW shown \in past[i]
               PROVE  /\ shown.version = item[i].version => shown = item[i]
                      /\ (item[i].status = "applied" /\ shown.version = item[i].version - 1
                           /\ shown.version > 0)
                           => /\ shown.status \in {"pending", "failed"}
                              /\ \A n \in Sent(i) : message[n].content = shown.content
    BY DEF SentAsShown
  <2>1. PastRow(i) /\ SentRow(i)
    BY DEF PastInv
  <2>2. \A n \in Sent(i) : n \in 1..Len(message) /\ message[n].input = i
    BY LenProperties DEF Sent, TypeOK
  <2> QED BY <2>1, <2>2 DEF PastRow, SentRow
<1> QED BY <1>1, TypeCorrect, PastCorrect, PTL

-----------------------------------------------------------------------------
(* The order in which inputs are sent. *)

Decided(i) == item[i].status \in {"applied", "cancelled"}

\* When an input is sent as a run, every older one is decided, or has failed at some time.
SentInTurn(m) ==
  \A i \in Created :
    (item[i].at < item[message[m].input].at /\ i \notin failed)
      => Decided(i) /\ \A n \in 1..Len(message) : message[n].input = i => n < m

OrderInv ==
  /\ \A i \in Created : item[i].at <= Cardinality(Created)
  /\ \A i \in Input : item[i].status = "failed" => i \in failed
  /\ \A m \in 1..Len(message) : ~message[m].steer => SentInTurn(m)

\* Inputs do not vanish and keep their place.
LEMMA CreatedStays ==
  ASSUME TypeOK, RowStep, NEW i \in Created
  PROVE  i \in Created' /\ item'[i].at = item[i].at
<1>1. TableType /\ i \in Input /\ item[i].status # "absent"
  BY TypeParts DEF Created
<1>2. CASE Quiet
  BY <1>1, <1>2 DEF Quiet, Created
<1>3. ASSUME NEW j \in Input, Born(j) \/ Edited(j) \/ Refused(j) \/ Dispatched(j)
      PROVE  item'[i].status # "absent" /\ item'[i].at = item[i].at
  <2>1. CASE i # j
    BY <1>1, <1>3, <2>1, BornEffect, EditedEffect, RefusedEffect, DispatchedEffect
  <2>2. CASE i = j /\ ~Born(j)
    BY <1>1, <1>3, <2>2, EditedEffect, RefusedEffect, DispatchedEffect
  <2>3. CASE i = j /\ Born(j)
    BY <1>1, <2>3 DEF Born
  <2> QED BY <1>3, <2>1, <2>2, <2>3
<1>4. CASE Consume
  <2>1. item'[i].status # "absent" /\ item'[i].at = item[i].at
    BY <1>1, <1>4, ConsumeEffect
  <2> QED BY <1>1, <2>1 DEF Created
<1> QED BY <1>1, <1>2, <1>3, <1>4 DEF RowStep, Created

\* The only input that can be new takes the place behind all others.
LEMMA CreatedNext ==
  ASSUME TypeOK, RowStep, \A i \in Created : item[i].at <= Cardinality(Created)
  PROVE  /\ \A i \in Created' : item'[i].at <= Cardinality(Created')
         /\ \A i \in Created' \ Created : /\ item'[i].at = Cardinality(Created) + 1
                                          /\ item'[i].status = "pending"
                                          /\ UNCHANGED message
<1>1. TableType /\ Cardinality(Created) \in Nat /\ IsFiniteSet(Created)
  BY TypeParts, CreatedFinite
<1>2. \A i \in Created : i \in Created' /\ item'[i].at = item[i].at
  BY CreatedStays
<1>3. CASE \E j \in Input : Born(j)
  <2>1. PICK j \in Input : Born(j)
    BY <1>3
  <2>2. /\ item'[j].at = Cardinality(Created) + 1 /\ item'[j].status = "pending"
        /\ UNCHANGED message
        /\ \A i \in Input : i # j => item'[i] = item[i]
    BY <1>1, <2>1, BornEffect
  <2>3. j \notin Created /\ Created' = Created \cup {j}
    BY <2>1, <2>2 DEF Born, Created
  <2>4. Cardinality(Created') = Cardinality(Created) + 1
    BY <1>1, <2>3, FS_AddElement
  <2>5. \A i \in Created : item[i].at \in Nat
    BY <1>1 DEF TableType, Row, Created
  <2> QED BY <1>1, <1>2, <2>2, <2>3, <2>4, <2>5
<1>4. CASE ~\E j \in Input : Born(j)
  <2>1. ASSUME NEW i \in Created'
        PROVE  i \in Created
    <3>1. i \in Input /\ item'[i].status # "absent"
      BY DEF Created
    <3>2. CASE Quiet
      BY <3>1, <3>2 DEF Quiet, Created
    <3>3. ASSUME NEW j \in Input, Edited(j) \/ Refused(j) \/ Dispatched(j)
          PROVE  i \in Created
      <4>1. CASE i = j
        BY <3>1, <3>3, <4>1 DEF Edited, Refused, Dispatched, NextInput, Pending, Created
      <4>2. CASE i # j
        <5>1. item'[i] = item[i]
          BY <1>1, <3>1, <3>3, <4>2, EditedEffect, RefusedEffect, DispatchedEffect
        <5> QED BY <3>1, <5>1 DEF Created
      <4> QED BY <4>1, <4>2
    <3>4. CASE Consume
      <4>1. CASE i \in Steers
        BY <3>1, <4>1 DEF Steers, Pending, Created
      <4>2. CASE i \notin Steers
        <5>1. item'[i] = item[i]
          BY <1>1, <3>1, <3>4, <4>2, ConsumeEffect
        <5> QED BY <3>1, <5>1 DEF Created
      <4> QED BY <4>1, <4>2
    <3> QED BY <1>4, <3>2, <3>3, <3>4 DEF RowStep
  <2>2. Created' = Created
    BY <1>2, <2>1
  <2> QED BY <1>2, <2>2
<1> QED BY <1>3, <1>4

\* Failures are remembered.
LEMMA FailedNext ==
  ASSUME TypeOK, RowStep, \A i \in Input : item[i].status = "failed" => i \in failed
  PROVE  /\ \A i \in Input : item'[i].status = "failed" => i \in failed'
         /\ failed \subseteq failed'
<1>1. TableType
  BY TypeParts
<1>2. CASE Quiet
  BY <1>2 DEF Quiet
<1>3. ASSUME NEW j \in Input, Born(j) \/ Edited(j) \/ Dispatched(j)
      PROVE  /\ \A i \in Input : item'[i].status = "failed" => i \in failed'
             /\ failed \subseteq failed'
  <2>1. item'[j].status # "failed" /\ \A i \in Input : i # j => item'[i] = item[i]
    BY <1>1, <1>3, BornEffect, EditedEffect, DispatchedEffect
  <2>2. UNCHANGED failed
    BY <1>3 DEF Born, Edited, Dispatched
  <2> QED BY <2>1, <2>2
<1>4. ASSUME NEW j \in Input, Refused(j)
      PROVE  /\ \A i \in Input : item'[i].status = "failed" => i \in failed'
             /\ failed \subseteq failed'
  BY <1>1, <1>4, RefusedEffect DEF Refused
<1>5. CASE Consume
  <2>1. UNCHANGED failed
    BY <1>5 DEF Consume
  <2> QED BY <1>1, <1>5, <2>1, ConsumeEffect
<1> QED BY <1>2, <1>3, <1>4, <1>5 DEF RowStep

\* A message that was there stays behind every older input that had not failed.
LEMMA OldTurnNext ==
  ASSUME TypeOK, PastInv, OrderInv, RowStep, NEW m \in 1..Len(message),
         ~message[m].steer, message'[m] = message[m],
         \A n \in 1..Len(message') :
           \/ n \in 1..Len(message) /\ message'[n] = message[n]
           \/ message'[n].input \in Pending
  PROVE  SentInTurn(m)'
<1> DEFINE sent == message[m].input
<1>1. sent \in Created
  <2>1. sent \in Input
    <3>1. message[m] \in Sentence
      BY TypeParts, ElementOfSeq DEF TableType
    <3> QED BY <3>1 DEF Sentence
  <2>2. item[sent].status = "applied"
    BY <2>1 DEF PastInv, SentRow
  <2> QED BY <2>1, <2>2 DEF Created
<1>2. item'[sent].at = item[sent].at /\ item[sent].at \in Nat
  <2>1. item[sent] \in Row
    BY <1>1 DEF TypeOK, Created
  <2> QED BY <1>1, <2>1, CreatedStays DEF Row
<1>3. item[sent].at <= Cardinality(Created) /\ Cardinality(Created) \in Nat
  BY <1>1, CreatedFinite DEF OrderInv
<1>4. ASSUME NEW i \in Created', item'[i].at < item'[sent].at, i \notin failed'
      PROVE  Decided(i)' /\ \A n \in 1..Len(message') : message'[n].input = i => n < m
  <2>1. i \in Created
    <3>1. i \notin Created => item'[i].at = Cardinality(Created) + 1
      BY CreatedNext DEF OrderInv
    <3> QED BY <1>2, <1>3, <1>4, <3>1
  <2>2. item[i].at < item[sent].at /\ i \notin failed
    BY <1>2, <1>4, <2>1, CreatedStays, FailedNext DEF OrderInv
  <2>3. Decided(i) /\ \A n \in 1..Len(message) : message[n].input = i => n < m
    BY <2>1, <2>2 DEF OrderInv, SentInTurn
  <2>4. item'[i] = item[i]
    BY <2>1, <2>3, DecidedStays DEF Decided, Created
  <2>5. i \notin Pending
    BY <2>3 DEF Decided, Pending
  <2> QED BY <2>3, <2>4, <2>5 DEF Decided
<1> QED BY <1>4 DEF SentInTurn

\* The input that is sent now is the oldest that waits.
LEMMA NewTurnNext ==
  ASSUME TypeOK, PastInv, OrderInv, RowStep, NEW j \in Input, Dispatched(j),
         NEW m \in Nat, m = Len(message) + 1
  PROVE  SentInTurn(m)'
<1>1. TableType /\ failed' = failed
  BY TypeParts DEF Dispatched
<1>2. /\ Len(message) \in Nat /\ Len(message') = m
      /\ \A n \in 1..Len(message) : message'[n] = message[n]
      /\ message'[m].input = j
      /\ item'[j].at = item[j].at
      /\ \A i \in Input : i # j => item'[i] = item[i]
      /\ UNCHANGED failed
  <2>1. message'[Len(message) + 1] = [input |-> j, content |-> item[j].content,
                                      steer |-> FALSE]
    BY <1>1, DispatchedEffect
  <2> QED BY <1>1, <2>1, DispatchedEffect
<1>3. j \in Pending /\ \A i \in Pending : item[j].at <= item[i].at
  BY DEF Dispatched, NextInput
<1>4. ASSUME NEW i \in Created', item'[i].at < item'[j].at, i \notin failed'
      PROVE  Decided(i)' /\ \A n \in 1..Len(message') : message'[n].input = i => n < m
  <2>1. i \in Input /\ j \in Created
    BY <1>3 DEF Created, Pending
  <2>2. item'[j].at \in Nat
    BY <1>1, <1>2, <2>1 DEF TableType, Row
  <2>3. i # j
    BY <1>4, <2>2
  <2>4. item'[i] = item[i] /\ item[i] \in Row
    BY <1>1, <1>2, <2>1, <2>3 DEF TableType
  <2>5. item[i].status \notin {"absent", "failed"}
    BY <1>2, <1>4, <2>1, <2>4 DEF Created, OrderInv
  <2>6. item[i].status # "pending"
    <3>1. item[j].at \in Nat /\ item[i].at \in Nat
      BY <1>1, <2>1 DEF TableType, Row
    <3> QED BY <1>2, <1>3, <1>4, <2>1, <2>4, <3>1 DEF Pending
  <2>7. Decided(i)'
    BY <2>4, <2>5, <2>6 DEF Decided, Row
  <2>8. ASSUME NEW n \in 1..Len(message'), message'[n].input = i
        PROVE  n < m
    BY <1>2, <2>3, <2>8
  <2> QED BY <2>7, <2>8
<1> QED BY <1>2, <1>4 DEF SentInTurn

LEMMA OrderInit == Init => OrderInv
<1> SUFFICES ASSUME Init
             PROVE  OrderInv
  OBVIOUS
<1>1. Created = {} /\ \A i \in Input : item[i].status # "failed"
  BY DEF Init, Created, Absent
<1>2. 1..Len(message) = {}
  BY EmptySeq DEF Init
<1> QED BY <1>1, <1>2 DEF OrderInv

LEMMA OrderNext ==
  ASSUME TypeOK, PastInv, OrderInv, RowStep
  PROVE  OrderInv'
<1>1. TableType
  BY TypeParts
<1>2. /\ \A i \in Created' : item'[i].at <= Cardinality(Created')
      /\ \A i \in Input : item'[i].status = "failed" => i \in failed'
  BY CreatedNext, FailedNext DEF OrderInv
<1>3. ASSUME NEW m \in 1..Len(message'), ~message'[m].steer
      PROVE  SentInTurn(m)'
  <2>1. CASE Quiet \/ \E j \in Input : Born(j) \/ Edited(j) \/ Refused(j)
    <3>1. UNCHANGED message
      BY <2>1 DEF Quiet, Born, Edited, Refused
    <3> QED BY <1>3, <3>1, OldTurnNext
  <2>2. ASSUME NEW j \in Input, Dispatched(j)
        PROVE  SentInTurn(m)'
    <3>1. /\ Len(message) \in Nat /\ Len(message') = Len(message) + 1
          /\ \A n \in 1..Len(message) : message'[n] = message[n]
          /\ message'[Len(message) + 1] = [input |-> j, content |-> item[j].content,
                                           steer |-> FALSE]
      BY <1>1, <2>2, DispatchedEffect
    <3>2. message'[Len(message) + 1].input \in Pending
      BY <2>2, <3>1 DEF Dispatched, NextInput
    <3>3. CASE m = Len(message) + 1
      BY <2>2, <3>1, <3>3, NewTurnNext
    <3>4. CASE m # Len(message) + 1
      <4>1. m \in 1..Len(message) /\ message'[m] = message[m] /\ ~message[m].steer
        BY <1>3, <3>1, <3>4
      <4>2. \A n \in 1..Len(message') :
              \/ n \in 1..Len(message) /\ message'[n] = message[n]
              \/ message'[n].input \in Pending
        BY <3>1, <3>2
      <4> QED BY <4>1, <4>2, OldTurnNext
    <3> QED BY <3>3, <3>4
  <2>3. CASE Consume
    <3>1. /\ Len(message) \in Nat
          /\ \A n \in 1..Len(message) : message'[n] = message[n]
          /\ \A n \in 1..Len(message') : n > Len(message) =>
               message'[n].input \in Steers /\ message'[n].steer
      BY <1>1, <2>3, ConsumeEffect, LenProperties DEF TableType
    <3>2. \A n \in 1..Len(message') : n \in 1..Len(message) \/ n > Len(message)
      BY <1>1, <3>1
    <3>3. m \in 1..Len(message) /\ message'[m] = message[m] /\ ~message[m].steer
      BY <1>3, <3>1, <3>2
    <3>4. \A n \in 1..Len(message') :
            \/ n \in 1..Len(message) /\ message'[n] = message[n]
            \/ message'[n].input \in Pending
      BY <3>1, <3>2 DEF Steers
    <3> QED BY <3>3, <3>4, OldTurnNext
  <2> QED BY <2>1, <2>2, <2>3 DEF RowStep
<1> QED BY <1>2, <1>3 DEF OrderInv

LEMMA OrderCorrect == Spec => []OrderInv
<1>1. TypeOK /\ PastInv /\ OrderInv /\ [Next]_vars => OrderInv'
  BY StepShape, OrderNext
<1> QED BY <1>1, OrderInit, TypeCorrect, PastCorrect, PTL DEF Spec

\* An input is not overtaken by a younger one that becomes a run, unless it had failed.
THEOREM QueueCorrect == Spec => []QueueOrder
<1>1. TypeOK /\ PastInv /\ OrderInv => QueueOrder
  <2> SUFFICES ASSUME TypeOK, PastInv, OrderInv,
                      NEW m \in 1..Len(message), NEW n \in 1..Len(message), m < n,
                      item[message[n].input].at < item[message[m].input].at,
                      ~message[m].steer
               PROVE  message[n].input \in failed
    BY LenProperties DEF QueueOrder, TypeOK
  <2>1. message[n] \in Sentence /\ Len(message) \in Nat
    BY TypeParts, ElementOfSeq, LenProperties DEF TableType
  <2>2. message[n].input \in Input
    BY <2>1 DEF Sentence
  <2>3. message[n].input \in Created
    BY <2>2 DEF PastInv, SentRow, Created
  <2>4. message[n].input \notin failed => n < m
    BY <2>3 DEF OrderInv, SentInTurn
  <2> QED BY <2>1, <2>4
<1> QED BY <1>1, TypeCorrect, PastCorrect, OrderCorrect, PTL
=============================================================================
