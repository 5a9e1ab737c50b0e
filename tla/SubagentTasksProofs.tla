------------------------- MODULE SubagentTasksProofs -------------------------
(***************************************************************************)
(* Proofs about the children of a root run, for every number of tasks,     *)
(* groups and processes and for every limit.                               *)
(*                                                                         *)
(* Every step has one of four shapes (LEMMA StepShape): it works on open   *)
(* rows, takes one child, delivers results, or settles the root.  The      *)
(* invariants are proved from the shapes.                                  *)
(***************************************************************************)
EXTENDS SubagentTasks, FiniteSetTheorems, TLAPS

TaskRow == [status: {"absent", "queued", "running"} \cup TerminalTask,
            owner: Process \cup {NoProcess}, fence: Nat, ttl: Nat, due: BOOLEAN,
            delivery: {"pending", "delivered", "ignored"}, seq: Nat]
RootRow == [status: {"pending", "running", "waiting"} \cup TerminalRun, seq: Nat,
            wait: [tasks: SUBSET Task, when: {"all", "any"}, due: BOOLEAN], full: BOOLEAN]
SnapshotRow == [held: BOOLEAN, fresh: BOOLEAN, results: [Task -> Nat]]

TypeInv ==
  /\ root \in RootRow
  /\ task \in [Task -> TaskRow]
  /\ results \in [Task -> Nat]
  /\ child \in [Process -> [Task -> Nat]]
  /\ snapshot \in [Process -> SnapshotRow]

\* A task nobody spawned has nothing to deliver, a result is dropped only when the root
\* ends, and a snapshot that is still fresh holds the history as it is.
DeliveryInv ==
  /\ \A t \in Task : task[t].status = "absent" => task[t].delivery = "pending"
  /\ \A t \in Task : task[t].delivery = "ignored" => root.status \in TerminalRun
  /\ \A p \in Process : snapshot[p].fresh => snapshot[p].results = results

-----------------------------------------------------------------------------
(* Lemmas about rows. *)

\* Giving up the lease for a status changes the lease columns only.
LEMMA ReleasedRow ==
  ASSUME NEW r \in TaskRow, NEW s \in {"queued"} \cup TerminalTask
  PROVE  /\ Released(r, s) \in TaskRow
         /\ Released(r, s).status = s /\ Released(r, s).owner = NoProcess
         /\ Released(r, s).ttl = 0 /\ Released(r, s).delivery = r.delivery
         /\ Released(r, s).fence = r.fence
BY DEF Released, TaskRow

\* Numbering a finished task changes its number only.
LEMMA NumberedRow ==
  ASSUME NEW r \in TaskRow, NEW n \in Nat
  PROVE  LET s == [r EXCEPT !.seq = n]
         IN  /\ s \in TaskRow /\ s.status = r.status /\ s.owner = r.owner
             /\ s.ttl = r.ttl /\ s.delivery = r.delivery
BY DEF TaskRow

\* Every subset of the tasks is finite.
LEMMA TasksFinite ==
  ASSUME NEW S \in SUBSET Task
  PROVE  IsFiniteSet(S) /\ Cardinality(S) \in Nat
BY SubagentConstants, FS_Subset, FS_CardinalityType DEF SubagentConstants

\* Ending tasks releases exactly those and numbers them.
LEMMA EndedRows ==
  ASSUME TypeInv, NEW rows \in [Task -> TaskRow], NEW ended \in SUBSET Task,
         NEW s \in TerminalTask, NEW new \in Ended(rows, ended, s)
  PROVE  /\ new \in [Task -> TaskRow]
         /\ \A t \in ended : /\ new[t].status = s /\ new[t].owner = NoProcess
                             /\ new[t].ttl = 0 /\ new[t].delivery = rows[t].delivery
         /\ \A t \in Task \ ended : new[t] = rows[t]
<1>1. PICK order \in [ended -> 1..Cardinality(ended)] :
        new = [t \in Task |-> IF t \in ended
                              THEN [Released(rows[t], s) EXCEPT !.seq = root.seq + order[t]]
                              ELSE rows[t]]
  BY DEF Ended
<1>2. ASSUME NEW t \in ended
      PROVE  /\ new[t] \in TaskRow /\ new[t].status = s /\ new[t].owner = NoProcess
             /\ new[t].ttl = 0 /\ new[t].delivery = rows[t].delivery
  <2> DEFINE n == root.seq + order[t]
             r == Released(rows[t], s)
  <2>1. n \in Nat
    BY TasksFinite DEF TypeInv, RootRow
  <2>2. r \in TaskRow /\ r.status = s /\ r.owner = NoProcess /\ r.ttl = 0
        /\ r.delivery = rows[t].delivery
    BY ReleasedRow
  <2>3. new[t] = [r EXCEPT !.seq = n]
    BY <1>1
  <2> HIDE DEF n, r
  <2> QED BY <2>1, <2>2, <2>3, NumberedRow
<1>3. \A t \in Task \ ended : new[t] = rows[t]
  BY <1>1
<1>4. new \in [Task -> TaskRow]
  <2>1. \A t \in Task : new[t] \in TaskRow
    BY <1>2, <1>3
  <2>2. DOMAIN new = Task /\ new = [t \in Task |-> new[t]]
    BY <1>1
  <2> QED BY <2>1, <2>2
<1> QED BY <1>2, <1>3, <1>4

\* A new task is queued.
LEMMA QueuedRow ==
  LET r == [Absent EXCEPT !.status = "queued"]
  IN  r \in TaskRow /\ r.status = "queued" /\ r.ttl = 0 /\ r.delivery = "pending"
BY DEF Absent, TaskRow

-----------------------------------------------------------------------------
(* The shapes of a step. *)

LiveTasks == {t \in Task : Live(t)}

\* Rows are worked on, but nothing is delivered, spawned or brought back from its end.
Works ==
  /\ UNCHANGED results
  /\ \A t \in Task :
       /\ task'[t].delivery = task[t].delivery
       /\ task'[t].status = "absent" <=> task[t].status = "absent"
       /\ Done(t) => task'[t].status = task[t].status /\ task'[t].owner = task[t].owner
  /\ \/ root'.status = root.status
     \/ {root.status, root'.status} \cap TerminalRun = {}
  /\ \A p \in Process : \/ snapshot'[p].fresh => snapshot'[p].results = results
                        \/ snapshot'[p] = snapshot[p]

Takes(t) ==
  /\ LiveTasks' = LiveTasks \cup {t}
  /\ Cardinality(LiveTasks) < RunMax
  /\ Cardinality({s \in LiveTasks : GroupOf[s] = GroupOf[t]}) < GroupMax

Calm == LiveTasks' \subseteq LiveTasks

Outdated == \A p \in Process : ~snapshot'[p].fresh

\* Results enter the history together with the mark that they did.
Delivers ==
  /\ root.status \notin TerminalRun /\ root'.status \notin TerminalRun
  /\ \A t \in Task :
       /\ \/ task'[t].delivery = task[t].delivery /\ results'[t] = results[t]
          \/ /\ task[t].delivery = "pending" /\ task'[t].delivery = "delivered"
             /\ results'[t] = results[t] + 1
       /\ task'[t].status = "absent" => task'[t].delivery = "pending"
  /\ Outdated

\* The root ends, and with it every child and every delivery.
Settles ==
  /\ root.status \notin TerminalRun /\ root'.status \in TerminalRun
  /\ UNCHANGED results
  /\ \A t \in Task :
       IF task[t].status = "absent" THEN task'[t] = task[t]
       ELSE /\ task'[t].status \in TerminalTask /\ task'[t].owner = NoProcess
            /\ task'[t].delivery =
                 IF task[t].delivery = "pending" THEN "ignored" ELSE task[t].delivery
  /\ root'.status = "completed"
       => \A t \in Required \cap Spawned : task[t].delivery # "pending"
  /\ Outdated

TaskStep ==
  \/ Calm /\ (Works \/ Delivers \/ Settles)
  \/ Works /\ \E t \in Task : Takes(t)

-----------------------------------------------------------------------------
(* What the transactions are made of. *)

\* A revision outdates every snapshot and changes nothing else about it.
LEMMA RevisedSnapshots ==
  ASSUME TypeInv, Revise
  PROVE  snapshot' \in [Process -> SnapshotRow] /\ Outdated
<1>1. \A p \in Process : /\ snapshot'[p] = [snapshot[p] EXCEPT !.fresh = FALSE]
                         /\ snapshot'[p] \in SnapshotRow
                         /\ ~snapshot'[p].fresh
  BY DEF Revise, TypeInv, SnapshotRow
<1> QED BY <1>1 DEF Revise, Outdated

\* Rows that gain no live lease are calm.
LEMMA CalmRows ==
  ASSUME \A t \in Task : \/ task'[t] = task[t]
                         \/ ~(task'[t].status = "running" /\ task'[t].ttl > 0)
                         \/ Live(t)
  PROVE  Calm
BY DEF Calm, LiveTasks, Live

\* A batch holds finished tasks whose result nobody has yet.
LEMMA BatchReady ==
  ASSUME NEW rows, NEW selected \in SUBSET Task, NEW batch \in Batches(rows, selected)
  PROVE  /\ batch \subseteq Task
         /\ \A t \in batch : rows[t].status \in TerminalTask /\ rows[t].delivery = "pending"
BY DEF Batches

\* The rows a root's call works on: the old ones, or new queued ones where none was.
Extends(rows) ==
  /\ rows \in [Task -> TaskRow]
  /\ \A t \in Task :
       \/ rows[t] = task[t]
       \/ /\ task[t].status = "absent"
          /\ rows[t].status = "queued" /\ rows[t].delivery = "pending"

\* Delivering a batch of ready results to a root that goes on.
LEMMA DeliverShape ==
  ASSUME TypeInv, DeliveryInv, NEW rows, Extends(rows), NEW batch \in SUBSET Task,
         \A t \in batch : rows[t].status \in TerminalTask /\ rows[t].delivery = "pending",
         NEW base, base = results, Deliver(rows, base, batch),
         root.status \notin TerminalRun, root'.status \notin TerminalRun
  PROVE  /\ task' \in [Task -> TaskRow] /\ results' \in [Task -> Nat]
         /\ snapshot' \in [Process -> SnapshotRow]
         /\ Calm /\ Delivers
<1>1. snapshot' \in [Process -> SnapshotRow] /\ Outdated
  BY RevisedSnapshots DEF Deliver
<1>2. results' \in [Task -> Nat]
  BY DEF Deliver, TypeInv
<1>3. ASSUME NEW t \in Task
      PROVE  /\ task'[t] \in TaskRow
             /\ task'[t].status = rows[t].status /\ task'[t].ttl = rows[t].ttl
             /\ IF t \in batch THEN /\ task'[t].delivery = "delivered"
                                    /\ results'[t] = results[t] + 1
                ELSE task'[t].delivery = rows[t].delivery /\ results'[t] = results[t]
  <2>1. CASE t \in batch
    <3>1. task'[t] = [rows[t] EXCEPT !.delivery = "delivered"] /\ results'[t] = results[t] + 1
      BY <2>1 DEF Deliver
    <3>2. rows[t] \in TaskRow
      BY DEF Extends
    <3> QED BY <2>1, <3>1, <3>2 DEF TaskRow
  <2>2. CASE t \notin batch
    BY <2>2 DEF Deliver, Extends
  <2> QED BY <2>1, <2>2
<1>4. task' \in [Task -> TaskRow]
  <2>1. task' = [t \in Task |-> task'[t]]
    BY DEF Deliver
  <2> QED BY <2>1, <1>3
<1>5. Calm
  BY <1>3, CalmRows DEF Extends, Live
<1>6. ASSUME NEW t \in Task
      PROVE  /\ \/ task'[t].delivery = task[t].delivery /\ results'[t] = results[t]
                \/ /\ task[t].delivery = "pending" /\ task'[t].delivery = "delivered"
                   /\ results'[t] = results[t] + 1
             /\ task'[t].status = "absent" => task'[t].delivery = "pending"
  <2>1. CASE rows[t] = task[t]
    BY <1>3, <2>1 DEF DeliveryInv, TerminalTask
  <2>2. CASE task[t].status = "absent" /\ rows[t].status = "queued"
             /\ rows[t].delivery = "pending"
    BY <1>3, <2>2 DEF DeliveryInv, TerminalTask
  <2> QED BY <2>1, <2>2 DEF Extends
<1>7. Delivers
  BY <1>1, <1>6 DEF Delivers
<1> QED BY <1>1, <1>2, <1>4, <1>5, <1>7

\* A call of the root waits, or goes on with its results.
LEMMA OperateShape ==
  ASSUME TypeInv, DeliveryInv, root.status = "running", NEW rows, Extends(rows),
         NEW selected \in SUBSET Task, NEW waits \in BOOLEAN, NEW collects \in BOOLEAN,
         NEW when \in {"all", "any"}, Operate(rows, selected, waits, collects, when),
         UNCHANGED child
  PROVE  TypeInv' /\ Calm /\ Delivers
<1>1. PICK full \in BOOLEAN :
        IF waits /\ ~Ready(rows, selected, when)
        THEN /\ root' = [root EXCEPT !.status = "waiting", !.full = full,
                           !.wait = [tasks |-> selected, when |-> when, due |-> FALSE]]
             /\ Deliver(rows, results, {})
        ELSE /\ root' = [root EXCEPT !.full = full]
             /\ \E batch \in (IF collects THEN Batches(rows, selected) ELSE {{}}) :
                  Deliver(rows, results, batch)
  BY DEF Operate
<1>2. root' \in RootRow /\ root'.status \notin TerminalRun
  <2>1. CASE root' = [root EXCEPT !.full = full]
    BY <2>1 DEF TypeInv, RootRow, TerminalRun
  <2>2. CASE root' = [root EXCEPT !.status = "waiting", !.full = full,
                           !.wait = [tasks |-> selected, when |-> when, due |-> FALSE]]
    <3> DEFINE w == [tasks |-> selected, when |-> when, due |-> FALSE]
    <3>1. w \in [tasks: SUBSET Task, when: {"all", "any"}, due: BOOLEAN]
      OBVIOUS
    <3>2. root' = [root EXCEPT !.status = "waiting", !.full = full, !.wait = w]
      BY <2>2
    <3> HIDE DEF w
    <3> QED BY <3>1, <3>2 DEF TypeInv, RootRow, TerminalRun
  <2> QED BY <1>1, <2>1, <2>2
<1>3. PICK batch \in SUBSET Task :
        /\ Deliver(rows, results, batch)
        /\ \A t \in batch : rows[t].status \in TerminalTask /\ rows[t].delivery = "pending"
  <2>1. CASE waits /\ ~Ready(rows, selected, when)
    BY <1>1, <2>1
  <2>2. CASE ~(waits /\ ~Ready(rows, selected, when))
    <3>1. PICK b \in (IF collects THEN Batches(rows, selected) ELSE {{}}) :
            Deliver(rows, results, b)
      BY <1>1, <2>2
    <3>2. b \subseteq Task
          /\ \A t \in b : rows[t].status \in TerminalTask /\ rows[t].delivery = "pending"
      BY <3>1, BatchReady
    <3> QED BY <3>1, <3>2
  <2> QED BY <2>1, <2>2
<1>4. root.status \notin TerminalRun
  BY DEF TerminalRun
<1> HIDE DEF Delivers, Calm
<1>5. /\ task' \in [Task -> TaskRow] /\ results' \in [Task -> Nat]
      /\ snapshot' \in [Process -> SnapshotRow]
      /\ Calm /\ Delivers
  BY <1>2, <1>3, <1>4, DeliverShape
<1> QED BY <1>2, <1>5 DEF TypeInv

\* Settling ends the root, its children and their deliveries.
LEMMA SettleShape ==
  ASSUME TypeInv, root.status \notin TerminalRun, NEW status \in TerminalRun, Settle(status),
         status = "completed" => \A t \in Required \cap Spawned : task[t].delivery # "pending"
  PROVE  TypeInv' /\ Calm /\ Settles
<1> DEFINE open == {t \in Task : Open(t)}
<1>1. PICK rows \in Ended(task, open, "cancelled") :
        task' = [t \in Task |->
                   IF t \in Spawned
                   THEN [rows[t] EXCEPT !.owner = NoProcess, !.ttl = 0,
                           !.delivery = IF @ = "pending" THEN "ignored" ELSE @]
                   ELSE rows[t]]
  BY DEF Settle
<1>2. /\ rows \in [Task -> TaskRow]
      /\ \A t \in open : rows[t].status = "cancelled" /\ rows[t].delivery = task[t].delivery
      /\ \A t \in Task \ open : rows[t] = task[t]
  BY EndedRows DEF TypeInv, TerminalTask
<1>3. /\ root' = [root EXCEPT !.status = status, !.wait = NoWait,
                             !.seq = @ + Cardinality(open)]
      /\ Revise /\ UNCHANGED <<results, child>>
  BY DEF Settle
<1>4. Cardinality(open) \in Nat
  BY TasksFinite
<1> DEFINE n == root.seq + Cardinality(open)
<1>5. n \in Nat
  BY <1>4 DEF TypeInv, RootRow
<1>6. root' = [root EXCEPT !.status = status, !.wait = NoWait, !.seq = n]
  BY <1>3
<1>7. ASSUME NEW t \in Task
      PROVE  /\ task'[t] \in TaskRow
             /\ IF task[t].status = "absent" THEN task'[t] = task[t]
                ELSE /\ task'[t].status \in TerminalTask /\ task'[t].owner = NoProcess
                     /\ task'[t].delivery =
                          IF task[t].delivery = "pending" THEN "ignored" ELSE task[t].delivery
  <2>1. task[t].status \in {"absent", "queued", "running"} \cup TerminalTask
    BY DEF TypeInv, TaskRow
  <2>2. CASE task[t].status = "absent"
    BY <1>1, <1>2, <2>2 DEF Spawned, Open, TypeInv
  <2>3. CASE task[t].status # "absent"
    <3>1. PICK d \in {"pending", "delivered", "ignored"} :
            /\ d = IF rows[t].delivery = "pending" THEN "ignored" ELSE rows[t].delivery
            /\ task'[t] = [rows[t] EXCEPT !.owner = NoProcess, !.ttl = 0, !.delivery = d]
      <4>1. rows[t].delivery \in {"pending", "delivered", "ignored"}
        BY <1>2 DEF TaskRow
      <4> QED BY <1>1, <2>3, <4>1 DEF Spawned
    <3>2. rows[t].status \in TerminalTask /\ rows[t].delivery = task[t].delivery
      BY <1>2, <2>1, <2>3 DEF Open, TerminalTask
    <3>3. rows[t] \in TaskRow
      BY <1>2
    <3>5. /\ task'[t] \in TaskRow /\ task'[t].status = rows[t].status
          /\ task'[t].owner = NoProcess /\ task'[t].delivery = d
      <4> DEFINE s == task'[t]
                 r == rows[t]
      <4>1. s = [r EXCEPT !.owner = NoProcess, !.ttl = 0, !.delivery = d]
        BY <3>1
      <4>2. r \in TaskRow
        BY <3>3
      <4> HIDE DEF s, r
      <4>3. s \in TaskRow /\ s.status = r.status /\ s.owner = NoProcess /\ s.delivery = d
        BY <3>1, <4>1, <4>2 DEF TaskRow
      <4> QED BY <4>3 DEF s, r
    <3>6. d = IF task[t].delivery = "pending" THEN "ignored" ELSE task[t].delivery
      BY <3>1, <3>2
    <3>7. task'[t].status \in TerminalTask
      BY <3>2, <3>5
    <3> QED BY <2>3, <3>5, <3>6, <3>7
  <2> QED BY <2>2, <2>3
<1> HIDE DEF n
<1>8. root' \in RootRow /\ root'.status = status
  BY <1>5, <1>6 DEF TypeInv, RootRow, TerminalRun, NoWait
<1>9. snapshot' \in [Process -> SnapshotRow] /\ Outdated
  BY <1>3, RevisedSnapshots
<1>10. task' \in [Task -> TaskRow]
  BY <1>1, <1>7
<1>11. TypeInv'
  BY <1>3, <1>8, <1>9, <1>10 DEF TypeInv
<1>12. Calm
  BY <1>7, CalmRows DEF TerminalTask
<1>13. Settles
  BY <1>3, <1>7, <1>8, <1>9 DEF Settles
<1> QED BY <1>11, <1>12, <1>13

-----------------------------------------------------------------------------
(* Each action: its types and its shape. *)

\* The root's own operations.
LEMMA RootActions ==
  ASSUME TypeInv, DeliveryInv, RootStep
  PROVE  TypeInv' /\ TaskStep
<1>1. ASSUME NEW g \in Group, NEW waits \in BOOLEAN, Spawn(g, waits)
      PROVE  TypeInv' /\ TaskStep
  <2> DEFINE new == {t \in Task : GroupOf[t] = g}
             queued == [Absent EXCEPT !.status = "queued"]
             rows == [t \in Task |-> IF t \in new THEN queued ELSE task[t]]
  <2>1. /\ root.status = "running" /\ new \cap Spawned = {}
        /\ Operate(rows, new, waits, waits, "all") /\ UNCHANGED child
    BY <1>1 DEF Spawn
  <2>2. queued \in TaskRow /\ queued.status = "queued" /\ queued.delivery = "pending"
    BY QueuedRow
  <2> HIDE DEF queued
  <2>3. Extends(rows)
    BY <2>1, <2>2 DEF Extends, Spawned, TypeInv
  <2>4. new \in SUBSET Task
    OBVIOUS
  <2> HIDE DEF rows, new
  <2>5. TypeInv' /\ Calm /\ Delivers
    BY <2>1, <2>3, <2>4, OperateShape
  <2> QED BY <2>5 DEF TaskStep
<1>2. ASSUME NEW selected \in SUBSET Task, NEW waits \in BOOLEAN, NEW when \in {"all", "any"},
             Collect(selected, waits, when)
      PROVE  TypeInv' /\ TaskStep
  <2>1. Extends(task)
    BY DEF Extends, TypeInv
  <2>2. TypeInv' /\ Calm /\ Delivers
    BY <1>2, <2>1, OperateShape DEF Collect
  <2> QED BY <2>2 DEF TaskStep
<1>3. ASSUME Complete PROVE TypeInv' /\ TaskStep
  <2>1. TypeInv' /\ Calm /\ Settles
    BY <1>3, SettleShape DEF Complete, TerminalRun
  <2> QED BY <2>1 DEF TaskStep
<1>4. ASSUME FailRoot PROVE TypeInv' /\ TaskStep
  <2>1. TypeInv' /\ Calm /\ Settles
    BY <1>4, SettleShape DEF FailRoot, TerminalRun
  <2> QED BY <2>1 DEF TaskStep
<1>5. ASSUME CancelRoot PROVE TypeInv' /\ TaskStep
  <2>1. TypeInv' /\ Calm /\ Settles
    BY <1>5, SettleShape DEF CancelRoot, TerminalRun
  <2> QED BY <2>1 DEF TaskStep
<1>6. ASSUME ClaimRoot PROVE TypeInv' /\ TaskStep
  <2>1. root' \in RootRow /\ {root.status, root'.status} \cap TerminalRun = {}
    BY <1>6 DEF ClaimRoot, TypeInv, RootRow, TerminalRun
  <2>2. snapshot' \in [Process -> SnapshotRow] /\ Outdated
    BY <1>6, RevisedSnapshots DEF ClaimRoot
  <2>3. UNCHANGED <<task, results, child>>
    BY <1>6 DEF ClaimRoot
  <2>4. Calm
    BY <2>3, CalmRows
  <2>5. Works
    BY <2>1, <2>2, <2>3 DEF Works, Outdated
  <2> QED BY <2>1, <2>2, <2>3, <2>4, <2>5 DEF TypeInv, TaskStep
<1>7. ASSUME LoseRoot PROVE TypeInv' /\ TaskStep
  <2>1. root' \in RootRow /\ {root.status, root'.status} \cap TerminalRun = {}
    BY <1>7 DEF LoseRoot, TypeInv, RootRow, TerminalRun
  <2>2. UNCHANGED <<task, results, child, snapshot>>
    BY <1>7 DEF LoseRoot
  <2>3. Calm
    BY <2>2, CalmRows
  <2>4. Works
    BY <2>1, <2>2 DEF Works
  <2> QED BY <2>1, <2>2, <2>3, <2>4 DEF TypeInv, TaskStep
<1> QED BY <1>1, <1>2, <1>3, <1>4, <1>5, <1>6, <1>7 DEF RootStep

\* Work on the rows of the children while the root's row stays what it is.
LEMMA WorkShape ==
  ASSUME TypeInv, root' \in RootRow, root'.status = root.status, UNCHANGED results,
         task' \in [Task -> TaskRow],
         \A t \in Task :
           \/ task'[t] = task[t]
           \/ /\ ~Done(t) /\ task[t].status # "absent" /\ task'[t].status # "absent"
              /\ task'[t].delivery = task[t].delivery,
         child' \in [Process -> [Task -> Nat]],
         \/ Revise
         \/ UNCHANGED snapshot
  PROVE  TypeInv' /\ Works
<1>1. /\ snapshot' \in [Process -> SnapshotRow]
      /\ \A p \in Process : ~snapshot'[p].fresh \/ snapshot'[p] = snapshot[p]
  BY RevisedSnapshots DEF TypeInv, Outdated
<1>2. TypeInv'
  BY <1>1 DEF TypeInv
<1>3. Works
  BY <1>1 DEF Works
<1> QED BY <1>2, <1>3

\* Children are claimed, renewed, finished and stopped.
LEMMA ChildActions ==
  ASSUME TypeInv, NEW p \in Process, NEW t \in Task,
         Claim(p, t) \/ Renew(p, t) \/ Finish(p, t) \/ StopChild(p, t)
  PROVE  TypeInv' /\ TaskStep
<1>0. task[t] \in TaskRow /\ child[p] \in [Task -> Nat] /\ LeaseTicks \in Nat \ {0}
  BY SubagentConstants DEF TypeInv, SubagentConstants
<1>1. CASE Claim(p, t)
  <2> DEFINE n == task[t].fence + 1
  <2>1. n \in Nat
    BY <1>0 DEF TaskRow
  <2>2. /\ task' = [task EXCEPT ![t] = [task[t] EXCEPT !.status = "running", !.owner = p,
                                                       !.ttl = LeaseTicks, !.fence = n]]
        /\ child' = [child EXCEPT ![p] = [child[p] EXCEPT ![t] = n]]
    BY <1>1 DEF Claim, TypeInv
  <2> DEFINE row == [task[t] EXCEPT !.status = "running", !.owner = p,
                                    !.ttl = LeaseTicks, !.fence = n]
  <2> HIDE DEF n
  <2>3. /\ row \in TaskRow /\ row.status = "running" /\ row.ttl = LeaseTicks
        /\ row.delivery = task[t].delivery
    <3> DEFINE r == task[t]
    <3>1. r \in TaskRow
      BY <1>0
    <3> HIDE DEF r
    <3>2. LET x == [r EXCEPT !.status = "running", !.owner = p, !.ttl = LeaseTicks, !.fence = n]
          IN  /\ x \in TaskRow /\ x.status = "running" /\ x.ttl = LeaseTicks
              /\ x.delivery = r.delivery
      BY <1>0, <2>1, <3>1 DEF TaskRow
    <3> QED BY <3>2 DEF r
  <2> HIDE DEF row
  <2>4. task' = [task EXCEPT ![t] = row]
    BY <2>2 DEF row
  <2>5. task'[t] = row /\ \A s \in Task \ {t} : task'[s] = task[s]
    BY <2>4 DEF TypeInv
  <2>6. task' \in [Task -> TaskRow] /\ child' \in [Process -> [Task -> Nat]]
    BY <1>0, <2>1, <2>2, <2>3, <2>4 DEF TypeInv
  <2>7. /\ task[t].status = "queued" /\ Revise /\ UNCHANGED <<root, results>>
        /\ Cardinality(LiveTasks) < RunMax
        /\ Cardinality({s \in LiveTasks : GroupOf[s] = GroupOf[t]}) < GroupMax
    BY <1>1 DEF Claim, LiveTasks
  <2>8. TypeInv' /\ Works
    <3>1. root' \in RootRow /\ root'.status = root.status
      BY <2>7 DEF TypeInv
    <3>2. ~Done(t)
      BY <2>7 DEF Done, TerminalTask
    <3>3. \A s \in Task :
            \/ task'[s] = task[s]
            \/ /\ ~Done(s) /\ task[s].status # "absent" /\ task'[s].status # "absent"
               /\ task'[s].delivery = task[s].delivery
      BY <2>3, <2>5, <2>7, <3>2
    <3> HIDE DEF Works
    <3> QED BY <2>6, <2>7, <3>1, <3>3, WorkShape
  <2>9. Takes(t)
    <3>1. LiveTasks' = LiveTasks \cup {t}
      BY <1>0, <2>3, <2>5 DEF LiveTasks, Live
    <3> QED BY <2>7, <3>1 DEF Takes
  <2> QED BY <2>8, <2>9 DEF TaskStep
<1>2. CASE Renew(p, t)
  <2> DEFINE row == [task[t] EXCEPT !.ttl = LeaseTicks]
  <2>1. /\ row \in TaskRow /\ row.status = task[t].status /\ row.delivery = task[t].delivery
    BY <1>0 DEF TaskRow
  <2> HIDE DEF row
  <2>2. task' = [task EXCEPT ![t] = row]
    BY <1>2 DEF Renew, row
  <2>3. task'[t] = row /\ \A s \in Task \ {t} : task'[s] = task[s]
    BY <2>2 DEF TypeInv
  <2>4. task' \in [Task -> TaskRow]
    BY <2>1, <2>2 DEF TypeInv
  <2>5. /\ Live(t) /\ task[t].status = "running"
        /\ UNCHANGED <<root, results, child, snapshot>>
    BY <1>2 DEF Renew, Matches, Live
  <2>6. TypeInv' /\ Works
    <3>1. root' \in RootRow /\ root'.status = root.status
          /\ child' \in [Process -> [Task -> Nat]]
      BY <2>5 DEF TypeInv
    <3>2. ~Done(t)
      BY <2>5 DEF Done, TerminalTask
    <3>3. \A s \in Task :
            \/ task'[s] = task[s]
            \/ /\ ~Done(s) /\ task[s].status # "absent" /\ task'[s].status # "absent"
               /\ task'[s].delivery = task[s].delivery
      BY <2>1, <2>3, <2>5, <3>2
    <3> HIDE DEF Works
    <3> QED BY <2>4, <2>5, <3>1, <3>3, WorkShape
  <2>7. Calm
    BY <2>3, <2>5, CalmRows
  <2> QED BY <2>6, <2>7 DEF TaskStep
<1>3. CASE Finish(p, t)
  <2>1. PICK status \in {"completed", "failed"} : \E rows \in Ended(task, {t}, status) :
          task' = rows
    BY <1>3 DEF Finish
  <2>2. PICK rows \in Ended(task, {t}, status) : task' = rows
    BY <2>1
  <2>3. status \in TerminalTask /\ {t} \in SUBSET Task
    BY DEF TerminalTask
  <2>4. /\ task' \in [Task -> TaskRow]
        /\ \A s \in {t} : /\ task'[s].status = status /\ task'[s].owner = NoProcess
                          /\ task'[s].ttl = 0 /\ task'[s].delivery = task[s].delivery
        /\ \A s \in Task \ {t} : task'[s] = task[s]
    <3>1. task \in [Task -> TaskRow]
      BY DEF TypeInv
    <3>2. /\ rows \in [Task -> TaskRow]
          /\ \A s \in {t} : /\ rows[s].status = status /\ rows[s].owner = NoProcess
                            /\ rows[s].ttl = 0 /\ rows[s].delivery = task[s].delivery
          /\ \A s \in Task \ {t} : rows[s] = task[s]
      <4> DEFINE one == {t}
      <4>1. one \in SUBSET Task /\ rows \in Ended(task, one, status)
        BY <2>2
      <4> HIDE DEF one
      <4>2. /\ rows \in [Task -> TaskRow]
            /\ \A s \in one : /\ rows[s].status = status /\ rows[s].owner = NoProcess
                              /\ rows[s].ttl = 0 /\ rows[s].delivery = task[s].delivery
            /\ \A s \in Task \ one : rows[s] = task[s]
        BY <2>3, <3>1, <4>1, EndedRows
      <4> QED BY <4>2 DEF one
    <3> QED BY <2>2, <3>2
  <2>5. /\ task[t].status = "running" /\ Revise /\ UNCHANGED results
        /\ root' = [root EXCEPT !.seq = @ + 1]
        /\ child' = [child EXCEPT ![p] = [child[p] EXCEPT ![t] = 0]]
    BY <1>3 DEF Finish, Matches, TypeInv
  <2>6. root' \in RootRow /\ root'.status = root.status
    BY <2>5 DEF TypeInv, RootRow
  <2>7. child' \in [Process -> [Task -> Nat]]
    BY <1>0, <2>5 DEF TypeInv
  <2>8. TypeInv' /\ Works
    <3>1. ~Done(t)
      BY <2>5 DEF Done, TerminalTask
    <3>2. \A s \in Task :
            \/ task'[s] = task[s]
            \/ /\ ~Done(s) /\ task[s].status # "absent" /\ task'[s].status # "absent"
               /\ task'[s].delivery = task[s].delivery
      BY <2>3, <2>4, <2>5, <3>1 DEF TerminalTask
    <3> HIDE DEF Works
    <3> QED BY <2>4, <2>5, <2>6, <2>7, <3>2, WorkShape
  <2>9. Calm
    BY <2>3, <2>4, CalmRows DEF TerminalTask
  <2> QED BY <2>8, <2>9 DEF TaskStep
<1>4. CASE StopChild(p, t)
  <2>1. /\ UNCHANGED <<root, task, results, snapshot>>
        /\ child' = [child EXCEPT ![p] = [child[p] EXCEPT ![t] = 0]]
    BY <1>4 DEF StopChild, TypeInv
  <2>2. child' \in [Process -> [Task -> Nat]]
    BY <1>0, <2>1 DEF TypeInv
  <2>3. TypeInv' /\ Works
    BY <2>1, <2>2, WorkShape DEF TypeInv
  <2>4. Calm
    BY <2>1, CalmRows
  <2> QED BY <2>3, <2>4 DEF TaskStep
<1> QED BY <1>1, <1>2, <1>3, <1>4

\* Leases run out, deadlines pass, and a pass over the open children settles both.
LEMMA ClockActions ==
  ASSUME TypeInv, (\E t \in Task : Age(t) \/ DeadlinePasses(t)) \/ Recover
  PROVE  TypeInv' /\ TaskStep
<1>1. ASSUME NEW t \in Task, Age(t) PROVE TypeInv' /\ TaskStep
  <2> DEFINE n == task[t].ttl - 1
             row == [task[t] EXCEPT !.ttl = n]
  <2>1. task[t] \in TaskRow /\ n \in Nat
    BY <1>1 DEF Age, TypeInv, TaskRow
  <2>2. /\ task' = [task EXCEPT ![t] = row]
        /\ task[t].ttl > 0
        /\ UNCHANGED <<root, results, child, snapshot>>
    BY <1>1 DEF Age
  <2> HIDE DEF n
  <2>3. /\ row \in TaskRow /\ row.status = task[t].status /\ row.delivery = task[t].delivery
        /\ row.owner = task[t].owner
    BY <2>1 DEF TaskRow
  <2> HIDE DEF row
  <2>4. task'[t] = row /\ \A s \in Task \ {t} : task'[s] = task[s]
    BY <2>2 DEF TypeInv
  <2>5. TypeInv'
    BY <2>2, <2>3 DEF TypeInv
  <2>6. Works
    BY <2>2, <2>3, <2>4 DEF Works, Done
  <2>7. \A s \in Task : \/ task'[s] = task[s]
                        \/ ~(task'[s].status = "running" /\ task'[s].ttl > 0)
                        \/ Live(s)
    BY <2>2, <2>3, <2>4 DEF Live
  <2>8. Calm
    BY <2>7, CalmRows
  <2> QED BY <2>5, <2>6, <2>8 DEF TaskStep
<1>2. ASSUME NEW t \in Task, DeadlinePasses(t) PROVE TypeInv' /\ TaskStep
  <2> DEFINE row == [task[t] EXCEPT !.due = TRUE]
  <2>1. task[t] \in TaskRow
    BY DEF TypeInv
  <2>2. /\ task' = [task EXCEPT ![t] = row]
        /\ UNCHANGED <<root, results, child, snapshot>>
    BY <1>2 DEF DeadlinePasses
  <2>3. /\ row \in TaskRow /\ row.status = task[t].status /\ row.delivery = task[t].delivery
        /\ row.owner = task[t].owner /\ row.ttl = task[t].ttl
    BY <2>1 DEF TaskRow
  <2> HIDE DEF row
  <2>4. task'[t] = row /\ \A s \in Task \ {t} : task'[s] = task[s]
    BY <2>2 DEF TypeInv
  <2>5. TypeInv'
    BY <2>2, <2>3 DEF TypeInv
  <2>6. Works
    BY <2>2, <2>3, <2>4 DEF Works, Done
  <2>7. \A s \in Task : \/ task'[s] = task[s]
                        \/ ~(task'[s].status = "running" /\ task'[s].ttl > 0)
                        \/ Live(s)
    BY <2>3, <2>4 DEF Live
  <2>8. Calm
    BY <2>7, CalmRows
  <2> QED BY <2>5, <2>6, <2>8 DEF TaskStep
<1>3. ASSUME Recover PROVE TypeInv' /\ TaskStep
  <2> DEFINE overdue == {t \in Task : Open(t) /\ task[t].due}
             lost == {t \in Task : task[t].status = "running" /\ task[t].ttl = 0} \ overdue
             n == root.seq + Cardinality(overdue)
  <2>1. PICK rows \in Ended(task, overdue, "timed_out") :
          task' = [t \in Task |-> IF t \in lost
                                  THEN [Released(rows[t], "queued") EXCEPT !.fence = @ + 1]
                                  ELSE rows[t]]
    BY <1>3 DEF Recover
  <2>2. /\ root' = [root EXCEPT !.seq = n] /\ Revise /\ UNCHANGED <<results, child>>
    BY <1>3 DEF Recover
  <2>3. n \in Nat
    BY TasksFinite DEF TypeInv, RootRow
  <2> HIDE DEF n
  <2>4. root' \in RootRow /\ root'.status = root.status
    BY <2>2, <2>3 DEF TypeInv, RootRow
  <2>5. /\ rows \in [Task -> TaskRow]
        /\ \A t \in overdue : /\ rows[t].status = "timed_out" /\ rows[t].ttl = 0
                              /\ rows[t].delivery = task[t].delivery
        /\ \A t \in Task \ overdue : rows[t] = task[t]
    <3>1. overdue \in SUBSET Task /\ "timed_out" \in TerminalTask /\ task \in [Task -> TaskRow]
      BY DEF TerminalTask, TypeInv
    <3> HIDE DEF overdue
    <3> QED BY <2>1, <3>1, EndedRows
  <2>6. ASSUME NEW t \in Task
        PROVE  /\ task'[t] \in TaskRow
               /\ \/ task'[t] = task[t]
                  \/ /\ ~Done(t) /\ task[t].status # "absent" /\ task'[t].status # "absent"
                     /\ task'[t].delivery = task[t].delivery
                     /\ task'[t].ttl = 0
    <3>1. CASE t \in overdue
      <4>1. task'[t] = rows[t]
        BY <2>1, <3>1
      <4> QED BY <2>5, <3>1, <4>1 DEF Open, Done, TerminalTask
    <3>2. CASE t \in lost
      <4> DEFINE r == Released(rows[t], "queued")
                 f == r.fence + 1
      <4>1. /\ r \in TaskRow /\ r.status = "queued" /\ r.ttl = 0
            /\ r.delivery = task[t].delivery
        BY <2>5, <3>2, ReleasedRow
      <4>2. f \in Nat
        BY <4>1 DEF TaskRow
      <4>3. task'[t] = [r EXCEPT !.fence = f]
        BY <2>1, <3>2
      <4> HIDE DEF f, r
      <4>4. /\ task'[t] \in TaskRow /\ task'[t].status = "queued" /\ task'[t].ttl = 0
            /\ task'[t].delivery = task[t].delivery
        BY <4>1, <4>2, <4>3 DEF TaskRow
      <4> QED BY <3>2, <4>4 DEF Done, TerminalTask
    <3>3. CASE t \notin overdue /\ t \notin lost
      BY <2>1, <2>5, <3>3
    <3> QED BY <3>1, <3>2, <3>3
  <2>7. task' \in [Task -> TaskRow]
    <3>1. task' = [t \in Task |-> task'[t]]
      BY <2>1
    <3> QED BY <2>6, <3>1
  <2>8. child' \in [Process -> [Task -> Nat]]
    BY <2>2 DEF TypeInv
  <2> HIDE DEF Works, overdue, lost
  <2>9. TypeInv' /\ Works
    BY <2>2, <2>4, <2>6, <2>7, <2>8, WorkShape
  <2>10. Calm
    BY <2>6, CalmRows
  <2> QED BY <2>9, <2>10 DEF TaskStep
<1> QED BY <1>1, <1>2, <1>3

\* A wait ends, at once or with a compacted history.
LEMMA ResumeShape ==
  ASSUME TypeInv, DeliveryInv, NEW base, base = results, Resume(base)
  PROVE  TypeInv' /\ TaskStep
<1>1. PICK batch \in Batches(task, root.wait.tasks) : Deliver(task, base, batch)
  BY DEF Resume
<1>2. PICK full \in BOOLEAN :
        root' = [root EXCEPT !.status = "pending", !.wait = NoWait, !.full = full]
  BY DEF Resume
<1>3. root.wait.tasks \in SUBSET Task /\ root.status \notin TerminalRun /\ UNCHANGED child
  BY DEF Resume, WaitOver, TypeInv, RootRow, TerminalRun
<1>4. root' \in RootRow /\ root'.status \notin TerminalRun
  <2>1. NoWait \in [tasks: SUBSET Task, when: {"all", "any"}, due: BOOLEAN]
    BY DEF NoWait
  <2> QED BY <1>2, <2>1 DEF TypeInv, RootRow, TerminalRun
<1>5. /\ batch \in SUBSET Task
      /\ \A t \in batch : task[t].status \in TerminalTask /\ task[t].delivery = "pending"
  BY <1>1, <1>3, BatchReady
<1>6. Extends(task)
  BY DEF Extends, TypeInv
<1> HIDE DEF Delivers, Calm
<1>7. /\ task' \in [Task -> TaskRow] /\ results' \in [Task -> Nat]
      /\ snapshot' \in [Process -> SnapshotRow]
      /\ Calm /\ Delivers
  BY <1>1, <1>3, <1>4, <1>5, <1>6, DeliverShape
<1> QED BY <1>3, <1>4, <1>7 DEF TypeInv, TaskStep

\* The root's wait: it expires, is compacted for, ends, or the compaction is given up.
LEMMA WaitActions ==
  ASSUME TypeInv, DeliveryInv,
         \/ WaitTimesOut \/ ResumeWait
         \/ \E p \in Process : CompactWait(p) \/ ResumeCompacted(p) \/ DropSnapshot(p)
  PROVE  TypeInv' /\ TaskStep
<1>1. ASSUME WaitTimesOut PROVE TypeInv' /\ TaskStep
  <2>1. /\ UNCHANGED <<task, results, child, snapshot>>
        /\ root' = [root EXCEPT !.wait = [root.wait EXCEPT !.due = TRUE]]
    BY <1>1 DEF WaitTimesOut, TypeInv, RootRow
  <2>2. [root.wait EXCEPT !.due = TRUE] \in [tasks: SUBSET Task, when: {"all", "any"}, due: BOOLEAN]
    BY DEF TypeInv, RootRow
  <2>3. root' \in RootRow /\ root'.status = root.status
    BY <2>1, <2>2 DEF TypeInv, RootRow
  <2>4. TypeInv'
    BY <2>1, <2>3 DEF TypeInv
  <2>5. Works
    BY <2>1, <2>3 DEF Works
  <2>6. Calm
    BY <2>1, CalmRows
  <2> QED BY <2>4, <2>5, <2>6 DEF TaskStep
<1>2. ASSUME ResumeWait PROVE TypeInv' /\ TaskStep
  BY <1>2, ResumeShape DEF ResumeWait
<1>3. ASSUME NEW p \in Process, CompactWait(p) PROVE TypeInv' /\ TaskStep
  <2> DEFINE copy == [held |-> TRUE, fresh |-> TRUE, results |-> results]
  <2>1. copy \in SnapshotRow /\ copy.results = results
    BY DEF TypeInv, SnapshotRow
  <2>2. /\ UNCHANGED <<root, task, results, child>>
        /\ snapshot' = [snapshot EXCEPT ![p] = copy]
    BY <1>3 DEF CompactWait
  <2> HIDE DEF copy
  <2>3. TypeInv'
    BY <2>1, <2>2 DEF TypeInv
  <2>4. \A q \in Process : snapshot'[q] = snapshot[q] \/ snapshot'[q].results = results
    BY <2>1, <2>2 DEF TypeInv
  <2>5. Works
    BY <2>2, <2>4 DEF Works
  <2>6. Calm
    BY <2>2, CalmRows
  <2> QED BY <2>3, <2>5, <2>6 DEF TaskStep
<1>4. ASSUME NEW p \in Process, ResumeCompacted(p) PROVE TypeInv' /\ TaskStep
  <2>1. snapshot[p].results = results /\ Resume(snapshot[p].results)
    BY <1>4 DEF ResumeCompacted, DeliveryInv
  <2> QED BY <2>1, ResumeShape
<1>5. ASSUME NEW p \in Process, DropSnapshot(p) PROVE TypeInv' /\ TaskStep
  <2>1. NoSnapshot \in SnapshotRow /\ ~NoSnapshot.fresh
    BY DEF NoSnapshot, SnapshotRow
  <2>2. /\ UNCHANGED <<root, task, results, child>>
        /\ snapshot' = [snapshot EXCEPT ![p] = NoSnapshot]
    BY <1>5 DEF DropSnapshot
  <2>3. TypeInv'
    BY <2>1, <2>2 DEF TypeInv
  <2>4. \A q \in Process : snapshot'[q] = snapshot[q] \/ ~snapshot'[q].fresh
    BY <2>1, <2>2 DEF TypeInv
  <2>5. Works
    BY <2>2, <2>4 DEF Works
  <2>6. Calm
    BY <2>2, CalmRows
  <2> QED BY <2>3, <2>5, <2>6 DEF TaskStep
<1> QED BY <1>1, <1>2, <1>3, <1>4, <1>5

-----------------------------------------------------------------------------
(* Every step is typed and has one of the shapes. *)

\* The shapes cover the specification.
LEMMA StepShape ==
  ASSUME TypeInv, DeliveryInv, [Next]_vars
  PROVE  TypeInv' /\ TaskStep
<1>1. CASE RootStep
  BY <1>1, RootActions
<1>2. ASSUME NEW p \in Process, ProcessStep(p) PROVE TypeInv' /\ TaskStep
  <2>1. CASE \E t \in Task : Claim(p, t) \/ Renew(p, t) \/ Finish(p, t) \/ StopChild(p, t)
    BY <2>1, ChildActions
  <2>2. CASE CompactWait(p) \/ ResumeCompacted(p) \/ DropSnapshot(p)
    BY <2>2, WaitActions
  <2> QED BY <1>2, <2>1, <2>2 DEF ProcessStep
<1>3. CASE (\E t \in Task : Age(t) \/ DeadlinePasses(t)) \/ Recover
  BY <1>3, ClockActions
<1>4. CASE WaitTimesOut \/ ResumeWait
  BY <1>4, WaitActions
<1>5. CASE UNCHANGED vars
  <2>1. UNCHANGED <<root, task, results, child, snapshot>>
    BY <1>5 DEF vars
  <2>2. TypeInv'
    BY <2>1 DEF TypeInv
  <2>3. Works
    BY <2>1 DEF Works
  <2>4. Calm
    BY <2>1, CalmRows
  <2> QED BY <2>2, <2>3, <2>4 DEF TaskStep
<1> QED BY <1>1, <1>2, <1>3, <1>4, <1>5 DEF Next

\* The initial state is typed and nothing is delivered in it.
LEMMA TypeInit == Init => TypeInv /\ DeliveryInv
<1> SUFFICES ASSUME Init PROVE TypeInv /\ DeliveryInv
  OBVIOUS
<1>1. NoWait \in [tasks: SUBSET Task, when: {"all", "any"}, due: BOOLEAN]
  BY DEF NoWait
<1>2. NoSnapshot \in SnapshotRow /\ ~NoSnapshot.fresh
  BY DEF NoSnapshot, SnapshotRow
<1>3. Absent \in TaskRow /\ Absent.delivery = "pending"
  BY DEF Absent, TaskRow
<1>4. root \in RootRow
  BY <1>1 DEF Init, RootRow
<1> HIDE DEF NoSnapshot, Absent
<1>5. TypeInv
  BY <1>2, <1>3, <1>4 DEF Init, TypeInv
<1>6. DeliveryInv
  BY <1>2, <1>3 DEF Init, DeliveryInv
<1> QED BY <1>5, <1>6

\* What is said of deliveries and snapshots survives every step.
LEMMA DeliveryNext ==
  ASSUME TypeInv, DeliveryInv, TypeInv', TaskStep
  PROVE  DeliveryInv'
<1>1. CASE Works
  BY <1>1 DEF Works, DeliveryInv
<1>2. CASE Delivers
  BY <1>2 DEF Delivers, Outdated, DeliveryInv
<1>3. CASE Settles
  BY <1>3 DEF Settles, Outdated, DeliveryInv, TerminalTask
<1> QED BY <1>1, <1>2, <1>3 DEF TaskStep

\* Both invariants hold throughout.
LEMMA Invariants == Spec => [](TypeInv /\ DeliveryInv)
<1>1. TypeInv /\ DeliveryInv /\ [Next]_vars => TypeInv' /\ DeliveryInv'
  BY StepShape, DeliveryNext
<1> QED BY <1>1, TypeInit, PTL DEF Spec

-----------------------------------------------------------------------------
(* The properties. *)

\* Of the tasks with a live lease, none are added but one at a time, below both limits.
LEMMA LimitNext ==
  ASSUME ConcurrencyLimit, TaskStep
  PROVE  ConcurrencyLimit'
<1> DEFINE grouped(S, g) == {t \in S : GroupOf[t] = g}
<1>1. /\ LiveTasks \in SUBSET Task /\ LiveTasks' \in SUBSET Task
      /\ RunMax \in Nat /\ GroupMax \in Nat
  BY SubagentConstants DEF LiveTasks, SubagentConstants
<1>2. /\ Cardinality(LiveTasks) <= RunMax
      /\ \A g \in Group : Cardinality(grouped(LiveTasks, g)) <= GroupMax
  BY DEF ConcurrencyLimit, LiveTasks
<1>3. /\ Cardinality(LiveTasks') <= RunMax
      /\ \A g \in Group : Cardinality(grouped(LiveTasks', g)) <= GroupMax
  <2>1. CASE Calm
    <3>1. Cardinality(LiveTasks') <= Cardinality(LiveTasks)
      BY <1>1, <2>1, TasksFinite, FS_Subset DEF Calm
    <3>2. ASSUME NEW g \in Group
          PROVE  Cardinality(grouped(LiveTasks', g)) <= Cardinality(grouped(LiveTasks, g))
      <4>1. /\ grouped(LiveTasks, g) \in SUBSET Task /\ grouped(LiveTasks', g) \in SUBSET Task
            /\ grouped(LiveTasks', g) \subseteq grouped(LiveTasks, g)
        BY <1>1, <2>1 DEF Calm
      <4> HIDE DEF grouped
      <4> QED BY <4>1, TasksFinite, FS_Subset
    <3> HIDE DEF grouped
    <3>3. /\ Cardinality(LiveTasks) \in Nat /\ Cardinality(LiveTasks') \in Nat
          /\ \A g \in Group : /\ Cardinality(grouped(LiveTasks, g)) \in Nat
                              /\ Cardinality(grouped(LiveTasks', g)) \in Nat
      BY <1>1, TasksFinite DEF grouped
    <3> QED BY <1>1, <1>2, <3>1, <3>2, <3>3
  <2>2. ASSUME NEW t \in Task, Takes(t)
        PROVE  /\ Cardinality(LiveTasks') <= RunMax
               /\ \A g \in Group : Cardinality(grouped(LiveTasks', g)) <= GroupMax
    <3>1. /\ LiveTasks' = LiveTasks \cup {t}
          /\ Cardinality(LiveTasks) < RunMax
          /\ Cardinality(grouped(LiveTasks, GroupOf[t])) < GroupMax
      BY <2>2 DEF Takes
    <3>2. ASSUME NEW S \in SUBSET Task, NEW k \in Nat, Cardinality(S) < k
          PROVE  Cardinality(S \cup {t}) <= k
      BY <3>2, TasksFinite, FS_AddElement
    <3>3. ASSUME NEW g \in Group
          PROVE  Cardinality(grouped(LiveTasks', g)) <= GroupMax
      <4>1. CASE GroupOf[t] = g
        <5>1. grouped(LiveTasks', g) = grouped(LiveTasks, g) \cup {t}
          BY <3>1, <4>1
        <5>2. grouped(LiveTasks, g) \in SUBSET Task
          BY <1>1
        <5> HIDE DEF grouped
        <5> QED BY <1>1, <3>1, <3>2, <4>1, <5>1, <5>2
      <4>2. CASE GroupOf[t] # g
        <5>1. grouped(LiveTasks', g) = grouped(LiveTasks, g)
          BY <3>1, <4>2
        <5> HIDE DEF grouped
        <5> QED BY <1>2, <5>1
      <4> QED BY <4>1, <4>2
    <3> HIDE DEF grouped
    <3> QED BY <1>1, <3>1, <3>2, <3>3
  <2> QED BY <2>1, <2>2 DEF TaskStep
<1> QED BY <1>3 DEF ConcurrencyLimit, LiveTasks

\* However many processes claim, renew and lose children, a run and a group never have
\* more of them under a live lease than their limits allow.
THEOREM LimitsHold == Spec => []ConcurrencyLimit
<1>1. Init => ConcurrencyLimit
  <2> SUFFICES ASSUME Init PROVE ConcurrencyLimit
    OBVIOUS
  <2>1. LiveTasks = {} /\ \A g \in Group : {t \in LiveTasks : GroupOf[t] = g} = {}
    BY DEF Init, LiveTasks, Live, Absent
  <2>2. Cardinality({}) = 0 /\ RunMax \in Nat /\ GroupMax \in Nat
    BY FS_EmptySet, SubagentConstants DEF SubagentConstants
  <2>3. Cardinality(LiveTasks) <= RunMax
    BY <2>1, <2>2
  <2>4. \A g \in Group : Cardinality({t \in LiveTasks : GroupOf[t] = g}) <= GroupMax
    BY <2>1, <2>2
  <2> QED BY <2>3, <2>4 DEF ConcurrencyLimit, LiveTasks
<1>2. ConcurrencyLimit /\ TypeInv /\ DeliveryInv /\ [Next]_vars => ConcurrencyLimit'
  BY StepShape, LimitNext
<1> QED BY <1>1, <1>2, Invariants, PTL DEF Spec

\* A result is in the durable history once if its row says delivered, and otherwise not
\* at all, whichever processes resume a wait and however often they compact for it.
THEOREM DeliveryCorrect == Spec => []ResultsDeliveredOnce
<1>1. Init => ResultsDeliveredOnce
  BY DEF Init, ResultsDeliveredOnce, Absent
<1>2. ResultsDeliveredOnce /\ TypeInv /\ DeliveryInv /\ [Next]_vars => ResultsDeliveredOnce'
  <2> SUFFICES ASSUME ResultsDeliveredOnce, TaskStep PROVE ResultsDeliveredOnce'
    BY StepShape
  <2>1. CASE Works
    BY <2>1 DEF Works, ResultsDeliveredOnce
  <2>2. CASE Delivers
    BY <2>2 DEF Delivers, ResultsDeliveredOnce
  <2>3. CASE Settles
    <3>1. \A t \in Task : task'[t].delivery = "delivered" <=> task[t].delivery = "delivered"
      BY <2>3 DEF Settles
    <3> QED BY <2>3, <3>1 DEF Settles, ResultsDeliveredOnce
  <2> QED BY <2>1, <2>2, <2>3 DEF TaskStep
<1> QED BY <1>1, <1>2, Invariants, PTL DEF Spec

\* A completed root has the result of every required child it spawned.
THEOREM RequiredCorrect == Spec => []RequiredResultsCollected
<1> DEFINE Inv == root.status = "completed"
                    => \A t \in Required \cap Spawned : task[t].delivery = "delivered"
<1>1. Init => Inv
  BY DEF Init
<1>2. Inv /\ TypeInv /\ DeliveryInv /\ [Next]_vars => Inv'
  <2> SUFFICES ASSUME Inv, TypeInv, DeliveryInv, TaskStep PROVE Inv'
    BY StepShape
  <2>0. Required \subseteq Task
    BY SubagentConstants DEF SubagentConstants
  <2>1. CASE Works
    <3>1. root'.status = "completed" => root.status = "completed"
      BY <2>1 DEF Works, TerminalRun
    <3> QED BY <2>0, <2>1, <3>1 DEF Works, Spawned
  <2>2. CASE Delivers
    BY <2>2 DEF Delivers, TerminalRun
  <2>3. CASE Settles
    <3>1. ASSUME root'.status = "completed", NEW t \in Required \cap Spawned'
          PROVE  task'[t].delivery = "delivered"
      <4>1. t \in Task /\ task'[t].status # "absent"
        BY <2>0, <3>1 DEF Spawned
      <4>2. task[t].status # "absent"
        BY <2>3, <4>1 DEF Settles
      <4>3. task[t].delivery # "pending" /\ task'[t].delivery = task[t].delivery
        BY <2>3, <3>1, <4>1, <4>2 DEF Settles, Spawned
      <4>4. task[t].delivery # "ignored"
        BY <2>3, <4>1 DEF Settles, DeliveryInv
      <4>5. task[t].delivery \in {"pending", "delivered", "ignored"}
        BY <4>1 DEF TypeInv, TaskRow
      <4> QED BY <4>3, <4>4, <4>5
    <3> QED BY <3>1
  <2> QED BY <2>1, <2>2, <2>3 DEF TaskStep
<1>3. Inv /\ ResultsDeliveredOnce => RequiredResultsCollected
  BY SubagentConstants DEF SubagentConstants, ResultsDeliveredOnce, RequiredResultsCollected
<1> QED BY <1>1, <1>2, <1>3, Invariants, DeliveryCorrect, PTL DEF Spec

\* A root that ended leaves no child to claim or to run and no result to deliver.
THEOREM OrphansCorrect == Spec => []NoOrphans
<1>1. Init => NoOrphans
  BY DEF Init, NoOrphans, TerminalRun
<1>2. NoOrphans /\ TypeInv /\ DeliveryInv /\ [Next]_vars => NoOrphans'
  <2> SUFFICES ASSUME NoOrphans, TaskStep PROVE NoOrphans'
    BY StepShape
  <2>1. CASE Works
    <3>1. root'.status \in TerminalRun => root.status \in TerminalRun
      BY <2>1 DEF Works
    <3> QED BY <2>1, <3>1 DEF Works, NoOrphans, Spawned, Done
  <2>2. CASE Delivers
    BY <2>2 DEF Delivers, NoOrphans
  <2>3. CASE Settles
    BY <2>3 DEF Settles, NoOrphans, Spawned, Done
  <2> QED BY <2>1, <2>2, <2>3 DEF TaskStep
<1> QED BY <1>1, <1>2, Invariants, PTL DEF Spec
============================================================================
