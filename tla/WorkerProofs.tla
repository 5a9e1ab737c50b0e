---------------------------- MODULE WorkerProofs ----------------------------
(***************************************************************************)
(* Theorems about Worker, for every set of roots and children and any      *)
(* number of slots.                                                        *)
(***************************************************************************)
EXTENDS Worker, TLAPS

Row == [status : {"queued", "running", "finished"}, fence : Nat]
LoopState ==
  [phase : {"idle", "observed", "queried", "resume", "off"},
   claims : [Child -> Nat], live : [Child -> Nat], todo : SUBSET Root]

\* What the tables of the process are; the asyncio state is not needed.
Tables ==
  /\ run = [x \in Task |-> run[x]]
  /\ root = [r \in Root |-> root[r]]
  /\ child \in [Child -> Row]
  /\ claims \in [Child -> Nat]
  /\ loop \in LoopState
  /\ asked \subseteq Root
  /\ handoff \subseteq Root

-----------------------------------------------------------------------------
(* The tables. *)

LEMMA LiveType ==
  ASSUME Tables
  PROVE  Live \in [Child -> Nat]
BY DEF Live, Tables, Row

LEMMA IdleType == Idle \in LoopState
BY DEF Idle, LoopState

\* A root that becomes terminal keeps the tables of rows.
LEMMA FinishedTables ==
  ASSUME Tables, NEW r \in Root, Finished(r)
  PROVE  root' = [q \in Root |-> root'[q]] /\ child' \in [Child -> Row]
<1>1. \A c \in Child : [child[c] EXCEPT !.status = "finished"] \in Row
  BY DEF Tables, Row
<1> QED BY <1>1 DEF Finished, Tables

LEMMA EndedTables ==
  ASSUME Tables, NEW x \in Task, Ended(x)
  PROVE  /\ run' = [y \in Task |-> run'[y]] /\ claims' \in [Child -> Nat]
         /\ handoff' \subseteq Root
BY DEF Ended, Tables

LEMMA CreatedTables ==
  ASSUME NEW those, Created(those)
  PROVE  /\ run' = [y \in Task |-> run'[y]]
         /\ \A x \in Task : Alive(x) => Alive(x)'
         /\ \A x \in Task : x \in those => Alive(x)'
BY DEF Created, Alive

LEMMA RootTables ==
  ASSUME Tables, NEW r \in Root, RootStep(r)
  PROVE  Tables'
<1> USE DEF rows, tasks, signals, others
<1>0. r \in Task
  BY DEF Task
<1>1. CASE Execute(r)
  <2>1. UNCHANGED <<child, loop>> /\ asked' \subseteq Root
    BY <1>1 DEF Execute, Tables
  <2>2. root' = [q \in Root |-> root'[q]]
    BY <1>1 DEF Execute, Tables
  <2>3. run' = [y \in Task |-> run'[y]] /\ claims' \in [Child -> Nat] /\ handoff' \subseteq Root
    BY <1>0, <1>1, EndedTables DEF Execute, Tables
  <2> QED BY <2>1, <2>2, <2>3 DEF Tables
<1>2. CASE FinishRoot(r)
  <2>1. root' = [q \in Root |-> root'[q]] /\ child' \in [Child -> Row]
    BY <1>2, FinishedTables DEF FinishRoot
  <2> QED BY <1>2, <2>1 DEF FinishRoot, Tables
<1>3. CASE Pause(r)
  BY <1>3 DEF Pause, Tables
<1>4. CASE Leave(r) \/ RootCancelled(r)
  <2>1. Ended(r) /\ UNCHANGED <<root, child, loop, asked>>
    BY <1>4 DEF Leave, RootCancelled
  <2> QED BY <1>0, <2>1, EndedTables DEF Tables
<1>5. CASE Reap(r) \/ Reaped(r)
  BY <1>5 DEF Reap, Reaped, Tables
<1>6. CASE SyncAndEnd(r)
  BY <1>6 DEF SyncAndEnd, Tables
<1>7. CASE RenewalFails(r)
  BY <1>7 DEF RenewalFails, Tables
<1>8. CASE RecoverRoot(r)
  BY <1>8 DEF RecoverRoot, Tables
<1>9. CASE Answer(r)
  <2>1. run' = [y \in Task |-> run'[y]] /\ asked' \subseteq Root
    BY <1>9, CreatedTables DEF Answer, Kick, Tables
  <2> QED BY <1>9, <2>1 DEF Answer, Tables
<1>10. CASE HandOff(r)
  <2>1. run' = [y \in Task |-> run'[y]]
    BY <1>10, CreatedTables DEF HandOff, Kick, Tables
  <2>2. asked' \subseteq Root
    BY <1>10 DEF HandOff, Kick, Tables
  <2> QED BY <1>10, <2>1, <2>2 DEF HandOff, Tables
<1>11. CASE StopRun(r)
  <2>1. root' = [q \in Root |-> root'[q]] /\ child' \in [Child -> Row]
    BY <1>11, FinishedTables DEF StopRun
  <2> QED BY <1>11, <2>1 DEF StopRun, Tables
<1>12. CASE StopChildren(r) \/ StopTask(r)
  BY <1>12 DEF StopChildren, StopTask, Tables
<1> QED BY <1>1, <1>2, <1>3, <1>4, <1>5, <1>6, <1>7, <1>8, <1>9, <1>10, <1>11, <1>12
        DEF RootStep

LEMMA ChildTables ==
  ASSUME Tables, NEW c \in Child, ChildStep(c)
  PROVE  Tables'
<1> USE DEF rows, tasks, signals, others
<1>0. c \in Task /\ Parent[c] \in Root
  BY WorkerConstants DEF Task
<1>1. CASE ExecuteChild(c)
  <2>1. UNCHANGED <<root, loop, asked>>
    BY <1>1 DEF ExecuteChild
  <2>2. child' \in [Child -> Row]
    <3>1. child[c].fence + 1 \in Nat /\ child \in [Child -> Row]
      BY DEF Tables, Row
    <3>2. [status |-> "running", fence |-> child[c].fence + 1] \in Row
      BY <3>1 DEF Row
    <3>3. \/ UNCHANGED child
          \/ child' = [child EXCEPT ![c] = [status |-> "running", fence |-> child[c].fence + 1]]
      BY <1>1 DEF ExecuteChild
    <3> QED BY <3>1, <3>2, <3>3
  <2>3. run' = [y \in Task |-> run'[y]] /\ claims' \in [Child -> Nat] /\ handoff' \subseteq Root
    BY <1>0, <1>1, EndedTables DEF ExecuteChild, Tables
  <2> QED BY <2>1, <2>2, <2>3 DEF Tables
<1>2. CASE Register(c)
  BY <1>2 DEF Register, Tables, Row
<1>3. CASE FinishChild(c)
  <2>1. child' \in [Child -> Row]
    BY <1>3 DEF FinishChild, Tables, Row
  <2>2. run' = [y \in Task |-> run'[y]]
    BY <1>3 DEF FinishChild, Tables
  <2> QED BY <1>3, <2>1, <2>2 DEF FinishChild, Tables
<1>4. CASE ResumeByChild(c)
  <2>1. root' = [q \in Root |-> root'[q]] /\ child' \in [Child -> Row]
    BY <1>0, <1>4, FinishedTables DEF ResumeByChild, FailWait, Tables
  <2>2. run' = [y \in Task |-> run'[y]] /\ asked' \subseteq Root
    BY <1>0, <1>4 DEF ResumeByChild, Tables
  <2> QED BY <1>4, <2>1, <2>2 DEF ResumeByChild, Tables
<1>5. CASE LeaveChild(c) \/ ChildCancelled(c)
  <2>1. Ended(c) /\ UNCHANGED <<root, child, loop, asked>>
    BY <1>5 DEF LeaveChild, ChildCancelled
  <2> QED BY <1>0, <2>1, EndedTables DEF Tables
<1>6. CASE RenewalFails(c)
  BY <1>6 DEF RenewalFails, Tables
<1>7. CASE RecoverChild(c)
  <2>1. child' \in [Child -> Row]
    BY <1>7 DEF RecoverChild, Tables, Row
  <2> QED BY <1>7, <2>1 DEF RecoverChild, Tables
<1> QED BY <1>1, <1>2, <1>3, <1>4, <1>5, <1>6, <1>7 DEF ChildStep

LEMMA LoopTables ==
  ASSUME Tables, LoopStep
  PROVE  Tables'
<1> USE DEF rows, tasks, signals, others
<1>1. CASE Observe
  <2>1. loop' \in LoopState
    BY <1>1 DEF Observe, Tables, LoopState
  <2> QED BY <1>1, <2>1 DEF Observe, Tables
<1>2. CASE Query
  <2>1. loop' \in LoopState
    BY <1>2, LiveType DEF Query, Tables, LoopState
  <2> QED BY <1>2, <2>1 DEF Query, Tables
<1>3. CASE Compare
  <2>1. loop' \in LoopState
    <3> DEFINE waiting == {r \in Root : root[r] = "waiting"}
    <3>1. [Idle EXCEPT !.phase = "resume", !.todo = waiting] \in LoopState
      <4>1. waiting \in SUBSET Root
        OBVIOUS
      <4> HIDE DEF waiting
      <4> QED BY <4>1, IdleType DEF LoopState
    <3>2. loop' \in {Idle, [Idle EXCEPT !.phase = "resume", !.todo = waiting]}
      BY <1>3, Zenon DEF Compare, Checked
    <3> QED BY <3>1, <3>2, IdleType
  <2> QED BY <1>3, <2>1 DEF Compare, Checked, Tables
<1>4. CASE StartQueued
  <2>1. run' = [y \in Task |-> run'[y]]
    BY <1>4, CreatedTables DEF StartQueued
  <2> QED BY <1>4, <2>1, IdleType DEF StartQueued, Tables
<1>5. ASSUME NEW r \in Root, ResumeByLoop(r)
      PROVE  Tables'
  <2>1. loop' \in LoopState
    BY <1>5 DEF ResumeByLoop, Tables, LoopState
  <2>2. root' = [q \in Root |-> root'[q]] /\ child' \in [Child -> Row]
    BY <1>5, FinishedTables DEF ResumeByLoop, FailWait, Tables
  <2>3. run' = [y \in Task |-> run'[y]] /\ asked' \subseteq Root
    BY <1>5, CreatedTables DEF ResumeByLoop, Kick, Tables
  <2> QED BY <1>5, <2>1, <2>2, <2>3 DEF ResumeByLoop, Tables
<1> QED BY <1>1, <1>2, <1>3, <1>4, <1>5 DEF LoopStep

LEMMA TablesNext ==
  ASSUME Tables, [Next]_vars
  PROVE  Tables'
<1>1. CASE Reconcile
  <2>1. run' = [y \in Task |-> run'[y]] /\ asked' \subseteq Root
    BY <1>1, CreatedTables DEF Reconcile, Kick, Tables
  <2> QED BY <1>1, <2>1 DEF Reconcile, Tables, rows, others
<1>2. CASE CloseChildren
  <2>1. loop' \in LoopState
    BY <1>2, IdleType DEF CloseChildren, Idle, LoopState
  <2> QED BY <1>2, <2>1 DEF CloseChildren, Tables, rows, tasks
<1>3. CASE CloseRoots \/ Closed \/ UNCHANGED vars
  BY <1>3 DEF CloseRoots, Closed, vars, Tables, rows, tasks
<1> QED BY <1>1, <1>2, <1>3, RootTables, ChildTables, LoopTables DEF Next

LEMMA TablesInit == Init => Tables
BY IdleType DEF Init, Tables, Row

LEMMA TablesCorrect == Spec => []Tables
BY TablesInit, TablesNext, PTL DEF Spec

-----------------------------------------------------------------------------
(* A kick is never lost. *)

\* A run that was kicked and is still pending has a task, or its last one has just ended.
Held(r) ==
  (r \in asked /\ root[r] = "pending" /\ closing = "open") => Alive(r) \/ r \in handoff

\* A step that makes no run pending, forgets no end and ends no task.
LEMMA HeldKept ==
  ASSUME NEW r \in Root, Held(r),
         closing' = "open" => closing = "open",
         root'[r] = "pending" => root[r] = "pending",
         r \in asked' => r \in asked,
         Alive(r) => Alive(r)',
         r \in handoff => r \in handoff'
  PROVE  Held(r)'
BY DEF Held

\* While the process is open, the end of a root's task is remembered.
LEMMA HeldEnded ==
  ASSUME Tables, NEW x \in Task, Ended(x), NEW r \in Root, Held(r),
         UNCHANGED closing,
         root'[r] = "pending" => root[r] = "pending",
         r \in asked' => r \in asked
  PROVE  Held(r)'
<1>1. CASE r = x
  BY <1>1 DEF Held, Ended
<1>2. CASE r # x
  <2>1. Alive(r) => Alive(r)'
    BY <1>2 DEF Ended, Alive, Tables, Task
  <2>2. r \in handoff => r \in handoff'
    BY DEF Ended
  <2> QED BY <2>1, <2>2, HeldKept
<1> QED BY <1>1, <1>2

\* A kick gives the runs tasks, whatever was known of them.
LEMMA HeldKicked ==
  ASSUME NEW runs, Kick(runs), NEW r \in Root, Held(r),
         closing' = "open" => closing = "open",
         r \notin runs => (root'[r] = "pending" => root[r] = "pending"),
         r \notin runs => (r \in handoff => r \in handoff')
  PROVE  Held(r)'
<1>1. Alive(r) => Alive(r)'
  BY CreatedTables DEF Kick, Task
<1>2. CASE r \in runs
  <2>1. Alive(r)'
    BY <1>2, CreatedTables DEF Kick, Task
  <2> QED BY <2>1 DEF Held
<1>3. CASE r \notin runs
  <2>1. r \in asked' => r \in asked
    BY <1>3 DEF Kick
  <2>2. root'[r] = "pending" => root[r] = "pending"
    BY <1>3
  <2>3. r \in handoff => r \in handoff'
    BY <1>3
  <2> QED BY <1>1, <2>1, <2>2, <2>3, HeldKept
<1> QED BY <1>2, <1>3

LEMMA FinishedRoots ==
  ASSUME Tables, NEW r \in Root, Finished(r)
  PROVE  \A q \in Root : root'[q] = "pending" => root[q] = "pending"
BY DEF Finished, Tables

LEMMA RootHeld ==
  ASSUME Tables, NEW q \in Root, RootStep(q), NEW r \in Root, Held(r)
  PROVE  Held(r)'
<1> USE DEF rows, tasks, signals, others
<1>0. q \in Task /\ r \in Task
  BY DEF Task
<1>1. CASE Execute(q)
  <2>1. CASE root[q] = "pending"
    <3>1. root'[r] = "pending" => root[r] = "pending"
      BY <1>1, <2>1 DEF Execute, Tables
    <3>2. Alive(r) => Alive(r)'
      BY <1>0, <1>1, <2>1 DEF Execute, Tables, Alive
    <3> QED BY <1>1, <2>1, <3>1, <3>2, HeldKept DEF Execute
  <2>2. CASE root[q] # "pending"
    BY <1>0, <1>1, <2>2, HeldEnded DEF Execute
  <2> QED BY <2>1, <2>2
<1>2. CASE FinishRoot(q)
  <2>1. root'[r] = "pending" => root[r] = "pending"
    BY <1>2, FinishedRoots DEF FinishRoot
  <2>2. Alive(r) => Alive(r)'
    BY <1>0, <1>2 DEF FinishRoot, Tables, Alive
  <2> QED BY <1>2, <2>1, <2>2, HeldKept DEF FinishRoot
<1>3. CASE Pause(q)
  <2>1. root'[r] = "pending" => root[r] = "pending"
    BY <1>3 DEF Pause, Tables
  <2>2. Alive(r) => Alive(r)'
    BY <1>0, <1>3 DEF Pause, Tables, Alive
  <2> QED BY <1>3, <2>1, <2>2, HeldKept DEF Pause
<1>4. CASE Leave(q) \/ RootCancelled(q)
  BY <1>0, <1>4, HeldEnded DEF Leave, RootCancelled
<1>5. CASE Reap(q) \/ Reaped(q)
  <2>1. Alive(r) => Alive(r)'
    BY <1>0, <1>5 DEF Reap, Reaped, Tables, Alive
  <2> QED BY <1>5, <2>1, HeldKept DEF Reap, Reaped
<1>6. CASE SyncAndEnd(q)
  <2> DEFINE pending == {p \in Root : root[p] = "pending"}
  <2>1. UNCHANGED <<root, closing>> /\ asked' = asked \cup pending
    BY <1>6 DEF SyncAndEnd
  <2>2. CASE r = q
    BY <1>6, <2>2 DEF SyncAndEnd, Held
  <2>3. CASE r # q /\ r \in pending
    <3>1. Alive(r)'
      BY <1>0, <1>6, <2>3 DEF SyncAndEnd, Alive
    <3> QED BY <3>1 DEF Held
  <2>4. CASE r \notin pending
    BY <2>1, <2>4 DEF Held
  <2> QED BY <2>2, <2>3, <2>4
<1>7. CASE RenewalFails(q) \/ StopChildren(q) \/ StopTask(q)
  <2>1. UNCHANGED <<root, asked, run, handoff, closing>>
    BY <1>7 DEF RenewalFails, StopChildren, StopTask
  <2> QED BY <2>1 DEF Held, Alive
<1>8. CASE RecoverRoot(q)
  <2>1. CASE r = q
    BY <1>8, <2>1 DEF RecoverRoot, Held
  <2>2. CASE r # q
    <3>1. root'[r] = root[r]
      BY <1>8, <2>2 DEF RecoverRoot, Tables
    <3>2. UNCHANGED <<run, handoff, closing>> /\ (r \in asked' => r \in asked)
      BY <1>8 DEF RecoverRoot
    <3> QED BY <3>1, <3>2, HeldKept DEF Alive
  <2> QED BY <2>1, <2>2
<1>9. CASE Answer(q)
  <2>1. r \notin {q} => root'[r] = root[r]
    BY <1>9 DEF Answer, Tables
  <2> QED BY <1>9, <2>1, HeldKicked DEF Answer
<1>10. CASE HandOff(q)
  <2>1. UNCHANGED <<root, closing>> /\ handoff' = handoff \ {q}
    BY <1>10 DEF HandOff
  <2>2. CASE Kick({q})
    BY <2>1, <2>2, HeldKicked
  <2>3. CASE UNCHANGED run /\ asked' = asked \ {q}
    <3>1. CASE r = q
      BY <2>3, <3>1 DEF Held
    <3>2. CASE r # q
      BY <2>1, <2>3, <3>2, HeldKept DEF Alive
    <3> QED BY <3>1, <3>2
  <2>4. CASE /\ ~(closing = "open" /\ root[q] = "pending")
             /\ UNCHANGED <<run, asked>>
    <3>1. CASE r = q
      BY <2>1, <2>4, <3>1 DEF Held
    <3>2. CASE r # q
      BY <2>1, <2>4, <3>2, HeldKept DEF Alive
    <3> QED BY <3>1, <3>2
  <2> QED BY <1>10, <2>2, <2>3, <2>4 DEF HandOff
<1>11. CASE StopRun(q)
  <2>1. root'[r] = "pending" => root[r] = "pending"
    BY <1>11, FinishedRoots DEF StopRun
  <2>2. UNCHANGED <<run, handoff, closing, asked>>
    BY <1>11 DEF StopRun
  <2> QED BY <2>1, <2>2, HeldKept DEF Alive
<1> QED BY <1>1, <1>2, <1>3, <1>4, <1>5, <1>6, <1>7, <1>8, <1>9, <1>10, <1>11 DEF RootStep

LEMMA ChildHeld ==
  ASSUME Tables, NEW c \in Child, ChildStep(c), NEW r \in Root, Held(r)
  PROVE  Held(r)'
<1> USE DEF rows, tasks, signals, others
<1>0. c \in Task /\ r \in Task /\ r # c /\ Parent[c] \in Root
  BY WorkerConstants DEF Task
<1>1. CASE ExecuteChild(c)
  <2>1. CASE child[c].status = "queued"
    <3>1. Alive(r) => Alive(r)'
      BY <1>0, <1>1, <2>1 DEF ExecuteChild, Tables, Alive
    <3> QED BY <1>1, <2>1, <3>1, HeldKept DEF ExecuteChild
  <2>2. CASE child[c].status # "queued"
    BY <1>0, <1>1, <2>2, HeldEnded DEF ExecuteChild
  <2> QED BY <2>1, <2>2
<1>2. CASE Register(c) \/ FinishChild(c)
  <2>1. Alive(r) => Alive(r)'
    BY <1>0, <1>2 DEF Register, FinishChild, Tables, Alive
  <2>2. UNCHANGED <<root, handoff, closing, asked>>
    BY <1>2 DEF Register, FinishChild
  <2> QED BY <2>1, <2>2, HeldKept
<1>3. CASE ResumeByChild(c)
  <2>1. Alive(r) => Alive(r)'
    BY <1>0, <1>3 DEF ResumeByChild, Tables, Alive
  <2>2. UNCHANGED <<handoff, closing>>
    BY <1>3 DEF ResumeByChild
  <2>3. CASE UNCHANGED <<root, asked>>
    BY <2>1, <2>2, <2>3, HeldKept
  <2>4. CASE /\ root' = [root EXCEPT ![Parent[c]] = "pending"]
             /\ asked' = asked \cup {Parent[c]}
             /\ run' = [x \in Task |-> IF x = c THEN "leaving"
                                       ELSE IF x = Parent[c] /\ ~Alive(Parent[c]) THEN "slot"
                                       ELSE run[x]]
    <3>1. CASE r = Parent[c]
      <4>1. Alive(r)'
        BY <1>0, <2>4, <3>1 DEF Alive
      <4> QED BY <4>1 DEF Held
    <3>2. CASE r # Parent[c]
      BY <2>1, <2>2, <2>4, <3>2, HeldKept DEF Tables
    <3> QED BY <3>1, <3>2
  <2>5. CASE FailWait(Parent[c], c) /\ UNCHANGED asked
    BY <1>0, <2>1, <2>2, <2>5, HeldKept, FinishedRoots DEF FailWait
  <2> QED BY <1>3, <2>3, <2>4, <2>5 DEF ResumeByChild
<1>4. CASE LeaveChild(c) \/ ChildCancelled(c)
  BY <1>0, <1>4, HeldEnded DEF LeaveChild, ChildCancelled
<1>5. CASE RenewalFails(c) \/ RecoverChild(c)
  <2>1. UNCHANGED <<root, asked, run, handoff, closing>>
    BY <1>5 DEF RenewalFails, RecoverChild
  <2> QED BY <2>1 DEF Held, Alive
<1> QED BY <1>1, <1>2, <1>3, <1>4, <1>5 DEF ChildStep

LEMMA HeldNext ==
  ASSUME Tables, [Next]_vars, NEW r \in Root, Held(r)
  PROVE  Held(r)'
<1> USE DEF rows, tasks, signals, others
<1>1. CASE Reconcile
  BY <1>1, HeldKicked DEF Reconcile
<1>2. CASE Observe \/ Query \/ Compare
  <2>1. UNCHANGED <<root, asked, run, handoff, closing>>
    BY <1>2 DEF Observe, Query, Compare, Checked
  <2> QED BY <2>1 DEF Held, Alive
<1>3. CASE StartQueued
  <2>1. Alive(r) => Alive(r)'
    BY <1>3, CreatedTables DEF StartQueued, Task
  <2> QED BY <1>3, <2>1, HeldKept DEF StartQueued
<1>4. ASSUME NEW q \in Root, ResumeByLoop(q)
      PROVE  Held(r)'
  <2>1. UNCHANGED <<handoff, closing>>
    BY <1>4 DEF ResumeByLoop
  <2>2. CASE UNCHANGED <<root, run, asked>>
    BY <2>1, <2>2 DEF Held, Alive
  <2>3. CASE root' = [root EXCEPT ![q] = "pending"] /\ Kick({q})
    <3>1. r \notin {q} => root'[r] = root[r]
      BY <2>3 DEF Tables
    <3> QED BY <2>1, <2>3, <3>1, HeldKicked
  <2>4. CASE FailWait(q, Loop) /\ UNCHANGED <<run, asked>>
    BY <2>1, <2>4, FinishedRoots, HeldKept DEF FailWait, Alive
  <2> QED BY <1>4, <2>2, <2>3, <2>4 DEF ResumeByLoop
<1>5. CASE CloseChildren \/ CloseRoots \/ Closed
  <2>1. UNCHANGED <<root, asked, run, handoff>> /\ closing' # "open"
    BY <1>5 DEF CloseChildren, CloseRoots, Closed
  <2> QED BY <2>1 DEF Held
<1>6. CASE UNCHANGED vars
  BY <1>6 DEF vars, Held, Alive
<1> QED BY <1>1, <1>2, <1>3, <1>4, <1>5, <1>6, RootHeld, ChildHeld DEF Next, LoopStep

\* However kicks, the ends of tasks, cancellations and resumed waits interleave, a run that
\* was kicked does not stay pending without a task that knows of it.
THEOREM HandoffCorrect == Spec => []HandoffKept
<1> DEFINE AllHeld == \A r \in Root : Held(r)
<1>1. Init => AllHeld
  BY DEF Init, Held
<1>2. Tables /\ AllHeld /\ [Next]_vars => AllHeld'
  BY HeldNext
<1>3. Tables /\ AllHeld => HandoffKept
  BY DEF Tables, Held, HandoffKept
<1> HIDE DEF AllHeld
<1> QED BY <1>1, <1>2, <1>3, TablesCorrect, PTL DEF Spec

-----------------------------------------------------------------------------
(* The reconciler spares the living. *)

\* Fences grow, and what was observed or registered is not ahead of the row.
FenceInv ==
  \A c \in Child :
    /\ claims[c] <= child[c].fence
    /\ loop.phase \in {"observed", "queried"} => loop.claims[c] <= child[c].fence
    /\ (loop.phase = "queried" /\ loop.claims[c] # 0 /\ loop.live[c] # loop.claims[c])
         => child[c] # [status |-> "running", fence |-> loop.claims[c]]

\* A step of the database: only a claim starts a child, with the next fence.
RowStep(c) ==
  \/ child'[c] = child[c]
  \/ child'[c].fence = child[c].fence + 1
  \/ child'[c].fence = child[c].fence /\ child'[c].status # "running"

\* Apart from the claim that is registered, claims are only forgotten.
ClaimStep(c) == claims'[c] \in {claims[c], 0, child[c].fence}

LEMMA FenceKept ==
  ASSUME Tables, Tables', FenceInv, UNCHANGED loop,
         \A c \in Child : RowStep(c) /\ ClaimStep(c)
  PROVE  FenceInv'
<1> SUFFICES ASSUME NEW c \in Child
             PROVE  /\ claims'[c] <= child'[c].fence
                    /\ loop.phase \in {"observed", "queried"} => loop.claims[c] <= child'[c].fence
                    /\ (loop.phase = "queried" /\ loop.claims[c] # 0
                          /\ loop.live[c] # loop.claims[c])
                         => child'[c] # [status |-> "running", fence |-> loop.claims[c]]
  BY DEF FenceInv
<1>1. /\ child[c].fence \in Nat /\ child'[c].fence \in Nat
      /\ claims[c] \in Nat /\ loop.claims[c] \in Nat
  BY DEF Tables, Row, LoopState
<1>2. child[c].fence <= child'[c].fence
  BY <1>1 DEF RowStep
<1>3. claims'[c] <= child'[c].fence
  <2>1. claims[c] <= child[c].fence
    BY DEF FenceInv
  <2>2. claims'[c] \in {claims[c], 0, child[c].fence}
    BY DEF ClaimStep
  <2> QED BY <1>1, <1>2, <2>1, <2>2
<1>4. loop.phase \in {"observed", "queried"} => loop.claims[c] <= child'[c].fence
  <2>1. loop.phase \in {"observed", "queried"} => loop.claims[c] <= child[c].fence
    BY DEF FenceInv
  <2> QED BY <1>1, <1>2, <2>1
<1>5. ASSUME loop.phase = "queried", loop.claims[c] # 0, loop.live[c] # loop.claims[c]
      PROVE  child'[c] # [status |-> "running", fence |-> loop.claims[c]]
  <2>1. /\ child[c] # [status |-> "running", fence |-> loop.claims[c]]
        /\ loop.claims[c] <= child[c].fence
    BY <1>5 DEF FenceInv
  <2>2. CASE child'[c] = child[c]
    BY <2>1, <2>2
  <2>3. CASE child'[c].fence = child[c].fence + 1
    BY <1>1, <2>1, <2>3
  <2>4. CASE child'[c].status # "running"
    BY <2>4
  <2> QED BY <2>2, <2>3, <2>4 DEF RowStep
<1> QED BY <1>3, <1>4, <1>5

\* A loop that is neither observing nor querying has nothing to be ahead of.
LEMMA FenceElsewhere ==
  ASSUME Tables, Tables', FenceInv, loop'.phase \notin {"observed", "queried"},
         \A c \in Child : RowStep(c) /\ ClaimStep(c)
  PROVE  FenceInv'
<1> SUFFICES ASSUME NEW c \in Child
             PROVE  claims'[c] <= child'[c].fence
  BY DEF FenceInv
<1>1. /\ child[c].fence \in Nat /\ child'[c].fence \in Nat /\ claims[c] \in Nat
  BY DEF Tables, Row
<1>2. child[c].fence <= child'[c].fence
  BY <1>1 DEF RowStep
<1>3. claims[c] <= child[c].fence
  BY DEF FenceInv
<1>4. claims'[c] \in {claims[c], 0, child[c].fence}
  BY DEF ClaimStep
<1> QED BY <1>1, <1>2, <1>3, <1>4

LEMMA FinishedRows ==
  ASSUME Tables, NEW r \in Root, Finished(r)
  PROVE  \A c \in Child : RowStep(c)
BY DEF Finished, Tables, Row, RowStep

LEMMA EndedClaims ==
  ASSUME NEW x, Ended(x)
  PROVE  \A c \in Child : ClaimStep(c)
BY DEF Ended, ClaimStep

LEMMA KeptRows ==
  ASSUME UNCHANGED child
  PROVE  \A c \in Child : RowStep(c)
BY DEF RowStep

LEMMA KeptClaims ==
  ASSUME UNCHANGED claims
  PROVE  \A c \in Child : ClaimStep(c)
BY DEF ClaimStep

LEMMA RootFence ==
  ASSUME Tables, NEW r \in Root, RootStep(r)
  PROVE  UNCHANGED loop /\ \A c \in Child : RowStep(c) /\ ClaimStep(c)
<1> USE DEF rows, tasks, signals, others
<1>1. CASE Execute(r) \/ Leave(r) \/ RootCancelled(r)
  <2>1. UNCHANGED <<child, loop>> /\ (UNCHANGED claims \/ Ended(r))
    BY <1>1 DEF Execute, Leave, RootCancelled
  <2> QED BY <2>1, EndedClaims, KeptRows, KeptClaims
<1>2. CASE FinishRoot(r) \/ StopRun(r)
  <2>1. UNCHANGED <<claims, loop>> /\ Finished(r)
    BY <1>2 DEF FinishRoot, StopRun
  <2> QED BY <2>1, FinishedRows, KeptClaims
<1>3. CASE \/ Pause(r) \/ Reap(r) \/ Reaped(r) \/ SyncAndEnd(r) \/ RenewalFails(r)
           \/ RecoverRoot(r) \/ Answer(r) \/ HandOff(r) \/ StopChildren(r) \/ StopTask(r)
  <2>1. UNCHANGED <<child, claims, loop>>
    BY <1>3 DEF Pause, Reap, Reaped, SyncAndEnd, RenewalFails, RecoverRoot, Answer, HandOff,
                StopChildren, StopTask
  <2> QED BY <2>1, KeptRows, KeptClaims
<1> QED BY <1>1, <1>2, <1>3 DEF RootStep

LEMMA ChildFence ==
  ASSUME Tables, NEW d \in Child, ChildStep(d)
  PROVE  UNCHANGED loop /\ \A c \in Child : RowStep(c) /\ ClaimStep(c)
<1> USE DEF rows, tasks, signals, others
<1>0. Parent[d] \in Root
  BY WorkerConstants
<1>1. CASE ExecuteChild(d)
  <2>1. UNCHANGED loop
    BY <1>1 DEF ExecuteChild
  <2>2. CASE child[d].status = "queued"
    <3>1. /\ UNCHANGED claims
          /\ child' = [child EXCEPT ![d] = [status |-> "running", fence |-> child[d].fence + 1]]
      BY <1>1, <2>2 DEF ExecuteChild
    <3>2. \A c \in Child : RowStep(c)
      BY <3>1 DEF RowStep, Tables
    <3> QED BY <2>1, <3>1, <3>2, KeptClaims
  <2>3. CASE child[d].status # "queued"
    BY <1>1, <2>1, <2>3, EndedClaims, KeptRows DEF ExecuteChild
  <2> QED BY <2>2, <2>3
<1>2. CASE Register(d)
  <2>1. UNCHANGED <<child, loop>>
    BY <1>2 DEF Register
  <2>2. \A c \in Child : ClaimStep(c)
    BY <1>2 DEF Register, ClaimStep, Tables
  <2> QED BY <2>1, <2>2, KeptRows
<1>3. CASE FinishChild(d)
  <2>1. UNCHANGED <<claims, loop>>
    BY <1>3 DEF FinishChild
  <2>2. \A c \in Child : RowStep(c)
    BY <1>3 DEF FinishChild, RowStep, Tables, Row
  <2> QED BY <2>1, <2>2, KeptClaims
<1>4. CASE ResumeByChild(d)
  <2>1. UNCHANGED <<claims, loop>>
    BY <1>4 DEF ResumeByChild
  <2>2. UNCHANGED child \/ Finished(Parent[d])
    BY <1>4 DEF ResumeByChild, FailWait
  <2> QED BY <1>0, <2>1, <2>2, FinishedRows, KeptRows, KeptClaims
<1>5. CASE LeaveChild(d) \/ ChildCancelled(d)
  <2>1. UNCHANGED <<child, loop>> /\ Ended(d)
    BY <1>5 DEF LeaveChild, ChildCancelled
  <2> QED BY <2>1, EndedClaims, KeptRows
<1>6. CASE RenewalFails(d)
  <2>1. UNCHANGED <<child, claims, loop>>
    BY <1>6 DEF RenewalFails
  <2> QED BY <2>1, KeptRows, KeptClaims
<1>7. CASE RecoverChild(d)
  <2>1. UNCHANGED <<claims, loop>>
    BY <1>7 DEF RecoverChild
  <2>2. \A c \in Child : RowStep(c)
    BY <1>7 DEF RecoverChild, RowStep, Tables, Row
  <2> QED BY <2>1, <2>2, KeptClaims
<1> QED BY <1>1, <1>2, <1>3, <1>4, <1>5, <1>6, <1>7 DEF ChildStep

LEMMA LoopFence ==
  ASSUME Tables, Tables', FenceInv, LoopStep
  PROVE  FenceInv'
<1> USE DEF rows, tasks, signals, others
<1>1. CASE Observe
  <2>1. UNCHANGED <<child, claims>> /\ loop'.phase = "observed" /\ loop'.claims = claims
    BY <1>1 DEF Observe, Tables, LoopState
  <2> QED BY <2>1 DEF FenceInv
<1>2. CASE Query
  <2>1. /\ UNCHANGED <<child, claims>> /\ loop.phase = "observed"
        /\ loop'.phase = "queried" /\ loop'.claims = loop.claims /\ loop'.live = Live
    BY <1>2 DEF Query, Tables, LoopState
  <2>2. \A c \in Child : Live[c] # loop.claims[c] =>
          child[c] # [status |-> "running", fence |-> loop.claims[c]]
    BY DEF Live
  <2> QED BY <2>1, <2>2 DEF FenceInv
<1>3. CASE Compare \/ StartQueued
  <2>1. UNCHANGED <<child, claims>>
    BY <1>3 DEF Compare, Checked, StartQueued
  <2>2. loop'.phase \notin {"observed", "queried"}
    <3>1. CASE Compare
      <4>1. Idle.phase = "idle"
        BY DEF Idle
      <4>2. \A T : [Idle EXCEPT !.phase = "resume", !.todo = T].phase = "resume"
        BY DEF Idle
      <4>3. loop' = Idle \/ \E T : loop' = [Idle EXCEPT !.phase = "resume", !.todo = T]
        BY <3>1, Zenon DEF Compare, Checked
      <4> QED BY <4>1, <4>2, <4>3
    <3>2. CASE StartQueued
      BY <3>2 DEF StartQueued, Idle
    <3> QED BY <1>3, <3>1, <3>2
  <2> QED BY <2>1, <2>2, FenceElsewhere, KeptRows, KeptClaims
<1>4. ASSUME NEW r \in Root, ResumeByLoop(r)
      PROVE  FenceInv'
  <2>1. UNCHANGED claims /\ loop'.phase = "resume"
    BY <1>4 DEF ResumeByLoop, Tables, LoopState
  <2>2. UNCHANGED child \/ Finished(r)
    BY <1>4 DEF ResumeByLoop, FailWait
  <2>3. \A c \in Child : RowStep(c) /\ ClaimStep(c)
    BY <2>1, <2>2, FinishedRows, KeptRows, KeptClaims
  <2> QED BY <2>1, <2>3, FenceElsewhere
<1> QED BY <1>1, <1>2, <1>3, <1>4 DEF LoopStep

LEMMA FenceNext ==
  ASSUME Tables, FenceInv, [Next]_vars
  PROVE  FenceInv'
<1> USE DEF rows, tasks, signals, others
<1>0. Tables'
  BY TablesNext
<1>1. ASSUME NEW r \in Root, RootStep(r)
      PROVE  FenceInv'
  BY <1>0, <1>1, RootFence, FenceKept
<1>2. ASSUME NEW c \in Child, ChildStep(c)
      PROVE  FenceInv'
  BY <1>0, <1>2, ChildFence, FenceKept
<1>3. CASE LoopStep
  BY <1>0, <1>3, LoopFence
<1>4. CASE Reconcile \/ CloseRoots \/ Closed \/ UNCHANGED vars
  <2>1. UNCHANGED <<child, claims, loop>>
    BY <1>4 DEF Reconcile, CloseRoots, Closed, vars
  <2> QED BY <2>1 DEF FenceInv
<1>5. CASE CloseChildren
  <2>1. UNCHANGED <<child, claims>> /\ loop'.phase = "off"
    BY <1>5 DEF CloseChildren, Idle
  <2> QED BY <1>0, <2>1, FenceElsewhere, KeptRows, KeptClaims
<1> QED BY <1>1, <1>2, <1>3, <1>4, <1>5 DEF Next

LEMMA FenceInit == Init => FenceInv
BY DEF Init, FenceInv, Idle

LEMMA FenceCorrect == Spec => []FenceInv
<1>1. Tables /\ FenceInv /\ [Next]_vars => FenceInv'
  BY FenceNext
<1> QED BY <1>1, FenceInit, TablesCorrect, PTL DEF Spec

\* Only the comparison leads from the query to the waiting roots, and it cancels only claims
\* that it observed, that are unchanged, and that the query did not find.
LEMMA SparedStep ==
  ASSUME Tables, FenceInv, [Next]_vars, loop.phase = "queried", loop'.phase = "resume",
         NEW c \in cancelled' \ cancelled
  PROVE  ~HoldsLease(c)
<1> USE DEF rows, tasks, signals, others
<1>1. loop' # loop
  BY DEF Tables, LoopState
<1>2. ~Reconcile /\ ~CloseRoots /\ ~Closed /\ ~UNCHANGED vars
  BY <1>1 DEF Reconcile, CloseRoots, Closed, vars
<1>3. ~CloseChildren
  BY DEF CloseChildren, Idle
<1>4. \A r \in Root : ~RootStep(r)
  BY <1>1, RootFence
<1>5. \A d \in Child : ~ChildStep(d)
  BY <1>1, ChildFence
<1>6. ~Observe /\ ~Query /\ ~StartQueued /\ \A r \in Root : ~ResumeByLoop(r)
  BY DEF Observe, Query, StartQueued, ResumeByLoop
<1>7. Compare
  BY <1>2, <1>3, <1>4, <1>5, <1>6 DEF Next, LoopStep
<1>8. /\ c \in Child /\ loop.claims[c] # 0 /\ claims[c] = loop.claims[c]
      /\ loop.live[c] # claims[c]
  BY <1>7 DEF Compare, Checked
<1> QED BY <1>8 DEF FenceInv, HoldsLease

\* A child is not cancelled by the reconciler while it holds its lease, although claims
\* commit, are registered and end between the observation, the query and the comparison.
THEOREM SparedCorrect == Spec => FreshClaimSpared
<1>1. Tables /\ FenceInv /\ [Next]_vars =>
        [loop.phase = "queried" /\ loop'.phase = "resume"
           => \A c \in cancelled' \ cancelled : ~HoldsLease(c)]_vars
  BY SparedStep
<1> QED BY <1>1, TablesCorrect, FenceCorrect, PTL DEF Spec, FreshClaimSpared
=============================================================================
