---------------------------- MODULE SubagentTasks ----------------------------
(***************************************************************************)
(* The durable child tasks of one root run: how they are spawned, leased   *)
(* to processes, finished, and delivered into the root's history, while    *)
(* several processes reconcile the same rows.                              *)
(*                                                                         *)
(* Every SubagentRepository operation locks the root row first, so it is   *)
(* one action.  The root's own lease protocol is RunLifecycle's; here a    *)
(* running root has one holder.  "waiting" is waiting_for_subagents, and   *)
(* "pending" stands for every other state in which nobody executes the     *)
(* root.                                                                   *)
(*                                                                         *)
(* Abstractions: a result is the name of its task and `results' counts how *)
(* often the durable history holds it; whether history must be compacted   *)
(* before more results fit is a choice (`full'), made for the waits, where *)
(* several processes may compact at once: a call's own worker compacts and *)
(* retries under the same comparison.  checkpoint_revision is only ever    *)
(* compared for equality and only grows, so a snapshot just remembers      *)
(* whether it is still `fresh'.                                            *)
(***************************************************************************)
EXTENDS Integers, FiniteSets

CONSTANTS
  Task,        \* the tasks the root may spawn
  Group,       \* group_id: the calls that spawn them
  GroupOf,     \* [Task -> Group]
  Required,    \* the tasks the root may not finish without
  Process,     \* server processes that execute children and reconcile
  NoProcess,   \* the NULL of lease_owner
  LeaseTicks,  \* the 30 s lease in clock ticks
  RunMax,      \* run_max_concurrency
  GroupMax,    \* max_concurrency of a group
  MaxFence     \* bound: lease_fence of a task

ASSUME SubagentConstants ==
  /\ IsFiniteSet(Task)
  /\ GroupOf \in [Task -> Group]
  /\ Required \subseteq Task
  /\ NoProcess \notin Process
  /\ {LeaseTicks, RunMax, GroupMax, MaxFence} \subseteq Nat \ {0}

VARIABLES
  root,      \* the AgentRun row as far as its children matter
  task,      \* AgentSubagentTask rows
  results,   \* how often each result is in the root's provider_messages
  child,     \* child[p][t]: the fence under which process p executes t, 0 if not
  snapshot   \* snapshot[p]: what p compacts outside every transaction

vars == <<root, task, results, child, snapshot>>

-----------------------------------------------------------------------------
TerminalRun == {"completed", "failed", "cancelled"}
TerminalTask == {"completed", "failed", "timed_out", "cancelled"}

NoWait == [tasks |-> {}, when |-> "all", due |-> FALSE]
NoSnapshot == [held |-> FALSE, fresh |-> FALSE, results |-> [t \in Task |-> 0]]
Absent == [status |-> "absent", owner |-> NoProcess, fence |-> 0, ttl |-> 0,
           due |-> FALSE, delivery |-> "pending", seq |-> 0]

Init ==
  /\ root = [status |-> "running", seq |-> 0, wait |-> NoWait, full |-> FALSE]
  /\ task = [t \in Task |-> Absent]
  /\ results = [t \in Task |-> 0]
  /\ child = [p \in Process |-> [t \in Task |-> 0]]
  /\ snapshot = [p \in Process |-> NoSnapshot]

-----------------------------------------------------------------------------
(* Pieces of the transactions. *)

Spawned == {t \in Task : task[t].status # "absent"}
Done(t) == task[t].status \in TerminalTask
Open(t) == task[t].status \in {"queued", "running"}
Live(t) == task[t].status = "running" /\ task[t].ttl > 0

\* checkpoint_revision grows: no snapshot taken before is current.
Revise == snapshot' = [p \in Process |-> [snapshot[p] EXCEPT !.fresh = FALSE]]

\* Mutant: the lease check forgets the fence and the expiry.
MatchesOwner(p, t) == task[t].status = "running" /\ task[t].owner = p

Matches(p, t) ==
  /\ task[t].status = "running"
  /\ task[t].owner = p
  /\ task[t].fence = child[p][t]
  /\ task[t].ttl > 0
  /\ ~task[t].due

Released(row, status) == [row EXCEPT !.status = status, !.owner = NoProcess, !.ttl = 0]

\* The tasks `ended' become terminal, numbered by the root's counter in some order.
Ended(rows, ended, status) ==
  {[t \in Task |-> IF t \in ended
                   THEN [Released(rows[t], status) EXCEPT !.seq = root.seq + order[t]]
                   ELSE rows[t]] :
     order \in {f \in [ended -> 1..Cardinality(ended)] :
                  \A s, t \in ended : f[s] = f[t] => s = t}}

\* Mutant: only the children that run are settled.
SettleRunning(status) ==
  LET running == {t \in Task : task[t].status = "running"} IN
  /\ \E rows \in Ended(task, running, "cancelled") : task' = rows
  /\ root' = [root EXCEPT !.status = status, !.wait = NoWait,
                          !.seq = @ + Cardinality(running)]
  /\ Revise
  /\ UNCHANGED <<results, child>>

\* settle_root_children: a terminal root leaves no open child and no open delivery.
Settle(status) ==
  LET open == {t \in Task : Open(t)} IN
  /\ \E rows \in Ended(task, open, "cancelled") :
       task' = [t \in Task |->
                  IF t \in Spawned
                  THEN [rows[t] EXCEPT !.owner = NoProcess, !.ttl = 0,
                          !.delivery = IF @ = "pending" THEN "ignored" ELSE @]
                  ELSE rows[t]]
  /\ root' = [root EXCEPT !.status = status, !.wait = NoWait,
                          !.seq = @ + Cardinality(open)]
  /\ Revise
  /\ UNCHANGED <<results, child>>

\* _payload: the results that are ready, in order of completion, cut off where the
\* batch would become too large but never before the first.
Batches(rows, selected) ==
  LET ready == {t \in selected : rows[t].status \in TerminalTask
                                 /\ rows[t].delivery = "pending"}
  IN  IF ready = {} THEN {{}}
      ELSE {{t \in ready : rows[t].seq <= rows[last].seq} : last \in ready}

\* _save: results enter the history and are marked delivered in one commit.
Deliver(rows, base, batch) ==
  /\ task' = [t \in Task |-> IF t \in batch THEN [rows[t] EXCEPT !.delivery = "delivered"]
                             ELSE rows[t]]
  /\ results' = [t \in Task |-> IF t \in batch THEN base[t] + 1 ELSE base[t]]
  /\ Revise

Ready(rows, selected, when) ==
  IF when = "all" THEN \A t \in selected : rows[t].status \in TerminalTask
  ELSE \E t \in selected : rows[t].status \in TerminalTask

-----------------------------------------------------------------------------
(* The root's own operations: SubagentRepository.operate. *)

\* A call that waits leaves the run; one that does not goes on with its results.
Operate(rows, selected, waits, collects, when) ==
  \E full \in BOOLEAN :
    IF waits /\ ~Ready(rows, selected, when)
    THEN /\ root' = [root EXCEPT !.status = "waiting", !.full = full,
                       !.wait = [tasks |-> selected, when |-> when, due |-> FALSE]]
         /\ Deliver(rows, results, {})
    ELSE /\ root' = [root EXCEPT !.full = full]
         /\ \E batch \in (IF collects THEN Batches(rows, selected) ELSE {{}}) :
              Deliver(rows, results, batch)

\* spawn_subagents, and delegate_tasks when it waits.
Spawn(g, waits) ==
  LET new == {t \in Task : GroupOf[t] = g}
      rows == [t \in Task |-> IF t \in new THEN [Absent EXCEPT !.status = "queued"]
                              ELSE task[t]]
  IN  /\ root.status = "running"
      /\ new # {}
      /\ new \cap Spawned = {}
      /\ Operate(rows, new, waits, waits, "all")
      /\ UNCHANGED child

\* wait_subagents, and collect_subagent_results, which may select nothing (so does
\* list_subagents: it delivers nothing).
Collect(selected, waits, when) ==
  /\ root.status = "running"
  /\ waits => selected # {}
  /\ selected \subseteq Spawned
  /\ Operate(task, selected, waits, TRUE, when)
  /\ UNCHANGED child

\* Mutant: completion asks only whether the required children are done.
CompleteUndelivered ==
  /\ root.status = "running"
  /\ \A t \in Required \cap Spawned : Done(t)
  /\ Settle("completed")

\* complete_run: assert_finalizable, then settle_root_children.
Complete ==
  /\ root.status = "running"
  /\ \A t \in Required \cap Spawned : Done(t) /\ task[t].delivery # "pending"
  /\ Settle("completed")

\* fail_run by the root's worker or by a wait that cannot be resumed, and recover.
FailRoot ==
  /\ root.status \in {"pending", "running", "waiting"}
  /\ Settle("failed")

CancelRoot ==
  /\ root.status \in {"pending", "running", "waiting"}
  /\ Settle("cancelled")

\* The root's worker changes: claim_run revises the checkpoint.
ClaimRoot ==
  /\ root.status = "pending"
  /\ root' = [root EXCEPT !.status = "running"]
  /\ Revise
  /\ UNCHANGED <<task, results, child>>

LoseRoot ==
  /\ root.status = "running"
  /\ root' = [root EXCEPT !.status = "pending"]
  /\ UNCHANGED <<task, results, child, snapshot>>

-----------------------------------------------------------------------------
(* Processes execute children. *)

Claim(p, t) ==
  LET running == {s \in Task : Live(s)} IN
  /\ child[p][t] = 0
  /\ root.status \notin TerminalRun
  /\ task[t].status = "queued"
  /\ ~task[t].due
  /\ Cardinality(running) < RunMax
  /\ Cardinality({s \in running : GroupOf[s] = GroupOf[t]}) < GroupMax
  /\ task[t].fence < MaxFence
  /\ task' = [task EXCEPT ![t].status = "running", ![t].owner = p, ![t].ttl = LeaseTicks,
                          ![t].fence = @ + 1]
  /\ child' = [child EXCEPT ![p][t] = task[t].fence + 1]
  /\ Revise
  /\ UNCHANGED <<root, results>>

Renew(p, t) ==
  /\ child[p][t] # 0
  /\ root.status \notin TerminalRun
  /\ Matches(p, t)
  /\ task[t].ttl < LeaseTicks
  /\ task' = [task EXCEPT ![t].ttl = LeaseTicks]
  /\ UNCHANGED <<root, results, child, snapshot>>

\* finish: a result is accepted only under the lease that was given for it.
Finish(p, t) ==
  /\ child[p][t] # 0
  /\ root.status \notin TerminalRun
  /\ Matches(p, t)
  /\ \E status \in {"completed", "failed"} :
       \E rows \in Ended(task, {t}, status) : task' = rows
  /\ root' = [root EXCEPT !.seq = @ + 1]
  /\ child' = [child EXCEPT ![p][t] = 0]
  /\ Revise
  /\ UNCHANGED results

\* The process dies, the deadline fires, the heartbeat or the reconciler cancels the
\* task, or finish refuses its result.
StopChild(p, t) ==
  /\ child[p][t] # 0
  /\ child' = [child EXCEPT ![p][t] = 0]
  /\ UNCHANGED <<root, task, results, snapshot>>

Age(t) ==
  /\ task[t].ttl > 0
  /\ task' = [task EXCEPT ![t].ttl = @ - 1]
  /\ UNCHANGED <<root, results, child, snapshot>>

DeadlinePasses(t) ==
  /\ Open(t)
  /\ ~task[t].due
  /\ task' = [task EXCEPT ![t].due = TRUE]
  /\ UNCHANGED <<root, results, child, snapshot>>

\* recover: one pass over the root's open children.
Recover ==
  LET overdue == {t \in Task : Open(t) /\ task[t].due}
      lost == {t \in Task : task[t].status = "running" /\ task[t].ttl = 0} \ overdue
  IN  /\ overdue \cup lost # {}
      /\ \E rows \in Ended(task, overdue, "timed_out") :
           task' = [t \in Task |-> IF t \in lost
                                   THEN [Released(rows[t], "queued") EXCEPT !.fence = @ + 1]
                                   ELSE rows[t]]
      /\ root' = [root EXCEPT !.seq = @ + Cardinality(overdue)]
      /\ Revise
      /\ UNCHANGED <<results, child>>

-----------------------------------------------------------------------------
(* A wait ends: SubagentRepository.resume_wait. *)

WaitTimesOut ==
  /\ root.status = "waiting"
  /\ ~root.wait.due
  /\ root' = [root EXCEPT !.wait.due = TRUE]
  /\ UNCHANGED <<task, results, child, snapshot>>

WaitOver ==
  /\ root.status = "waiting"
  /\ root.wait.due \/ Ready(task, root.wait.tasks, root.wait.when)

Resume(base) ==
  /\ WaitOver
  /\ \E batch \in Batches(task, root.wait.tasks) : Deliver(task, base, batch)
  /\ \E full \in BOOLEAN :
       root' = [root EXCEPT !.status = "pending", !.wait = NoWait, !.full = full]
  /\ UNCHANGED child

ResumeWait == ~root.full /\ Resume(results)

\* Mutant: the revision is noted before the pass that revises it once more.
CompactWaitEarly(p) ==
  /\ WaitOver
  /\ root.full
  /\ ~snapshot[p].held
  /\ snapshot' = [snapshot EXCEPT ![p] = [NoSnapshot EXCEPT !.held = TRUE]]
  /\ UNCHANGED <<root, task, results, child>>

\* CheckpointSpaceNeeded: the transaction is rolled back, its messages are compacted.
CompactWait(p) ==
  /\ WaitOver
  /\ root.full
  /\ ~snapshot[p].held
  /\ snapshot' = [snapshot EXCEPT ![p] = [held |-> TRUE, fresh |-> TRUE,
                                          results |-> results]]
  /\ UNCHANGED <<root, task, results, child>>

\* Mutant: the compacted history is written over whatever is there.
ResumeStale(p) == snapshot[p].held /\ Resume(snapshot[p].results)

\* The compacted history replaces the one it was made from.
ResumeCompacted(p) ==
  /\ snapshot[p].held
  /\ snapshot[p].fresh
  /\ Resume(snapshot[p].results)

\* subagent_checkpoint_conflict, or the wait ended meanwhile.
DropSnapshot(p) ==
  /\ snapshot[p].held
  /\ ~snapshot[p].fresh
  /\ snapshot' = [snapshot EXCEPT ![p] = NoSnapshot]
  /\ UNCHANGED <<root, task, results, child>>

-----------------------------------------------------------------------------
RootStep ==
  \/ \E g \in Group, waits \in BOOLEAN : Spawn(g, waits)
  \/ \E selected \in SUBSET Task, waits \in BOOLEAN, when \in {"all", "any"} :
       Collect(selected, waits, when)
  \/ Complete \/ FailRoot \/ CancelRoot \/ ClaimRoot \/ LoseRoot

ProcessStep(p) ==
  \/ \E t \in Task : Claim(p, t) \/ Renew(p, t) \/ Finish(p, t) \/ StopChild(p, t)
  \/ CompactWait(p) \/ ResumeCompacted(p) \/ DropSnapshot(p)

Next ==
  \/ RootStep
  \/ \E p \in Process : ProcessStep(p)
  \/ \E t \in Task : Age(t) \/ DeadlinePasses(t)
  \/ Recover \/ WaitTimesOut \/ ResumeWait

Spec == Init /\ [][Next]_vars

\* Clocks run, and every process reconciles on a timer; nothing is assumed of
\* children or of the model.
Fairness ==
  /\ \A t \in Task : WF_vars(DeadlinePasses(t))
  /\ WF_vars(Recover)
  /\ WF_vars(WaitTimesOut)
  /\ WF_vars(ResumeWait)
  /\ \A p \in Process :
       WF_vars(CompactWait(p)) /\ WF_vars(ResumeCompacted(p)) /\ WF_vars(DropSnapshot(p))

FairSpec == Spec /\ Fairness

-----------------------------------------------------------------------------
(* Safety. *)

\* At no moment do more children of a run, or of a group, hold a live lease than its
\* limits allow, whichever processes claim, renew and lose them.
ConcurrencyLimit ==
  LET running == {t \in Task : Live(t)} IN
  /\ Cardinality(running) <= RunMax
  /\ \A g \in Group : Cardinality({t \in running : GroupOf[t] = g}) <= GroupMax

\* A result is in the durable history exactly when its row says delivered, and never
\* twice, through interrupted waits, compaction and competing reconcilers.
ResultsDeliveredOnce ==
  \A t \in Task : results[t] = IF task[t].delivery = "delivered" THEN 1 ELSE 0

\* A completed root has read the result of every required child it spawned, whatever
\* became of the waits in which it was to be delivered.
RequiredResultsCollected ==
  root.status = "completed" => \A t \in Required \cap Spawned : results[t] = 1

\* A finished root leaves no child that could still be claimed, run or delivered.
NoOrphans ==
  root.status \in TerminalRun =>
    \A t \in Spawned : Done(t) /\ task[t].owner = NoProcess /\ task[t].delivery # "pending"

(* Liveness. *)

\* A root that waits for its children goes on, whatever becomes of them.
WaitEnds == root.status = "waiting" ~> root.status # "waiting"

=============================================================================
