-------------------------------- MODULE Worker --------------------------------
(***************************************************************************)
(* The tasks of one server process: AgentRuntime executes root runs and    *)
(* SubagentRuntime executes their children, all of them in slots of one    *)
(* semaphore.  Both kick, cancel and await each other's tasks, and both    *)
(* reconcile what runs here with what the database says.                   *)
(*                                                                         *)
(* An action is the code between two awaits of one asyncio task.  What the *)
(* database does in a transaction is RunLifecycle's and SubagentTasks';    *)
(* here a row is a status, and a lease of a child is its fence.  A root    *)
(* that pauses for its user is "paused", one that waits for its children   *)
(* "waiting"; "finished" stands for the three terminal statuses.           *)
(*                                                                         *)
(* Abstractions: the other processes are the expiry of a lease and nothing *)
(* else; publishing events, metrics and the renewal tasks themselves are   *)
(* left out, a failed renewal being the cancellation it leads to.          *)
(***************************************************************************)
EXTENDS Integers, Sequences, FiniteSets

CONSTANTS
  Root,        \* root runs this process may execute
  Child,       \* their child tasks
  Parent,      \* [Child -> Root]
  Loop,        \* the asyncio task of the subagents' reconcile loop
  Close,       \* the call of AgentRuntime.close
  MaxRuns,     \* max_concurrent_runs: the execution slots
  Undelivered, \* who may meet results that do not fit: subset of {"loop", "child"}
  Closes,      \* whether the process shuts down
  MaxFaults    \* bound: failed renewals and expired leases

ASSUME WorkerConstants ==
  /\ Parent \in [Child -> Root]
  /\ Root \cap Child = {} /\ {Loop, Close} \cap (Root \cup Child) = {} /\ Loop # Close
  /\ {MaxRuns, MaxFaults} \subseteq Nat \ {0}
  /\ Undelivered \subseteq {"loop", "child"} /\ Closes \in BOOLEAN

VARIABLES
  root,      \* AgentRun.status of each root
  child,     \* AgentSubagentTask: status and lease_fence of each child
  run,       \* run[x]: where the asyncio task that executes x stands
  claims,    \* SubagentRuntime.claims: the fence a child executes under, 0 if none
  line,      \* who awaits the semaphore, in order
  cancelled, \* tasks that were cancelled and have not noticed yet
  awaiting,  \* awaiting[w]: the tasks whose end w gathers
  handoff,   \* runs whose task just ended and _kick_if_pending has to look at
  stop,      \* stop[r]: how far the user's cancellation of r got
  loop,      \* the subagents' reconcile loop
  closing,   \* how far close() got
  asked,     \* history: runs that were kicked since they became pending
  faults     \* bound: failed renewals and expired leases so far

rows == <<root, child>>
tasks == <<run, claims, line, handoff>>
signals == <<cancelled, awaiting>>
others == <<stop, loop, closing, faults>>
vars == <<root, child, run, claims, line, cancelled, awaiting, handoff, stop, loop,
          closing, asked, faults>>

-----------------------------------------------------------------------------
Task == Root \cup Child
Stop(r) == <<"stop", r>>
Waiter == Task \cup {Loop, Close} \cup {Stop(r) : r \in Root}
ChildrenOf(r) == {c \in Child : Parent[c] = r}

Idle == [phase |-> "idle", claims |-> [c \in Child |-> 0], live |-> [c \in Child |-> 0],
         todo |-> {}]

Alive(x) == run[x] # "none"
Holders == {x \in Task : run[x] \notin {"none", "slot"}}

Init ==
  /\ root = [r \in Root |-> "pending"]
  /\ child = [c \in Child |-> [status |-> "queued", fence |-> 0]]
  /\ run = [x \in Task |-> "none"]
  /\ claims = [c \in Child |-> 0]
  /\ line = <<>>
  /\ cancelled = {}
  /\ awaiting = [w \in Waiter |-> {}]
  /\ handoff = {}
  /\ stop = [r \in Root |-> "no"]
  /\ loop = Idle
  /\ closing = "open"
  /\ asked = {}
  /\ faults = 0

-----------------------------------------------------------------------------
(* Pieces the tasks share. *)

\* A root becomes terminal: its transaction settles every child.
Finished(r) ==
  /\ root' = [root EXCEPT ![r] = "finished"]
  /\ child' = [c \in Child |-> IF Parent[c] = r
                               THEN [child[c] EXCEPT !.status = "finished"] ELSE child[c]]

Orders(S) == {s \in [1..Cardinality(S) -> S] : \A x \in S : \E i \in DOMAIN s : s[i] = x}

\* Tasks for those of `those' that have none: each first awaits the semaphore.
Created(those) ==
  LET new == {x \in those : ~Alive(x)} IN
  \E order \in Orders(new) :
    /\ run' = [x \in Task |-> IF x \in new THEN "slot" ELSE run[x]]
    /\ line' = line \o order

\* kick: a run whose task still lives is left to that task.
Kick(runs) ==
  /\ Created(runs)
  /\ asked' = asked \cup runs

\* Mutant: the end of a task does not look whether its run is pending again.
EndedForGood(x) ==
  /\ run' = [run EXCEPT ![x] = "none"]
  /\ line' = SelectSeq(line, LAMBDA y : y # x)
  /\ cancelled' = cancelled \ {x}
  /\ claims' = [c \in Child |-> IF c = x THEN 0 ELSE claims[c]]
  /\ awaiting' = [w \in Waiter |-> IF w = x THEN {} ELSE awaiting[w] \ {x}]
  /\ handoff' = handoff

\* _task_finished and _finished.
Ended(x) ==
  /\ run' = [run EXCEPT ![x] = "none"]
  /\ line' = SelectSeq(line, LAMBDA y : y # x)
  /\ cancelled' = cancelled \ {x}
  /\ claims' = [c \in Child |-> IF c = x THEN 0 ELSE claims[c]]
  /\ awaiting' = [w \in Waiter |-> IF w = x THEN {} ELSE awaiting[w] \ {x}]
  /\ handoff' = IF x \in Root /\ closing = "open" THEN handoff \cup {x} ELSE handoff

\* cancel_root: cancel the registered children of r that run here; w gathers them.
\* A w that was cancelled itself has noticed it by now.
CancelRoot(r, w) ==
  LET theirs == {c \in ChildrenOf(r) : claims[c] # 0 /\ Alive(c)} IN
  /\ cancelled' = (cancelled \ {w}) \cup theirs
  /\ awaiting' = [awaiting EXCEPT ![w] = theirs]

\* async with self._execution_slots: the first in line enters when a slot is free.
Enters(x) ==
  /\ run[x] = "slot" /\ x \notin cancelled
  /\ Head(line) = x
  /\ Cardinality(Holders) < MaxRuns

-----------------------------------------------------------------------------
(* The task of a root run. *)

\* _execute: claim_run.
Execute(r) ==
  /\ Enters(r)
  /\ IF root[r] = "pending"
     THEN /\ root' = [root EXCEPT ![r] = "running"]
          /\ asked' = asked \ {r}
          /\ run' = [run EXCEPT ![r] = "work"]
          /\ line' = Tail(line)
          /\ UNCHANGED <<signals, claims, handoff>>
     ELSE /\ Ended(r)
          /\ UNCHANGED <<root, asked>>
  /\ UNCHANGED <<others, child>>

\* The run completes or fails: the transaction commits, the task has yet to notice.
FinishRoot(r) ==
  /\ run[r] = "work" /\ root[r] = "running"
  /\ Finished(r)
  /\ run' = [run EXCEPT ![r] = "finishing"]
  /\ UNCHANGED <<signals, others, claims, line, handoff, asked>>

\* A question, or a wait for children that are not done.
Pause(r) ==
  /\ run[r] = "work" /\ root[r] = "running"
  /\ \/ root' = [root EXCEPT ![r] = "paused"]
     \/ /\ \E c \in ChildrenOf(r) : child[c].status # "finished"
        /\ root' = [root EXCEPT ![r] = "waiting"]
  /\ run' = [run EXCEPT ![r] = "pausing"]
  /\ UNCHANGED <<signals, others, child, claims, line, handoff, asked>>

\* Mutant: a root that waits for its children keeps its slot until they are done.
LeaveKeepingSlot(r) ==
  /\ r \notin cancelled
  /\ run[r] = "pausing" \/ (run[r] = "work" /\ root[r] # "running")
  /\ root[r] # "waiting"
  /\ Ended(r)
  /\ UNCHANGED <<rows, others, asked>>

\* The paused task unwinds, or the database refuses a task whose lease is gone.
Leave(r) ==
  /\ r \notin cancelled
  /\ run[r] = "pausing" \/ (run[r] = "work" /\ root[r] # "running")
  /\ Ended(r)
  /\ UNCHANGED <<rows, others, asked>>

\* The finally of _execute for "completed", "failed" and "cancelled": cancel_root.
Reap(r) ==
  /\ \/ run[r] = "finishing"
     \/ r \in cancelled /\ run[r] \in {"work", "pausing", "finishing"}
  /\ CancelRoot(r, r)
  /\ run' = [run EXCEPT ![r] = "reaping"]
  /\ UNCHANGED <<rows, others, claims, line, handoff, asked>>

Reaped(r) ==
  /\ run[r] = "reaping" /\ awaiting[r] = {}
  /\ run' = [run EXCEPT ![r] = "sync"]
  /\ UNCHANGED <<rows, signals, others, claims, line, handoff, asked>>

\* reconcile_once of the finally, and the end of the task.  Runs are kicked without a
\* look at _closing.
SyncAndEnd(r) ==
  /\ run[r] = "sync" /\ r \notin cancelled
  /\ LET pending == {q \in Root : root[q] = "pending"}
         new == {q \in pending : ~Alive(q)}
     IN \E order \in Orders(new) :
          /\ run' = [x \in Task |-> IF x = r THEN "none"
                                    ELSE IF x \in new THEN "slot" ELSE run[x]]
          /\ line' = line \o order
          /\ asked' = asked \cup pending
  /\ awaiting' = [w \in Waiter |-> IF w = r THEN {} ELSE awaiting[w] \ {r}]
  /\ handoff' = IF closing = "open" THEN handoff \cup {r} ELSE handoff
  /\ UNCHANGED <<rows, others, claims, cancelled>>

\* CancelledError outside the claimed part: no finally, or its awaits are cut short.
RootCancelled(r) ==
  /\ r \in cancelled /\ run[r] \in {"slot", "reaping", "sync"}
  /\ Ended(r)
  /\ UNCHANGED <<rows, others, asked>>

\* _renew_loop or _heartbeat could not renew: it cancels the task it works for.
RenewalFails(x) ==
  /\ faults < MaxFaults
  /\ run[x] = "work" \/ (x \in Child /\ x \in Holders /\ claims[x] # 0)
  /\ cancelled' = cancelled \cup {x}
  /\ faults' = faults + 1
  /\ UNCHANGED <<rows, tasks, awaiting, stop, loop, closing, asked>>

\* recover(): the lease of a run whose task is gone has expired.
RecoverRoot(r) ==
  /\ root[r] = "running" /\ ~Alive(r)
  /\ root' = [root EXCEPT ![r] = "pending"]
  /\ asked' = asked \ {r}
  /\ UNCHANGED <<tasks, signals, others, child>>

-----------------------------------------------------------------------------
(* What the routes and the reconcile loop do to roots. *)

\* The user answers; the route kicks the run.
Answer(r) ==
  /\ root[r] = "paused" /\ closing = "open"
  /\ root' = [root EXCEPT ![r] = "pending"]
  /\ Kick({r})
  /\ UNCHANGED <<signals, others, child, claims, handoff>>

\* reconcile_once: pending_run_ids has a limit, and an order this model leaves open.
Reconcile ==
  /\ closing \in {"open", "children"}
  /\ LET pending == {r \in Root : root[r] = "pending"} IN
     /\ \E r \in pending : ~Alive(r)
     /\ Kick(pending)
  /\ UNCHANGED <<rows, signals, others, claims, handoff>>

\* _kick_if_pending; its read may fail, and then the reconciler is left to do it.
HandOff(r) ==
  /\ r \in handoff
  /\ handoff' = handoff \ {r}
  /\ IF closing = "open" /\ root[r] = "pending"
     THEN \/ Kick({r})
          \/ UNCHANGED <<run, line>> /\ asked' = asked \ {r}
     ELSE UNCHANGED <<run, line, asked>>
  /\ UNCHANGED <<rows, signals, others, claims>>

\* The route of a cancellation: the transaction, then the children, then the task.
StopRun(r) ==
  /\ root[r] # "finished" /\ stop[r] = "no" /\ closing = "open"
  /\ Finished(r)
  /\ stop' = [stop EXCEPT ![r] = "committed"]
  /\ UNCHANGED <<tasks, signals, loop, closing, asked, faults>>

StopChildren(r) ==
  /\ stop[r] = "committed"
  /\ CancelRoot(r, Stop(r))
  /\ stop' = [stop EXCEPT ![r] = "children"]
  /\ UNCHANGED <<rows, tasks, loop, closing, asked, faults>>

StopTask(r) ==
  /\ stop[r] = "children" /\ awaiting[Stop(r)] = {}
  /\ cancelled' = IF Alive(r) THEN cancelled \cup {r} ELSE cancelled
  /\ stop' = [stop EXCEPT ![r] = "done"]
  /\ UNCHANGED <<rows, tasks, awaiting, loop, closing, asked, faults>>

-----------------------------------------------------------------------------
(* The task of a child. *)

\* _execute: claim commits in its thread; the task has not seen it yet.
ExecuteChild(c) ==
  /\ Enters(c)
  /\ IF child[c].status = "queued"
     THEN /\ child' = [child EXCEPT ![c] = [status |-> "running", fence |-> @.fence + 1]]
          /\ run' = [run EXCEPT ![c] = "claimed"]
          /\ line' = Tail(line)
          /\ UNCHANGED <<signals, claims, handoff>>
     ELSE Ended(c) /\ UNCHANGED child
  /\ UNCHANGED <<others, root, asked>>

\* self.claims learns the fence.
Register(c) ==
  /\ run[c] = "claimed" /\ c \notin cancelled
  /\ claims' = [claims EXCEPT ![c] = child[c].fence]
  /\ run' = [run EXCEPT ![c] = "work"]
  /\ UNCHANGED <<rows, signals, others, line, handoff, asked>>

HoldsLease(c) == child[c] = [status |-> "running", fence |-> claims[c]]

\* finish is accepted under the live lease only.  At its deadline the attempt ends
\* without it: recover() writes the row, and nobody resumes the root here.
FinishChild(c) ==
  /\ run[c] = "work"
  /\ \/ /\ HoldsLease(c)
        /\ child' = [child EXCEPT ![c].status = "finished"]
        /\ run' \in {[run EXCEPT ![c] = "resume"], [run EXCEPT ![c] = "leaving"]}
     \/ /\ ~HoldsLease(c)
        /\ run' = [run EXCEPT ![c] = "leaving"]
        /\ UNCHANGED child
  /\ UNCHANGED <<signals, others, root, claims, line, handoff, asked>>

\* resume_wait acts on a waiting root only, when its children are done or at its deadline.
Waits(r) == root[r] = "waiting"
AllDone(r) == \A d \in ChildrenOf(r) : child[d].status = "finished"

\* _fail_wait of w: the root fails, and w awaits the end of its children.
FailWait(r, w) ==
  /\ Finished(r)
  /\ CancelRoot(r, w)

\* _resume after finish, by the task of the child itself.
ResumeByChild(c) ==
  LET r == Parent[c] IN
  /\ run[c] = "resume" /\ c \notin cancelled
  /\ \/ /\ ~(Waits(r) /\ AllDone(r))
        /\ run' = [run EXCEPT ![c] = "leaving"]
        /\ UNCHANGED <<rows, signals, line, asked>>
     \/ /\ Waits(r)
        /\ root' = [root EXCEPT ![r] = "pending"]
        /\ asked' = asked \cup {r}
        /\ run' = [x \in Task |-> IF x = c THEN "leaving"
                                  ELSE IF x = r /\ ~Alive(r) THEN "slot" ELSE run[x]]
        /\ line' = IF Alive(r) THEN line ELSE Append(line, r)
        /\ UNCHANGED <<signals, child>>
     \/ /\ Waits(r) /\ "child" \in Undelivered
        /\ FailWait(r, c)
        /\ run' = [run EXCEPT ![c] = "leaving"]
        /\ UNCHANGED <<line, asked>>
  /\ UNCHANGED <<others, claims, handoff>>

\* The end of the task, once what it gathers has ended.
LeaveChild(c) ==
  /\ run[c] = "leaving" /\ awaiting[c] = {}
  /\ Ended(c)
  /\ UNCHANGED <<rows, others, asked>>

\* A cancelled task ends at its next await; one that gathers itself never does.
ChildCancelled(c) ==
  /\ c \in cancelled /\ Alive(c) /\ c \notin awaiting[c]
  /\ Ended(c)
  /\ UNCHANGED <<rows, others, asked>>

\* recover(): a lease that expired; a task that still holds one was late to renew it.
RecoverChild(c) ==
  /\ child[c].status = "running"
  /\ IF Alive(c) THEN faults < MaxFaults /\ faults' = faults + 1 ELSE faults' = faults
  /\ child' = [child EXCEPT ![c].status = "queued"]
  /\ UNCHANGED <<tasks, signals, root, stop, loop, closing, asked>>

-----------------------------------------------------------------------------
(* SubagentRuntime.reconcile_once, in the loop. *)

Live == [c \in Child |-> IF child[c].status = "running" THEN child[c].fence ELSE 0]

\* Only workers observed before the query began are compared with it.
Observe ==
  /\ loop.phase = "idle" /\ closing = "open"
  /\ loop' = [loop EXCEPT !.phase = "observed", !.claims = claims]
  /\ UNCHANGED <<rows, tasks, signals, stop, closing, asked, faults>>

Query ==
  /\ loop.phase = "observed"
  /\ loop' = [loop EXCEPT !.phase = "queried", !.live = Live]
  /\ UNCHANGED <<rows, tasks, signals, stop, closing, asked, faults>>

\* The workers of `lost' are cancelled, and the waiting roots are next.  Cancelling a
\* task that gathers itself raises, and the loop starts again.
Checked(lost) ==
  /\ loop.phase = "queried"
  /\ IF \E c \in lost : c \in awaiting[c]
     THEN loop' = Idle /\ UNCHANGED cancelled
     ELSE /\ cancelled' = cancelled \cup {c \in lost : Alive(c)}
          /\ loop' = [Idle EXCEPT !.phase = "resume",
                                  !.todo = {r \in Root : root[r] = "waiting"}]
  /\ UNCHANGED <<rows, tasks, awaiting, stop, closing, asked, faults>>

\* Mutant: every registered claim is compared, also one made during the query.
CompareAll == Checked({c \in Child : claims[c] # 0 /\ loop.live[c] # claims[c]})

\* Mutant: nothing is compared.
CompareNothing == Checked({})

\* live_claims has another fence, or none, for the claim that is still the same.
Compare == Checked({c \in Child : /\ loop.claims[c] # 0 /\ claims[c] = loop.claims[c]
                                  /\ loop.live[c] # claims[c]})

\* _resume for each waiting root.
ResumeByLoop(r) ==
  /\ loop.phase = "resume" /\ r \in loop.todo /\ awaiting[Loop] = {}
  /\ loop' = [loop EXCEPT !.todo = @ \ {r}]
  /\ \/ /\ ~(Waits(r) /\ AllDone(r))
        /\ UNCHANGED <<rows, signals, run, line, asked>>
     \/ /\ Waits(r)
        /\ root' = [root EXCEPT ![r] = "pending"]
        /\ Kick({r})
        /\ UNCHANGED <<signals, child>>
     \/ /\ Waits(r) /\ "loop" \in Undelivered
        /\ FailWait(r, Loop)
        /\ UNCHANGED <<run, line, asked>>
  /\ UNCHANGED <<claims, handoff, stop, closing, faults>>

\* A task for each queued child that has none.
StartQueued ==
  /\ loop.phase = "resume" /\ loop.todo = {} /\ awaiting[Loop] = {}
  /\ loop' = Idle
  /\ Created({c \in Child : child[c].status = "queued"})
  /\ UNCHANGED <<rows, signals, claims, handoff, stop, closing, asked, faults>>

-----------------------------------------------------------------------------
(* AgentRuntime.close. *)

\* _closing, and SubagentRuntime.close: cancel the children's tasks and the loop.
\* It raises, and nothing is closed, when a child gathers itself.
CloseChildren ==
  /\ Closes /\ closing = "open" /\ \A c \in Child : c \notin awaiting[c]
  /\ closing' = "children"
  /\ cancelled' = cancelled \cup {c \in Child : Alive(c)}
  /\ awaiting' = [awaiting EXCEPT ![Close] = {c \in Child : Alive(c)}, ![Loop] = {}]
  /\ loop' = [Idle EXCEPT !.phase = "off"]
  /\ UNCHANGED <<rows, tasks, stop, asked, faults>>

\* The roots' tasks, as they are now.
CloseRoots ==
  /\ closing = "children" /\ awaiting[Close] = {}
  /\ closing' = "roots"
  /\ cancelled' = cancelled \cup {r \in Root : Alive(r)}
  /\ awaiting' = [awaiting EXCEPT ![Close] = {r \in Root : Alive(r)}]
  /\ UNCHANGED <<rows, tasks, stop, loop, asked, faults>>

Closed ==
  /\ closing = "roots" /\ awaiting[Close] = {}
  /\ closing' = "closed"
  /\ UNCHANGED <<rows, tasks, signals, stop, loop, asked, faults>>

-----------------------------------------------------------------------------
RootStep(r) ==
  \/ Execute(r) \/ FinishRoot(r) \/ Pause(r) \/ Leave(r) \/ Reap(r) \/ Reaped(r)
  \/ SyncAndEnd(r) \/ RootCancelled(r) \/ RenewalFails(r) \/ RecoverRoot(r)
  \/ Answer(r) \/ HandOff(r) \/ StopRun(r) \/ StopChildren(r) \/ StopTask(r)

ChildStep(c) ==
  \/ ExecuteChild(c) \/ Register(c) \/ FinishChild(c) \/ ResumeByChild(c)
  \/ LeaveChild(c) \/ ChildCancelled(c) \/ RenewalFails(c) \/ RecoverChild(c)

LoopStep ==
  \/ Observe \/ Query \/ Compare \/ StartQueued
  \/ \E r \in Root : ResumeByLoop(r)

Next ==
  \/ \E r \in Root : RootStep(r)
  \/ \E c \in Child : ChildStep(c)
  \/ Reconcile
  \/ LoopStep
  \/ CloseChildren \/ CloseRoots \/ Closed

Spec == Init /\ [][Next]_vars

\* asyncio runs every task that is ready, the semaphore is first come first served, the
\* reconcile loops are timers, and the attempt of a child ends at its deadline.  Nothing
\* makes a root end its turn, as the rounds of its model have no limit, and a hand-off, a
\* recovery, a cancellation or a shutdown may stop halfway.
Fairness ==
  /\ \A r \in Root :
       WF_vars(Execute(r) \/ Leave(r) \/ Reap(r) \/ Reaped(r) \/ SyncAndEnd(r)
               \/ RootCancelled(r))
  /\ \A c \in Child :
       /\ WF_vars(ExecuteChild(c) \/ Register(c) \/ ResumeByChild(c) \/ LeaveChild(c)
                  \/ ChildCancelled(c))
       /\ WF_vars(HoldsLease(c) /\ FinishChild(c))
  /\ WF_vars(Reconcile) /\ WF_vars(LoopStep)

FairSpec == Spec /\ Fairness

-----------------------------------------------------------------------------
(* Properties. *)

\* A run that was kicked and is still pending has a task, or the end of its last task
\* is about to look at it: a kick that came while the old task unwound is not lost.
HandoffKept ==
  \A r \in asked :
    root[r] = "pending" /\ closing = "open" => Alive(r) \/ r \in handoff

\* Reconciliation never cancels a child that executes under its live lease, although
\* claims commit and end while its query runs.
FreshClaimSpared ==
  [][loop.phase = "queried" /\ loop'.phase = "resume"
       => \A c \in cancelled' \ cancelled : ~HoldsLease(c)]_vars

\* Every turn of a root ends, in an answer, a question, a wait or an error.
RootsYield == \A r \in Root : []<>(run[r] # "work")

\* Roots and children share the slots without waiting on each other for ever: if the turns
\* of roots end, a pending run is executed (or stopped) however many roots wait for
\* children that need a slot themselves.
PendingRunsExecute ==
  RootsYield =>
    \A r \in Root : root[r] = "pending" ~> (root[r] # "pending" \/ closing # "open")

\* The end of a root ends the tasks of its children here, also of one that was claimed
\* too late for cancel_root to see, and their slots come back.
ChildrenStop ==
  \A c \in Child :
    (root[Parent[c]] = "finished" /\ c \in Holders) ~> (c \notin Holders)
=============================================================================
