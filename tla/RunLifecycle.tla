---------------------------- MODULE RunLifecycle ----------------------------
(***************************************************************************)
(* One AgentRun row, its checkpoint, its questions, and the worker tasks   *)
(* that compete to execute it.                                             *)
(*                                                                         *)
(* Every repository operation is one PostgreSQL transaction that locks the *)
(* Run row, so it is one action here.  Between two operations of a worker  *)
(* anything may happen: the worker keeps what it read (its `worker'        *)
(* record) while the row moves on.  Rows of different runs share nothing   *)
(* in these operations, so one row stands for all of them.                 *)
(*                                                                         *)
(* Abstractions: provider messages keep only tool calls, tool results and  *)
(* the user messages steers become (the text of the model is dropped, and  *)
(* a user message that was summarised stands for its summary); a draft is  *)
(* its number of deltas; an ordinary batch is one call; a commit that      *)
(* returns several events returns one.                                     *)
(***************************************************************************)
EXTENDS Integers, Sequences

CONSTANTS
  Worker,      \* processes that run AgentRuntime._execute for this run
  NoWorker,    \* the NULL of lease_owner
  LeaseTicks,  \* LEASE_SECONDS in clock ticks
  Attempts,    \* invocations of an approved replay-safe tool in one claim
  MaxClaims,   \* bound: how often the run is claimed
  MaxCalls,    \* bound: tool calls the model makes
  MaxQuestions,\* bound: question rows
  MaxDraft,    \* bound: length of the draft
  MaxSteers    \* bound: steer inputs ever submitted

ASSUME ConstantsAssumption ==
  /\ NoWorker \notin Worker
  /\ LeaseTicks \in Nat \ {0}
  /\ Attempts \in Nat \ {0}
  /\ {MaxClaims, MaxCalls, MaxQuestions, MaxDraft, MaxSteers} \subseteq Nat

VARIABLES
  run,         \* the AgentRun row: status, lease, fence, stream cursor, draft
  checkpoint,  \* AgentRun.checkpoint (JSON)
  questions,   \* AgentQuestion rows of the run, in order of creation
  steers,      \* steer inputs of the session: ever made, pending, announced to the run
  worker,      \* what each worker task holds between its transactions
  calls,       \* history: what tool each call the model made names
  effects,     \* history: how often each call's tool was invoked
  lastCommit   \* history: <<epoch, sequence>> of the newest event, who committed last

vars == <<run, checkpoint, questions, steers, worker, calls, effects, lastCommit>>
history == <<calls, effects>>

-----------------------------------------------------------------------------
(* The values the columns take. *)

TerminalStatuses == {"completed", "failed", "cancelled"}
ActiveStatuses == {"pending", "running", "waiting_for_user", "waiting_for_subagents"}

Call == 1..MaxCalls
CallKind == {"ask_user", "subagents", "direct", "batch", "approval", "approval_once"}
Message == [op: Call, role: {"call", "tool"}] \cup [op: Nat \ {0}, role: {"user"}]
RunRow == [status: ActiveStatuses \cup TerminalStatuses,
           owner: Worker \cup {NoWorker}, fence: Nat, ttl: Int,
           epoch: Nat, seq: Nat, draft: Nat]
LastCommit == [event: Nat \X Nat, by: Worker \cup {NoWorker}]
Marker == [op: Call \cup {0}, phase: {"none", "executing", "completed"}]
Approval == [op: Call \cup {0}, question: Nat, replaySafe: BOOLEAN,
             decision: {"none", "approved", "rejected"}]
Checkpoint == [messages: Seq(Message), safeDraft: Nat, marker: Marker,
               approval: Approval, wait: Call \cup {0}]
Question == [op: Call, approval: BOOLEAN, status: {"pending", "answered", "cancelled"},
             answer: {"none", "option-1", "option-2", "text"}]
Phase == {"idle", "claimed", "head", "round", "decided", "batch", "batch_done",
          "approval", "invoke", "invoked", "failing"}
WorkerState == [phase: Phase, fence: Nat, messages: Seq(Message), op: Call \cup {0},
                approval: Approval, tries: Nat]

NoMarker == [op |-> 0, phase |-> "none"]
NoApproval == [op |-> 0, question |-> 0, replaySafe |-> TRUE, decision |-> "none"]
Idle == [phase |-> "idle", fence |-> 0, messages |-> <<>>, op |-> 0,
         approval |-> NoApproval, tries |-> 0]

\* The rows, the checkpoint and what workers hold between transactions keep their types.
TypeOK ==
  /\ run \in RunRow
  /\ checkpoint \in Checkpoint
  /\ questions \in Seq(Question)
  /\ steers \in [pending: Nat, made: Nat, told: Nat]
  /\ steers.pending <= steers.made
  /\ worker \in [Worker -> WorkerState]
  /\ calls \in Seq(CallKind)
  /\ effects \in [Call -> Nat]
  /\ lastCommit \in LastCommit

Init ==
  /\ run = [status |-> "pending", owner |-> NoWorker, fence |-> 0, ttl |-> 0,
            epoch |-> 1, seq |-> 1, draft |-> 0]
  /\ checkpoint = [messages |-> <<>>, safeDraft |-> 0, marker |-> NoMarker,
                   approval |-> NoApproval, wait |-> 0]
  /\ questions = <<>>
  /\ steers = [pending |-> 0, made |-> 0, told |-> 0]
  /\ worker = [w \in Worker |-> Idle]
  /\ calls = <<>>
  /\ effects = [c \in Call |-> 0]
  /\ lastCommit = [event |-> <<0, 0>>, by |-> NoWorker]

-----------------------------------------------------------------------------
(* Pieces of the transactions. *)

LeaseMatches(w) ==
  /\ run.status = "running"
  /\ run.owner = w
  /\ run.fence = worker[w].fence
  /\ run.ttl > 0

\* Mutant: recover looks only for runs that gave up their owner.
LeaseExpiredUnowned == run.status = "running" /\ run.ttl < 0 /\ run.owner = NoWorker

LeaseExpired == run.status = "running" /\ run.ttl < 0

Executing == checkpoint.marker.phase = "executing"

Pending(qs) == {q \in DOMAIN qs : qs[q].status = "pending"}

\* Mutant: cancellation stops at the old intermediate status.
ReleasedCancelling(r, status) ==
  [r EXCEPT !.status = IF status = "cancelled" THEN "cancelling" ELSE status,
            !.owner = NoWorker, !.ttl = 0]

\* A status change that gives up the lease.
Released(r, status) == [r EXCEPT !.status = status, !.owner = NoWorker, !.ttl = 0]

\* Subscribers of the old epoch start again from a snapshot.
NewEpoch(r) == [r EXCEPT !.epoch = @ + 1, !.seq = 1]

\* Save row r together with the event that announces it; who is a worker, or NoWorker for
\* the API and the reconcilers.
Commit(who, r) ==
  /\ run' = [r EXCEPT !.seq = @ + 1]
  /\ lastCommit' = [event |-> <<r.epoch, r.seq>>, by |-> who]

\* Make `messages' and the present draft the point a takeover returns to.
Safe(messages) == [checkpoint EXCEPT !.messages = messages, !.safeDraft = run.draft]

CallMessage(c) == [op |-> c, role |-> "call"]
ToolMessage(c) == [op |-> c, role |-> "tool"]
UserMessage(n) == [op |-> n, role |-> "user"]

\* Mutant: a terminal run leaves its open call open.
SettledOpen(c) == [c EXCEPT !.wait = 0]

\* A terminal run answers the tool call its history ends with.
Settled(c) ==
  LET m == c.messages
      n == Len(m)
  IN  [c EXCEPT !.wait = 0,
                !.messages = IF n > 0 /\ m[n].role = "call"
                             THEN Append(m, ToolMessage(m[n].op)) ELSE m]

\* The model names a tool in a call nobody made before.
NewCall(kind) ==
  /\ Len(calls) < MaxCalls
  /\ calls' = Append(calls, kind)

NextCall == Len(calls) + 1

Goto(w, phase) == worker' = [worker EXCEPT ![w].phase = phase]
Leave(w) == worker' = [worker EXCEPT ![w] = Idle]

\* Back to the top of the round loop, with nothing but the messages in hand.
NextRound(w, messages) ==
  worker' = [worker EXCEPT ![w] = [Idle EXCEPT !.phase = "head", !.messages = messages,
                                               !.fence = worker[w].fence]]

-----------------------------------------------------------------------------
(* Taking the run, keeping it and losing it. *)

\* Mutant: a takeover keeps the fence of the worker it replaces.
ClaimSameFence(w) ==
  /\ worker[w].phase = "idle"
  /\ run.status = "pending"
  /\ run.fence < MaxClaims
  /\ Commit(w, [run EXCEPT !.status = "running", !.owner = w,
                        !.fence = IF @ = 0 THEN 1 ELSE @, !.ttl = LeaseTicks])
  /\ worker' = [worker EXCEPT ![w] = [Idle EXCEPT !.phase = "claimed", !.fence = run'.fence]]
  /\ UNCHANGED <<checkpoint, questions, steers, history>>

Claim(w) ==
  /\ worker[w].phase = "idle"
  /\ run.status = "pending"
  /\ run.fence < MaxClaims
  /\ Commit(w, [run EXCEPT !.status = "running", !.owner = w, !.fence = @ + 1,
                        !.ttl = LeaseTicks])
  /\ worker' = [worker EXCEPT ![w] = [Idle EXCEPT !.phase = "claimed",
                                                  !.fence = run.fence + 1]]
  /\ UNCHANGED <<checkpoint, questions, steers, history>>

\* The checkpoint outgrew its limit: the claim fails the run instead.
ClaimOversized(w) ==
  /\ worker[w].phase = "idle"
  /\ run.status = "pending"
  /\ run.fence < MaxClaims
  /\ Commit(w, Released([run EXCEPT !.fence = @ + 1], "failed"))
  /\ checkpoint' = Settled(checkpoint)
  /\ UNCHANGED <<questions, steers, worker, history>>

\* _renew_loop, every ten seconds while the task lives.
RenewLease(w) ==
  /\ worker[w].phase # "idle"
  /\ LeaseMatches(w)
  /\ run.ttl < LeaseTicks
  /\ run' = [run EXCEPT !.ttl = LeaseTicks]
  /\ UNCHANGED <<checkpoint, questions, steers, worker, history, lastCommit>>

Tick ==
  /\ run.status = "running"
  /\ run.ttl >= 0
  /\ run' = [run EXCEPT !.ttl = @ - 1]
  /\ UNCHANGED <<checkpoint, questions, steers, worker, history, lastCommit>>

\* The next operation of a worker whose lease is gone raises agent_lease_lost.
LoseLease(w) ==
  /\ worker[w].phase # "idle"
  /\ ~LeaseMatches(w)
  /\ Leave(w)
  /\ UNCHANGED <<run, checkpoint, questions, steers, history, lastCommit>>

\* The process dies, shuts down, or its task is cancelled.
Crash(w) ==
  /\ worker[w].phase # "idle"
  /\ Leave(w)
  /\ UNCHANGED <<run, checkpoint, questions, steers, history, lastCommit>>

\* Mutant: takeover ignores the executing marker.
RecoveredResuming ==
  IF LeaseExpired
  THEN NewEpoch(Released([run EXCEPT !.draft = checkpoint.safeDraft], "pending")) ELSE run

\* recover: expired runs first, then runs whose status lost a pending question.
Recovered ==
  LET expired ==
        IF ~LeaseExpired THEN run
        ELSE IF Executing THEN Released(run, "failed")
        ELSE NewEpoch(Released([run EXCEPT !.draft = checkpoint.safeDraft], "pending"))
  IN  IF Pending(questions) # {} /\ expired.status \in {"pending", "running"}
      THEN Released(expired, "waiting_for_user") ELSE expired

Recover ==
  /\ Recovered # run
  /\ run' = Recovered
  /\ checkpoint' = IF run'.status = "failed" THEN Settled(checkpoint) ELSE checkpoint
  /\ lastCommit' = [lastCommit EXCEPT !.by = NoWorker]
  /\ UNCHANGED <<questions, steers, worker, history>>

-----------------------------------------------------------------------------
(* The round loop of _execute_claimed. *)

LoadState(w) ==
  /\ worker[w].phase = "claimed"
  /\ LeaseMatches(w)
  /\ worker' = [worker EXCEPT
       ![w].messages = checkpoint.messages,
       ![w].approval = checkpoint.approval,
       ![w].op = checkpoint.approval.op,
       ![w].phase = IF checkpoint.approval = NoApproval THEN "head" ELSE "approval"]
  /\ UNCHANGED <<run, checkpoint, questions, steers, history, lastCommit>>

BeginRound(w) ==
  /\ worker[w].phase = "head"
  /\ LeaseMatches(w)
  /\ steers.pending = 0
  /\ Goto(w, "round")
  /\ UNCHANGED <<run, checkpoint, questions, steers, history, lastCommit>>

\* The history with a user message for every pending steer, oldest first.
WithSteers(messages) ==
  messages \o [i \in 1..steers.pending |-> UserMessage(steers.made - steers.pending + i)]

\* consume: every pending steer becomes a user message at a safe boundary.
ConsumeSteers(w) ==
  /\ steers.pending > 0
  /\ steers' = [steers EXCEPT !.pending = 0]
  /\ checkpoint' = Safe(WithSteers(worker[w].messages))
  /\ Commit(w, run)
  /\ UNCHANGED <<questions, history>>

\* Mutant: the round goes on with the history the worker had before it consumed.
BeginSteeredRoundStale(w) ==
  /\ worker[w].phase = "head"
  /\ LeaseMatches(w)
  /\ ConsumeSteers(w)
  /\ Goto(w, "round")

BeginSteeredRound(w) ==
  /\ worker[w].phase = "head"
  /\ LeaseMatches(w)
  /\ ConsumeSteers(w)
  /\ worker' = [worker EXCEPT ![w].messages = WithSteers(@), ![w].phase = "round"]

\* Compaction replaces a closed call/result unit by a summary.
Compact(w) ==
  LET m == worker[w].messages IN
  \E i \in 1..Len(m) - 1 :
    /\ worker[w].phase = "round"
    /\ LeaseMatches(w)
    /\ ~Executing
    /\ m[i].role = "call"
    /\ m[i+1] = ToolMessage(m[i].op)
    /\ LET kept == SubSeq(m, 1, i - 1) \o SubSeq(m, i + 2, Len(m))
       IN  /\ checkpoint' = Safe(kept)
           /\ worker' = [worker EXCEPT ![w].messages = kept]
    /\ lastCommit' = [lastCommit EXCEPT !.by = w]
    /\ UNCHANGED <<run, questions, steers, history>>

\* Mutant: a delta looks at the status of the run, not at who holds it.
DeltaUnfenced(w) ==
  /\ worker[w].phase = "round"
  /\ run.status = "running"
  /\ run.draft < MaxDraft
  /\ Commit(w, [run EXCEPT !.draft = @ + 1])
  /\ UNCHANGED <<checkpoint, questions, steers, worker, history>>

Delta(w) ==
  /\ worker[w].phase = "round"
  /\ LeaseMatches(w)
  /\ run.draft < MaxDraft
  /\ Commit(w, [run EXCEPT !.draft = @ + 1])
  /\ UNCHANGED <<checkpoint, questions, steers, worker, history>>

\* record_model_request commits before the answer is used.
EndRound(w) ==
  /\ worker[w].phase = "round"
  /\ LeaseMatches(w)
  /\ Goto(w, "decided")
  /\ UNCHANGED <<run, checkpoint, questions, steers, history, lastCommit>>

\* A provider, tool or size error anywhere between two commits.
StepFails(w) ==
  /\ worker[w].phase \notin {"idle", "failing"}
  /\ worker' = [worker EXCEPT ![w] = [Idle EXCEPT !.phase = "failing",
                                                  !.fence = worker[w].fence]]
  /\ UNCHANGED <<run, checkpoint, questions, steers, history, lastCommit>>

\* Mutant: a task whose lease is gone may still fail the run.
FailRunUnfenced(w) ==
  /\ worker[w].phase = "failing"
  /\ Commit(w, Released(run, "failed"))
  /\ checkpoint' = Settled(checkpoint)
  /\ Leave(w)
  /\ UNCHANGED <<questions, steers, history>>

FailRun(w) ==
  /\ worker[w].phase = "failing"
  /\ LeaseMatches(w)
  /\ Commit(w, Released(run, "failed"))
  /\ checkpoint' = Settled(checkpoint)
  /\ Leave(w)
  /\ UNCHANGED <<questions, steers, history>>

\* Mutant: completion does not look at the inputs again.
CompleteBlindly(w) ==
  /\ worker[w].phase = "decided"
  /\ LeaseMatches(w)
  /\ Commit(w, Released(run, "completed"))
  /\ checkpoint' = [Safe(worker[w].messages) EXCEPT !.wait = 0]
  /\ Leave(w)
  /\ UNCHANGED <<questions, steers, history>>

\* complete_run; a steer that arrived meanwhile keeps the run going.
Complete(w) ==
  /\ worker[w].phase = "decided"
  /\ LeaseMatches(w)
  /\ steers.pending = 0
  /\ Commit(w, Released(run, "completed"))
  /\ checkpoint' = [Safe(worker[w].messages) EXCEPT !.wait = 0]
  /\ Leave(w)
  /\ UNCHANGED <<questions, steers, history>>

CompleteSteered(w) ==
  /\ worker[w].phase = "decided"
  /\ LeaseMatches(w)
  /\ ConsumeSteers(w)
  /\ NextRound(w, WithSteers(worker[w].messages))

-----------------------------------------------------------------------------
(* Tool calls the model makes. *)

\* The call and its result commit together: corrections of invalid batches,
\* tools not loaded, orchestration tools that do not wait, plans that need no
\* approval.
DirectResult(w) ==
  /\ worker[w].phase = "decided"
  /\ LeaseMatches(w)
  /\ NewCall("direct")
  /\ LET m == worker[w].messages \o <<CallMessage(NextCall), ToolMessage(NextCall)>>
     IN  /\ checkpoint' = Safe(m)
         /\ NextRound(w, m)
  /\ Commit(w, run)
  /\ UNCHANGED <<questions, steers, effects>>

\* persist_ordinary_tool_batch: the marker that forbids replay.
MarkExecuting(op) ==
  /\ ~Executing
  /\ checkpoint' = [checkpoint EXCEPT !.marker = [op |-> op, phase |-> "executing"]]

\* Only the batch that is executing can complete; completion moves the safe point.
MarkCompleted(op, messages) ==
  /\ checkpoint.marker = [op |-> op, phase |-> "executing"]
  /\ checkpoint' = [Safe(messages) EXCEPT !.marker = [op |-> op, phase |-> "completed"]]

StartBatch(w) ==
  /\ worker[w].phase = "decided"
  /\ LeaseMatches(w)
  /\ NewCall("batch")
  /\ MarkExecuting(NextCall)
  /\ Commit(w, run)
  /\ worker' = [worker EXCEPT ![w].op = NextCall, ![w].phase = "batch"]
  /\ UNCHANGED <<questions, steers, effects>>

\* The tool runs outside every transaction: the lease is not looked at.
RunBatch(w) ==
  /\ worker[w].phase = "batch"
  /\ effects' = [effects EXCEPT ![worker[w].op] = @ + 1]
  /\ Goto(w, "batch_done")
  /\ UNCHANGED <<run, checkpoint, questions, steers, calls, lastCommit>>

CompleteBatch(w) ==
  LET op == worker[w].op
      m  == worker[w].messages \o <<CallMessage(op), ToolMessage(op)>>
  IN  /\ worker[w].phase = "batch_done"
      /\ LeaseMatches(w)
      /\ MarkCompleted(op, m)
      /\ Commit(w, run)
      /\ NextRound(w, m)
      /\ UNCHANGED <<questions, steers, history>>

\* pause_for_question: question row, safe checkpoint, status and lease in one commit.
Pause(w, op, messages, approval) ==
  /\ Len(questions) < MaxQuestions
  /\ questions' = Append(questions, [op |-> op, approval |-> approval # NoApproval,
                                     status |-> "pending", answer |-> "none"])
  /\ checkpoint' =
       [Safe(messages) EXCEPT
          !.approval = IF approval = NoApproval THEN @
                       ELSE [approval EXCEPT !.question = Len(questions) + 1,
                                             !.decision = "none"]]
  /\ Commit(w, Released(run, "waiting_for_user"))
  /\ Leave(w)

AskUser(w) ==
  /\ worker[w].phase = "decided"
  /\ LeaseMatches(w)
  /\ NewCall("ask_user")
  /\ Pause(w, NextCall, Append(worker[w].messages, CallMessage(NextCall)), NoApproval)
  /\ UNCHANGED <<steers, effects>>

RequestApproval(w, replaySafe) ==
  /\ worker[w].phase = "decided"
  /\ LeaseMatches(w)
  /\ NewCall(IF replaySafe THEN "approval" ELSE "approval_once")
  /\ Pause(w, NextCall, Append(worker[w].messages, CallMessage(NextCall)),
           [NoApproval EXCEPT !.op = NextCall, !.replaySafe = replaySafe])
  /\ UNCHANGED <<steers, effects>>

\* SubagentRepository.operate with a wait that is not ready.
WaitForSubagents(w) ==
  /\ worker[w].phase = "decided"
  /\ LeaseMatches(w)
  /\ NewCall("subagents")
  /\ checkpoint' = [Safe(Append(worker[w].messages, CallMessage(NextCall)))
                      EXCEPT !.wait = NextCall]
  /\ Commit(w, Released(run, "waiting_for_subagents"))
  /\ Leave(w)
  /\ UNCHANGED <<questions, steers, effects>>

-----------------------------------------------------------------------------
(* Resuming an approval: _resume_tool_approval. *)

\* Close the call with its result and drop pending_tool_approval.
ApprovalClosed(w) ==
  LET m == Append(worker[w].messages, ToolMessage(worker[w].op)) IN
  /\ NextRound(w, m)
  /\ IF worker[w].approval.decision = "approved" /\ ~worker[w].approval.replaySafe
     THEN /\ checkpoint.marker = [op |-> worker[w].op, phase |-> "executing"]
          /\ checkpoint' = [Safe(m) EXCEPT
               !.approval = NoApproval,
               !.marker = [op |-> worker[w].op, phase |-> "completed"]]
     ELSE checkpoint' = [Safe(m) EXCEPT !.approval = NoApproval]
  /\ Commit(w, run)

RejectApproval(w) ==
  /\ worker[w].phase = "approval"
  /\ worker[w].approval.decision = "rejected"
  /\ LeaseMatches(w)
  /\ ApprovalClosed(w)
  /\ UNCHANGED <<questions, steers, history>>

BeginApproved(w) ==
  /\ worker[w].phase = "approval"
  /\ worker[w].approval.decision = "approved"
  /\ LeaseMatches(w)
  /\ IF worker[w].approval.replaySafe THEN UNCHANGED checkpoint
     ELSE MarkExecuting(worker[w].op)
  /\ Commit(w, run)
  /\ worker' = [worker EXCEPT ![w].tries = 0, ![w].phase = "invoke"]
  /\ UNCHANGED <<questions, steers, history>>

InvokeApproved(w) ==
  /\ worker[w].phase = "invoke"
  /\ effects' = [effects EXCEPT ![worker[w].op] = @ + 1]
  /\ worker' = [worker EXCEPT ![w].tries = @ + 1, ![w].phase = "invoked"]
  /\ UNCHANGED <<run, checkpoint, questions, steers, calls, lastCommit>>

\* Mutant: every approved tool is retried.
RetryAnyApproved(w) ==
  /\ worker[w].phase = "invoked"
  /\ worker[w].tries < Attempts
  /\ Goto(w, "invoke")
  /\ UNCHANGED <<run, checkpoint, questions, steers, history, lastCommit>>

\* A retryable failure of a replay-safe tool.
RetryApproved(w) ==
  /\ worker[w].phase = "invoked"
  /\ worker[w].approval.replaySafe
  /\ worker[w].tries < Attempts
  /\ Goto(w, "invoke")
  /\ UNCHANGED <<run, checkpoint, questions, steers, history, lastCommit>>

\* The tool asks again: a new question for the same call.
AskApprovalAgain(w) ==
  /\ worker[w].phase = "invoked"
  /\ worker[w].approval.replaySafe
  /\ LeaseMatches(w)
  /\ Pause(w, worker[w].op, worker[w].messages, worker[w].approval)
  /\ UNCHANGED <<steers, history>>

SettleApproved(w) ==
  /\ worker[w].phase = "invoked"
  /\ LeaseMatches(w)
  /\ ApprovalClosed(w)
  /\ UNCHANGED <<questions, steers, history>>

-----------------------------------------------------------------------------
(* Transactions of the API and of the reconcilers. *)

\* Mutant: any option approves.
DecisionOfAnyOption(answer) ==
  IF answer \in {"option-1", "option-2"} THEN "approved" ELSE "rejected"

Decision(answer) == IF answer = "option-1" THEN "approved" ELSE "rejected"

\* respond_question; "none" is the cancel action.  Replays of a stored key and
\* refusals change nothing and are not steps.
Respond(q, answer) ==
  LET question == questions[q] IN
  /\ question.status = "pending"
  /\ run.status = "waiting_for_user"
  /\ question.approval => answer # "text"
  /\ question.approval => checkpoint.approval.question = q
  /\ questions' = [questions EXCEPT
       ![q].status = IF answer = "none" THEN "cancelled" ELSE "answered",
       ![q].answer = answer]
  /\ checkpoint' = IF question.approval
                   THEN [checkpoint EXCEPT !.approval.decision = Decision(answer)]
                   ELSE [checkpoint EXCEPT !.messages = Append(@, ToolMessage(question.op))]
  /\ Commit(NoWorker, NewEpoch(Released(run, "pending")))
  /\ UNCHANGED <<steers, worker, history>>

RespondQuestion ==
  \E q \in DOMAIN questions, answer \in {"none", "option-1", "option-2", "text"} :
    Respond(q, answer)

\* resume_steering_questions: a steer cancels the question the run waits on.
ResumeSteeringQuestion ==
  /\ steers.pending > 0
  /\ \E q \in DOMAIN questions : Respond(q, "none")

\* create: the input row.
SubmitSteer ==
  /\ steers.made < MaxSteers
  /\ steers' = [steers EXCEPT !.pending = @ + 1, !.made = @ + 1]
  /\ UNCHANGED <<run, checkpoint, questions, worker, history, lastCommit>>

\* notify, a transaction of its own: an event, if the session has an active run.
NotifySteer ==
  /\ steers.told < steers.made
  /\ steers' = [steers EXCEPT !.told = @ + 1]
  /\ IF run.status \in ActiveStatuses THEN Commit(NoWorker, run)
     ELSE UNCHANGED <<run, lastCommit>>
  /\ UNCHANGED <<checkpoint, questions, worker, history>>

\* Mutant: cancellation forgets the pending question.
CancelRunOnly ==
  /\ run.status \in ActiveStatuses
  /\ Commit(NoWorker, Released(run, "cancelled"))
  /\ checkpoint' = Settled(checkpoint)
  /\ UNCHANGED <<questions, steers, worker, history>>

CancelRun ==
  /\ run.status \in ActiveStatuses
  /\ questions' = [q \in DOMAIN questions |->
       IF q \in Pending(questions) THEN [questions[q] EXCEPT !.status = "cancelled"]
       ELSE questions[q]]
  /\ Commit(NoWorker, Released(run, "cancelled"))
  /\ checkpoint' = Settled(checkpoint)
  /\ UNCHANGED <<steers, worker, history>>

\* The children the wait names are ready, or its deadline passed.
ResumeWait ==
  /\ run.status = "waiting_for_subagents"
  /\ checkpoint' = [Safe(Append(checkpoint.messages, ToolMessage(checkpoint.wait)))
                      EXCEPT !.wait = 0]
  /\ Commit(NoWorker, NewEpoch(Released(run, "pending")))
  /\ UNCHANGED <<questions, steers, worker, history>>

\* The results cannot be made to fit the checkpoint.
FailWait ==
  /\ run.status = "waiting_for_subagents"
  /\ Commit(NoWorker, Released(run, "failed"))
  /\ checkpoint' = Settled(checkpoint)
  /\ UNCHANGED <<questions, steers, worker, history>>

-----------------------------------------------------------------------------
WorkerStep(w) ==
  \/ Claim(w) \/ ClaimOversized(w) \/ RenewLease(w) \/ LoseLease(w) \/ Crash(w)
  \/ LoadState(w) \/ BeginRound(w) \/ BeginSteeredRound(w) \/ Compact(w) \/ Delta(w)
  \/ EndRound(w) \/ StepFails(w) \/ FailRun(w) \/ Complete(w) \/ CompleteSteered(w)
  \/ DirectResult(w) \/ StartBatch(w) \/ RunBatch(w) \/ CompleteBatch(w)
  \/ AskUser(w) \/ (\E b \in BOOLEAN : RequestApproval(w, b)) \/ WaitForSubagents(w)
  \/ RejectApproval(w) \/ BeginApproved(w) \/ InvokeApproved(w) \/ RetryApproved(w)
  \/ AskApprovalAgain(w) \/ SettleApproved(w)

Next ==
  \/ \E w \in Worker : WorkerStep(w)
  \/ Tick \/ Recover \/ RespondQuestion \/ ResumeSteeringQuestion
  \/ SubmitSteer \/ NotifySteer \/ CancelRun \/ ResumeWait \/ FailWait

Spec == Init /\ [][Next]_vars

\* What a task does next when it waits for no call to the model or to a tool.
TaskStep(w) ==
  \/ LoadState(w) \/ BeginRound(w) \/ BeginSteeredRound(w) \/ FailRun(w) \/ Complete(w)
  \/ CompleteSteered(w) \/ DirectResult(w) \/ StartBatch(w) \/ CompleteBatch(w)
  \/ AskUser(w) \/ (\E b \in BOOLEAN : RequestApproval(w, b)) \/ WaitForSubagents(w)
  \/ RejectApproval(w) \/ BeginApproved(w) \/ RetryApproved(w) \/ AskApprovalAgain(w)
  \/ SettleApproved(w)

\* The reconcilers run on a timer, the clock advances, an expired task meets its
\* lost lease at its next operation, reconcile_once kicks pending runs, and the event
\* loop resumes a task that is ready.
Fairness ==
  /\ WF_vars(Tick)
  /\ WF_vars(Recover)
  /\ WF_vars(ResumeSteeringQuestion)
  /\ WF_vars(ResumeWait)
  /\ WF_vars(\E w \in Worker : Claim(w) \/ ClaimOversized(w))
  /\ \A w \in Worker : WF_vars(LoseLease(w)) /\ WF_vars(TaskStep(w))

FairSpec == Spec /\ Fairness

-----------------------------------------------------------------------------
(* Safety. *)

\* No two live tasks carry the same fence, none carries a fence the row has not
\* issued, and a leased row names the only task that may write: the reason why
\* a stale worker's commit is always refused.
LeaseExclusive ==
  /\ \A w \in Worker : worker[w].fence <= run.fence
  /\ \A v, w \in Worker :
       v # w /\ worker[v].phase # "idle" => worker[v].fence # worker[w].fence
  /\ \A w \in Worker :
       run.status = "running" /\ worker[w].fence = run.fence => run.owner = w

\* A run holds a lease exactly while it is running.
LeaseOnlyWhileRunning == run.owner # NoWorker <=> run.status = "running"

\* Ordinary tools and approved tools that are not replay-safe are invoked at most
\* once for each call the model made, through any number of crashes, takeovers
\* and stale workers.
NoReplay ==
  \A c \in 1..Len(calls) : calls[c] \in {"batch", "approval_once"} => effects[c] <= 1

\* Once a tool may have run with an unknown outcome the run is never resumed,
\* paused or completed: it is still running, or it has ended in failure.
UnknownOutcomeNeverResumes == Executing => run.status \in {"running", "failed", "cancelled"}

\* A tool that needs approval runs only if a person chose its first option in a
\* question about that very call; a cancelled or steered question approves nothing.
OnlyApprovedToolsRun ==
  \A c \in 1..Len(calls) :
    calls[c] \in {"approval", "approval_once"} /\ effects[c] > 0
      => \E q \in DOMAIN questions :
           /\ questions[q].op = c
           /\ questions[q].status = "answered"
           /\ questions[q].answer = "option-1"

\* The durable provider history always pairs every tool call with one result next
\* to it; only a run that still waits for that result may end in an open call.
HistoryPaired ==
  LET m == checkpoint.messages
      mayBeOpen == run.status \notin TerminalStatuses
                   /\ (run.status \in {"waiting_for_user", "waiting_for_subagents"}
                       \/ checkpoint.approval # NoApproval)
  IN  \A i \in 1..Len(m) :
        /\ m[i].role = "tool" => i > 1 /\ m[i-1] = CallMessage(m[i].op)
        /\ m[i].role = "call" => IF i < Len(m) THEN m[i+1] = ToolMessage(m[i].op)
                                               ELSE mayBeOpen

\* A run waits for its user exactly while one question is pending, so the repair
\* of inconsistent runs in recover never finds anything.
QuestionMatchesStatus ==
  /\ run.status = "waiting_for_user" <=> Pending(questions) # {}
  /\ \A p, q \in Pending(questions) : p = q

InHistory(n) == \E i \in DOMAIN checkpoint.messages : checkpoint.messages[i] = UserMessage(n)

\* A steer that was taken from the queue is in the durable history, over compaction,
\* questions, takeovers and the end of the run.
SteersKept == \A n \in 1..steers.made - steers.pending : InHistory(n)

(* Action properties. *)

Earlier(a, b) == a[1] < b[1] \/ (a[1] = b[1] /\ a[2] < b[2])

\* Event ids only grow, over takeovers, answers and stale workers: a client cursor
\* <<epoch, sequence>> never skips or repeats an event.
EventsIncrease == [][Earlier(lastCommit.event, lastCommit.event')]_(lastCommit.event)

\* Nothing about a finished run changes any more, whoever still works on it.
TerminalIsFinal ==
  [][run.status \in TerminalStatuses
       => UNCHANGED <<run, checkpoint, questions, lastCommit>>]_vars

(* Implementation of the abstract job. *)

\* The holder is the owner of a lease that has not run out.
Durable == INSTANCE DurableRun WITH
  status <- run.status,
  holder <- IF run.status = "running" /\ run.ttl > 0 THEN run.owner ELSE NoWorker,
  fence  <- run.fence,
  cursor <- lastCommit.event,
  author <- lastCommit.by,
  saved  <- checkpoint

\* Every step is one the abstract job allows: a worker commits an event or a checkpoint
\* only while it is the holder, and a run changes hands only without a holder.
ImplementsDurableRun == Durable!Spec

(* Liveness. *)

Abandoned ==
  /\ run.status = "running"
  /\ \A w \in Worker : worker[w].fence # run.fence

\* A run without a worker is taken up: one whose worker is gone is taken out of
\* running, a pending one is claimed, also when every process was busy with a lease
\* it had lost (up to the bound on claims).
AbandonedRunTakenUp ==
  Abandoned \/ run.status = "pending"
    ~> run.fence = MaxClaims \/ ~(Abandoned \/ run.status = "pending")

\* The calls of the model and of tools end, in an answer or an error.
CallsEnd == \A w \in Worker : []<>(worker[w].phase \notin {"round", "batch", "invoke"})

\* A steer accepted while the run is active gets into its history for good, whether the run
\* works, waits or is about to complete, or the run fails or is cancelled and leaves it to
\* the queue (up to the bound on claims).
SteersReachHistory ==
  CallsEnd => \A n \in 1..MaxSteers :
    n <= steers.made /\ run.status \in ActiveStatuses
      ~> []InHistory(n) \/ run.status \in {"failed", "cancelled"} \/ run.fence = MaxClaims

=============================================================================
