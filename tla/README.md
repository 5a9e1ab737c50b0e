# A verification of CornAgent

CornAgent runs conversations with a language model as durable jobs.  A FastAPI
process accepts a message, stores it and a *run* in PostgreSQL, and executes the
run in an asyncio task: model rounds, tool calls, questions to the user,
approvals, subagents.  Any process may take a run over when its worker dies.
Every change is committed first and then published on a Redis stream, which a
browser follows through server-sent events.  Files live in an object store that
shares no transaction with the database.

The modules here describe the parts where order matters: who may write when,
what survives a crash, what a stale reader can do, what must happen in the end.
TLC checks them on small instances; for every instance, TLAPS proves what is
most important of the run, its rounds, its subagents, the event stream, the
input queue, the message tree, compaction, the files and the tasks of a process.  Line
numbers are those of `server/app` unless a path says otherwise.

- [1. The system](#1-the-system)
- [2. The modules](#2-the-modules)
- [3. What is checked](#3-what-is-checked)
- [4. What is proved](#4-what-is-proved)
- [5. Where the code and its documents disagree](#5-where-the-code-and-its-documents-disagree)
- [6. What is not modelled](#6-what-is-not-modelled)
- [7. Plan](#7-plan)
- [8. Running it](#8-running-it)

## 1. The system

| Component | Code | State | Operations |
|---|---|---|---|
| Runs and leases | `persistence/agent_runtime.py`, `agent/runtime.py`, `persistence/transitions.py`, `persistence/checkpoints.py` | row `AgentRun`: status, owner, fence, lease expiry, cursor, draft, checkpoint | claim, renew, append, execute tools, pause, complete, fail, cancel, recover |
| Approvals | `agent/approval.py` | `pending_tool_approval` of the checkpoint | prepare, ask, decide, invoke, retry, settle |
| Questions | `agent_runtime.py` (`pause_for_question`, `respond_question`) | row `AgentQuestion` | ask, answer, cancel, steer away |
| Subagents | `persistence/subagents.py`, `agent/subagents/` | row `AgentSubagentTask`; the wait of the root's checkpoint | delegate, claim, renew, finish, deliver, wait, resume, compact, settle, recover |
| Event stream | `api/routes/agent.py`, `agent/stream.py`, `frontend/src/agent/gateway.ts`, `useAgentWorkspace.ts` | Redis stream; cursor of a connection; what a browser shows | publish, connect, fetch, detect a gap, heartbeat, apply |
| Input queue | `persistence/inputs.py` | rows `AgentInput`, `AgentInputMutation` | create, edit, change mode, cancel, dispatch, consume |
| Session tree | `agent_runtime.py` | rows `AgentMessage`; the session's active leaf | open, create, edit, regenerate, switch, delete |
| Files | `api/routes/files.py`, `object_store.py`, `main.py`, `agent/tools/files.py` | row `FileResource`; objects | create, upload, extract, claim, read, delete, collect |
| Worker process | `agent/runtime.py`, `agent/subagents/runtime.py` | tasks, cancel events, slots | kick, cancel, reconcile, close |
| Workspace | `frontend/src/agent/useAgentWorkspace.ts` | session shown, request generations | select, refresh, load older, switch |
| Model rounds | `agent/runtime.py` (`_execute_claimed`), `agent/model.py`, `agent/batching.py` | a request and its retries; text the batcher holds; the round's answer | send, stream, retry, fall back, recover, withhold, correct |
| Tools | `agent/tool_executor.py`, `agent/tools/`, `agent/outcomes.py` | admission slots; loaded tools; receipts | invoke, load, verify |
| Context | `agent/context.py`, `agent/prompt.py` | the history of the checkpoint | select, summarise, split, merge |
| Around it | `auth/`, `agent/rate_limit.py`, `telemetry/`, `api/routes/usage.py`, `settings.py`, `platform_cli.py` | login sessions, counters, queues | sign in, count, report |

How they interact:

- **A row lock orders everything about a run.**  Every repository operation
  locks the `AgentRun` row (`_locked_leased_run`, 2634), or the session row and
  then the run, does all it does, and commits.  Between two operations of a
  worker anything may happen, and the worker goes on with what it has read.  The
  lease is the guard: a commit needs status `running`, the same owner, the same
  fence and an expiry in the future.
- **Commit, then publish.**  An event has a cursor `<<epoch, sequence>>` in the
  row.  Publication may come late, in another order, or never; the endpoint
  recognizes gaps by the cursor and falls back on a snapshot of the database.
- **Everybody reconciles.**  Each process has loops that look for expired
  leases, pending runs, waits that are over, undispatched inputs and retired
  files.  Notification (`kick`) is only an optimization.
- **Clients repeat requests.**  A mutation carries an idempotency key and is
  sent once more if its answer is lost.

What makes it hard, and where the properties are aimed (each point is a hazard
with its line in `PROJECT.json`):

- a worker that slept through its lease and wakes up holding old state;
- a crash between the marker that a tool batch starts and the one that it is done;
- an approved write that must not run twice, or without its approval;
- an answer, a cancellation, a steer and an expiry that race for one question;
- results of children that arrive while the waiting root is being compacted;
- publications out of order, trimmed or lost, connections that end, and an end
  that produces no event;
- a request to the model that fails in the middle of its answer, an answer that
  must be withheld, text that the batcher still holds when something else arrives;
- summaries of summaries: what is cut out of a history exists nowhere else;
- roots and children that share slots, cancel and await each other in one
  process, while its reconciler compares them with rows it read before;
- requests repeated after the state they name has moved on;
- polls, stream events and selections of a browser that answer out of order;
- branches, versions and steering messages that re-parent an answer while a
  request works on a copy of it;
- two stores without a common transaction.

## 2. The modules

| Module | About | Composed with |
|---|---|---|
| `RunLifecycle` | one run, its checkpoint, questions and workers | refines `DurableRun` |
| `DurableRun` | the abstract job a run promises to be | |
| `RunLifecycleProofs` | theorems about `RunLifecycle` | extends it |
| `ModelRound` | the rounds of one claim: provider, batcher, loop | opens `BeginRound` to `EndRound` of `RunLifecycle` |
| `ModelRoundProofs` | theorems about `ModelRound` | extends it |
| `ContextWindow` | selection, summaries and passes of one compaction | opens `Compact` of `RunLifecycle`, `Recover` of `ModelRound` |
| `SubagentTasks` | the children of one root | abstracts the root's lease |
| `SubagentTasksProofs` | theorems about `SubagentTasks` | extends it |
| `Worker` | the asyncio tasks of one process | abstracts rows to statuses and fences |
| `WorkerProofs` | theorems about `Worker` | extends it |
| `EventStream` | one browser follows one run | abstracts commits to marked events; refines `FollowedRun` |
| `FollowedRun` | what a watcher of a run is promised | |
| `EventStreamProofs` | theorems about `EventStream` | extends it |
| `InputQueue` | queued messages and the tabs that change them | abstracts runs to active or not |
| `InputQueueProofs` | theorems about `InputQueue` | extends it |
| `SessionTree` | messages, versions, branches, contexts | abstracts runs to their ends |
| `SessionTreeProofs` | theorems about `SessionTree` and about `ContextWindow` | extends both |
| `FileLifecycle` | rows and objects of files | abstracts sessions to open or gone |
| `FileLifecycleProofs` | theorems about `FileLifecycle` | extends it |
| `Workspace` | which session the browser shows | abstracts the server to answers |
| `*MC` | small instances: symmetry sets, mappings | |

The modules cut one system along its locks.  What a module needs of another is
an action with the other's effect on shared rows: `RunLifecycle` has
`SubmitSteer` and `NotifySteer`, `SubagentTasks` has `LoseRoot` and `CancelRoot`, `SessionTree`
has `Consume` and `StopRun`.

### RunLifecycle

State: `run`, `checkpoint` and `questions` are the columns of the rows;
`steers` counts the steer inputs made, pending and announced; `worker[w]` is what the Python task of
process `w` holds between transactions: the phase of `_execute_claimed` it is
in, the fence of its claim, its own list of provider messages, the call it is
working on.  `calls`, `effects` and `lastCommit` are history variables: which
tool each call names, how often it was invoked, and the last cursor with its
author: the worker that committed, or none for a person or a reconciler.

An action is one transaction with the Python code up to the next one.  `Claim`
is `claim_run`; `BeginRound` to `EndRound` is a round of the model, whose result
(an answer, or one of six kinds of call) is chosen freely; `StartBatch`,
`RunBatch` and `CompleteBatch` are the two markers with the execution between
them; `AskUser`, `RequestApproval` and `WaitForSubagents` pause;
`BeginApproved`, `InvokeApproved`, `RetryApproved`, `AskApprovalAgain` and
`SettleApproved` are `_resume_tool_approval`.  `Tick` lets the lease run out
while the worker goes on: nothing stops it but the refusal of its next commit
(`LoseLease`) or its renewal loop.  `Crash` ends a task anywhere.  `Recover`,
`ResumeWait`, `FailWait` and `ResumeSteeringQuestion` are reconcilers;
`RespondQuestion`, `CancelRun` and `SubmitSteer` are requests; `NotifySteer` is
the second transaction of a steer's request, which announces it on the stream.
`BeginSteeredRound` and `CompleteSteered` are the two places where pending steers
are consumed: they become user messages of the history, each with its number.

`DurableRun` is what the rest of the system believes of a run: a cursor that
grows, a holder, a checkpoint, a status that ends once.  Every commit of it has an
author.  A worker is the author of a commit only while it is the holder
(`Write`, `Yield`) or when it takes the job (`Acquire`, `Reject`); a person or a
reconciler is the author of the others, and `Announce`, the event of a new steer,
leaves the checkpoint alone.  A run implements it under the mapping that takes as
holder the owner of an unexpired lease, as author the one recorded in
`lastCommit`, and as `saved` the checkpoint.  `Expire` is then a step of the
abstract job that the clock takes, and the refinement says that after it the old
worker commits neither an event nor a checkpoint: a step it authors has no
counterpart in `DurableRun`.

### ModelRound

One claimed run inside `_execute_claimed` (`agent/runtime.py:466-823`), from its
first boundary to its end.  `provider` is `stream_with_tools`: endpoint, attempt
and `raw_chunk_seen`; `channel` the events between it and the batcher;
`batcher` the locals of `batch_model_stream_events`; `round` is
`_ModelRoundState`; `draft` what the database shows of the round.  `sent` is a
history variable: what the provider wrote in answer to the newest request.
`Provider`, `Batcher` and `Worker` are three asyncio activities that interleave.
`Start` is the boundary with its decision to withhold the answer (`Blocked`),
`Recover` the one compaction a round may add, `Withhold` the guard that collects
or waits, `Complete` is `complete_run` as the loop sees it; the actions between
are the ways a tool batch can go.  Which tools are offered, and which calls of a
batch run, follows the checkpoint's loaded tools.

### ContextWindow

`messages` is the history as units (a message, or tool calls with their
results), of which the code tells six kinds apart; `fit` are the locals of
`AgentContextManager.fit`, `work` the stack of `_compact_prefix` calls, `parts`
the summaries not yet merged.  A text is two fragments and a summary is the set
of fragments it was made from, which lets `NothingUnread` say that a summary that
replaced units was made from all of them.  References and receipts are numbers
carried beside a summary.  A call that summarises overflows, fails or returns.
The positions of the units that are summarised, and of those that stay, are put in
order by `Ascending`: a sequence is in it if it is the sorted list of the code, and
there is one for every set of positions.

### Worker

`root` and `child` are rows, `run[x]` where the asyncio task of `x` stands,
`claims` is `SubagentRuntime.claims`, `line` the queue of the semaphore,
`cancelled` the tasks with an undelivered `CancelledError`, `awaiting[w]` what
`w` gathers, `handoff` the ended tasks `_kick_if_pending` has yet to look at.
An action is the code between two awaits.  `Reap` to `SyncAndEnd` is the
`finally` of `_execute`; `ExecuteChild` and `Register` are the two halves of a
claim, between which the process does not know its own claim; `Observe`,
`Query` and `Compare` are the three parts of the children's reconciliation;
`StopRun`, `StopChildren`, `StopTask` the route of a cancellation;
`CloseChildren`, `CloseRoots`, `Closed` is `close`.

### Workspace

`selected` is `sessionIdRef`, `shown` the detail on the screen, `loading` the
session of the newest `refreshSession`.  Every request takes the next generation
and an answer is heard only if its generation is the newest, so older requests
need not be kept.  `Background` is the poll of a shown session with an active
run and the stream's snapshot, `SelectSession`, `Navigate`, `Start`, `Act` and
`DeleteSession` the user's operations with the rest of each after its await.

### SubagentTasks

`task` are the rows of the children, `child[p][t]` the fence under which a
process executes one, `snapshot[p]` the history a process compacts outside any
transaction together with whether the root's revision is still the one it read.
`Finish` is `finish` under the check of owner, fence and expiry; `Recover`
requeues or times out; `CompactWait`, `ResumeCompacted` and `DropSnapshot` are
the retry loop of `SubagentRuntime._resume`; `Settle` is
`settle_root_children`, which every end of the root calls.

### EventStream

The database is `run` with the content it would show; `limbo` are events that
are committed but not published; `stream` the entries Redis still holds;
`conn` the generator of the endpoint with its cursor and its batch; `client`
what the browser shows.  Events may leave `limbo` in any order, or be lost;
`Trim` and `Expire` shorten the stream; `Disconnect` ends the connection at any
point.  `Handle` is the loop over a batch with its gap detection, `Heartbeat`
the branch taken when nothing was read.

`FollowedRun` is what is promised to whoever watches a run, with no stream, no
connection and no endpoint in it: a view that is always a state the run was in,
that may skip states but never goes back, and that is said to be the end only
when it is the last state, after which it does not change.  A state is a cursor
with the content under it.  The mapping takes as the view what the browser shows
under its own cursor, and as the known states those the database ever had, which
`EventStream` keeps in `past`.

### InputQueue

`item` are the rows; `past[i]` every row of `i` ever committed, any of which a
tab may still show; `tab[t]` the request of the tab and its answer.  `Receive`
either takes the answer or sends the same request again, and `CreateAgain` serves
a copy of a creation that comes after its answer.  `Dispatch`, `Consume` and
`RunEnds` are the server's side.

### SessionTree

`msg` are the messages in order of creation, `clock` the latest creation time (a
new message is one moment younger, and `consume_inputs` gives an answer it moves a
new time), `run` the runs with the context each was given, `call[c]` a request with what it read before it held the
session's lock.  `Branch`, `Lineage`, `LatestLeaf` and `NextIndex` are the
queries of the code; a context is the sequence of messages whose text it
carries, which lets `ContextIsBranch` compare what a model was given with the
path the user sees.

### FileLifecycle

`row` are the file rows, `blob` the object store, `batch[p]` the rows a
collector has locked and those it has yet to erase, `task[t]` an extraction or a
read with what it has read so far.  A collector is the one transaction that
spans many steps: whoever needs a row of its batch waits (`Free`).
`active` are the sessions with an active run, under which `DeleteSession` is
refused.  A run reads text in one transaction (`ReadText`), and pages and images
in several steps: the row (`StartRead`), the bytes (`ReadTarget`), for pages
the row once more (`RecheckRead`), and only then the model is given them
(`GiveRead`); none of these holds a lock for the next.  `live` says of a read
whether its run is still active: a cancelled run ends in its row (`EndRun`) while
its worker is still in the middle of a read.  `UploadFails` and `AbortCollection` are the two places where the store has
changed and the row has not.

## 3. What is checked

All passing runs finish without an error.  `CHECK_DEADLOCK FALSE` stands in
their configurations because runs end, bounds are reached, processes close and
sessions are deleted: the system may really stop.

| Run | Instance | What it shows |
|---|---|---|
| `run_lifecycle` | 2 workers, 3 claims, 2 calls, 2 questions, drafts of 1, lease of 2 ticks, 2 attempts | `TypeOK`, `LeaseExclusive`, `NoReplay`, `UnknownOutcomeNeverResumes`, `OnlyApprovedToolsRun`, `HistoryPaired`, `QuestionMatchesStatus`, `TerminalIsFinal`, `ImplementsDurableRun` |
| `run_steered` | the same with one steer, one call, fair | `SteersReachHistory`, `AbandonedRunTakenUp` |
| `model_round` | 1 required child, 6 kinds of batch, 1 round of tools, answers of 3 pieces, batches of 2, 1 retry, a fallback, 1 steer, fair | `DraftIsOneAnswer`, `NothingLost`, `CompletesInformed`, `LoopEnds` |
| `context_window` | histories of up to 4 units, 2 passes, 2 levels of splitting, fair | `NothingUnread`, `ReferencesSurvive`, `FitEnds` |
| `subagent_tasks` | 2 children in 2 groups, one required, 2 processes, lease of 2 ticks, 2 fences, fair | `ConcurrencyLimit`, `ResultsDeliveredOnce`, `RequiredResultsCollected`, `NoOrphans`, `WaitEnds` |
| `worker` | 2 roots, a child of one of them, 1 slot, 1 failed renewal or lease, shutdown, fair | `HandoffKept`, `FreshClaimSpared`, `PendingRunsExecute`, `ChildrenStop` |
| `event_stream` | 2 epochs of 2 events, fair | `ImplementsFollowedRun`, `EndIsSeen` |
| `input_queue` | 3 inputs, room for 2, 1 tab with 1 change, 1 run of the user, fair | `SentAsShown`, `QueueOrder`, `DecisionsLast`, `PendingDecided` |
| `session_tree` | 1 caller, 2 keys, 6 messages | `BranchInOrder`, `ContextIsBranch`, `RetryAnswered` |
| `file_lifecycle` | 2 files (one document), 2 contents, 1 session, 2 collectors, 1 task, 1 fault, fair | `BytesMatchDigest`, `ClaimedKeepsBytes`, `ReadsAuthorized`, `RetiredIsErased` |
| `worker_self_wait`, `workspace_selection` | 1 root with 2 children and 1 slot; 2 sessions | a sentence of the documents that the code does not keep, see section 5 |

Why the bounds are enough:

- Three claims by two workers give a first worker, one that takes over, and a
  third claim while either of the others may still be awake.  A stale worker
  differs from another only by its fence, and the row has one fence.
- Two calls are the least with which a call can be open behind a finished one;
  two questions allow an approval to be asked again.  A lease of two
  ticks can expire between any two steps or be renewed in time.  A draft of one
  delta distinguishes "rolled back" from "kept".
- `model_round`: three pieces of text with batches of two fill a batch, leave one
  pending, and change the kind in between.  One retry and one fallback let either
  come before the other and both fail; a second round of tools would only repeat
  the boundary, which every round passes in a state that a first round can have:
  the loaded tools and the children of earlier claims are free in `Init`.
- `context_window`: the code makes eight passes and splits sixteen deep; two of
  each give a pass that works on the summary of another, a merge of merges, and
  the refusal at either limit.  The sizes make a call hold two units, so that
  splitting is common, and a history hold three, so that it is compacted early.
- `worker`: with one slot for two roots and a child, a root that kept its slot
  while it waits would starve its own child and the other root, and each of the
  three may be in line behind any other.  The reconciler observes, queries and
  compares while the child is claimed, ends, loses its lease and is claimed again;
  `HandoffKept` and `FreshClaimSpared` are proved for any number of children.  The
  instance leaves out results that do not fit when a child delivers them
  (`Undelivered`), which is the run `worker_self_wait`.
- Two epochs of two events give a gap within an epoch, a gap over the border
  of epochs, an old event behind a newer snapshot and a lost last event.
- Three inputs with room for two give a refusal, a failure at the head and an
  order behind it; a tab that may show any earlier row stands for all tabs,
  since a tab is only the row it shows and the request it sends.
- Six messages are a question and its answer, a version of either, a reply, and
  a steering message between two of them.  One caller suffices because the part
  of a request that precedes the lock interleaves with runs and steering, which
  are other actors; requests of two callers are ordered by the session's lock.
- Two collectors compete for rows; one fault tears one batch.  Two contents are
  needed to tell a repeated upload from another one.

Fairness, and what in the code justifies it:

- `run_steered`: time passes (`Tick`); every process reconciles on a timer
  (`_reconcile_loop`), so `Recover`, `ResumeSteeringQuestion`, `ResumeWait` and
  some `Claim` happen if they stay enabled; a worker whose lease is gone finds
  out when its renewal is refused (`LoseLease`); a task that waits for neither
  the model nor a tool goes on (`TaskStep`).  Nothing is assumed of the model, tools
  or the user: `SteersReachHistory` is stated under the condition that calls
  of the model and of tools end (`CallsEnd`), and a question is never answered for
  the user, it is cancelled by the steer.
- `model_round`: a request ends by its timeout at the latest, so the provider
  goes on; the batcher and the loop are tasks of the process.
- `context_window`: a call that summarises ends, by its timeout if need be.
- `subagent_tasks`: deadlines pass; `recover` and `resume_wait` run on the
  timer of `SubagentRuntime._loop`.  No child is assumed to be executed.
- `worker`: asyncio runs each task that is ready, its semaphore is first come
  first served, the loops are timers, and a child that holds its lease ends, by its
  deadline if need be (`agent/subagents/runtime.py:267-271`).  The work of a
  root has no end that the code gives: a run has no limit of rounds
  (`agent/runtime.py:512`).  `PendingRunsExecute` is therefore stated under
  the condition that the turns of roots end (`RootsYield`), in whatever way.
  Requests of the user, cancellations and shutdown may stop half-way.
- `event_stream`: the browser reconnects, and an open connection is served
  (`Fetch`, `Handle`, `Heartbeat`).  Publication is not fair: events may be lost.
- `input_queue`: `dispatch` is part of reconciling.  Runs need not end: a question
  waits for its user without a timeout (`docs/runtime.md:27`), and holds the
  queue for as long.  `PendingDecided` is stated under the condition that the
  active runs end (`ActiveRunsEnd`); `MaxRuns` bounds the runs the user starts beside
  the queue, so that they do not overtake it for ever.
- `file_lifecycle`: `file_collector` runs every 60 seconds in each process;
  faults are finite, which the bound `MaxFaults` says.
- `workspace_selection`: requests are answered.

Each property has a *mutant* in `PROJECT.json`: a definition of the model with a
plausible mistake (marked `\* Mutant:` before the definition it replaces) that
makes TLC find the property violated in the same instance.

## 4. What is proved

From one named assumption per module, that the constants are what their comments
say (`ConstantsAssumption`, `RoundConstants`, `SubagentConstants`,
`StreamConstants`, `QueueConstants`, `TreeConstants`, `FileConstants`,
`WorkerConstants`), for every set of workers, roots, children, tools, inputs,
tabs, callers, keys, files and sessions and every value of the bounds.  Two of
them say that a set is finite: the inputs of a session, and the children of a root,
which are rows of a table.

| Module | Theorem | States |
|---|---|---|
| `RunLifecycleProofs` | `TypeCorrect` | `Spec => []TypeOK` |
| | `QuestionsCorrect` | `Spec => []QuestionMatchesStatus` |
| | `EventsCorrect` | `Spec => EventsIncrease` |
| | `LeasesCorrect` | `Spec => [](LeaseExclusive /\ LeaseOnlyWhileRunning)` |
| | `DurableCorrect` | `Spec => ImplementsDurableRun` |
| | `TerminalCorrect` | `Spec => TerminalIsFinal` |
| | `SteersCorrect` | `Spec => []SteersKept` |
| | `ReplayCorrect` | `Spec => []NoReplay` |
| | `OutcomeCorrect` | `Spec => []UnknownOutcomeNeverResumes` |
| | `ApprovalCorrect` | `Spec => []OnlyApprovedToolsRun` |
| | `HistoryCorrect` | `Spec => []HistoryPaired` |
| `ModelRoundProofs` | `InformedCorrect` | `Spec => []CompletesInformed` |
| | `DraftCorrect` | `Spec => []DraftIsOneAnswer` |
| | `NothingLostCorrect` | `Spec => []NothingLost` |
| `SubagentTasksProofs` | `LimitsHold` | `Spec => []ConcurrencyLimit` |
| | `DeliveryCorrect` | `Spec => []ResultsDeliveredOnce` |
| | `RequiredCorrect` | `Spec => []RequiredResultsCollected` |
| | `OrphansCorrect` | `Spec => []NoOrphans` |
| `WorkerProofs` | `HandoffCorrect` | `Spec => []HandoffKept` |
| | `SparedCorrect` | `Spec => FreshClaimSpared` |
| `EventStreamProofs` | `ShownCorrect` | `Spec => []ShowsDatabaseState` |
| | `FollowedCorrect` | `Spec => ImplementsFollowedRun` |
| `InputQueueProofs` | `TypeCorrect` | `Spec => []TypeOK` |
| | `SentCorrect` | `Spec => []SentAsShown` |
| | `QueueCorrect` | `Spec => []QueueOrder` |
| | `DecisionsCorrect` | `Spec => DecisionsLast` |
| `SessionTreeProofs` | `BranchCorrect` | `Spec => []BranchInOrder` |
| | `RetryCorrect` | `Spec => RetryAnswered` |
| | `ContextCorrect` | `Spec => []ContextIsBranch` |
| | `UnreadCorrect` | `WindowSpec => []NothingUnread` |
| | `ReferencesCorrect` | `WindowSpec => []ReferencesSurvive` |
| `FileLifecycleProofs` | `DigestCorrect` | `Spec => []BytesMatchDigest` |
| | `ClaimedCorrect` | `Spec => []ClaimedKeepsBytes` |
| | `ReadsCorrect` | `Spec => ReadsAuthorized` |

### The run

1. *Types.*  `TypeOK` alone is not inductive: a worker in a tool phase appends a
   message about its call, so the call must be one the model has made, also
   when the call comes from the checkpoint (`CallsKnown`) or was read by the
   worker earlier (`WorkersKnowCall`).  `TypeInv` is the three together.  A lemma
   for each helper (`CommitType`, `ReleasedType`, `PauseType`, ...) gives the
   type of what it builds; one lemma for each group of actions puts them together.
2. *Shapes.*  Of the some forty actions the theorems about leases, cursors and
   questions need only what happens to status, owner, fence, expiry, cursor, author,
   the set of pending questions, and whether the checkpoint stays.  `RowStep` is
   the disjunction of the fourteen things that can happen to them: `Quiet`, `Clock`,
   `Take`, `Refuse`, `Hold`, `Keep`, `GiveUp`, `Ask`, `TakenBack`, `Answered`, `Resumed`, `GivenUp`, `Cancelled`,
   `Announced`.  `StepShape` proves that every step has one of them, action by
   action; after it no proof about the row looks at an action again.
3. *Questions, events, leases.*  `QuestionMatchesStatus` is inductive over the
   shapes.  `EventInv` bounds the last event by the row's cursor, from which
   `EventsIncrease` follows.  `FenceInv` strengthens `LeaseExclusive`: no worker
   has a fence above the row's, different live workers have different fences,
   and while the run is running the worker with its fence is the owner.  Only
   `Claim` makes a fence, and it makes the row's next one.
4. *Refinement.*  `DurableStep` takes each shape to a step of `DurableRun` or to
   a stutter under the mapping of `RunLifecycle`.  A shape names the author of
   its commit, and of a worker's commit that the worker owned an unexpired lease, which
   is where the lease check of each action is used.
5. *Tool calls.*  What matters to a call is its approval, its question, the marker
   of the checkpoint and the phases of the workers.  `CallStep` is the disjunction
   of the eleven things that can happen to them: `Loads`, `Starts`, `Runs`, `Ends`,
   `Requests`, `AsksAgain`, `Begins`, `Retries`, `Closes` by a worker, `Decides` by
   the user, and `Aside`, which leaves calls alone.  `CallInv` is inductive over
   them.  `KnownInv` says what an approval is worth: it names a call of its kind and
   the question about it, and is approved only if that question was answered so.
   `HolderInv` says what the present holder of the lease has in hand: the
   checkpoint's own approval, and an executing marker is its own batch or call.
   `OnceInv` is `NoReplay` before the fact: a tool has run, or one worker is about
   to run it, never both; and the approval of a tool somebody has touched lies under
   an executing marker, which forbids the next claim to begin it again.  A worker
   without its lease may still run the tool it has started; it does so as the only
   one, because whoever takes over finds that marker and can only fail the run.
6. *Histories.*  `HistInv` pairs two claims.  `RowHist` says of the checkpoint when
   its last call may be open: the run waits for it, or it holds its approval.
   `WorkersPaired` says of a worker's own list that it ends in the call of its
   approval exactly while it resumes one.  The second is needed because a commit
   writes the worker's list, which it read earlier, over the checkpoint's.
7. *Steers.*  `SteersKept` says that a steer that has left the queue is in the
   checkpoint.  A commit of the holder replaces the checkpoint by a list read long
   ago, so `SteerInv` says it of that list, too: whoever works with the fence of a
   running row has every consumed steer in hand.  A step either forgets nothing
   (`Remembers`: histories grow, compaction removes calls with their results only, a
   claim loads the checkpoint) or consumes (`Consumes`), and then the list and the
   checkpoint take the new messages in one step and, by `FenceInv`, nobody else
   may write.  That every steer leaves the queue in the end is `SteersReachHistory`,
   which stays with TLC.

### Its rounds

`CompletesInformed` looks at one moment, the decision.  `Informed` says the same
of every phase in which an answer is being asked for or written: not withheld
means that no required child is uncollected.  It is inductive because only the
boundary decides whether to withhold, looking at the children in the same step;
only a tool round starts or collects children, and it leads back to the boundary;
and a child that ends was running before.

The other two follow the text of an answer from the provider through the channel
and the batcher to the draft or the buffer.  `ChannelInv` says that the round's
answer and the batcher's pending text are together a beginning of what was sent,
and that the channel holds the pieces that follow, each once and in order, behind
the event that marks the first of them and before the end of the stream.
`DraftInv` says that the draft, or for a withheld answer the buffer, is the round's
answer.  A retry is what makes this delicate: it is allowed only before a raw
event, and `ChannelInv` says that without one nothing has been written.  The
sequences are reasoned about by their elements, so texts, batches and buffers may
have any length.

### Subagents

Every step is one of four shapes: it works on rows, and perhaps takes one child
(`Works`, `Takes`), it delivers (`Delivers`) or it settles the root (`Settles`);
all but `Takes` leave no new child with a live lease (`Calm`).  `ConcurrencyLimit`
is inductive over `Calm` and `Takes` alone, by cardinalities of finite sets.
`DeliveryInv` makes the other three inductive: a result is dropped only when the
root ends, and a snapshot still fresh holds the durable history as it is, so that
writing back its compaction neither loses nor repeats a result.

### The tasks of a process

`Tables` says what its tables are.  `Held`, the body of `HandoffKept` for one
root, is kept by every step: a kick leaves a task for each run it asks for
(`HeldKicked`), a task that ends leaves a hand-off while the process is open
(`HeldEnded`), and a root that becomes pending in any other way is asked for in
the same step or no longer counted as asked for.  `FenceInv` is about the
children's reconciler: no claim has a fence above its row's, and once the query has
run, a claim that it did not find is not the live lease of its child under the
observed fence.  Fences only grow and only a claim starts a child, with the next
fence, so that cannot become false again; `Compare` cancels only claims that are
unchanged since they were observed.

### The event stream

The endpoint compares cursors and never contents, so `StreamInv` has to say what a
cursor is worth.  An event is `Faithful` if it leads from every content the
database had under the cursor before it to one it had under its own; `EventInv`
says that every event not yet delivered is faithful, wherever it is: not published,
in the stream, or in the batch of a connection.  `CursorInv` says that an active
run has one content under its cursor (one that `recover` has failed may have two,
which is why `Faithful` speaks of every content under a cursor), and `ClientInv` that an open
connection stands where its browser does.

`FollowedRun` says more than that what is shown is a state of the database: it may
not go back, and the end is final.  `EndInv` is what that needs: a browser that was
told the end has no connection, the row is terminal, and it shows that row.  Every
step is then one of four: it commits (`Commits`), moves events or connections
(`Idles`), reads the database (`Refreshes`) or delivers an event (`Follows`), and
each of these is a step of `FollowedRun` or a stutter.

### The input queue

A row is born, edited, refused, dispatched, or taken by `consume`, and `StepShape`
reduces every step to one of these.  `PastInv` strengthens `SentAsShown`: no row
ever seen has a version above the present one, so a change, which takes the next
version, cannot meet its own version in a tab.  `OrderInv` strengthens
`QueueOrder`: when an input is sent as a run, every older one that has not failed
is decided already; decided rows never change (`DecidedStays`), and a new row is
placed behind all rows there are, which is where the finiteness of `Input` is used.

### The session tree

`TreeInv` says that everything points into the tree, that at most one run is
active, and that nothing is below the answer it writes.  That answer is the only
message that ever moves (`ConsumeStep`): it becomes the child of a new steering
message and gets a new time, so its own children would be older than it, and there
are none.  All other steps add messages at the end of a path (`StartStep`) or
change no parent and no time (`ProgressStep`).  `KeyInv` says that a key names one
run, whatever callers send it how often: a request looks for its key under the
session's lock before it starts a run.  `RetryAnswered` follows from it.

`ContextIsBranch` compares the context of a run with a path that is computed by a
recursive function.  `Branch` and `Lineage` follow the parents of a message, and a
parent is older than its child (`BranchInOrder`): if the function had no value for
some message, the oldest such message would have a parent with one, so there is
none.  With that, the values are reasoned about one message at a time.  `TextInv`
is the invariant: the checkpoint of a message carries that message's branch, the
answer an active run writes has no checkpoint and nothing below it, and an active
run's context carries the branch above its answer.  A run that starts takes the nearest
checkpoint above it and what follows (`LineageCarries`); a steering message is put
above the answer and at the end of the context, in one step; a run that ends leaves its
context as the checkpoint of its answer.  New messages and checkpoints change no branch that
existed (`SameBranch`, `CarriedStill`), except the one the moved answer is on,
which nothing is below.

### Compaction

Also in `SessionTreeProofs`, since it is about what becomes of such a context.  `IsHistory`
says what a list of units must be to stand for everything a run ever did: units
in full in the order in which they were made, and summaries, and each unit in one or the
other.  It holds of the stored history and of the candidate that `fit` works on.
The order is needed because a question may go only if a later one is there: the code
compares positions in the list, the property speaks of when a unit was made.

What lies between is the recursion of `_compact_prefix`, which the model has as a
stack.  Each call that summarises uses up one of the calls and adds a summary, each
merge takes two summaries and puts a call in its place; `Needs` counts along
the stack how many summaries are there when each call begins.  It follows that a merge
always finds its two (`MergeCalls`), and that one summary is left when the stack is
empty (`ReplaceWindow`).  `Shown` says that every fragment of what was selected is in
a finished summary or in a call still to be made; splitting, summarising and
merging keep it (`SplitCalls`, `SummariseCalls`, `MergeCalls`), so the one summary left
has all of it.  Sizes and limits decide only which of these steps is taken, so
nothing is assumed of them.

### Files

`FileInv` holds because a collector's locks last from the choice of its batch to
its end.  `LockInv` says that a row is in one batch at most and stays collectable
while it is in one; `BytesInv` that an uploaded file without bytes is in such a
batch, already erased, or was in one that was rolled back (`torn`); `ClaimInv` that
a claimed file has a session.  A claim takes only rows that are in no batch, which
gives `ClaimedKeepsBytes`.

`ReadsAuthorized` has two halves.  A recheck finds a row that is still claimed, and by
`ClaimInv` such a row has an existing session: no pages pass a recheck made after
the deletion.  For what is given without one, and for the moment between the
recheck and the giving, `ReadInv` says that a read for an active run belongs to a
session that has one, and that such a session exists: the deletion is refused under
an active run, and a run that ends takes its reads out of that claim.  What is not
claimed, because the code does not give it: a cancelled run whose worker has not
noticed may be given, after the deletion, pages whose recheck came before it, or text
or an image it was authorized to read before it; and a download
(`api/routes/files.py:338`), which looks at the row once, may end after it.

### What stays with TLC

- Liveness, and every argument about fairness or `ENABLED`.

Every safety property that a passing run checks is proved, by the theorems above;
`SteersKept`, `EventsIncrease`, `LeaseOnlyWhileRunning` and `ShowsDatabaseState` are
proved and in no run.
Both refinements are proved as a whole: `DurableRun` and `FollowedRun` state no
fairness.

## 5. Where the code and its documents disagree

- **A child that fails its root waits for itself** (`worker_self_wait`).  The
  task of the last child resumes its root (`agent/subagents/runtime.py:306`).  If
  the results do not fit even after a compaction, it fails the root and calls
  `cancel_root`, which cancels and gathers the tasks of all registered children
  (58-66): its own, too.  A task that gathers itself cannot be cancelled;
  `cancel()` recurses into itself until it raises.  The task never ends and keeps
  its slot, the reconciler raises whenever it reaches it, and so does `close`.
  `docs/runtime.md:77` says that a root that fails ends its children, and
  `docs/architecture.md:56` that slots are released while waiting.
- **A selection can be lost** (`workspace_selection`).  `selectSession`
  (`useAgentWorkspace.ts:390-404`) leaves the old session on the screen until the
  selected one has loaded.  If the old one has an active run, its poll (554-563)
  or an event of its stream (261) takes a newer generation, and the answer for
  the selected session is thrown away and not asked for again.
  `frontend/README.md:117` says that navigation aborts old requests and that old
  answers are recognized.

Also seen, without a run of its own:

- `collect_files` (`main.py:45-65`) erases objects before it commits their rows;
  after a rollback an expired upload is `stored` without its object and can still
  be claimed, contrary to the comment at `persistence/models.py:385`.
  `ClaimedKeepsBytes` holds of files that were in no broken collection.  One
  object that can never be deleted blocks every batch it is in.
- `regenerate` uses the parent it read before the session's lock
  (`persistence/agent_runtime.py:883-896`); a steering message put above the
  answer in between is dropped from the new version's history.
- `recover` fails a run without an event (`agent_runtime.py:2127`), so the stream
  ends without a terminal snapshot; the browser sees it on its next connection
  (`EndIsSeen`).
- The `finally` of `_execute` kicks pending runs without a look at `_closing`, so
  a task may be created after `close` has taken its list of tasks.
- `start` skips its own refresh when a poll has bumped the generation meanwhile,
  and the loop over the stream does not look at its abort signal again after it
  awaited a refresh.
- The reconciler may cancel a child that has finished and is resuming its root;
  another process or the next pass resumes it, so nothing is lost.
- `recover` repairs a run that waits without a pending question, which
  `QuestionsCorrect` proves unreachable; a `put` that S3 completes after its
  client has given up can leave an object nobody refers to.

## 6. What is not modelled

The table of components in `PROJECT.json` says it part by part.  Left out for
good: rendering, the chart components under `frontend` that are third-party
code, parsers of documents, adapters of external services (MCP, web search), the
wire protocol of a model provider, settings, migrations and deployment.

Left out because there is little a model would tell: rate limiting (one guarded
increment per request), sign-in (requests that each lock one row), pages of lists
(queries that change nothing), telemetry (a bounded queue that nothing depends
on), `ToolAdmission` (one semaphore and a set of threads that outlive their
deadline; a thread cannot be cancelled and no state of the run depends on it).

Abstractions to keep in mind when reading a result: one run, one session, one
root stands for all, which is sound as long as operations of different ones
share no row; texts are marks; the model's and the tools' results are free
choices; time is a countdown, and clocks of processes are not skewed because
every expiry is compared with the clock of whoever holds the row lock.
`ModelRound` has the batcher always on (a window of 0 turns it off);
`ContextWindow` measures bytes and tokens with one size; `Worker` has one
process, to which the others are the expiry of a lease; `Workspace` has no
failing requests and no pages of older messages.

Smaller simplifications:

- `ModelRound`: a call of an orchestration tool has well-formed arguments (the
  exception for others, `agent/runtime.py:1104`, fails the run as other errors do);
  `Withhold` reads the boundary and collects or waits in one step.  How many rounds
  of tools a model asks for is a bound of the model (`MaxToolRounds`), not of the code:
  `LoopEnds` says that the loop adds no round of its own.
- `SessionTree`: a request to open a run of a deleted session is answered that there
  is none; `create_session_run` (`persistence/agent_runtime.py:352`) would create it anew.
- `FileLifecycle`: an extraction reads the row and the bytes in one step; the digest is
  taken of both and compared at its end.

## 7. Plan

The order is by how much of the system depends on a part.

Modelled and checked: the run with its abstract job, its rounds, compaction,
subagents, the tasks of a process, the event stream, the input queue, the session
tree, files, the selection of the browser.  Proved: thirty-four theorems (section 4).

Theorems to come, in order:

1. That `DurableRun` is what `EventStream` and `InputQueue` assume of a run, and
   that the history `ContextWindow` leaves is what `SessionTree` takes as carried.
2. What `FollowedRun` promises of a run that `recover` ends without an event, once
   the browser's next connection is part of it; that it is seen stays with TLC.

Models to come: pages of older messages and the stream of a session that is left
in `Workspace`; receipts visible to a branch (`agent/outcomes.py`,
`persistence/materials.py`); the loop of a child (`agent/subagents/runner.py`).

## 8. Running it

    tlc -workers 2 -config RunLifecycle.cfg RunLifecycleMC.tla
    tlapm RunLifecycleProofs.tla
    tlapm ModelRoundProofs.tla
    tlapm InputQueueProofs.tla
    tlapm WorkerProofs.tla
    tlapm SubagentTasksProofs.tla
    tlapm EventStreamProofs.tla
    tlapm SessionTreeProofs.tla
    tlapm FileLifecycleProofs.tla

`PROJECT.json` lists the module and configuration of each run, the source lines
of each definition, the mutants, the hazards and the theorems.
