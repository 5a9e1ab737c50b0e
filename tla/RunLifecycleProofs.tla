------------------------- MODULE RunLifecycleProofs -------------------------
(***************************************************************************)
(* Theorems about RunLifecycle, for every set of workers and every bound.  *)
(***************************************************************************)
EXTENDS RunLifecycle, SequenceTheorems, TLAPS

-----------------------------------------------------------------------------
(* Lemmas about the pieces the transactions are built from. *)

SteersType ==
  steers \in [pending: Nat, made: Nat, told: Nat] /\ steers.pending <= steers.made

\* A committed row is a row, and the commit has an event and an author.
LEMMA CommitType ==
  ASSUME NEW r \in RunRow, NEW who \in Worker \cup {NoWorker}, Commit(who, r)
  PROVE  run' \in RunRow /\ lastCommit' \in LastCommit
BY DEF Commit, RunRow, LastCommit

\* Giving up the lease for a status yields a row.
LEMMA ReleasedType ==
  ASSUME NEW r \in RunRow, NEW s \in ActiveStatuses \cup TerminalStatuses
  PROVE  Released(r, s) \in RunRow
<1> DEFINE a == [r EXCEPT !.status = s]
           b == [a EXCEPT !.owner = NoWorker]
<1>1. a \in RunRow
  BY DEF RunRow
<1> HIDE DEF a
<1>2. b \in RunRow
  BY <1>1 DEF RunRow
<1> HIDE DEF b
<1>3. [b EXCEPT !.ttl = 0] \in RunRow
  BY <1>2 DEF RunRow
<1> QED BY <1>3 DEF Released, a, b

\* A new epoch yields a row.
LEMMA NewEpochType ==
  ASSUME NEW r \in RunRow
  PROVE  NewEpoch(r) \in RunRow
<1> DEFINE e == r.epoch + 1
<1>1. e \in Nat
  BY DEF RunRow
<1> HIDE DEF e
<1>2. [r EXCEPT !.epoch = e, !.seq = 1] \in RunRow
  BY <1>1 DEF RunRow
<1> QED BY <1>2 DEF NewEpoch, e

\* What the committed row keeps of the row it saves.
LEMMA CommitFields ==
  ASSUME NEW r \in RunRow, NEW who, Commit(who, r)
  PROVE  /\ run'.status = r.status /\ run'.owner = r.owner /\ run'.fence = r.fence
         /\ run'.ttl = r.ttl /\ run'.epoch = r.epoch /\ run'.seq = r.seq + 1
         /\ run'.draft = r.draft
         /\ lastCommit'.event = <<r.epoch, r.seq>> /\ lastCommit'.by = who
BY DEF Commit, RunRow

\* transition_run out of running clears the lease and keeps the fence and the cursor.
LEMMA ReleasedFields ==
  ASSUME NEW r \in RunRow, NEW s
  PROVE  /\ Released(r, s).status = s /\ Released(r, s).owner = NoWorker
         /\ Released(r, s).fence = r.fence /\ Released(r, s).ttl = 0
         /\ Released(r, s).epoch = r.epoch /\ Released(r, s).seq = r.seq
         /\ Released(r, s).draft = r.draft
BY DEF Released, RunRow

\* A new epoch keeps status and lease and restarts the sequence.
LEMMA NewEpochFields ==
  ASSUME NEW r \in RunRow
  PROVE  /\ NewEpoch(r).status = r.status /\ NewEpoch(r).owner = r.owner
         /\ NewEpoch(r).fence = r.fence /\ NewEpoch(r).ttl = r.ttl
         /\ NewEpoch(r).epoch = r.epoch + 1 /\ NewEpoch(r).seq = 1
         /\ NewEpoch(r).draft = r.draft
<1> DEFINE e == r.epoch + 1
           f == [r EXCEPT !.epoch = e]
<1>1. NewEpoch(r) = [f EXCEPT !.seq = 1]
  BY DEF NewEpoch
<1>2. f.epoch = e /\ f.status = r.status /\ f.owner = r.owner /\ f.fence = r.fence
      /\ f.ttl = r.ttl /\ f.draft = r.draft /\ DOMAIN f = DOMAIN r
  <2> HIDE DEF e
  <2> QED BY DEF RunRow
<1> HIDE DEF e, f
<1>3. DOMAIN r = {"status", "owner", "fence", "ttl", "epoch", "seq", "draft"}
  BY DEF RunRow
<1> QED BY <1>1, <1>2, <1>3 DEF e

\* The safe point of well-typed messages is a checkpoint.
LEMMA SafeType ==
  ASSUME TypeOK, NEW m \in Seq(Message)
  PROVE  Safe(m) \in Checkpoint
BY DEF TypeOK, Safe, Checkpoint, RunRow

\* A safe checkpoint takes the messages and the draft, and keeps markers, approval and wait.
LEMMA SafeFields ==
  ASSUME TypeOK, NEW m \in Seq(Message)
  PROVE  /\ Safe(m).messages = m /\ Safe(m).safeDraft = run.draft
         /\ Safe(m).marker = checkpoint.marker
         /\ Safe(m).approval = checkpoint.approval /\ Safe(m).wait = checkpoint.wait
BY DEF TypeOK, Safe, Checkpoint, RunRow

\* Settling a checkpoint yields a checkpoint.
LEMMA SettledType ==
  ASSUME NEW c \in Checkpoint
  PROVE  Settled(c) \in Checkpoint
<1> DEFINE m == c.messages
<1>1. m \in Seq(Message)
  BY DEF Checkpoint
<1>2. ASSUME Len(m) > 0, m[Len(m)].role = "call"
      PROVE  Append(m, ToolMessage(m[Len(m)].op)) \in Seq(Message)
  <2>1. m[Len(m)] \in Message
    BY <1>1, <1>2
  <2>2. ToolMessage(m[Len(m)].op) \in Message
    BY <1>2, <2>1 DEF ToolMessage, Message
  <2> QED BY <1>1, <2>2
<1>3. 0 \in Call \cup {0}
  OBVIOUS
<1> QED BY <1>1, <1>2, <1>3 DEF Settled, Checkpoint

\* A call that may still be made has a number in Call.
LEMMA NewCallType ==
  ASSUME ConstantsAssumption, TypeOK, NEW kind \in CallKind, NewCall(kind)
  PROVE  NextCall \in Call /\ calls' \in Seq(CallKind)
BY DEF NewCall, NextCall, Call, TypeOK, ConstantsAssumption

\* A process without a task for the run is in a state of its type.
LEMMA IdleType == Idle \in WorkerState
<1>1. <<>> \in Seq(Message)
  OBVIOUS
<1>2. NoApproval \in Approval
  BY DEF NoApproval, Approval
<1> QED BY <1>1, <1>2 DEF Idle, WorkerState, Phase

\* A task that ends leaves its process well typed.
LEMMA LeaveType ==
  ASSUME TypeOK, NEW w \in Worker, Leave(w)
  PROVE  worker' \in [Worker -> WorkerState]
BY IdleType DEF TypeOK, Leave

\* Moving on to another phase keeps the worker's type.
LEMMA GotoType ==
  ASSUME TypeOK, NEW w \in Worker, NEW p \in Phase, Goto(w, p)
  PROVE  worker' \in [Worker -> WorkerState]
BY DEF TypeOK, Goto, WorkerState

\* Going on to the next round keeps the worker's type.
LEMMA NextRoundType ==
  ASSUME TypeOK, NEW w \in Worker, NEW m \in Seq(Message), NextRound(w, m)
  PROVE  worker' \in [Worker -> WorkerState]
<1>1. worker[w].fence \in Nat
  BY DEF TypeOK, WorkerState
<1>2. [Idle EXCEPT !.phase = "head", !.messages = m, !.fence = worker[w].fence]
        \in WorkerState
  BY <1>1, IdleType DEF WorkerState, Phase, Idle
<1> QED BY <1>2 DEF TypeOK, NextRound

\* The row of a successful claim.
LEMMA ClaimRowType ==
  ASSUME ConstantsAssumption, NEW r \in RunRow, NEW w \in Worker
  PROVE  [r EXCEPT !.status = "running", !.owner = w, !.fence = @ + 1,
                   !.ttl = LeaseTicks] \in RunRow
<1> DEFINE a == [r EXCEPT !.status = "running"]
           b == [a EXCEPT !.owner = w]
           f == r.fence + 1
           c == [b EXCEPT !.fence = f]
<1>1. a \in RunRow /\ f \in Nat
  BY DEF RunRow, ActiveStatuses
<1> HIDE DEF a, f
<1>2. b \in RunRow
  BY <1>1 DEF RunRow
<1> HIDE DEF b
<1>3. c \in RunRow
  BY <1>1, <1>2 DEF RunRow
<1> HIDE DEF c
<1>4. [c EXCEPT !.ttl = LeaseTicks] \in RunRow
  BY <1>3 DEF RunRow, ConstantsAssumption
<1> QED BY <1>4 DEF a, b, c, f

\* The row recover writes.
LEMMA RecoveredType ==
  ASSUME TypeOK
  PROVE  Recovered \in RunRow
<1> DEFINE rolled == [run EXCEPT !.draft = checkpoint.safeDraft]
           expired == IF ~LeaseExpired THEN run
                      ELSE IF Executing THEN Released(run, "failed")
                      ELSE NewEpoch(Released(rolled, "pending"))
<1>1. rolled \in RunRow
  BY DEF TypeOK, RunRow, Checkpoint
<1> HIDE DEF rolled
<1>2. expired \in RunRow
  BY <1>1, ReleasedType, NewEpochType DEF TypeOK, ActiveStatuses, TerminalStatuses
<1> HIDE DEF expired
<1>3. Released(expired, "waiting_for_user") \in RunRow
  BY <1>2, ReleasedType DEF ActiveStatuses
<1> QED BY <1>2, <1>3 DEF Recovered, expired, rolled

\* What a pause writes.
LEMMA PauseType ==
  ASSUME TypeOK, NEW w \in Worker, NEW op \in Call, NEW m \in Seq(Message),
         NEW a \in Approval, Pause(w, op, m, a)
  PROVE  /\ run' \in RunRow
         /\ checkpoint' \in Checkpoint
         /\ questions' \in Seq(Question)
         /\ worker' \in [Worker -> WorkerState]
         /\ lastCommit' \in LastCommit
<1>1. run' \in RunRow /\ lastCommit' \in LastCommit
  BY ReleasedType, CommitType DEF Pause, TypeOK, ActiveStatuses
<1>2. checkpoint' \in Checkpoint
  <2> DEFINE n == Len(questions) + 1
             b == [a EXCEPT !.question = n]
             s == Safe(m)
  <2>1. n \in Nat
    BY DEF TypeOK
  <2>2. s \in Checkpoint
    BY SafeType
  <2> HIDE DEF n, s
  <2>3. b \in Approval
    BY <2>1 DEF Approval
  <2> HIDE DEF b
  <2>4. [b EXCEPT !.decision = "none"] \in Approval
    BY <2>3 DEF Approval
  <2> DEFINE d == [b EXCEPT !.decision = "none"]
  <2> HIDE DEF d
  <2>5. [s EXCEPT !.approval = IF a = NoApproval THEN @ ELSE d] \in Checkpoint
    BY <2>2, <2>4 DEF Checkpoint, d
  <2> QED BY <2>5 DEF Pause, n, b, s, d
<1>3. questions' \in Seq(Question)
  BY DEF Pause, TypeOK, Question
<1>4. worker' \in [Worker -> WorkerState]
  BY LeaveType DEF Pause
<1> QED BY <1>1, <1>2, <1>3, <1>4

\* What closing an approval writes.
LEMMA ApprovalClosedType ==
  ASSUME TypeOK, NEW w \in Worker, worker[w].op \in Call, ApprovalClosed(w)
  PROVE  /\ run' \in RunRow
         /\ checkpoint' \in Checkpoint
         /\ worker' \in [Worker -> WorkerState]
         /\ lastCommit' \in LastCommit
<1> DEFINE m == Append(worker[w].messages, ToolMessage(worker[w].op))
           s == Safe(m)
           c == [s EXCEPT !.approval = NoApproval]
<1>1. m \in Seq(Message)
  <2>1. worker[w].messages \in Seq(Message)
    BY DEF TypeOK, WorkerState
  <2>2. ToolMessage(worker[w].op) \in Message
    BY DEF ToolMessage, Message
  <2> QED BY <2>1, <2>2
<1>2. s \in Checkpoint
  BY <1>1, SafeType
<1> HIDE DEF s
<1>3. c \in Checkpoint
  BY <1>2 DEF Checkpoint, Approval, NoApproval
<1> HIDE DEF c
<1>4. [op |-> worker[w].op, phase |-> "completed"] \in Marker
  BY DEF Marker
<1> DEFINE k == [op |-> worker[w].op, phase |-> "completed"]
<1> HIDE DEF k
<1>5. [c EXCEPT !.marker = k] \in Checkpoint
  BY <1>3, <1>4 DEF Checkpoint, k
<1>6. checkpoint' \in Checkpoint
  BY <1>3, <1>5 DEF ApprovalClosed, c, s, k
<1>7. worker' \in [Worker -> WorkerState]
  BY <1>1, NextRoundType DEF ApprovalClosed
<1>8. run' \in RunRow /\ lastCommit' \in LastCommit
  BY CommitType DEF ApprovalClosed, TypeOK
<1> QED BY <1>6, <1>7, <1>8

\* The history with the pending steers is the old one with a user message for each of them.
LEMMA WithSteersShape ==
  ASSUME TypeOK, NEW m \in Seq(Message)
  PROVE  /\ WithSteers(m) \in Seq(Message)
         /\ Len(WithSteers(m)) = Len(m) + steers.pending
         /\ \A i \in 1..Len(m) : WithSteers(m)[i] = m[i]
         /\ \A i \in 1..steers.pending :
              WithSteers(m)[Len(m) + i] = UserMessage(steers.made - steers.pending + i)
<1> DEFINE u == [i \in 1..steers.pending |-> UserMessage(steers.made - steers.pending + i)]
<1>1. steers.pending \in Nat /\ steers.made \in Nat /\ steers.pending <= steers.made
  BY DEF TypeOK
<1>2. \A i \in 1..steers.pending : UserMessage(steers.made - steers.pending + i) \in Message
  BY <1>1 DEF UserMessage, Message
<1>3. u \in Seq(Message) /\ Len(u) = steers.pending
  BY <1>1, <1>2
<1>4. \A i \in 1..steers.pending : u[i] = UserMessage(steers.made - steers.pending + i)
  OBVIOUS
<1>5. WithSteers(m) = m \o u
  BY DEF WithSteers
<1> HIDE DEF u
<1>6. ASSUME NEW x \in Seq(Message), NEW y \in Seq(Message)
      PROVE  /\ x \o y \in Seq(Message) /\ Len(x \o y) = Len(x) + Len(y)
             /\ \A i \in 1..Len(x) : (x \o y)[i] = x[i]
             /\ \A i \in 1..Len(y) : (x \o y)[Len(x) + i] = y[i]
  OBVIOUS
<1> QED BY <1>3, <1>4, <1>5, <1>6

\* What consuming steers writes.
LEMMA ConsumeSteersType ==
  ASSUME TypeOK, NEW w \in Worker, ConsumeSteers(w)
  PROVE  /\ run' \in RunRow
         /\ checkpoint' \in Checkpoint
         /\ SteersType'
         /\ lastCommit' \in LastCommit
<1>1. worker[w].messages \in Seq(Message)
  BY DEF TypeOK, WorkerState
<1>2. checkpoint' \in Checkpoint
  BY <1>1, SafeType, WithSteersShape DEF ConsumeSteers
<1>3. run' \in RunRow /\ lastCommit' \in LastCommit
  BY CommitType DEF ConsumeSteers, TypeOK
<1>4. steers' = [steers EXCEPT !.pending = 0]
  BY DEF ConsumeSteers
<1>5. steers' \in [pending: Nat, made: Nat, told: Nat]
      /\ steers'.pending = 0 /\ steers'.made \in Nat
  BY <1>4 DEF TypeOK
<1> QED BY <1>2, <1>3, <1>5 DEF SteersType

-----------------------------------------------------------------------------
(* Type correctness. *)

\* TypeOK is inductive only together with the fact that whoever acts on a tool
\* call knows which call it is.
ToolPhase == {"batch", "batch_done", "approval", "invoke", "invoked"}
ApprovalPhase == {"approval", "invoke", "invoked"}
WorkersKnowCall ==
  \A w \in Worker :
    /\ worker[w].phase \in ToolPhase => worker[w].op \in Call
    /\ worker[w].phase \in ApprovalPhase => worker[w].approval.op \in Call

CallsKnown ==
  /\ WorkersKnowCall
  /\ checkpoint.approval # NoApproval => checkpoint.approval.op \in Call
  /\ run.status = "waiting_for_subagents" => checkpoint.wait \in Call

TypeInv == TypeOK /\ CallsKnown

\* A worker that moves on still works on a call the model has made.
LEMMA GotoKnown ==
  ASSUME TypeOK, WorkersKnowCall, NEW w \in Worker, NEW p \in Phase, Goto(w, p),
         p \in ToolPhase => worker[w].op \in Call,
         p \in ApprovalPhase => worker[w].approval.op \in Call
  PROVE  WorkersKnowCall'
<1> SUFFICES ASSUME NEW v \in Worker
             PROVE  /\ worker'[v].phase \in ToolPhase => worker'[v].op \in Call
                    /\ worker'[v].phase \in ApprovalPhase => worker'[v].approval.op \in Call
  BY DEF WorkersKnowCall
<1>1. CASE v = w
  <2>1. worker'[w] = [worker[w] EXCEPT !.phase = p]
    BY DEF Goto, TypeOK
  <2>2. worker'[w].phase = p /\ worker'[w].op = worker[w].op
        /\ worker'[w].approval = worker[w].approval
    BY <2>1 DEF TypeOK, WorkerState
  <2> QED BY <1>1, <2>2
<1>2. CASE v # w
  BY <1>2 DEF Goto, TypeOK, WorkersKnowCall
<1> QED BY <1>1, <1>2

\* A new run satisfies the inductive type invariant.
LEMMA TypeInit == ASSUME ConstantsAssumption, Init PROVE TypeInv
<1>1. run \in RunRow
  BY DEF Init, RunRow, ActiveStatuses
<1>2. checkpoint \in Checkpoint
  <2>1. <<>> \in Seq(Message)
    OBVIOUS
  <2> QED BY <2>1 DEF Init, Checkpoint, NoMarker, NoApproval, Marker, Approval
<1>3. worker \in [Worker -> WorkerState]
  BY IdleType DEF Init
<1>4. questions \in Seq(Question) /\ calls \in Seq(CallKind)
  BY DEF Init
<1>5. effects \in [Call -> Nat] /\ SteersType
       /\ lastCommit \in LastCommit
  BY DEF Init, SteersType, LastCommit
<1>6. CallsKnown
  BY DEF Init, CallsKnown, WorkersKnowCall, ToolPhase, ApprovalPhase, Idle
<1> QED BY <1>1, <1>2, <1>3, <1>4, <1>5, <1>6 DEF TypeInv, TypeOK, SteersType

\* Steps of a worker that only take, keep or lose the run, or move to the next
\* phase of the round loop.
LEMMA TypeLease ==
  ASSUME ConstantsAssumption, TypeInv, NEW w \in Worker,
         \/ Claim(w) \/ ClaimOversized(w) \/ RenewLease(w) \/ LoseLease(w)
         \/ Crash(w) \/ LoadState(w) \/ FailRun(w)
  PROVE  TypeInv'
<1> USE DEF TypeInv
<1>1. CASE Claim(w)
  <2>1. worker' \in [Worker -> WorkerState]
    <3>1. run.fence + 1 \in Nat
      BY DEF TypeOK, RunRow
    <3>2. [Idle EXCEPT !.phase = "claimed", !.fence = run.fence + 1] \in WorkerState
      BY <3>1, IdleType DEF WorkerState, Phase, Idle
    <3> QED BY <1>1, <3>2 DEF Claim, TypeOK
  <2>2. run' \in RunRow /\ lastCommit' \in LastCommit
    BY <1>1, ClaimRowType, CommitType DEF Claim, TypeOK
  <2>3. TypeOK'
    BY <1>1, <2>1, <2>2 DEF Claim, TypeOK, history
  <2>4. run'.status # "waiting_for_subagents"
    BY <1>1 DEF Claim, Commit, TypeOK, RunRow
  <2>5. CallsKnown'
    BY <1>1, <2>4 DEF Claim, CallsKnown, WorkersKnowCall, ToolPhase, ApprovalPhase, TypeOK,
                      WorkerState, Idle
  <2> QED BY <2>3, <2>5
<1>2. CASE ClaimOversized(w)
  <2> DEFINE f == run.fence + 1
             r == [run EXCEPT !.fence = f]
  <2>1. f \in Nat
    BY DEF TypeOK, RunRow
  <2> HIDE DEF f
  <2>2. r \in RunRow
    BY <2>1 DEF TypeOK, RunRow
  <2>3. Commit(w, Released(r, "failed"))
    BY <1>2 DEF ClaimOversized, f
  <2> HIDE DEF r
  <2>4. run' \in RunRow /\ lastCommit' \in LastCommit
    BY <2>2, <2>3, ReleasedType, CommitType DEF TerminalStatuses
  <2>5. checkpoint' \in Checkpoint
    BY <1>2, SettledType DEF ClaimOversized, TypeOK
  <2>6. TypeOK'
    BY <1>2, <2>4, <2>5 DEF ClaimOversized, TypeOK, history
  <2>7. run'.status = "failed"
    BY <2>2, <2>3 DEF Commit, Released, RunRow
  <2>8. checkpoint'.approval = checkpoint.approval
    BY <1>2 DEF ClaimOversized, Settled, TypeOK, Checkpoint
  <2>9. CallsKnown'
    BY <1>2, <2>7, <2>8 DEF ClaimOversized, CallsKnown, WorkersKnowCall, ToolPhase, ApprovalPhase
  <2> QED BY <2>6, <2>9
<1>3. CASE RenewLease(w)
  <2>1. run' \in RunRow /\ run'.status = run.status
    <3>1. LeaseTicks \in Int
      BY DEF ConstantsAssumption
    <3>2. run' = [run EXCEPT !.ttl = LeaseTicks]
      BY <1>3 DEF RenewLease
    <3> QED BY <3>1, <3>2 DEF TypeOK, RunRow
  <2>2. TypeOK'
    BY <1>3, <2>1 DEF RenewLease, TypeOK, history
  <2>3. CallsKnown'
    BY <1>3, <2>1 DEF RenewLease, CallsKnown, WorkersKnowCall, ToolPhase, ApprovalPhase
  <2> QED BY <2>2, <2>3
<1>4. CASE LoseLease(w) \/ Crash(w)
  <2>1. Leave(w) /\ UNCHANGED <<run, checkpoint, questions, steers, history, lastCommit>>
    BY <1>4 DEF LoseLease, Crash
  <2>2. TypeOK'
    BY <2>1, LeaveType DEF TypeOK, history
  <2>3. CallsKnown'
    BY <2>1 DEF Leave, CallsKnown, WorkersKnowCall, ToolPhase, ApprovalPhase, Idle, TypeOK
  <2> QED BY <2>2, <2>3
<1>5. CASE LoadState(w)
  <2> DEFINE p == IF checkpoint.approval = NoApproval THEN "head" ELSE "approval"
             x == worker[w]
             m == checkpoint.messages
             g == checkpoint.approval
             a == [x EXCEPT !.messages = m]
             b == [a EXCEPT !.approval = g]
             o == checkpoint.approval.op
             c == [b EXCEPT !.op = o]
             d == [c EXCEPT !.phase = p]
  <2>1. /\ x \in WorkerState
        /\ m \in Seq(Message)
        /\ g \in Approval
        /\ o \in Call \cup {0}
        /\ p \in Phase
    BY DEF TypeOK, Checkpoint, Approval, Phase
  <2>2. o \in Call \/ p = "head"
    BY DEF CallsKnown, WorkersKnowCall, ToolPhase, ApprovalPhase
  <2>10. g.op = o
    OBVIOUS
  <2> HIDE DEF o, p, x, m, g
  <2>3. a \in WorkerState
    BY <2>1 DEF WorkerState
  <2> HIDE DEF a
  <2>4. b \in WorkerState /\ b.approval = g
    BY <2>1, <2>3 DEF WorkerState
  <2> HIDE DEF b
  <2>5. c \in WorkerState /\ c.op = o /\ c.approval = g
    BY <2>1, <2>4 DEF WorkerState
  <2> HIDE DEF c
  <2>6. d \in WorkerState /\ d.op = o /\ d.phase = p /\ d.approval = g
    BY <2>1, <2>5 DEF WorkerState
  <2> HIDE DEF d
  <2>7. worker' = [worker EXCEPT ![w] = d]
    BY <1>5 DEF LoadState, TypeOK, a, b, c, d, o, p, x, m, g
  <2>8. TypeOK'
    <3>1. worker' \in [Worker -> WorkerState]
      BY <2>6, <2>7 DEF TypeOK
    <3> QED BY <1>5, <3>1 DEF LoadState, TypeOK, history
  <2>9. CallsKnown'
    <3>1. \A v \in Worker : worker'[v] = IF v = w THEN d ELSE worker[v]
      BY <2>7 DEF TypeOK
    <3>2. WorkersKnowCall /\ (d.phase \in ToolPhase => d.op \in Call)
      BY <2>2, <2>6 DEF CallsKnown, ToolPhase
    <3>3. d.phase \in ApprovalPhase => d.approval.op \in Call
      BY <2>2, <2>6, <2>10 DEF ApprovalPhase
    <3>4. WorkersKnowCall'
      BY <3>1, <3>2, <3>3 DEF WorkersKnowCall
    <3> QED BY <1>5, <3>4 DEF LoadState, CallsKnown
  <2> QED BY <2>8, <2>9
<1>6. CASE FailRun(w)
  <2>1. Commit(w, Released(run, "failed")) /\ Leave(w) /\ checkpoint' = Settled(checkpoint)
    BY <1>6 DEF FailRun
  <2>2. run' \in RunRow /\ lastCommit' \in LastCommit
    BY <2>1, ReleasedType, CommitType DEF TypeOK, TerminalStatuses
  <2>3. checkpoint' \in Checkpoint
    BY <2>1, SettledType DEF TypeOK
  <2>4. TypeOK'
    BY <1>6, <2>1, <2>2, <2>3, LeaveType DEF FailRun, TypeOK, history
  <2>5. run'.status = "failed"
    BY <2>1 DEF Commit, Released, RunRow, TypeOK
  <2>6. checkpoint'.approval = checkpoint.approval
    BY <2>1 DEF Settled, TypeOK, Checkpoint
  <2>7. CallsKnown'
    BY <2>1, <2>5, <2>6 DEF Leave, CallsKnown, WorkersKnowCall, ToolPhase, ApprovalPhase, Idle,
                            TypeOK
  <2> QED BY <2>4, <2>7
<1> QED BY <1>1, <1>2, <1>3, <1>4, <1>5, <1>6

\* A task that ends holds no call.
LEMMA LeaveKnown ==
  ASSUME TypeOK, WorkersKnowCall, NEW w \in Worker, Leave(w)
  PROVE  WorkersKnowCall'
BY DEF Leave, Idle, TypeOK, WorkersKnowCall, ToolPhase, ApprovalPhase

\* A worker at the head of a round holds no call.
LEMMA NextRoundKnown ==
  ASSUME TypeOK, WorkersKnowCall, NEW w \in Worker, NEW m \in Seq(Message), NextRound(w, m)
  PROVE  WorkersKnowCall'
<1> DEFINE x == [Idle EXCEPT !.phase = "head", !.messages = m, !.fence = worker[w].fence]
<1>1. x.phase = "head"
  BY DEF Idle
<1>2. worker' = [worker EXCEPT ![w] = x]
  BY DEF NextRound
<1> HIDE DEF x
<1> QED BY <1>1, <1>2 DEF TypeOK, WorkersKnowCall, ToolPhase, ApprovalPhase

\* Steps of the round loop.
LEMMA TypeRound ==
  ASSUME ConstantsAssumption, TypeInv, NEW w \in Worker,
         \/ BeginRound(w) \/ EndRound(w) \/ BeginSteeredRound(w) \/ CompleteSteered(w)
         \/ Compact(w) \/ Delta(w) \/ StepFails(w) \/ Complete(w)
  PROVE  TypeInv'
<1> USE DEF TypeInv
<1>1. CASE BeginRound(w) \/ EndRound(w)
  <2>1. /\ Goto(w, "round") \/ Goto(w, "decided")
        /\ UNCHANGED <<run, checkpoint, questions, steers, history, lastCommit>>
    BY <1>1 DEF BeginRound, EndRound
  <2>2. TypeOK'
    BY <2>1, GotoType DEF TypeOK, history, Phase
  <2>3. CallsKnown'
    BY <2>1, GotoKnown DEF CallsKnown, ToolPhase, ApprovalPhase, Phase
  <2> QED BY <2>2, <2>3
<1>2. CASE BeginSteeredRound(w) \/ CompleteSteered(w)
  <2> DEFINE m == WithSteers(worker[w].messages)
             a == [worker[w] EXCEPT !.messages = m]
             x == [a EXCEPT !.phase = "round"]
  <2>1. m \in Seq(Message)
    BY WithSteersShape DEF TypeOK, WorkerState
  <2>2. /\ ConsumeSteers(w) /\ checkpoint' = Safe(m) /\ LeaseMatches(w)
        /\ worker' = [worker EXCEPT ![w] = x] \/ NextRound(w, m)
    BY <1>2 DEF BeginSteeredRound, CompleteSteered, ConsumeSteers, TypeOK, WorkerState
  <2> HIDE DEF m
  <2>3. a \in WorkerState
    BY <2>1 DEF TypeOK, WorkerState
  <2> HIDE DEF a
  <2>4. x \in WorkerState /\ x.phase = "round"
    BY <2>3 DEF WorkerState, Phase
  <2> HIDE DEF x
  <2>5. worker' \in [Worker -> WorkerState]
    BY <2>1, <2>2, <2>4, NextRoundType DEF TypeOK
  <2>6. TypeOK'
    BY <2>2, <2>5, ConsumeSteersType DEF TypeOK, SteersType, history, ConsumeSteers
  <2>7. run'.status = "running"
    BY <2>2, CommitFields DEF LeaseMatches, ConsumeSteers, TypeOK
  <2>8. checkpoint'.approval = checkpoint.approval
    BY <2>1, <2>2, SafeFields
  <2>9. WorkersKnowCall'
    <3>1. CASE worker' = [worker EXCEPT ![w] = x]
      BY <2>4, <3>1 DEF CallsKnown, WorkersKnowCall, ToolPhase, ApprovalPhase, TypeOK
    <3>2. CASE NextRound(w, m)
      BY <2>1, <3>2, NextRoundKnown DEF CallsKnown
    <3> QED BY <2>2, <3>1, <3>2
  <2> QED BY <2>6, <2>7, <2>8, <2>9 DEF CallsKnown
<1>3. CASE Compact(w)
  <2> DEFINE m == worker[w].messages
  <2>1. m \in Seq(Message)
    BY DEF TypeOK, WorkerState
  <2> HIDE DEF m
  <2>2. PICK i \in 1..Len(m) - 1 :
          LET kept == SubSeq(m, 1, i - 1) \o SubSeq(m, i + 2, Len(m))
          IN  /\ checkpoint' = Safe(kept)
              /\ worker' = [worker EXCEPT ![w].messages = kept]
    BY <1>3 DEF Compact, m
  <2> DEFINE kept == SubSeq(m, 1, i - 1) \o SubSeq(m, i + 2, Len(m))
  <2>3. kept \in Seq(Message)
    <3>1. SubSeq(m, 1, i - 1) \in Seq(Message)
      BY <2>1, <2>2
    <3>2. SubSeq(m, i + 2, Len(m)) \in Seq(Message)
      BY <2>1, <2>2
    <3> QED BY <3>1, <3>2
  <2>4. checkpoint' = Safe(kept) /\ worker' = [worker EXCEPT ![w].messages = kept]
    BY <2>2
  <2> HIDE DEF kept
  <2>5. worker' \in [Worker -> WorkerState]
    <3> DEFINE x == [worker[w] EXCEPT !.messages = kept]
    <3>1. x \in WorkerState
      <4>1. worker[w] \in WorkerState
        BY DEF TypeOK
      <4> QED BY <2>3, <4>1 DEF WorkerState
    <3>2. worker' = [worker EXCEPT ![w] = x]
      BY <2>4
    <3> HIDE DEF x
    <3> QED BY <3>1, <3>2 DEF TypeOK
  <2>6. /\ UNCHANGED <<run, questions, steers, history>>
        /\ lastCommit' = [lastCommit EXCEPT !.by = w]
    BY <1>3 DEF Compact
  <2>7. TypeOK'
    <3>1. lastCommit' \in LastCommit
      BY <2>6 DEF TypeOK, LastCommit
    <3> QED BY <2>3, <2>4, <2>5, <2>6, <3>1, SafeType DEF TypeOK, history
  <2>8. CallsKnown'
    <3>1. WorkersKnowCall'
      <4> SUFFICES ASSUME NEW v \in Worker
                   PROVE  /\ worker'[v].phase \in ToolPhase => worker'[v].op \in Call
                          /\ worker'[v].phase \in ApprovalPhase
                               => worker'[v].approval.op \in Call
        BY DEF WorkersKnowCall
      <4>1. CASE v = w
        <5>1. worker'[w].phase = worker[w].phase /\ worker'[w].op = worker[w].op
              /\ worker'[w].approval = worker[w].approval
          BY <2>4 DEF TypeOK, WorkerState
        <5> QED BY <4>1, <5>1 DEF CallsKnown, WorkersKnowCall
      <4>2. CASE v # w
        BY <2>4, <4>2 DEF TypeOK, CallsKnown, WorkersKnowCall
      <4> QED BY <4>1, <4>2
    <3> QED BY <2>3, <2>4, <2>6, <3>1, SafeFields DEF CallsKnown
  <2> QED BY <2>7, <2>8
<1>4. CASE Delta(w)
  <2> DEFINE d == run.draft + 1
             r == [run EXCEPT !.draft = d]
  <2>1. d \in Nat
    BY DEF TypeOK, RunRow
  <2> HIDE DEF d
  <2>2. r \in RunRow /\ r.status = run.status
    BY <2>1 DEF TypeOK, RunRow
  <2>3. Commit(w, r) /\ UNCHANGED <<checkpoint, questions, steers, worker, history>>
    BY <1>4 DEF Delta, d
  <2> HIDE DEF r
  <2>4. TypeOK'
    BY <2>2, <2>3, CommitType DEF TypeOK, history
  <2>5. CallsKnown'
    BY <2>2, <2>3, CommitFields DEF CallsKnown, WorkersKnowCall, ToolPhase, ApprovalPhase
  <2> QED BY <2>4, <2>5
<1>5. CASE StepFails(w)
  <2> DEFINE x == [Idle EXCEPT !.phase = "failing", !.fence = worker[w].fence]
  <2>1. x \in WorkerState /\ x.phase = "failing"
    <3>1. worker[w].fence \in Nat
      BY DEF TypeOK, WorkerState
    <3> QED BY <3>1, IdleType DEF WorkerState, Phase, Idle
  <2>2. worker' = [worker EXCEPT ![w] = x]
    BY <1>5 DEF StepFails
  <2> HIDE DEF x
  <2>3. worker' \in [Worker -> WorkerState]
    BY <2>1, <2>2 DEF TypeOK
  <2>4. TypeOK'
    BY <1>5, <2>3 DEF StepFails, TypeOK, history
  <2>5. CallsKnown'
    BY <1>5, <2>1, <2>2 DEF StepFails, CallsKnown, WorkersKnowCall, ToolPhase, ApprovalPhase, TypeOK
  <2> QED BY <2>4, <2>5
<1>6. CASE Complete(w)
  <2> DEFINE m == worker[w].messages
             s == Safe(m)
  <2>1. m \in Seq(Message)
    BY DEF TypeOK, WorkerState
  <2>2. s \in Checkpoint /\ s.approval = checkpoint.approval
    BY <2>1, SafeType, SafeFields
  <2> HIDE DEF s
  <2>3. checkpoint' = [s EXCEPT !.wait = 0]
    BY <1>6 DEF Complete, s
  <2>4. checkpoint' \in Checkpoint /\ checkpoint'.approval = checkpoint.approval
    BY <2>2, <2>3 DEF Checkpoint
  <2>5. /\ Commit(w, Released(run, "completed")) /\ Leave(w)
        /\ UNCHANGED <<questions, steers, history>>
    BY <1>6 DEF Complete
  <2>6. Released(run, "completed") \in RunRow
    BY ReleasedType DEF TypeOK, TerminalStatuses
  <2>7. TypeOK'
    BY <2>4, <2>5, <2>6, CommitType, LeaveType DEF TypeOK, history
  <2>8. run'.status = "completed"
    BY <2>5, <2>6, CommitFields, ReleasedFields DEF TypeOK
  <2>9. CallsKnown'
    BY <2>4, <2>5, <2>8 DEF Leave, CallsKnown, WorkersKnowCall, ToolPhase, ApprovalPhase, Idle,
                            TypeOK
  <2> QED BY <2>7, <2>9
<1> QED BY <1>1, <1>2, <1>3, <1>4, <1>5, <1>6

\* A pause leaves the run waiting and keeps naming the call it was asked about.
LEMMA PauseKnown ==
  ASSUME TypeInv, NEW w \in Worker, NEW op \in Call, NEW m \in Seq(Message),
         NEW a \in Approval, a = NoApproval \/ a.op \in Call, Pause(w, op, m, a)
  PROVE  CallsKnown'
<1> USE DEF TypeInv
<1>1. WorkersKnowCall'
  BY LeaveKnown DEF Pause, CallsKnown
<1>2. run'.status = "waiting_for_user"
  <2>1. run \in RunRow /\ "waiting_for_user" \in ActiveStatuses
    BY DEF TypeOK, ActiveStatuses
  <2>2. Released(run, "waiting_for_user") \in RunRow
    BY <2>1, ReleasedType
  <2>3. Released(run, "waiting_for_user").status = "waiting_for_user"
    BY <2>1, ReleasedFields
  <2>4. Commit(w, Released(run, "waiting_for_user"))
    BY DEF Pause
  <2> QED BY <2>2, <2>3, <2>4, CommitFields
<1>3. checkpoint'.approval # NoApproval => checkpoint'.approval.op \in Call
  <2> DEFINE s == Safe(m)
             n == Len(questions) + 1
             b == [a EXCEPT !.question = n]
             d == [b EXCEPT !.decision = "none"]
             g == IF a = NoApproval THEN s.approval ELSE d
  <2>1. s \in Checkpoint /\ s.approval = checkpoint.approval
    BY SafeType, SafeFields
  <2>2. d.op = a.op
    <3> HIDE DEF n
    <3>1. b.op = a.op
      BY DEF Approval
    <3> QED BY <3>1 DEF Approval
  <2>3. checkpoint' = [s EXCEPT !.approval = g]
    BY DEF Pause
  <2> HIDE DEF s, n, b, d
  <2>4. checkpoint'.approval = g
    <3> HIDE DEF g
    <3> QED BY <2>1, <2>3 DEF Checkpoint
  <2> QED BY <2>1, <2>2, <2>4 DEF CallsKnown
<1> QED BY <1>1, <1>2, <1>3 DEF CallsKnown

\* The messages a worker commits with a call, or with a call and its result.
LEMMA CallMessages ==
  ASSUME TypeOK, NEW w \in Worker, NEW op \in Call
  PROVE  /\ Append(worker[w].messages, CallMessage(op)) \in Seq(Message)
         /\ Append(worker[w].messages, ToolMessage(op)) \in Seq(Message)
         /\ worker[w].messages \o <<CallMessage(op), ToolMessage(op)>> \in Seq(Message)
<1>1. worker[w].messages \in Seq(Message)
  BY DEF TypeOK, WorkerState
<1>2. CallMessage(op) \in Message /\ ToolMessage(op) \in Message
  BY DEF CallMessage, ToolMessage, Message
<1>3. <<CallMessage(op), ToolMessage(op)>> \in Seq(Message)
  BY <1>2
<1> QED BY <1>1, <1>2, <1>3

\* Steps in which the model names a tool, and the ordinary batch.
LEMMA TypeTools ==
  ASSUME ConstantsAssumption, TypeInv, NEW w \in Worker,
         \/ DirectResult(w) \/ StartBatch(w) \/ RunBatch(w) \/ CompleteBatch(w)
         \/ AskUser(w) \/ (\E b \in BOOLEAN : RequestApproval(w, b)) \/ WaitForSubagents(w)
  PROVE  TypeInv'
<1> USE DEF TypeInv
<1>1. CASE DirectResult(w)
  <2> DEFINE m == worker[w].messages \o <<CallMessage(NextCall), ToolMessage(NextCall)>>
  <2>1. NextCall \in Call /\ calls' \in Seq(CallKind)
    BY <1>1, NewCallType DEF DirectResult, CallKind
  <2>2. m \in Seq(Message)
    BY <2>1, CallMessages
  <2>3. /\ checkpoint' = Safe(m) /\ NextRound(w, m) /\ Commit(w, run)
        /\ UNCHANGED <<questions, steers, effects>>
    BY <1>1 DEF DirectResult
  <2> HIDE DEF m
  <2>4. TypeOK'
    BY <2>1, <2>2, <2>3, SafeType, NextRoundType, CommitType DEF TypeOK
  <2>5. CallsKnown'
    BY <2>2, <2>3, NextRoundKnown, SafeFields, CommitFields DEF CallsKnown, TypeOK
  <2> QED BY <2>4, <2>5
<1>2. CASE StartBatch(w)
  <2> DEFINE n == NextCall
             k == [op |-> n, phase |-> "executing"]
             a == [worker[w] EXCEPT !.op = n]
             b == [a EXCEPT !.phase = "batch"]
  <2>1. n \in Call /\ calls' \in Seq(CallKind)
    BY <1>2, NewCallType DEF StartBatch, CallKind
  <2>2. /\ checkpoint' = [checkpoint EXCEPT !.marker = k]
        /\ Commit(w, run) /\ UNCHANGED <<questions, steers, effects>>
        /\ worker' = [worker EXCEPT ![w] = b]
    BY <1>2 DEF StartBatch, MarkExecuting, TypeOK
  <2> HIDE DEF n
  <2>3. k \in Marker
    BY <2>1 DEF Marker
  <2> HIDE DEF k
  <2>4. a \in WorkerState /\ a.op = n
    <3>1. worker[w] \in WorkerState
      BY DEF TypeOK
    <3> QED BY <2>1, <3>1 DEF WorkerState
  <2> HIDE DEF a
  <2>5. b \in WorkerState /\ b.op = n /\ b.phase = "batch"
    BY <2>4 DEF WorkerState, Phase
  <2> HIDE DEF b
  <2>6. checkpoint' \in Checkpoint /\ checkpoint'.approval = checkpoint.approval
        /\ checkpoint'.wait = checkpoint.wait
    BY <2>2, <2>3 DEF TypeOK, Checkpoint
  <2>7. worker' \in [Worker -> WorkerState]
    BY <2>2, <2>5 DEF TypeOK
  <2>8. TypeOK'
    BY <2>1, <2>2, <2>6, <2>7, CommitType DEF TypeOK
  <2>9. WorkersKnowCall'
    BY <2>1, <2>2, <2>5 DEF CallsKnown, WorkersKnowCall, TypeOK, ApprovalPhase
  <2>10. CallsKnown'
    BY <2>2, <2>6, <2>9, CommitFields DEF CallsKnown, TypeOK
  <2> QED BY <2>8, <2>10
<1>3. CASE RunBatch(w)
  <2>1. worker[w].op \in Call
    BY <1>3 DEF RunBatch, CallsKnown, WorkersKnowCall, ToolPhase, ApprovalPhase
  <2>2. effects' \in [Call -> Nat]
    BY <1>3, <2>1 DEF RunBatch, TypeOK
  <2>3. TypeOK'
    BY <1>3, <2>2, GotoType DEF RunBatch, TypeOK, Phase
  <2>4. CallsKnown'
    BY <1>3, <2>1, GotoKnown DEF RunBatch, CallsKnown, Phase, ApprovalPhase
  <2> QED BY <2>3, <2>4
<1>4. CASE CompleteBatch(w)
  <2> DEFINE op == worker[w].op
             m == worker[w].messages \o <<CallMessage(op), ToolMessage(op)>>
             s == Safe(m)
             k == [op |-> op, phase |-> "completed"]
  <2>1. op \in Call
    BY <1>4 DEF CompleteBatch, CallsKnown, WorkersKnowCall, ToolPhase, ApprovalPhase
  <2>2. /\ checkpoint' = [s EXCEPT !.marker = k]
        /\ Commit(w, run) /\ NextRound(w, m) /\ UNCHANGED <<questions, steers, history>>
    BY <1>4 DEF CompleteBatch, MarkCompleted
  <2> HIDE DEF op
  <2>3. k \in Marker /\ m \in Seq(Message)
    BY <2>1, CallMessages DEF Marker
  <2>4. s \in Checkpoint /\ s.approval = checkpoint.approval /\ s.wait = checkpoint.wait
    BY <2>3, SafeType, SafeFields
  <2> HIDE DEF k, m, s
  <2>5. checkpoint' \in Checkpoint /\ checkpoint'.approval = checkpoint.approval
        /\ checkpoint'.wait = checkpoint.wait
    BY <2>2, <2>3, <2>4 DEF Checkpoint
  <2>6. TypeOK'
    BY <2>2, <2>3, <2>5, NextRoundType, CommitType DEF TypeOK, history
  <2>7. CallsKnown'
    BY <2>2, <2>3, <2>5, NextRoundKnown, CommitFields DEF CallsKnown, TypeOK
  <2> QED BY <2>6, <2>7
<1>5. CASE AskUser(w)
  <2>1. NextCall \in Call /\ calls' \in Seq(CallKind)
    BY <1>5, NewCallType DEF AskUser, CallKind
  <2> DEFINE m == Append(worker[w].messages, CallMessage(NextCall))
  <2>2. m \in Seq(Message) /\ NoApproval \in Approval
    BY <2>1, CallMessages DEF NoApproval, Approval
  <2>3. Pause(w, NextCall, m, NoApproval) /\ UNCHANGED <<steers, effects>>
    BY <1>5 DEF AskUser
  <2> HIDE DEF m
  <2>4. TypeOK'
    BY <2>1, <2>2, <2>3, PauseType DEF TypeOK
  <2>5. CallsKnown'
    BY <2>1, <2>2, <2>3, PauseKnown
  <2> QED BY <2>4, <2>5
<1>6. CASE \E b \in BOOLEAN : RequestApproval(w, b)
  <2>1. PICK b \in BOOLEAN : RequestApproval(w, b)
    BY <1>6
  <2>2. NextCall \in Call /\ calls' \in Seq(CallKind)
    BY <2>1, NewCallType DEF RequestApproval, CallKind
  <2> DEFINE m == Append(worker[w].messages, CallMessage(NextCall))
             n == NextCall
             a == [NoApproval EXCEPT !.op = n, !.replaySafe = b]
  <2>3. Pause(w, NextCall, m, a) /\ UNCHANGED <<steers, effects>>
    BY <2>1 DEF RequestApproval
  <2>4. m \in Seq(Message)
    BY <2>2, CallMessages
  <2>5. a \in Approval /\ a.op \in Call
    <3> HIDE DEF n
    <3>1. n \in Call
      BY <2>2 DEF n
    <3> QED BY <3>1 DEF NoApproval, Approval
  <2> HIDE DEF m, a
  <2>6. TypeOK'
    BY <2>2, <2>3, <2>4, <2>5, PauseType DEF TypeOK
  <2>7. CallsKnown'
    BY <2>2, <2>3, <2>4, <2>5, PauseKnown
  <2> QED BY <2>6, <2>7
<1>7. CASE WaitForSubagents(w)
  <2> DEFINE n == NextCall
             m == Append(worker[w].messages, CallMessage(n))
             s == Safe(m)
  <2>1. n \in Call /\ calls' \in Seq(CallKind)
    BY <1>7, NewCallType DEF WaitForSubagents, CallKind
  <2>2. /\ checkpoint' = [s EXCEPT !.wait = n]
        /\ Commit(w, Released(run, "waiting_for_subagents")) /\ Leave(w)
        /\ UNCHANGED <<questions, steers, effects>>
    BY <1>7 DEF WaitForSubagents
  <2> HIDE DEF n
  <2>3. m \in Seq(Message)
    BY <2>1, CallMessages
  <2>4. s \in Checkpoint /\ s.approval = checkpoint.approval
    BY <2>3, SafeType, SafeFields
  <2> HIDE DEF m, s
  <2>5. checkpoint' \in Checkpoint /\ checkpoint'.approval = checkpoint.approval
        /\ checkpoint'.wait = n
    BY <2>1, <2>2, <2>4 DEF Checkpoint
  <2>6. Released(run, "waiting_for_subagents") \in RunRow
    BY ReleasedType DEF TypeOK, ActiveStatuses
  <2>7. TypeOK'
    BY <2>1, <2>2, <2>5, <2>6, CommitType, LeaveType DEF TypeOK
  <2>8. CallsKnown'
    BY <2>1, <2>2, <2>5, LeaveKnown DEF CallsKnown
  <2> QED BY <2>7, <2>8
<1> QED BY <1>1, <1>2, <1>3, <1>4, <1>5, <1>6, <1>7

\* Closing an approval leaves no approval behind.
LEMMA ApprovalClosedKnown ==
  ASSUME TypeInv, NEW w \in Worker, worker[w].op \in Call, ApprovalClosed(w)
  PROVE  CallsKnown'
<1> DEFINE m == Append(worker[w].messages, ToolMessage(worker[w].op))
           s == Safe(m)
           k == [op |-> worker[w].op, phase |-> "completed"]
<1> USE DEF TypeInv
<1>1. m \in Seq(Message)
  BY CallMessages
<1>2. s \in Checkpoint /\ s.wait = checkpoint.wait
  BY <1>1, SafeType, SafeFields
<1>3. \/ checkpoint' = [s EXCEPT !.approval = NoApproval, !.marker = k]
      \/ checkpoint' = [s EXCEPT !.approval = NoApproval]
  BY DEF ApprovalClosed
<1>4. NextRound(w, m) /\ Commit(w, run)
  BY DEF ApprovalClosed
<1> HIDE DEF m, s, k
<1>5. checkpoint'.approval = NoApproval /\ checkpoint'.wait = checkpoint.wait
  BY <1>2, <1>3 DEF Checkpoint
<1> QED BY <1>1, <1>4, <1>5, NextRoundKnown, CommitFields DEF CallsKnown, TypeOK

\* Steps that resume an approval.
LEMMA TypeApproval ==
  ASSUME ConstantsAssumption, TypeInv, NEW w \in Worker,
         \/ RejectApproval(w) \/ SettleApproved(w) \/ BeginApproved(w)
         \/ InvokeApproved(w) \/ RetryApproved(w) \/ AskApprovalAgain(w)
  PROVE  TypeInv'
<1> USE DEF TypeInv
<1> DEFINE op == worker[w].op
<1>1. CASE RejectApproval(w) \/ SettleApproved(w)
  <2>1. op \in Call
    BY <1>1 DEF RejectApproval, SettleApproved, CallsKnown, WorkersKnowCall, ToolPhase,
                ApprovalPhase
  <2>2. ApprovalClosed(w) /\ UNCHANGED <<questions, steers, history>>
    BY <1>1 DEF RejectApproval, SettleApproved
  <2>3. TypeOK'
    BY <2>1, <2>2, ApprovalClosedType DEF TypeOK, history
  <2>4. CallsKnown'
    BY <2>1, <2>2, ApprovalClosedKnown
  <2> QED BY <2>3, <2>4
<1>2. CASE BeginApproved(w)
  <2> DEFINE k == [op |-> op, phase |-> "executing"]
             a == [worker[w] EXCEPT !.tries = 0]
             b == [a EXCEPT !.phase = "invoke"]
  <2>1. op \in Call /\ worker[w].approval.op \in Call
    BY <1>2 DEF BeginApproved, CallsKnown, WorkersKnowCall, ToolPhase, ApprovalPhase
  <2>2. /\ checkpoint' = checkpoint \/ checkpoint' = [checkpoint EXCEPT !.marker = k]
        /\ Commit(w, run) /\ UNCHANGED <<questions, steers, history>>
        /\ worker' = [worker EXCEPT ![w] = b]
    BY <1>2 DEF BeginApproved, MarkExecuting, TypeOK
  <2>3. k \in Marker
    BY <2>1 DEF Marker
  <2>4. a \in WorkerState /\ a.op = op /\ a.approval = worker[w].approval
    BY DEF TypeOK, WorkerState
  <2> HIDE DEF k, a, op
  <2>5. b \in WorkerState /\ b.op = op /\ b.approval = worker[w].approval
    BY <2>4 DEF WorkerState, Phase
  <2> HIDE DEF b
  <2>6. checkpoint' \in Checkpoint /\ checkpoint'.approval = checkpoint.approval
        /\ checkpoint'.wait = checkpoint.wait
    BY <2>2, <2>3 DEF TypeOK, Checkpoint
  <2>7. worker' \in [Worker -> WorkerState]
    BY <2>2, <2>5 DEF TypeOK
  <2>8. TypeOK'
    BY <2>2, <2>6, <2>7, CommitType DEF TypeOK, history
  <2>9. WorkersKnowCall'
    BY <2>1, <2>2, <2>5 DEF CallsKnown, WorkersKnowCall, TypeOK
  <2>10. CallsKnown'
    BY <2>2, <2>6, <2>9, CommitFields DEF CallsKnown, TypeOK
  <2> QED BY <2>8, <2>10
<1>3. CASE InvokeApproved(w)
  <2> DEFINE t == worker[w].tries + 1
             a == [worker[w] EXCEPT !.tries = t]
             b == [a EXCEPT !.phase = "invoked"]
  <2>1. op \in Call /\ worker[w].approval.op \in Call
    BY <1>3 DEF InvokeApproved, CallsKnown, WorkersKnowCall, ToolPhase, ApprovalPhase
  <2>2. effects' \in [Call -> Nat]
    <3>1. effects \in [Call -> Nat]
      BY DEF TypeOK
    <3>2. worker[w].op \in Call /\ effects' = [effects EXCEPT ![worker[w].op] = @ + 1]
      BY <1>3, <2>1 DEF InvokeApproved
    <3> QED BY <3>1, <3>2
  <2>3. worker' = [worker EXCEPT ![w] = b]
    BY <1>3 DEF InvokeApproved, TypeOK
  <2>4. t \in Nat
    BY DEF TypeOK, WorkerState
  <2> HIDE DEF t
  <2>5. a \in WorkerState /\ a.op = op /\ a.approval = worker[w].approval
    BY <2>4 DEF TypeOK, WorkerState
  <2> HIDE DEF a
  <2>6. b \in WorkerState /\ b.op = op /\ b.approval = worker[w].approval
    BY <2>5 DEF WorkerState, Phase
  <2> HIDE DEF b
  <2>7. worker' \in [Worker -> WorkerState]
    BY <2>3, <2>6 DEF TypeOK
  <2>8. TypeOK'
    BY <1>3, <2>2, <2>7 DEF InvokeApproved, TypeOK
  <2>9. CallsKnown'
    BY <1>3, <2>1, <2>3, <2>6 DEF InvokeApproved, CallsKnown, WorkersKnowCall, TypeOK
  <2> QED BY <2>8, <2>9
<1>4. CASE RetryApproved(w)
  <2>1. op \in Call /\ worker[w].approval.op \in Call
    BY <1>4 DEF RetryApproved, CallsKnown, WorkersKnowCall, ToolPhase, ApprovalPhase
  <2>2. TypeOK'
    BY <1>4, GotoType DEF RetryApproved, TypeOK, Phase, history
  <2>3. CallsKnown'
    BY <1>4, <2>1, GotoKnown DEF RetryApproved, CallsKnown, Phase
  <2> QED BY <2>2, <2>3
<1>5. CASE AskApprovalAgain(w)
  <2> DEFINE m == worker[w].messages
             a == worker[w].approval
  <2>1. op \in Call
    BY <1>5 DEF AskApprovalAgain, CallsKnown, WorkersKnowCall, ToolPhase, ApprovalPhase
  <2>2. m \in Seq(Message) /\ a \in Approval
    BY DEF TypeOK, WorkerState
  <2>3. Pause(w, op, m, a) /\ UNCHANGED <<steers, history>>
    BY <1>5 DEF AskApprovalAgain
  <2>4. TypeOK'
    BY <2>1, <2>2, <2>3, PauseType DEF TypeOK, history
  <2>5. a = NoApproval \/ a.op \in Call
    BY <1>5 DEF AskApprovalAgain, CallsKnown, WorkersKnowCall, ToolPhase, ApprovalPhase
  <2>6. CallsKnown'
    BY <2>1, <2>2, <2>3, <2>5, PauseKnown
  <2> QED BY <2>4, <2>6
<1> QED BY <1>1, <1>2, <1>3, <1>4, <1>5

\* recover does not send a run into a wait for subagents.
LEMMA RecoveredStatus ==
  ASSUME TypeOK, Recovered.status = "waiting_for_subagents"
  PROVE  run.status = "waiting_for_subagents"
<1> DEFINE rolled == [run EXCEPT !.draft = checkpoint.safeDraft]
           expired == IF ~LeaseExpired THEN run
                      ELSE IF Executing THEN Released(run, "failed")
                      ELSE NewEpoch(Released(rolled, "pending"))
<1>1. rolled \in RunRow
  BY DEF TypeOK, RunRow, Checkpoint
<1>2. Released(rolled, "pending") \in RunRow
  BY <1>1, ReleasedType DEF ActiveStatuses
<1>3. NewEpoch(Released(rolled, "pending")).status = "pending"
  BY <1>1, <1>2, NewEpochFields, ReleasedFields
<1>4. Released(run, "failed").status = "failed"
  BY ReleasedFields DEF TypeOK
<1>5. expired \in RunRow
  BY <1>2, ReleasedType, NewEpochType DEF TypeOK, TerminalStatuses
<1>6. Released(expired, "waiting_for_user").status = "waiting_for_user"
  BY <1>5, ReleasedFields
<1>7. expired.status = "waiting_for_subagents" => run.status = "waiting_for_subagents"
  BY <1>3, <1>4
<1> HIDE DEF expired
<1> QED BY <1>6, <1>7 DEF Recovered, expired, rolled

\* A transition of the API or of a reconciler into a terminal status.
EndedRun(status) ==
  /\ Commit(NoWorker, Released(run, status))
  /\ checkpoint' = Settled(checkpoint)
  /\ UNCHANGED <<steers, worker, history>>

\* However a run ends, the inductive type invariant survives.
LEMMA EndedRunType ==
  ASSUME TypeInv, NEW status \in TerminalStatuses, EndedRun(status),
         questions' \in Seq(Question)
  PROVE  TypeInv'
<1> USE DEF TypeInv
<1>1. Released(run, status) \in RunRow
  BY ReleasedType DEF TypeOK
<1>2. run' \in RunRow /\ lastCommit' \in LastCommit /\ run'.status = status
  BY <1>1, CommitType, CommitFields, ReleasedFields DEF EndedRun, TypeOK
<1>3. checkpoint' \in Checkpoint /\ checkpoint'.approval = checkpoint.approval
  BY SettledType DEF EndedRun, TypeOK, Settled, Checkpoint
<1>4. TypeOK'
  BY <1>2, <1>3 DEF EndedRun, TypeOK, history
<1>5. CallsKnown'
  BY <1>2, <1>3 DEF EndedRun, CallsKnown, WorkersKnowCall, TerminalStatuses
<1> QED BY <1>4, <1>5

\* An answer, a cancellation, or a steer that ends the wait for either.
LEMMA RespondType ==
  ASSUME TypeInv, NEW q \in DOMAIN questions,
         NEW answer \in {"none", "option-1", "option-2", "text"}, Respond(q, answer)
  PROVE  TypeInv'
<1> USE DEF TypeInv
<1> DEFINE p == Released(run, "pending")
<1>1. questions' \in Seq(Question)
  <2> DEFINE st == IF answer = "none" THEN "cancelled" ELSE "answered"
             a == [questions[q] EXCEPT !.status = st]
             b == [a EXCEPT !.answer = answer]
  <2>1. questions[q] \in Question
    BY DEF TypeOK
  <2>2. a \in Question
    BY <2>1 DEF Question
  <2> HIDE DEF a
  <2>3. b \in Question
    BY <2>2 DEF Question
  <2> HIDE DEF b
  <2>4. questions' = [questions EXCEPT ![q] = b]
    BY DEF Respond, TypeOK, a, b, st
  <2> QED BY <2>3, <2>4 DEF TypeOK
<1>2. /\ checkpoint' \in Checkpoint
      /\ checkpoint'.approval # NoApproval => checkpoint'.approval.op \in Call
  <2>1. CASE questions[q].approval
    <3> DEFINE a == checkpoint.approval
               d == Decision(answer)
               b == [a EXCEPT !.decision = d]
    <3>1. a \in Approval /\ d \in {"none", "approved", "rejected"}
      BY DEF TypeOK, Checkpoint, Decision
    <3>2. checkpoint' = [checkpoint EXCEPT !.approval = b]
      BY <2>1 DEF Respond, TypeOK
    <3>3. a # NoApproval
      BY <2>1 DEF Respond, NoApproval, TypeOK
    <3> HIDE DEF a, d
    <3>4. b \in Approval /\ b.op = a.op
      BY <3>1 DEF Approval
    <3> HIDE DEF b
    <3>5. checkpoint' \in Checkpoint /\ checkpoint'.approval = b
      BY <3>2, <3>4 DEF TypeOK, Checkpoint
    <3> QED BY <3>3, <3>4, <3>5 DEF CallsKnown, a
  <2>2. CASE ~questions[q].approval
    <3> DEFINE m == Append(checkpoint.messages, ToolMessage(questions[q].op))
    <3>1. ToolMessage(questions[q].op) \in Message
      <4>1. questions[q] \in Question
        BY DEF TypeOK
      <4> QED BY <4>1 DEF Question, ToolMessage, Message
    <3>2. m \in Seq(Message)
      BY <3>1 DEF TypeOK, Checkpoint
    <3>3. checkpoint' = [checkpoint EXCEPT !.messages = m]
      BY <2>2 DEF Respond
    <3> HIDE DEF m
    <3>4. checkpoint' \in Checkpoint /\ checkpoint'.approval = checkpoint.approval
      BY <3>2, <3>3 DEF TypeOK, Checkpoint
    <3> QED BY <3>4 DEF CallsKnown
  <2> QED BY <2>1, <2>2
<1>3. p \in RunRow /\ p.status = "pending"
  BY ReleasedType, ReleasedFields DEF TypeOK, ActiveStatuses
<1>4. Commit(NoWorker, NewEpoch(p)) /\ UNCHANGED <<steers, worker, history>>
  BY DEF Respond
<1> HIDE DEF p
<1>5. run' \in RunRow /\ lastCommit' \in LastCommit /\ run'.status = "pending"
  BY <1>3, <1>4, NewEpochType, NewEpochFields, CommitType, CommitFields
<1>6. TypeOK'
  BY <1>1, <1>2, <1>4, <1>5 DEF TypeOK, history
<1>7. CallsKnown'
  BY <1>2, <1>4, <1>5 DEF CallsKnown, WorkersKnowCall
<1> QED BY <1>6, <1>7

\* Steps of the clock, the reconcilers and the API.
LEMMA TypeEnvironment ==
  ASSUME ConstantsAssumption, TypeInv,
         \/ Tick \/ Recover \/ RespondQuestion \/ ResumeSteeringQuestion
         \/ SubmitSteer \/ NotifySteer \/ CancelRun \/ ResumeWait \/ FailWait
  PROVE  TypeInv'
<1> USE DEF TypeInv
<1>1. CASE Tick
  <2> DEFINE t == run.ttl - 1
  <2>1. t \in Int
    BY DEF TypeOK, RunRow
  <2>2. run' = [run EXCEPT !.ttl = t]
    BY <1>1 DEF Tick
  <2> HIDE DEF t
  <2>3. run' \in RunRow /\ run'.status = run.status
    BY <2>1, <2>2 DEF TypeOK, RunRow
  <2>4. TypeOK'
    BY <1>1, <2>3 DEF Tick, TypeOK, history
  <2>5. CallsKnown'
    BY <1>1, <2>3 DEF Tick, CallsKnown, WorkersKnowCall
  <2> QED BY <2>4, <2>5
<1>2. CASE Recover
  <2>1. run' \in RunRow
    BY <1>2, RecoveredType DEF Recover
  <2>2. /\ checkpoint' \in Checkpoint
        /\ checkpoint'.approval = checkpoint.approval
        /\ run'.status # "failed" => checkpoint' = checkpoint
    BY <1>2, SettledType DEF Recover, TypeOK, Settled, Checkpoint
  <2>3. run'.status = "waiting_for_subagents" => run.status = "waiting_for_subagents"
    BY <1>2, RecoveredStatus DEF Recover
  <2>4. TypeOK'
    <3>1. lastCommit' \in LastCommit
      BY <1>2 DEF Recover, TypeOK, LastCommit
    <3> QED BY <1>2, <2>1, <2>2, <3>1 DEF Recover, TypeOK, history
  <2>5. CallsKnown'
    BY <1>2, <2>2, <2>3 DEF Recover, CallsKnown, WorkersKnowCall
  <2> QED BY <2>4, <2>5
<1>3. CASE RespondQuestion \/ ResumeSteeringQuestion
  <2>1. PICK q \in DOMAIN questions, answer \in {"none", "option-1", "option-2", "text"} :
          Respond(q, answer)
    BY <1>3 DEF RespondQuestion, ResumeSteeringQuestion
  <2> QED BY <2>1, RespondType
<1>4. CASE SubmitSteer \/ NotifySteer
  <2>1. \/ UNCHANGED <<run, lastCommit>>
        \/ Commit(NoWorker, run)
    BY <1>4 DEF SubmitSteer, NotifySteer
  <2>2. run' \in RunRow /\ lastCommit' \in LastCommit /\ run'.status = run.status
    BY <2>1, CommitType, CommitFields DEF TypeOK
  <2>3. SteersType'
    <3> DEFINE n == steers.pending + 1
               k == steers.made + 1
               t == steers.told + 1
    <3>1. n \in Nat /\ k \in Nat /\ t \in Nat /\ n <= k
      BY DEF TypeOK
    <3>2. \/ steers' = [steers EXCEPT !.pending = n, !.made = k]
          \/ steers' = [steers EXCEPT !.told = t]
      BY <1>4 DEF SubmitSteer, NotifySteer
    <3> HIDE DEF n, k, t
    <3> QED BY <3>1, <3>2 DEF TypeOK, SteersType
  <2>4. UNCHANGED <<checkpoint, questions, worker, history>>
    BY <1>4 DEF SubmitSteer, NotifySteer
  <2>5. TypeOK'
    BY <2>2, <2>3, <2>4 DEF TypeOK, SteersType, history
  <2>6. CallsKnown'
    BY <2>2, <2>4 DEF CallsKnown, WorkersKnowCall
  <2> QED BY <2>5, <2>6
<1>5. CASE CancelRun
  <2>1. questions' \in Seq(Question)
    <3>1. questions' = [q \in 1..Len(questions) |->
                          IF q \in Pending(questions)
                          THEN [questions[q] EXCEPT !.status = "cancelled"]
                          ELSE questions[q]]
      BY <1>5 DEF CancelRun, TypeOK
    <3>2. ASSUME NEW q \in 1..Len(questions) PROVE questions'[q] \in Question
      <4>1. questions[q] \in Question
        BY DEF TypeOK
      <4>2. [questions[q] EXCEPT !.status = "cancelled"] \in Question
        BY <4>1 DEF Question
      <4> QED BY <3>1, <4>1, <4>2
    <3> QED BY <3>1, <3>2 DEF TypeOK
  <2>2. EndedRun("cancelled")
    BY <1>5 DEF CancelRun, EndedRun
  <2> QED BY <1>5, <2>1, <2>2, EndedRunType DEF CancelRun, TerminalStatuses
<1>6. CASE ResumeWait
  <2> DEFINE m == Append(checkpoint.messages, ToolMessage(checkpoint.wait))
             s == Safe(m)
             p == Released(run, "pending")
  <2>1. m \in Seq(Message)
    <3>1. ToolMessage(checkpoint.wait) \in Message
      BY <1>6 DEF ResumeWait, CallsKnown, ToolMessage, Message
    <3> QED BY <3>1 DEF TypeOK, Checkpoint
  <2>2. s \in Checkpoint /\ s.approval = checkpoint.approval
    BY <2>1, SafeType, SafeFields
  <2>3. p \in RunRow /\ p.status = "pending"
    BY ReleasedType, ReleasedFields DEF TypeOK, ActiveStatuses
  <2>4. checkpoint' = [s EXCEPT !.wait = 0] /\ Commit(NoWorker, NewEpoch(p))
        /\ UNCHANGED <<questions, steers, worker, history>>
    BY <1>6 DEF ResumeWait
  <2> HIDE DEF m, s, p
  <2>5. checkpoint' \in Checkpoint /\ checkpoint'.approval = checkpoint.approval
    BY <2>2, <2>4 DEF Checkpoint
  <2>6. run' \in RunRow /\ lastCommit' \in LastCommit /\ run'.status = "pending"
    BY <2>3, <2>4, NewEpochType, NewEpochFields, CommitType, CommitFields
  <2>7. TypeOK'
    BY <2>4, <2>5, <2>6 DEF TypeOK, history
  <2>8. CallsKnown'
    BY <2>4, <2>5, <2>6 DEF CallsKnown, WorkersKnowCall
  <2> QED BY <2>7, <2>8
<1>7. CASE FailWait
  <2>1. EndedRun("failed") /\ questions' \in Seq(Question)
    BY <1>7 DEF FailWait, EndedRun, TypeOK
  <2> QED BY <1>7, <2>1, EndedRunType DEF FailWait, TerminalStatuses
<1> QED BY <1>1, <1>2, <1>3, <1>4, <1>5, <1>6, <1>7

\* Every step keeps the type invariant.
LEMMA TypeNext == ASSUME ConstantsAssumption, TypeInv, [Next]_vars PROVE TypeInv'
<1>1. CASE UNCHANGED vars
  BY <1>1 DEF vars, TypeInv, TypeOK, CallsKnown, WorkersKnowCall
<1>2. ASSUME NEW w \in Worker, WorkerStep(w) PROVE TypeInv'
  BY <1>2, TypeLease, TypeRound, TypeTools, TypeApproval DEF WorkerStep
<1> QED BY <1>1, <1>2, TypeEnvironment DEF Next

\* Through every crash, takeover and answer the row, its checkpoint, its questions
\* and what the workers hold keep the shape the code's columns and dicts have.
THEOREM TypeCorrect == Spec => []TypeOK
<1>1. Init => TypeInv
  BY ConstantsAssumption, TypeInit
<1>2. TypeInv /\ [Next]_vars => TypeInv'
  BY ConstantsAssumption, TypeNext
<1>3. TypeInv => TypeOK
  BY DEF TypeInv
<1> QED BY <1>1, <1>2, <1>3, PTL DEF Spec

-----------------------------------------------------------------------------
(* The shapes a step can have, as far as the row and the pending questions are *)
(* concerned.  The safety theorems below argue about these shapes only.        *)

PendingSame == Pending(questions)' = Pending(questions)
Lease(status, owner, ttl) == run'.status = status /\ run'.owner = owner /\ run'.ttl = ttl

\* One event, in the present epoch.
Advance ==
  /\ run'.epoch = run.epoch
  /\ run'.seq = run.seq + 1
  /\ lastCommit'.event = <<run.epoch, run.seq>>

\* One event, the first of a new epoch.
AdvanceEpoch ==
  /\ run'.epoch = run.epoch + 1
  /\ run'.seq = 2
  /\ lastCommit'.event = <<run.epoch + 1, 1>>

By(who) == lastCommit'.by = who

Quiet == UNCHANGED <<run, checkpoint, lastCommit>> /\ PendingSame

Clock ==
  /\ run.status = "running"
  /\ \/ run.ttl >= 0 /\ run'.ttl = run.ttl - 1
     \/ run.ttl > 0 /\ run'.ttl = LeaseTicks
  /\ run'.status = run.status /\ run'.owner = run.owner /\ run'.fence = run.fence
  /\ run'.epoch = run.epoch /\ run'.seq = run.seq
  /\ PendingSame
  /\ UNCHANGED <<checkpoint, lastCommit>>

Take(w) ==
  /\ Claim(w)
  /\ run.status = "pending"
  /\ Lease("running", w, LeaseTicks)
  /\ run'.fence = run.fence + 1
  /\ Advance /\ By(w)
  /\ PendingSame
  /\ UNCHANGED checkpoint

Refuse(w) ==
  /\ run.status = "pending"
  /\ Lease("failed", NoWorker, 0)
  /\ run'.fence = run.fence + 1
  /\ Advance /\ By(w)
  /\ PendingSame

Hold(w) ==
  /\ LeaseMatches(w)
  /\ Lease("running", w, run.ttl)
  /\ run'.fence = run.fence
  /\ Advance /\ By(w)
  /\ PendingSame

\* A checkpoint is saved without an event.
Keep(w) ==
  /\ LeaseMatches(w)
  /\ UNCHANGED run
  /\ UNCHANGED lastCommit.event
  /\ By(w)
  /\ PendingSame

GiveUp(w) ==
  /\ LeaseMatches(w)
  /\ \E s \in {"waiting_for_subagents", "completed", "failed"} :
       /\ Lease(s, NoWorker, 0)
       /\ s # "failed" => worker[w].phase = "decided"
  /\ run'.fence = run.fence
  /\ Advance /\ By(w)
  /\ PendingSame

Ask(w) ==
  /\ LeaseMatches(w)
  /\ \/ worker[w].phase = "decided"
     \/ worker[w].phase = "invoked" /\ worker[w].approval.replaySafe
  /\ Lease("waiting_for_user", NoWorker, 0)
  /\ run'.fence = run.fence
  /\ Advance /\ By(w)
  /\ \E q : Pending(questions)' = Pending(questions) \cup {q}

TakenBack ==
  /\ \/ LeaseExpired /\ Lease("failed", NoWorker, 0) /\ run'.epoch = run.epoch
     \/ /\ LeaseExpired /\ ~Executing
        /\ Lease("pending", NoWorker, 0) /\ run'.epoch = run.epoch + 1
        /\ UNCHANGED checkpoint
     \/ Pending(questions) # {} /\ run.status # "waiting_for_user" /\ run'.epoch \in Nat
  /\ run'.epoch > run.epoch \/ (run'.epoch = run.epoch /\ run'.seq = run.seq)
  /\ run'.fence = run.fence
  /\ PendingSame
  /\ UNCHANGED lastCommit.event
  /\ By(NoWorker)

Answered ==
  /\ run.status = "waiting_for_user"
  /\ Lease("pending", NoWorker, 0)
  /\ run'.fence = run.fence
  /\ AdvanceEpoch /\ By(NoWorker)
  /\ \E q \in Pending(questions) : Pending(questions)' = Pending(questions) \ {q}

Resumed ==
  /\ run.status = "waiting_for_subagents"
  /\ Lease("pending", NoWorker, 0)
  /\ run'.fence = run.fence
  /\ AdvanceEpoch /\ By(NoWorker)
  /\ PendingSame

GivenUp ==
  /\ run.status = "waiting_for_subagents"
  /\ Lease("failed", NoWorker, 0)
  /\ run'.fence = run.fence
  /\ Advance /\ By(NoWorker)
  /\ PendingSame

Cancelled ==
  /\ run.status \in ActiveStatuses
  /\ Lease("cancelled", NoWorker, 0)
  /\ run'.fence = run.fence
  /\ Advance /\ By(NoWorker)
  /\ Pending(questions)' = {}

Announced ==
  /\ run.status \in ActiveStatuses
  /\ Lease(run.status, run.owner, run.ttl)
  /\ run'.fence = run.fence
  /\ Advance /\ By(NoWorker)
  /\ PendingSame
  /\ UNCHANGED checkpoint

RowStep ==
  \/ Quiet \/ Clock \/ TakenBack \/ Answered \/ Resumed \/ GivenUp \/ Cancelled \/ Announced
  \/ \E w \in Worker : Take(w) \/ Refuse(w) \/ Hold(w) \/ Keep(w) \/ GiveUp(w) \/ Ask(w)

\* A commit of the holder that leaves its lease alone is a Hold.
LEMMA HoldShape ==
  ASSUME TypeOK, NEW w \in Worker, LeaseMatches(w), Commit(w, run), UNCHANGED questions
  PROVE  Hold(w)
BY CommitFields DEF Hold, Lease, Advance, By, PendingSame, LeaseMatches, TypeOK, Pending

\* A commit that releases the lease advances the cursor within the epoch.
LEMMA ReleaseShape ==
  ASSUME TypeOK, NEW s \in ActiveStatuses \cup TerminalStatuses, NEW who,
         Commit(who, Released(run, s))
  PROVE  Lease(s, NoWorker, 0) /\ run'.fence = run.fence /\ Advance /\ By(who)
<1>1. Released(run, s) \in RunRow
  BY ReleasedType DEF TypeOK
<1> QED BY <1>1, CommitFields, ReleasedFields DEF Lease, Advance, By, TypeOK

\* A commit that puts the run back to pending advances the cursor by an epoch.
LEMMA NewEpochShape ==
  ASSUME TypeOK, NEW who, Commit(who, NewEpoch(Released(run, "pending")))
  PROVE  /\ Lease("pending", NoWorker, 0) /\ run'.fence = run.fence
         /\ AdvanceEpoch /\ By(who)
<1> DEFINE p == Released(run, "pending")
<1>1. p \in RunRow
  BY ReleasedType DEF TypeOK, ActiveStatuses
<1>2. p.status = "pending" /\ p.owner = NoWorker /\ p.ttl = 0 /\ p.fence = run.fence
      /\ p.epoch = run.epoch
  BY ReleasedFields DEF TypeOK
<1> HIDE DEF p
<1>3. NewEpoch(p) \in RunRow
  BY <1>1, NewEpochType
<1>4. Commit(who, NewEpoch(p))
  BY DEF p
<1> QED BY <1>1, <1>2, <1>3, <1>4, CommitFields, NewEpochFields DEF Lease, AdvanceEpoch, By

\* Pausing for a question, by whatever tool, is an Ask.
LEMMA AskShape ==
  ASSUME TypeOK, NEW w \in Worker, LeaseMatches(w), NEW op, NEW m, NEW a, Pause(w, op, m, a),
         \/ worker[w].phase = "decided"
         \/ worker[w].phase = "invoked" /\ worker[w].approval.replaySafe
  PROVE  Ask(w)
<1> DEFINE new == [op |-> op, approval |-> a # NoApproval, status |-> "pending",
                   answer |-> "none"]
<1>1. questions' = Append(questions, new) /\ new.status = "pending"
  BY DEF Pause
<1> HIDE DEF new
<1>2. questions \in Seq(Question)
  BY DEF TypeOK
<1>3. DOMAIN questions' = DOMAIN questions \cup {Len(questions) + 1}
      /\ questions'[Len(questions) + 1] = new
      /\ \A q \in DOMAIN questions : questions'[q] = questions[q]
  BY <1>1, <1>2
<1>4. Pending(questions)' = Pending(questions) \cup {Len(questions) + 1}
  BY <1>1, <1>3 DEF Pending
<1> QED BY <1>4, ReleaseShape DEF Ask, Pause, ActiveStatuses

\* Answering, cancelling or steering away a question closes exactly that question.
LEMMA AnsweredShape ==
  ASSUME TypeOK, NEW q \in DOMAIN questions,
         NEW answer \in {"none", "option-1", "option-2", "text"}, Respond(q, answer)
  PROVE  Answered
<1>1. questions'[q].status # "pending" /\ DOMAIN questions' = DOMAIN questions
      /\ \A p \in DOMAIN questions : p # q => questions'[p] = questions[p]
  <2> DEFINE st == IF answer = "none" THEN "cancelled" ELSE "answered"
             a == [questions[q] EXCEPT !.status = st]
             b == [a EXCEPT !.answer = answer]
  <2>1. questions[q] \in Question
    BY DEF TypeOK
  <2>3. a.status = st /\ DOMAIN a = {"op", "approval", "status", "answer"}
    BY <2>1 DEF Question
  <2>4. questions' = [questions EXCEPT ![q] = b]
    BY DEF Respond, TypeOK
  <2> HIDE DEF a
  <2>5. b.status = st
    BY <2>3
  <2> HIDE DEF b
  <2> QED BY <2>4, <2>5 DEF TypeOK
<1>2. q \in Pending(questions) /\ Pending(questions)' = Pending(questions) \ {q}
  BY <1>1 DEF Respond, Pending
<1> QED BY <1>2, NewEpochShape DEF Answered, Respond

\* A claim gives a pending run its next fence.
LEMMA ClaimShape ==
  ASSUME ConstantsAssumption, TypeOK, NEW w \in Worker, Claim(w)
  PROVE  Take(w)
<1> DEFINE f == run.fence + 1
           a == [run EXCEPT !.status = "running"]
           b == [a EXCEPT !.owner = w]
           c == [b EXCEPT !.fence = f]
           d == [c EXCEPT !.ttl = LeaseTicks]
<1>1. Commit(w, d)
  BY DEF Claim
<1>2. f \in Nat /\ LeaseTicks \in Int
  BY DEF TypeOK, RunRow, ConstantsAssumption
<1> HIDE DEF f
<1>3. a \in RunRow /\ a.status = "running" /\ a.epoch = run.epoch /\ a.seq = run.seq
  BY DEF TypeOK, RunRow, ActiveStatuses
<1> HIDE DEF a
<1>4. b \in RunRow /\ b.owner = w /\ b.status = "running" /\ b.epoch = run.epoch
      /\ b.seq = run.seq
  BY <1>3 DEF RunRow
<1> HIDE DEF b
<1>5. c \in RunRow /\ c.fence = f /\ c.owner = w /\ c.status = "running"
      /\ c.epoch = run.epoch /\ c.seq = run.seq
  BY <1>2, <1>4 DEF RunRow
<1> HIDE DEF c
<1>6. d \in RunRow /\ d.ttl = LeaseTicks /\ d.fence = f /\ d.owner = w
      /\ d.status = "running" /\ d.epoch = run.epoch /\ d.seq = run.seq
  BY <1>2, <1>5 DEF RunRow
<1> HIDE DEF d
<1>7. Lease("running", w, LeaseTicks) /\ run'.fence = f /\ Advance /\ By(w)
  BY <1>1, <1>6, CommitFields DEF Lease, Advance, By
<1>8. run.status = "pending" /\ UNCHANGED <<checkpoint, questions>>
  BY DEF Claim
<1> QED BY <1>7, <1>8 DEF Take, f, PendingSame, Pending

\* A claim of an oversized checkpoint fails the run.
LEMMA RefuseShape ==
  ASSUME TypeOK, NEW w \in Worker, ClaimOversized(w)
  PROVE  Refuse(w)
<1> DEFINE f == run.fence + 1
           r == [run EXCEPT !.fence = f]
<1>1. f \in Nat
  BY DEF TypeOK, RunRow
<1> HIDE DEF f
<1>2. r \in RunRow /\ r.fence = f /\ r.epoch = run.epoch /\ r.seq = run.seq
  BY <1>1 DEF TypeOK, RunRow
<1>3. Commit(w, Released(r, "failed"))
  BY DEF ClaimOversized, f
<1> HIDE DEF r
<1>4. Released(r, "failed") \in RunRow
  BY <1>2, ReleasedType DEF TerminalStatuses
<1>5. Lease("failed", NoWorker, 0) /\ run'.fence = f /\ Advance /\ By(w)
  BY <1>2, <1>3, <1>4, CommitFields, ReleasedFields DEF Lease, Advance, By
<1>6. run.status = "pending" /\ UNCHANGED questions
  BY DEF ClaimOversized
<1> QED BY <1>5, <1>6 DEF Refuse, f, PendingSame, Pending

\* recover requeues or fails an expired run, or changes nothing of a sound one.
LEMMA TakenBackShape == ASSUME TypeOK, Recover PROVE TakenBack
<1> DEFINE rolled == [run EXCEPT !.draft = checkpoint.safeDraft]
           back == Released(rolled, "pending")
           expired == IF ~LeaseExpired THEN run
                      ELSE IF Executing THEN Released(run, "failed") ELSE NewEpoch(back)
<1>1. rolled \in RunRow /\ rolled.fence = run.fence /\ rolled.epoch = run.epoch
  BY DEF TypeOK, RunRow, Checkpoint
<1> HIDE DEF rolled
<1>2. back \in RunRow /\ back.status = "pending" /\ back.owner = NoWorker
      /\ back.fence = run.fence /\ back.ttl = 0 /\ back.epoch = run.epoch
  BY <1>1, ReleasedType, ReleasedFields DEF ActiveStatuses
<1> HIDE DEF back
<1>3. run \in RunRow
  BY DEF TypeOK
<1>4. expired \in RunRow
  BY <1>2, <1>3, NewEpochType, ReleasedType DEF TerminalStatuses
<1>5. \/ run' = expired
      \/ /\ run' = Released(expired, "waiting_for_user")
         /\ Pending(questions) # {}
         /\ expired.status \in {"pending", "running"}
  <2>1. run' = Recovered
    BY DEF Recover
  <2>2. Recovered = IF Pending(questions) # {} /\ expired.status \in {"pending", "running"}
                    THEN Released(expired, "waiting_for_user") ELSE expired
    BY DEF Recovered, back, rolled
  <2> HIDE DEF expired
  <2> QED BY <2>1, <2>2
<1>6. /\ expired.fence = run.fence
      /\ expired.epoch > run.epoch \/ (expired.epoch = run.epoch /\ expired.seq = run.seq)
  <2>1. CASE ~LeaseExpired
    BY <2>1, <1>3 DEF RunRow
  <2>2. CASE LeaseExpired /\ Executing
    BY <2>2, <1>3, ReleasedFields DEF RunRow
  <2>3. CASE LeaseExpired /\ ~Executing
    BY <2>3, <1>2, <1>3, NewEpochFields DEF RunRow
  <2> QED BY <2>1, <2>2, <2>3
<1>7. /\ run' # run /\ UNCHANGED questions
      /\ UNCHANGED lastCommit.event /\ By(NoWorker)
      /\ run'.status = "pending" => UNCHANGED checkpoint
  BY DEF Recover, By, TypeOK, LastCommit
<1>8. PendingSame
  BY <1>7 DEF PendingSame
<1>9. CASE run' = expired
  <2>1. LeaseExpired
    BY <1>7, <1>9
  <2>2. CASE Executing
    BY <1>3, <1>6, <1>7, <1>8, <1>9, <2>1, <2>2, ReleasedFields DEF TakenBack, Lease
  <2>3. CASE ~Executing
    BY <1>2, <1>6, <1>7, <1>8, <1>9, <2>1, <2>3, NewEpochFields DEF TakenBack, Lease
  <2> QED BY <2>2, <2>3
<1>10. CASE run' = Released(expired, "waiting_for_user") /\ Pending(questions) # {}
            /\ expired.status \in {"pending", "running"}
  <2>1. run.status # "waiting_for_user"
    BY <1>10 DEF LeaseExpired
  <2> HIDE DEF expired
  <2>2. run'.fence = run.fence /\ run'.epoch = expired.epoch /\ run'.seq = expired.seq
        /\ run'.epoch \in Nat
    BY <1>4, <1>6, <1>10, ReleasedFields DEF RunRow
  <2> QED BY <1>6, <1>7, <1>8, <1>10, <2>1, <2>2 DEF TakenBack
<1> QED BY <1>5, <1>9, <1>10

\* Every step has one of the shapes.
LEMMA StepShape == ASSUME ConstantsAssumption, TypeInv, [Next]_vars PROVE RowStep
<1> USE DEF TypeInv
<1>1. CASE UNCHANGED vars
  BY <1>1 DEF vars, RowStep, Quiet, PendingSame
<1>2. ASSUME NEW w \in Worker, WorkerStep(w) PROVE RowStep
  <2>1. CASE Claim(w)
    BY <2>1, ClaimShape DEF RowStep
  <2>2. CASE ClaimOversized(w)
    BY <2>2, RefuseShape DEF RowStep
  <2>3. CASE RenewLease(w)
    <3>1. run' = [run EXCEPT !.ttl = LeaseTicks] /\ LeaseMatches(w)
          /\ UNCHANGED <<checkpoint, questions, lastCommit>>
      BY <2>3 DEF RenewLease
    <3>2. Clock
      BY <3>1 DEF Clock, LeaseMatches, PendingSame, TypeOK, RunRow
    <3> QED BY <3>2 DEF RowStep
  <2>4. CASE \/ LoseLease(w) \/ Crash(w) \/ LoadState(w) \/ BeginRound(w) \/ EndRound(w)
             \/ StepFails(w) \/ RunBatch(w) \/ InvokeApproved(w) \/ RetryApproved(w)
    <3>1. UNCHANGED <<run, checkpoint, questions, lastCommit>>
      BY <2>4 DEF LoseLease, Crash, LoadState, BeginRound, EndRound, StepFails, RunBatch,
                  InvokeApproved, RetryApproved
    <3> QED BY <3>1 DEF RowStep, Quiet, PendingSame
  <2>5. CASE Delta(w)
    <3> DEFINE d == run.draft + 1
               r == [run EXCEPT !.draft = d]
    <3>1. d \in Nat
      BY DEF TypeOK, RunRow
    <3> HIDE DEF d
    <3>2. r \in RunRow /\ r.status = run.status /\ r.owner = run.owner /\ r.ttl = run.ttl
          /\ r.fence = run.fence /\ r.epoch = run.epoch /\ r.seq = run.seq
      BY <3>1 DEF TypeOK, RunRow
    <3>3. Commit(w, r) /\ LeaseMatches(w) /\ UNCHANGED questions
      BY <2>5 DEF Delta, d
    <3> HIDE DEF r
    <3>4. Hold(w)
      BY <3>2, <3>3, CommitFields DEF Hold, Lease, Advance, By, PendingSame, LeaseMatches
    <3> QED BY <3>4 DEF RowStep
  <2>6. CASE \/ BeginSteeredRound(w) \/ CompleteSteered(w) \/ DirectResult(w)
             \/ StartBatch(w) \/ CompleteBatch(w) \/ RejectApproval(w)
             \/ BeginApproved(w) \/ SettleApproved(w)
    <3>1. LeaseMatches(w) /\ Commit(w, run) /\ UNCHANGED questions
      BY <2>6 DEF BeginSteeredRound, CompleteSteered, ConsumeSteers, DirectResult,
                  StartBatch, CompleteBatch, RejectApproval, BeginApproved, SettleApproved,
                  ApprovalClosed
    <3> QED BY <3>1, HoldShape DEF RowStep
  <2>7. CASE FailRun(w) \/ Complete(w) \/ WaitForSubagents(w)
    <3>1. PICK s \in {"waiting_for_subagents", "completed", "failed"} :
            /\ LeaseMatches(w) /\ Commit(w, Released(run, s)) /\ UNCHANGED questions
            /\ s # "failed" => worker[w].phase = "decided"
      BY <2>7 DEF FailRun, Complete, WaitForSubagents
    <3>2. GiveUp(w)
      BY <3>1, ReleaseShape DEF GiveUp, PendingSame, ActiveStatuses, TerminalStatuses
    <3> QED BY <3>2 DEF RowStep
  <2>8. CASE AskUser(w) \/ (\E b \in BOOLEAN : RequestApproval(w, b)) \/ AskApprovalAgain(w)
    <3>1. /\ LeaseMatches(w) /\ \E op, m, a : Pause(w, op, m, a)
          /\ \/ worker[w].phase = "decided"
             \/ worker[w].phase = "invoked" /\ worker[w].approval.replaySafe
      BY <2>8 DEF AskUser, RequestApproval, AskApprovalAgain
    <3> QED BY <3>1, AskShape DEF RowStep
  <2>9. CASE Compact(w)
    <3>1. /\ LeaseMatches(w) /\ UNCHANGED <<run, questions>>
          /\ lastCommit' = [lastCommit EXCEPT !.by = w]
      BY <2>9 DEF Compact
    <3>2. Keep(w)
      BY <3>1 DEF Keep, By, PendingSame, TypeOK, LastCommit
    <3> QED BY <3>2 DEF RowStep
  <2> QED BY <1>2, <2>1, <2>2, <2>3, <2>4, <2>5, <2>6, <2>7, <2>8, <2>9 DEF WorkerStep
<1>3. CASE Tick
  <2> DEFINE t == run.ttl - 1
  <2>1. run' = [run EXCEPT !.ttl = t] /\ run.status = "running" /\ run.ttl >= 0
        /\ UNCHANGED <<checkpoint, questions, lastCommit>>
    BY <1>3 DEF Tick
  <2> HIDE DEF t
  <2>2. run'.ttl = t /\ run'.status = run.status /\ run'.owner = run.owner
        /\ run'.fence = run.fence /\ run'.epoch = run.epoch /\ run'.seq = run.seq
    BY <2>1 DEF TypeOK, RunRow
  <2> QED BY <2>1, <2>2 DEF RowStep, Clock, PendingSame, t
<1>4. CASE Recover
  BY <1>4, TakenBackShape DEF RowStep
<1>5. CASE RespondQuestion \/ ResumeSteeringQuestion
  <2>1. PICK q \in DOMAIN questions, answer \in {"none", "option-1", "option-2", "text"} :
          Respond(q, answer)
    BY <1>5 DEF RespondQuestion, ResumeSteeringQuestion
  <2> QED BY <2>1, AnsweredShape DEF RowStep
<1>6. CASE SubmitSteer \/ NotifySteer
  <2>1. UNCHANGED <<checkpoint, questions>>
    BY <1>6 DEF SubmitSteer, NotifySteer
  <2>2. CASE run.status \in ActiveStatuses /\ Commit(NoWorker, run)
    BY <2>1, <2>2, CommitFields
       DEF RowStep, Announced, Lease, Advance, By, PendingSame, TypeOK
  <2>3. CASE UNCHANGED <<run, lastCommit>>
    BY <2>1, <2>3 DEF RowStep, Quiet, PendingSame
  <2> QED BY <1>6, <2>2, <2>3 DEF SubmitSteer, NotifySteer
<1>7. CASE CancelRun
  <2>1. Commit(NoWorker, Released(run, "cancelled")) /\ run.status \in ActiveStatuses
    BY <1>7 DEF CancelRun
  <2>2. Pending(questions)' = {}
    <3>1. questions' = [q \in DOMAIN questions |->
                          IF q \in Pending(questions)
                          THEN [questions[q] EXCEPT !.status = "cancelled"]
                          ELSE questions[q]]
      BY <1>7 DEF CancelRun
    <3>2. ASSUME NEW q \in DOMAIN questions PROVE questions'[q].status # "pending"
      <4>1. questions[q] \in Question
        BY DEF TypeOK
      <4>2. [questions[q] EXCEPT !.status = "cancelled"].status # "pending"
        BY <4>1 DEF Question
      <4> QED BY <3>1, <4>2 DEF Pending
    <3> QED BY <3>1, <3>2 DEF Pending
  <2> QED BY <2>1, <2>2, ReleaseShape DEF RowStep, Cancelled, TerminalStatuses
<1>8. CASE ResumeWait
  <2>1. Commit(NoWorker, NewEpoch(Released(run, "pending"))) /\ run.status = "waiting_for_subagents"
        /\ UNCHANGED questions
    BY <1>8 DEF ResumeWait
  <2> QED BY <2>1, NewEpochShape DEF RowStep, Resumed, PendingSame
<1>9. CASE FailWait
  <2>1. Commit(NoWorker, Released(run, "failed")) /\ run.status = "waiting_for_subagents"
        /\ UNCHANGED questions
    BY <1>9 DEF FailWait
  <2> QED BY <2>1, ReleaseShape DEF RowStep, GivenUp, PendingSame, TerminalStatuses
<1> QED BY <1>1, <1>2, <1>3, <1>4, <1>5, <1>6, <1>7, <1>8, <1>9 DEF Next

-----------------------------------------------------------------------------
(* Questions. *)

\* Every shape keeps the agreement of status and pending questions.
LEMMA QuestionsStep ==
  ASSUME TypeInv, QuestionMatchesStatus, RowStep
  PROVE  QuestionMatchesStatus'
<1>1. CASE Quiet \/ Clock \/ Resumed \/ GivenUp \/ Cancelled \/ Announced
  BY <1>1 DEF Quiet, Clock, Resumed, GivenUp, Cancelled, Announced, Lease,
              PendingSame, QuestionMatchesStatus, ActiveStatuses
<1>2. CASE TakenBack
  BY <1>2 DEF TakenBack, Lease, LeaseExpired, PendingSame, QuestionMatchesStatus
<1>3. CASE Answered
  BY <1>3 DEF Answered, Lease, QuestionMatchesStatus
<1>4. ASSUME NEW w \in Worker, Take(w) \/ Refuse(w) \/ Hold(w) \/ Keep(w) \/ GiveUp(w)
      PROVE  QuestionMatchesStatus'
  BY <1>4 DEF Take, Refuse, Hold, Keep, GiveUp, LeaseMatches, Lease, PendingSame,
              QuestionMatchesStatus
<1>5. ASSUME NEW w \in Worker, Ask(w) PROVE QuestionMatchesStatus'
  BY <1>5 DEF Ask, LeaseMatches, Lease, QuestionMatchesStatus
<1> QED BY <1>1, <1>2, <1>3, <1>4, <1>5 DEF RowStep

\* The run waits for its user exactly while one question is pending: the repair of
\* inconsistent runs in recover is never needed.
THEOREM QuestionsCorrect == Spec => []QuestionMatchesStatus
<1>1. Init => TypeInv /\ QuestionMatchesStatus
  <2>1. Init => QuestionMatchesStatus
    BY DEF Init, QuestionMatchesStatus, Pending
  <2> QED BY <2>1, ConstantsAssumption, TypeInit
<1>2. TypeInv /\ QuestionMatchesStatus /\ [Next]_vars => (TypeInv /\ QuestionMatchesStatus)'
  BY ConstantsAssumption, TypeNext, StepShape, QuestionsStep
<1> QED BY <1>1, <1>2, PTL DEF Spec

-----------------------------------------------------------------------------
(* Events. *)

\* The cursor of the row is always past the newest event.
EventInv == Earlier(lastCommit.event, <<run.epoch, run.seq>>)

\* Every shape keeps the last event at or behind the row's cursor, and moves it forward only.
LEMMA EventStep ==
  ASSUME TypeInv, TypeInv', EventInv, RowStep, QuestionMatchesStatus
  PROVE  /\ EventInv'
         /\ \/ UNCHANGED lastCommit.event
            \/ Earlier(lastCommit.event, lastCommit'.event)
<1>1. /\ run.epoch \in Nat /\ run.seq \in Nat /\ run'.epoch \in Nat /\ run'.seq \in Nat
      /\ lastCommit.event \in Nat \X Nat
  BY DEF TypeInv, TypeOK, RunRow, LastCommit
<1>2. CASE Advance
  BY <1>1, <1>2 DEF Advance, EventInv, Earlier
<1>3. CASE AdvanceEpoch
  BY <1>1, <1>3 DEF AdvanceEpoch, EventInv, Earlier
<1>4. CASE Quiet
  BY <1>4 DEF Quiet, EventInv
<1>5. CASE Clock
  BY <1>5 DEF Clock, EventInv
<1>6. CASE TakenBack
  BY <1>1, <1>6 DEF TakenBack, EventInv, Earlier
<1>7. ASSUME NEW w \in Worker, Keep(w)
      PROVE  EventInv' /\ UNCHANGED lastCommit.event
  BY <1>7 DEF Keep, EventInv
<1> QED BY <1>2, <1>3, <1>4, <1>5, <1>6, <1>7
        DEF RowStep, Refuse, Answered, Resumed, GivenUp, Cancelled, Announced,
            Take, Hold, GiveUp, Ask

\* A client cursor taken from an event is never behind an event committed earlier,
\* over takeovers, answers and stale workers.
THEOREM EventsCorrect == Spec => EventsIncrease
<1> DEFINE Inv == TypeInv /\ QuestionMatchesStatus /\ EventInv
<1>1. Init => Inv
  <2>1. Init => QuestionMatchesStatus /\ EventInv
    BY DEF Init, QuestionMatchesStatus, Pending, EventInv, Earlier
  <2> QED BY <2>1, ConstantsAssumption, TypeInit
<1>2. Inv /\ [Next]_vars => Inv'
  BY ConstantsAssumption, TypeNext, StepShape, QuestionsStep, EventStep
<1>3. Inv /\ [Next]_vars => 
           [Earlier(lastCommit.event, lastCommit.event')]_(lastCommit.event)
  BY ConstantsAssumption, TypeNext, StepShape, EventStep
<1> QED BY <1>1, <1>2, <1>3, PTL DEF Spec, EventsIncrease

-----------------------------------------------------------------------------
(* Leases. *)

\* A stale task keeps the fence it was given until it leaves.
WorkersKeepFence ==
  \A w \in Worker :
    \/ worker'[w] = Idle
    \/ /\ worker'[w].fence = worker[w].fence
       /\ worker[w].phase = "idle" <=> worker'[w].phase = "idle"

\* Why the fences stay apart: idle tasks hold fence 0, a running row was taken once.
FenceInv ==
  /\ LeaseExclusive
  /\ \A w \in Worker : worker[w].phase = "idle" <=> worker[w].fence = 0
  /\ run.status = "running" => run.fence > 0
  /\ run.owner # NoWorker <=> run.status = "running"

\* Without a claim, no shape makes two workers share a fence.
LEMMA FenceNext ==
  ASSUME TypeInv, FenceInv, QuestionMatchesStatus, RowStep, WorkersKeepFence,
         \A w \in Worker : ~Claim(w)
  PROVE  FenceInv'
<1>1. \A w \in Worker : worker[w].fence \in Nat
  BY DEF TypeInv, TypeOK, WorkerState
<1>2. run.fence \in Nat
  BY DEF TypeInv, TypeOK, RunRow
<1>3. /\ run'.fence \in {run.fence, run.fence + 1}
      /\ run'.status = "running"
           => run.status = "running" /\ run'.owner = run.owner /\ run'.fence = run.fence
      /\ run'.owner # NoWorker <=> run'.status = "running"
  <2>1. CASE Quiet \/ Clock \/ Answered \/ Resumed \/ GivenUp \/ Cancelled \/ Announced
    BY <2>1 DEF Quiet, Clock, Answered, Resumed, GivenUp, Cancelled, Announced,
                Lease, FenceInv
  <2>2. CASE TakenBack
    BY <2>2 DEF TakenBack, Lease, QuestionMatchesStatus
  <2>3. ASSUME NEW w \in Worker, Refuse(w) \/ Hold(w) \/ Keep(w) \/ GiveUp(w) \/ Ask(w)
        PROVE  /\ run'.fence \in {run.fence, run.fence + 1}
               /\ run'.status = "running" => /\ run.status = "running" /\ run'.owner = run.owner
                                           /\ run'.fence = run.fence
               /\ run'.owner # NoWorker <=> run'.status = "running"
    BY <2>3, ConstantsAssumption
       DEF Refuse, Hold, Keep, GiveUp, Ask, Lease, LeaseMatches, FenceInv
  <2> QED BY <2>1, <2>2, <2>3 DEF RowStep, Take
<1>4. \A w \in Worker : \/ worker'[w].fence = 0 /\ worker'[w].phase = "idle"
                        \/ /\ worker'[w].fence = worker[w].fence
                           /\ worker[w].phase = "idle" <=> worker'[w].phase = "idle"
  BY DEF WorkersKeepFence, Idle
<1> QED BY <1>1, <1>2, <1>3, <1>4 DEF FenceInv, LeaseExclusive

\* Only a claim gives a task a fence.
LEMMA FencesKept ==
  ASSUME TypeInv, [Next]_vars, \A w \in Worker : ~Claim(w)
  PROVE  WorkersKeepFence
<1>1. CASE UNCHANGED worker
  BY <1>1 DEF WorkersKeepFence
<1>2. ASSUME NEW w \in Worker, \/ Leave(w)
                               \/ \E m : NextRound(w, m)
                               \/ \E p \in Phase \ {"idle"} : Goto(w, p),
             worker[w].phase # "idle"
      PROVE  WorkersKeepFence
  <2> SUFFICES ASSUME NEW v \in Worker
               PROVE  \/ worker'[v] = Idle
                      \/ /\ worker'[v].fence = worker[v].fence
                         /\ worker[v].phase = "idle" <=> worker'[v].phase = "idle"
    BY DEF WorkersKeepFence
  <2>1. CASE v # w
    BY <1>2, <2>1 DEF Leave, NextRound, Goto, TypeInv, TypeOK
  <2>2. CASE v = w /\ Leave(w)
    BY <2>2 DEF Leave, TypeInv, TypeOK
  <2>3. ASSUME v = w, NEW m, NextRound(w, m) PROVE worker'[w].fence = worker[w].fence
                                                 /\ worker'[w].phase = "head"
    BY <2>3 DEF NextRound, TypeInv, TypeOK, Idle
  <2>4. ASSUME v = w, NEW p \in Phase \ {"idle"}, Goto(w, p)
        PROVE  worker'[w].fence = worker[w].fence /\ worker'[w].phase = p
    <3>1. worker'[w] = [worker[w] EXCEPT !.phase = p]
      BY <2>4 DEF Goto, TypeInv, TypeOK
    <3> QED BY <3>1 DEF TypeInv, TypeOK, WorkerState
  <2> QED BY <1>2, <2>1, <2>2, <2>3, <2>4
<1>3. ASSUME NEW w \in Worker, WorkerStep(w) PROVE WorkersKeepFence
  <2>1. CASE ClaimOversized(w) \/ RenewLease(w) \/ Delta(w)
    BY <1>1, <2>1 DEF ClaimOversized, RenewLease, Delta
  <2>2. CASE \/ LoseLease(w) \/ Crash(w) \/ FailRun(w) \/ Complete(w)
             \/ WaitForSubagents(w) \/ AskUser(w)
             \/ (\E b \in BOOLEAN : RequestApproval(w, b)) \/ AskApprovalAgain(w)
    BY <1>2, <2>2 DEF LoseLease, Crash, FailRun, Complete, WaitForSubagents, AskUser,
                      RequestApproval, AskApprovalAgain, Pause
  <2>3. CASE BeginRound(w) \/ EndRound(w) \/ RunBatch(w) \/ RetryApproved(w)
    BY <1>2, <2>3 DEF BeginRound, EndRound, RunBatch, RetryApproved, Phase
  <2>4. CASE \/ CompleteSteered(w) \/ DirectResult(w) \/ CompleteBatch(w)
             \/ RejectApproval(w) \/ SettleApproved(w)
    BY <1>2, <2>4 DEF CompleteSteered, DirectResult, CompleteBatch, RejectApproval,
                      SettleApproved, ApprovalClosed
  <2>5. ASSUME NEW x, worker' = [worker EXCEPT ![w] = x], worker[w].phase # "idle",
               x.fence = worker[w].fence, x.phase # "idle"
        PROVE  WorkersKeepFence
    BY <2>5 DEF WorkersKeepFence, TypeInv, TypeOK
  <2>6. CASE StepFails(w)
    <3>1. [Idle EXCEPT !.phase = "failing", !.fence = worker[w].fence].fence = worker[w].fence
          /\ [Idle EXCEPT !.phase = "failing", !.fence = worker[w].fence].phase = "failing"
      BY DEF Idle
    <3> QED BY <2>5, <2>6, <3>1 DEF StepFails
  <2>7. worker[w] \in WorkerState
    BY DEF TypeInv, TypeOK
  <2>8. CASE Compact(w)
    <3>1. PICK kept : worker' = [worker EXCEPT ![w].messages = kept]
                      /\ worker[w].phase = "round"
      BY <2>8 DEF Compact
    <3>2. worker' = [worker EXCEPT ![w] = [worker[w] EXCEPT !.messages = kept]]
      BY <3>1 DEF TypeInv, TypeOK
    <3> QED BY <2>5, <2>7, <3>1, <3>2 DEF WorkerState
  <2>9. CASE StartBatch(w)
    <3> DEFINE x == [worker[w] EXCEPT !.op = NextCall, !.phase = "batch"]
    <3>1. worker' = [worker EXCEPT ![w] = x] /\ worker[w].phase = "decided"
      BY <2>9 DEF StartBatch, TypeInv, TypeOK
    <3>2. x.fence = worker[w].fence /\ x.phase = "batch"
      BY <2>7 DEF WorkerState
    <3> HIDE DEF x
    <3> QED BY <2>5, <3>1, <3>2
  <2>10. CASE BeginApproved(w)
    <3> DEFINE x == [worker[w] EXCEPT !.tries = 0, !.phase = "invoke"]
    <3>1. worker' = [worker EXCEPT ![w] = x] /\ worker[w].phase = "approval"
      BY <2>10 DEF BeginApproved, TypeInv, TypeOK
    <3>2. x.fence = worker[w].fence /\ x.phase = "invoke"
      BY <2>7 DEF WorkerState
    <3> HIDE DEF x
    <3> QED BY <2>5, <3>1, <3>2
  <2>11. CASE InvokeApproved(w)
    <3> DEFINE t == worker[w].tries + 1
               x == [worker[w] EXCEPT !.tries = t, !.phase = "invoked"]
    <3>1. worker' = [worker EXCEPT ![w] = x] /\ worker[w].phase = "invoke"
      BY <2>11 DEF InvokeApproved, TypeInv, TypeOK
    <3> HIDE DEF t
    <3>2. x.fence = worker[w].fence /\ x.phase = "invoked"
      BY <2>7 DEF WorkerState
    <3> HIDE DEF x
    <3> QED BY <2>5, <3>1, <3>2
  <2>12. CASE LoadState(w)
    <3> DEFINE p == IF checkpoint.approval = NoApproval THEN "head" ELSE "approval"
               m == checkpoint.messages
               a == checkpoint.approval
               o == checkpoint.approval.op
               x == [worker[w] EXCEPT !.messages = m, !.approval = a, !.op = o, !.phase = p]
    <3>1. worker' = [worker EXCEPT ![w] = x] /\ worker[w].phase = "claimed"
      BY <2>12 DEF LoadState, TypeInv, TypeOK
    <3>2. p # "idle"
      OBVIOUS
    <3> HIDE DEF p, m, a, o
    <3>3. x.fence = worker[w].fence /\ x.phase = p
      BY <2>7 DEF WorkerState
    <3> HIDE DEF x
    <3> QED BY <2>5, <3>1, <3>2, <3>3
  <2>13. CASE BeginSteeredRound(w)
    <3> DEFINE m == WithSteers(worker[w].messages)
               x == [worker[w] EXCEPT !.messages = m, !.phase = "round"]
    <3>1. worker' = [worker EXCEPT ![w] = x] /\ worker[w].phase = "head"
      BY <2>7, <2>13 DEF BeginSteeredRound, WorkerState, TypeInv, TypeOK
    <3> HIDE DEF m
    <3>2. x.fence = worker[w].fence /\ x.phase = "round"
      BY <2>7 DEF WorkerState
    <3> HIDE DEF x
    <3> QED BY <2>5, <3>1, <3>2
  <2> QED BY <1>3, <2>1, <2>2, <2>3, <2>4, <2>6, <2>8, <2>9, <2>10, <2>11, <2>12, <2>13
          DEF WorkerStep
<1>4. CASE \/ Tick \/ Recover \/ RespondQuestion \/ ResumeSteeringQuestion
           \/ SubmitSteer \/ NotifySteer \/ CancelRun \/ ResumeWait \/ FailWait \/ UNCHANGED vars
  BY <1>1, <1>4 DEF Tick, Recover, RespondQuestion, ResumeSteeringQuestion, Respond,
                    SubmitSteer, NotifySteer, CancelRun, ResumeWait, FailWait, vars
<1> QED BY <1>3, <1>4 DEF Next

\* A claim is the one step that takes the run: the row is pending and may be taken.
LEMMA FenceClaim ==
  ASSUME ConstantsAssumption, TypeInv, FenceInv, NEW w \in Worker, Claim(w)
  PROVE  FenceInv'
<1>1. Take(w)
  BY ClaimShape DEF TypeInv
<1>2. /\ run.fence \in Nat
      /\ \A v \in Worker : worker[v].fence \in Nat
  BY DEF TypeInv, TypeOK, RunRow, WorkerState
<1>3. worker'[w].fence = run.fence + 1 /\ worker'[w].phase = "claimed"
      /\ \A v \in Worker \ {w} : worker'[v] = worker[v]
  <2> DEFINE x == [Idle EXCEPT !.phase = "claimed", !.fence = run.fence + 1]
  <2>1. x.fence = run.fence + 1 /\ x.phase = "claimed"
    BY DEF Idle
  <2>2. worker' = [worker EXCEPT ![w] = x]
    BY DEF Claim
  <2> HIDE DEF x
  <2> QED BY <2>1, <2>2 DEF TypeInv, TypeOK
<1>4. run'.fence = run.fence + 1 /\ run'.status = "running" /\ run'.owner = w
  BY <1>1 DEF Take, Lease
<1>5. LeaseExclusive'
  <2>1. \A v \in Worker : worker'[v].fence <= run'.fence
    BY <1>2, <1>3, <1>4 DEF FenceInv, LeaseExclusive
  <2>2. ASSUME NEW u \in Worker, NEW v \in Worker, u # v, worker'[u].phase # "idle"
        PROVE  worker'[u].fence # worker'[v].fence
    <3>1. CASE u = w
      BY <1>2, <1>3, <2>2, <3>1 DEF FenceInv, LeaseExclusive
    <3>2. CASE v = w
      BY <1>2, <1>3, <2>2, <3>2 DEF FenceInv, LeaseExclusive
    <3>3. CASE u # w /\ v # w
      BY <1>3, <2>2, <3>3 DEF FenceInv, LeaseExclusive
    <3> QED BY <3>1, <3>2, <3>3
  <2>3. \A v \in Worker : worker'[v].fence = run'.fence => v = w
    BY <1>2, <1>3, <1>4 DEF FenceInv, LeaseExclusive
  <2> QED BY <1>4, <2>1, <2>2, <2>3 DEF LeaseExclusive
<1>6. \A v \in Worker : worker'[v].phase = "idle" <=> worker'[v].fence = 0
  BY <1>2, <1>3 DEF FenceInv
<1> QED BY <1>2, <1>4, <1>5, <1>6, ConstantsAssumption DEF FenceInv

\* Every step keeps the invariant of the fences.
LEMMA FenceStep ==
  ASSUME ConstantsAssumption, TypeInv, FenceInv, QuestionMatchesStatus, [Next]_vars
  PROVE  FenceInv'
<1>1. CASE \E w \in Worker : Claim(w)
  BY <1>1, FenceClaim
<1>2. CASE \A w \in Worker : ~Claim(w)
  <2>1. RowStep /\ WorkersKeepFence
    BY <1>2, StepShape, FencesKept
  <2> QED BY <1>2, <2>1, FenceNext
<1> QED BY <1>1, <1>2

\* A stale worker's commit is always refused: no two live tasks share a fence, and a
\* leased row names the one task that holds its fence.
THEOREM LeasesCorrect == Spec => [](LeaseExclusive /\ LeaseOnlyWhileRunning)
<1> DEFINE Inv == TypeInv /\ QuestionMatchesStatus /\ FenceInv
<1>1. Init => Inv
  <2>1. Init => QuestionMatchesStatus
    BY DEF Init, QuestionMatchesStatus, Pending
  <2>2. Init => FenceInv
    BY DEF Init, FenceInv, LeaseExclusive, Idle
  <2> QED BY <2>1, <2>2, ConstantsAssumption, TypeInit
<1>2. Inv /\ [Next]_vars => Inv'
  BY ConstantsAssumption, TypeNext, StepShape, QuestionsStep, FenceStep
<1>3. Inv => LeaseExclusive /\ LeaseOnlyWhileRunning
  BY DEF FenceInv, LeaseOnlyWhileRunning
<1> QED BY <1>1, <1>2, <1>3, PTL DEF Spec

-----------------------------------------------------------------------------
(* The abstract job. *)

Holder == IF run.status = "running" /\ run.ttl > 0 THEN run.owner ELSE NoWorker

\* A row that advances moves the cursor of the abstract job forward.
LEMMA EventMoves ==
  ASSUME TypeInv, EventInv, Advance \/ AdvanceEpoch
  PROVE  Durable!Later(lastCommit'.event, lastCommit.event)
BY DEF TypeInv, TypeOK, RunRow, LastCommit, Advance, AdvanceEpoch, EventInv, Earlier, Durable!Later

\* Every shape is a step of the abstract job or leaves it unchanged.
LEMMA DurableStep ==
  ASSUME ConstantsAssumption, TypeInv, FenceInv, EventInv, QuestionMatchesStatus, RowStep
  PROVE  [Durable!Next]_(Durable!vars)
<1>1. CASE Quiet
  BY <1>1 DEF Quiet, Durable!vars
<1>2. CASE Clock
  <2>1. /\ run'.status = "running" /\ run.status = "running"
        /\ run'.fence = run.fence /\ UNCHANGED <<lastCommit, checkpoint>>
        /\ run'.owner = run.owner /\ run.owner # NoWorker
    BY <1>2 DEF Clock, FenceInv
  <2>2. CASE run.ttl > 0 <=> run'.ttl > 0
    BY <2>1, <2>2 DEF Durable!vars
  <2>3. CASE ~(run.ttl > 0 <=> run'.ttl > 0)
    <3>1. run.ttl > 0 /\ ~(run'.ttl > 0)
      <4>1. run.ttl \in Int /\ LeaseTicks \in Int /\ LeaseTicks > 0
        BY ConstantsAssumption DEF ConstantsAssumption, TypeInv, TypeOK, RunRow
      <4>2. run'.ttl = run.ttl - 1 \/ (run.ttl > 0 /\ run'.ttl = LeaseTicks)
        BY <1>2 DEF Clock
      <4> QED BY <2>3, <4>1, <4>2
    <3>2. Durable!Expire
      BY <2>1, <3>1 DEF Durable!Expire
    <3> QED BY <3>2 DEF Durable!Next
  <2> QED BY <2>2, <2>3
<1>3. ASSUME NEW w \in Worker, Take(w) PROVE Durable!Next
  <2>1. Durable!Acquire(w)
    BY <1>3, EventMoves, ConstantsAssumption DEF Take, Lease, By, Durable!Acquire
  <2> QED BY <2>1 DEF Durable!Next
<1>4. ASSUME NEW w \in Worker, Refuse(w) PROVE Durable!Next
  <2>1. Durable!Reject(w)
    BY <1>4, EventMoves DEF Refuse, Lease, By, Durable!Reject
  <2> QED BY <2>1 DEF Durable!Next
<1>5. ASSUME NEW w \in Worker, Hold(w) \/ Keep(w) PROVE Durable!Next
  <2>1. Durable!Write(w)
    BY <1>5, EventMoves DEF Hold, Keep, Lease, LeaseMatches, By, Durable!Write
  <2> QED BY <2>1 DEF Durable!Next
<1>6. ASSUME NEW w \in Worker, GiveUp(w) \/ Ask(w) PROVE Durable!Next
  <2>1. Durable!Yield(w)
    BY <1>6, EventMoves
       DEF GiveUp, Ask, Lease, LeaseMatches, By, Durable!Yield, Durable!Waiting
  <2> QED BY <2>1 DEF Durable!Next
<1>7. CASE TakenBack
  <2>1. LeaseExpired
    BY <1>7 DEF TakenBack, QuestionMatchesStatus
  <2>2. /\ run.status = "running" /\ ~(run.ttl > 0) /\ run'.status \in {"pending", "failed"}
        /\ ~(run'.status = "running")
        /\ run'.fence = run.fence /\ UNCHANGED lastCommit.event /\ lastCommit'.by = NoWorker
        /\ run'.status = "pending" => UNCHANGED checkpoint
    BY <1>7, <2>1 DEF TakenBack, LeaseExpired, Lease, By, QuestionMatchesStatus,
                      TypeInv, TypeOK, RunRow
  <2>3. Durable!TakeBack
    BY <2>2 DEF Durable!TakeBack
  <2> QED BY <2>3 DEF Durable!Next
<1>8. CASE Answered \/ Resumed \/ GivenUp
  <2>1. Durable!EndWait
    BY <1>8, EventMoves DEF Answered, Resumed, GivenUp, Lease, By, Durable!EndWait,
                            Durable!Waiting
  <2> QED BY <2>1 DEF Durable!Next
<1>9. CASE Cancelled
  <2>1. Durable!Cancel
    BY <1>9, EventMoves DEF Cancelled, Lease, By, ActiveStatuses, Durable!Cancel,
                            Durable!Terminal
  <2> QED BY <2>1 DEF Durable!Next
<1>10. CASE Announced
  <2>1. Durable!Announce
    BY <1>10, EventMoves DEF Announced, Lease, By, ActiveStatuses, Durable!Announce,
                             Durable!Terminal
  <2> QED BY <2>1 DEF Durable!Next
<1> QED BY <1>1, <1>2, <1>3, <1>4, <1>5, <1>6, <1>7, <1>8, <1>9, <1>10 DEF RowStep

\* The lease protocol implements the abstract job: whatever the workers, the clock and
\* the reconcilers do, there is at most one holder, a worker that is not the holder
\* commits neither an event nor a checkpoint, and the run changes hands only while
\* nobody holds it.
THEOREM DurableCorrect == Spec => ImplementsDurableRun
<1> DEFINE Inv == TypeInv /\ QuestionMatchesStatus /\ EventInv /\ FenceInv
<1>1. Init => Inv
  <2>1. Init => QuestionMatchesStatus /\ EventInv
    BY DEF Init, QuestionMatchesStatus, Pending, EventInv, Earlier
  <2>2. Init => FenceInv
    BY DEF Init, FenceInv, LeaseExclusive, Idle
  <2> QED BY <2>1, <2>2, ConstantsAssumption, TypeInit
<1>2. Inv /\ [Next]_vars => Inv'
  BY ConstantsAssumption, TypeNext, StepShape, QuestionsStep, EventStep, FenceStep
<1>3. Init => Durable!Init
  BY DEF Init, Durable!Init
<1>4. Inv /\ [Next]_vars => [Durable!Next]_(Durable!vars)
  BY ConstantsAssumption, StepShape, DurableStep
<1> QED BY <1>1, <1>2, <1>3, <1>4, PTL DEF Spec, ImplementsDurableRun, Durable!Spec

-----------------------------------------------------------------------------
(* Finished runs. *)

\* Once a run is completed, failed or cancelled, no stale worker, answer, reconciler
\* or late input changes its row, its checkpoint, its questions or its stream.
THEOREM TerminalCorrect == Spec => TerminalIsFinal
<1> DEFINE Final == run.status \in TerminalStatuses
                      => UNCHANGED <<run, checkpoint, questions, lastCommit>>
<1>1. ASSUME [Next]_vars, run.status \in TerminalStatuses
      PROVE  UNCHANGED <<run, checkpoint, questions, lastCommit>>
  <2> DEFINE Kept == UNCHANGED <<run, checkpoint, questions, lastCommit>>
  <2>1. ASSUME NEW w \in Worker, WorkerStep(w) PROVE Kept
    <3>1. ~LeaseMatches(w) /\ run.status # "pending"
      BY <1>1 DEF LeaseMatches, TerminalStatuses
    <3>2. \/ LoseLease(w) \/ Crash(w) \/ StepFails(w) \/ RunBatch(w) \/ InvokeApproved(w)
          \/ RetryApproved(w)
      BY <2>1, <3>1 DEF WorkerStep, Claim, ClaimOversized, RenewLease, LoadState, BeginRound,
           BeginSteeredRound, Compact, Delta, EndRound, FailRun, Complete, CompleteSteered,
           DirectResult, StartBatch, CompleteBatch, AskUser, RequestApproval,
           WaitForSubagents, RejectApproval, BeginApproved, AskApprovalAgain, SettleApproved
    <3> QED BY <3>2 DEF LoseLease, Crash, StepFails, RunBatch, InvokeApproved, RetryApproved
  <2>2. ~Recover
    <3>1. ~LeaseExpired /\ run.status \notin {"pending", "running"}
      BY <1>1 DEF LeaseExpired, TerminalStatuses
    <3>2. Recovered = run
      BY <3>1 DEF Recovered
    <3> QED BY <3>2 DEF Recover
  <2>3. ~(Tick \/ CancelRun \/ ResumeWait \/ FailWait \/ RespondQuestion
            \/ ResumeSteeringQuestion)
    BY <1>1 DEF Tick, CancelRun, ResumeWait, FailWait, RespondQuestion, Respond,
                ResumeSteeringQuestion, TerminalStatuses, ActiveStatuses
  <2>4. SubmitSteer \/ NotifySteer => Kept
    BY <1>1 DEF SubmitSteer, NotifySteer, TerminalStatuses, ActiveStatuses
  <2> QED BY <1>1, <2>1, <2>2, <2>3, <2>4 DEF Next, vars
<1>2. [Next]_vars => [Final]_vars
  BY <1>1
<1> QED BY <1>2, PTL DEF Spec, TerminalIsFinal

-----------------------------------------------------------------------------
(* The shapes a step can have, as far as tool calls, their questions and their *)
(* effects are concerned.                                                      *)

\* What worker w does to its own record, apart from its messages; the others keep theirs.
Became(w, phase, op, approval) ==
  /\ worker'[w].phase = phase /\ worker'[w].op = op /\ worker'[w].approval = approval
  /\ worker'[w].fence = worker[w].fence
  /\ \A v \in Worker \ {w} : worker'[v] = worker[v]

Back(w) == \E op, approval : Became(w, "head", op, approval)

Left(w) == worker'[w] = Idle /\ \A v \in Worker \ {w} : worker'[v] = worker[v]

Marked(marker, approval) == checkpoint'.marker = marker /\ checkpoint'.approval = approval

\* Worker v moves to phase `to' without a tool call, and enters the round loop only when
\* the checkpoint holds no approval.
Moves(v, to) ==
  /\ worker[v].phase \notin ToolPhase \cup {"failing"} /\ to \notin ToolPhase
  /\ worker[v].phase \in {"idle", "claimed"}
       => to = "claimed" \/ checkpoint.approval = NoApproval

\* No worker enters or goes on with a tool call.
Bystanders ==
  \A v \in Worker :
    \/ worker'[v] = worker[v]
    \/ worker'[v].phase \in {"idle", "failing"}
    \/ Moves(v, worker'[v].phase)

\* Calls are only added, and so are questions; a question that is closed stays as it is.
CallsGrow ==
  /\ Len(calls') >= Len(calls)
  /\ Len(calls') > Len(calls) => Len(calls') <= MaxCalls
  /\ \A c \in 1..Len(calls) : calls'[c] = calls[c]

QuestionsGrow ==
  \A q \in DOMAIN questions :
    /\ q \in DOMAIN questions' /\ questions'[q].op = questions[q].op
    /\ questions[q].status # "pending" => questions'[q] = questions[q]

\* A new question, about call op, for an approval that names it.
Posed(op, replaySafe) ==
  /\ DOMAIN questions' = DOMAIN questions \cup {Len(questions) + 1}
  /\ \A q \in DOMAIN questions : questions'[q] = questions[q]
  /\ questions'[Len(questions) + 1].op = op
  /\ checkpoint'.marker = checkpoint.marker
  /\ checkpoint'.approval.op = op
  /\ checkpoint'.approval.replaySafe = replaySafe
  /\ checkpoint'.approval.question = Len(questions) + 1
  /\ checkpoint'.approval.decision = "none"

Aside ==
  /\ CallsGrow /\ QuestionsGrow /\ Bystanders
  /\ Marked(checkpoint.marker, checkpoint.approval)
  /\ UNCHANGED effects

Loads(w) ==
  /\ LeaseMatches(w) /\ worker[w].phase = "claimed" /\ checkpoint.approval # NoApproval
  /\ Became(w, "approval", checkpoint.approval.op, checkpoint.approval)
  /\ UNCHANGED <<checkpoint, questions, history>>

Starts(w) ==
  /\ LeaseMatches(w) /\ worker[w].phase = "decided" /\ ~Executing
  /\ NewCall("batch")
  /\ Became(w, "batch", NextCall, worker[w].approval)
  /\ Marked([op |-> NextCall, phase |-> "executing"], checkpoint.approval)
  /\ run'.status = run.status
  /\ UNCHANGED <<questions, effects>>

Runs(w) ==
  /\ \/ /\ worker[w].phase = "batch"
        /\ Became(w, "batch_done", worker[w].op, worker[w].approval)
     \/ /\ worker[w].phase = "invoke"
        /\ Became(w, "invoked", worker[w].op, worker[w].approval)
  /\ effects' = [effects EXCEPT ![worker[w].op] = @ + 1]
  /\ UNCHANGED <<checkpoint, questions, calls>>

Ends(w) ==
  /\ LeaseMatches(w) /\ worker[w].phase = "batch_done"
  /\ checkpoint.marker = [op |-> worker[w].op, phase |-> "executing"]
  /\ Back(w)
  /\ Marked([op |-> worker[w].op, phase |-> "completed"], checkpoint.approval)
  /\ UNCHANGED <<questions, history>>

Requests(w) ==
  /\ LeaseMatches(w) /\ worker[w].phase = "decided"
  /\ \E b \in BOOLEAN :
       NewCall(IF b THEN "approval" ELSE "approval_once") /\ Posed(NextCall, b)
  /\ Left(w)
  /\ UNCHANGED effects

AsksAgain(w) ==
  /\ LeaseMatches(w) /\ worker[w].phase = "invoked" /\ worker[w].approval.replaySafe
  /\ Posed(worker[w].op, TRUE)
  /\ Left(w)
  /\ UNCHANGED history

Begins(w) ==
  /\ LeaseMatches(w) /\ worker[w].phase = "approval"
  /\ worker[w].approval.decision = "approved"
  /\ Became(w, "invoke", worker[w].op, worker[w].approval)
  /\ IF worker[w].approval.replaySafe
     THEN Marked(checkpoint.marker, checkpoint.approval)
     ELSE /\ ~Executing
          /\ Marked([op |-> worker[w].op, phase |-> "executing"], checkpoint.approval)
  /\ run'.status = run.status
  /\ UNCHANGED <<questions, history>>

Retries(w) ==
  /\ worker[w].phase = "invoked" /\ worker[w].approval.replaySafe
  /\ Became(w, "invoke", worker[w].op, worker[w].approval)
  /\ UNCHANGED <<checkpoint, questions, history>>

Closes(w) ==
  /\ LeaseMatches(w)
  /\ \/ worker[w].phase = "approval" /\ worker[w].approval.decision = "rejected"
     \/ worker[w].phase = "invoked"
  /\ Back(w)
  /\ IF worker[w].approval.decision = "approved" /\ ~worker[w].approval.replaySafe
     THEN Marked([op |-> worker[w].op, phase |-> "completed"], NoApproval)
     ELSE Marked(checkpoint.marker, NoApproval)
  /\ UNCHANGED <<questions, history>>

Decides ==
  /\ run.status = "waiting_for_user"
  /\ QuestionsGrow
  /\ LET a == checkpoint.approval
         b == checkpoint'.approval
     IN  /\ a.question \in DOMAIN questions
         /\ b.op = a.op /\ b.question = a.question /\ b.replaySafe = a.replaySafe
         /\ b.decision = "approved" => /\ questions'[a.question].status = "answered"
                                       /\ questions'[a.question].answer = "option-1"
  /\ checkpoint'.marker = checkpoint.marker
  /\ UNCHANGED <<worker, history>>

CallStep ==
  \/ Aside \/ Decides
  \/ \E w \in Worker :
       \/ Loads(w) \/ Starts(w) \/ Runs(w) \/ Ends(w) \/ Requests(w) \/ AsksAgain(w)
       \/ Begins(w) \/ Retries(w) \/ Closes(w)

KindOf(a) == IF a.replaySafe THEN "approval" ELSE "approval_once"

\* An approval names a call of its kind and the question about it; if it is approved,
\* the question was answered with the first option.
Known(a, made, asked) ==
  /\ a.op \in 1..Len(made) /\ made[a.op] = KindOf(a)
  /\ a.question \in DOMAIN asked /\ asked[a.question].op = a.op
  /\ a.decision = "approved" => /\ asked[a.question].status = "answered"
                                /\ asked[a.question].answer = "option-1"

\* What workers and the checkpoint know of the calls they work on.
WorkerKnown(w) ==
  /\ worker[w].phase \in {"batch", "batch_done"}
       => worker[w].op \in 1..Len(calls) /\ calls[worker[w].op] = "batch"
  /\ worker[w].phase \in ApprovalPhase
       => /\ worker[w].op = worker[w].approval.op
          /\ Known(worker[w].approval, calls, questions)
  /\ worker[w].phase \in {"invoke", "invoked"} => worker[w].approval.decision = "approved"

KnownInv ==
  /\ checkpoint.approval # NoApproval => Known(checkpoint.approval, calls, questions)
  /\ \A w \in Worker : WorkerKnown(w)
  /\ Len(calls) <= MaxCalls
  /\ \A c \in Call : c > Len(calls) => effects[c] = 0

-----------------------------------------------------------------------------
(* Every step has one of the shapes. *)

\* The model's next call.
LEMMA NewCallShape ==
  ASSUME TypeOK, NEW kind \in CallKind, NewCall(kind)
  PROVE  /\ CallsGrow /\ Len(calls') = NextCall /\ calls'[NextCall] = kind
         /\ NextCall \in Nat
BY ConstantsAssumption DEF ConstantsAssumption, TypeOK, NewCall, CallsGrow, NextCall

\* A step without a new call keeps the calls.
LEMMA SameCalls == ASSUME TypeOK, UNCHANGED calls PROVE CallsGrow
BY DEF TypeOK, CallsGrow

\* A step without questions keeps the questions.
LEMMA SameQuestions == ASSUME UNCHANGED questions PROVE QuestionsGrow
BY DEF QuestionsGrow

\* Settling a checkpoint closes its history only.
LEMMA SettledFields ==
  ASSUME NEW c \in Checkpoint
  PROVE  Settled(c).marker = c.marker /\ Settled(c).approval = c.approval
<1> DEFINE m == IF Len(c.messages) > 0 /\ c.messages[Len(c.messages)].role = "call"
                THEN Append(c.messages, ToolMessage(c.messages[Len(c.messages)].op))
                ELSE c.messages
           d == [c EXCEPT !.wait = 0]
<1>1. Settled(c) = [d EXCEPT !.messages = m]
  BY DEF Settled
<1>2. d.marker = c.marker /\ d.approval = c.approval
      /\ DOMAIN d = {"messages", "safeDraft", "marker", "approval", "wait"}
  BY DEF Checkpoint
<1> HIDE DEF m, d
<1> QED BY <1>1, <1>2

\* A step that leaves the question, the marker and the tool calls to others.
LEMMA AsideShape ==
  ASSUME TypeOK, UNCHANGED effects, UNCHANGED calls \/ (\E kind \in CallKind : NewCall(kind)),
         QuestionsGrow, Bystanders, Marked(checkpoint.marker, checkpoint.approval)
  PROVE  Aside
BY SameCalls, NewCallShape DEF Aside

\* One worker leaves, fails, or moves between phases in which it holds no call.
LEMMA MoveShape ==
  ASSUME TypeOK, NEW w \in Worker, NEW x, worker' = [worker EXCEPT ![w] = x],
         \/ x.phase \in {"idle", "failing"}
         \/ Moves(w, x.phase)
  PROVE  Bystanders
BY DEF TypeOK, Bystanders

\* A task that ends holds no call any more.
LEMMA LeaveShape == ASSUME TypeOK, NEW w \in Worker, Leave(w) PROVE Bystanders /\ Left(w)
<1>1. Idle.phase = "idle"
  BY DEF Idle
<1> QED BY <1>1, MoveShape DEF Leave, Left, TypeOK

\* Changing phase keeps the call, the approval and the fence.
LEMMA GotoShape ==
  ASSUME TypeOK, NEW w \in Worker, NEW p, Goto(w, p)
  PROVE  /\ Became(w, p, worker[w].op, worker[w].approval)
         /\ Moves(w, p) => Bystanders
<1> DEFINE x == [worker[w] EXCEPT !.phase = p]
<1>1. worker' = [worker EXCEPT ![w] = x]
  BY DEF Goto, TypeOK
<1>2. x.phase = p /\ x.op = worker[w].op /\ x.approval = worker[w].approval
      /\ x.fence = worker[w].fence
  BY DEF TypeOK, WorkerState
<1> HIDE DEF x
<1>3. Became(w, p, worker[w].op, worker[w].approval)
  BY <1>1, <1>2 DEF Became, TypeOK
<1> QED BY <1>1, <1>2, <1>3, MoveShape

\* A task that goes back to the top of the loop drops its call.
LEMMA NextRoundShape ==
  ASSUME TypeOK, NEW w \in Worker, NEW m, NextRound(w, m)
  PROVE  Back(w) /\ (Moves(w, "head") => Bystanders)
<1> DEFINE x == [Idle EXCEPT !.phase = "head", !.messages = m, !.fence = worker[w].fence]
<1>1. worker' = [worker EXCEPT ![w] = x]
  BY DEF NextRound
<1>2. x.phase = "head" /\ x.fence = worker[w].fence
  BY DEF Idle
<1> HIDE DEF x
<1>3. Became(w, "head", x.op, x.approval)
  BY <1>1, <1>2 DEF Became, TypeOK
<1> QED BY <1>1, <1>2, <1>3, MoveShape DEF Back

\* The steps of a worker that are about no tool call.
LEMMA LeaseCalls ==
  ASSUME ConstantsAssumption, TypeOK, NEW w \in Worker,
         \/ Claim(w) \/ ClaimOversized(w) \/ RenewLease(w) \/ LoseLease(w) \/ Crash(w)
         \/ FailRun(w) \/ StepFails(w)
  PROVE  Aside
<1>1. UNCHANGED <<effects, calls, questions>>
  BY DEF Claim, ClaimOversized, RenewLease, LoseLease, Crash, FailRun, StepFails, history
<1>2. Marked(checkpoint.marker, checkpoint.approval)
  <2>1. UNCHANGED checkpoint \/ checkpoint' = Settled(checkpoint)
    BY DEF Claim, ClaimOversized, RenewLease, LoseLease, Crash, FailRun, StepFails
  <2> QED BY <2>1, SettledFields DEF Marked, TypeOK
<1>3. Bystanders
  <2>1. CASE Claim(w)
    <3> DEFINE x == [Idle EXCEPT !.phase = "claimed", !.fence = run.fence + 1]
    <3>1. x.phase = "claimed"
      BY DEF Idle
    <3>2. worker' = [worker EXCEPT ![w] = x] /\ worker[w].phase = "idle"
      BY <2>1 DEF Claim
    <3> HIDE DEF x
    <3> QED BY <3>1, <3>2, MoveShape DEF Moves, ToolPhase
  <2>2. CASE ClaimOversized(w) \/ RenewLease(w)
    BY <2>2 DEF ClaimOversized, RenewLease, Bystanders
  <2>3. CASE LoseLease(w) \/ Crash(w) \/ FailRun(w)
    BY <2>3, LeaveShape DEF LoseLease, Crash, FailRun
  <2>4. CASE StepFails(w)
    <3> DEFINE x == [Idle EXCEPT !.phase = "failing", !.fence = worker[w].fence]
    <3>1. x.phase = "failing"
      BY DEF Idle
    <3>2. worker' = [worker EXCEPT ![w] = x]
      BY <2>4 DEF StepFails
    <3> HIDE DEF x
    <3> QED BY <3>1, <3>2, MoveShape
  <2> QED BY <2>1, <2>2, <2>3, <2>4
<1> QED BY <1>1, <1>2, <1>3, SameQuestions, AsideShape

\* The checkpoint of a safe point, whose other columns a transaction may set.
LEMMA SafeMarks ==
  ASSUME TypeOK, NEW m \in Seq(Message),
         \/ checkpoint' = Safe(m)
         \/ \E wait : checkpoint' = [Safe(m) EXCEPT !.wait = wait]
  PROVE  Marked(checkpoint.marker, checkpoint.approval)
<1> DEFINE s == Safe(m)
<1>1. s \in Checkpoint /\ s.marker = checkpoint.marker /\ s.approval = checkpoint.approval
  BY SafeType, SafeFields
<1> HIDE DEF s
<1>2. CASE checkpoint' = s
  BY <1>1, <1>2 DEF Marked
<1>3. ASSUME NEW wait, checkpoint' = [s EXCEPT !.wait = wait]
      PROVE  Marked(checkpoint.marker, checkpoint.approval)
  BY <1>1, <1>3 DEF Marked, Checkpoint
<1> QED BY <1>2, <1>3 DEF s

\* A round that starts with new input goes on with the history it has just saved.
LEMMA SteeredRoundShape ==
  ASSUME TypeOK, NEW w \in Worker, BeginSteeredRound(w)
  PROVE  \E x : /\ worker' = [worker EXCEPT ![w] = x]
                /\ x.phase = "round" /\ x.fence = worker[w].fence
                /\ x.messages = WithSteers(worker[w].messages)
<1> DEFINE m == WithSteers(worker[w].messages)
           x == [worker[w] EXCEPT !.messages = m, !.phase = "round"]
<1>1. worker' = [worker EXCEPT ![w] = x]
  BY DEF BeginSteeredRound, TypeOK
<1> HIDE DEF m
<1>2. x.phase = "round" /\ x.fence = worker[w].fence /\ x.messages = m
  BY DEF TypeOK, WorkerState
<1> HIDE DEF x
<1> QED BY <1>1, <1>2 DEF m

\* The steps of the round loop that are about no tool call.
LEMMA RoundCalls ==
  ASSUME ConstantsAssumption, TypeOK, NEW w \in Worker,
         \/ BeginRound(w) \/ BeginSteeredRound(w) \/ Compact(w) \/ Delta(w) \/ EndRound(w)
         \/ Complete(w) \/ CompleteSteered(w)
  PROVE  Aside
<1>1. UNCHANGED <<effects, calls, questions>>
  BY DEF BeginRound, BeginSteeredRound, Compact, Delta, EndRound, Complete, CompleteSteered,
         ConsumeSteers, history
<1>2. worker[w].messages \in Seq(Message)
  BY DEF TypeOK, WorkerState
<1>3. Marked(checkpoint.marker, checkpoint.approval)
  <2>1. CASE BeginRound(w) \/ Delta(w) \/ EndRound(w)
    BY <2>1 DEF BeginRound, Delta, EndRound, Marked
  <2>2. CASE BeginSteeredRound(w) \/ Complete(w) \/ CompleteSteered(w)
    BY <1>2, <2>2, SafeMarks, WithSteersShape
       DEF BeginSteeredRound, Complete, CompleteSteered, ConsumeSteers
  <2>3. CASE Compact(w)
    <3> DEFINE m == worker[w].messages
    <3>1. PICK i \in 1..Len(m) - 1 :
            checkpoint' = Safe(SubSeq(m, 1, i - 1) \o SubSeq(m, i + 2, Len(m)))
      BY <2>3 DEF Compact
    <3>2. SubSeq(m, 1, i - 1) \o SubSeq(m, i + 2, Len(m)) \in Seq(Message)
      BY <1>2
    <3> QED BY <3>1, <3>2, SafeMarks
  <2> QED BY <2>1, <2>2, <2>3
<1>4. Bystanders
  <2>1. CASE BeginRound(w) \/ EndRound(w)
    BY <2>1, GotoShape DEF BeginRound, EndRound, Moves, ToolPhase
  <2>2. CASE Delta(w)
    BY <2>2 DEF Delta, Bystanders
  <2>3. CASE Complete(w)
    BY <2>3, LeaveShape DEF Complete
  <2>4. CASE Compact(w)
    <3>1. PICK kept : worker' = [worker EXCEPT ![w].messages = kept]
                      /\ worker[w].phase = "round"
      BY <2>4 DEF Compact
    <3> DEFINE x == [worker[w] EXCEPT !.messages = kept]
    <3>2. worker' = [worker EXCEPT ![w] = x]
      BY <3>1 DEF TypeOK
    <3>3. x.phase = "round"
      BY <3>1 DEF TypeOK, WorkerState
    <3> HIDE DEF x
    <3> QED BY <3>1, <3>2, <3>3, MoveShape DEF Moves, ToolPhase
  <2>5. CASE BeginSteeredRound(w)
    <3>1. worker[w].phase = "head"
      BY <2>5 DEF BeginSteeredRound
    <3> QED BY <2>5, <3>1, SteeredRoundShape, MoveShape DEF Moves, ToolPhase
  <2>6. CASE CompleteSteered(w)
    BY <2>6, NextRoundShape DEF CompleteSteered, Moves, ToolPhase
  <2> QED BY <2>1, <2>2, <2>3, <2>4, <2>5, <2>6
<1> QED BY <1>1, <1>3, <1>4, SameQuestions, AsideShape

\* A question about call op.
LEMMA PoseShape ==
  ASSUME TypeOK, NEW w \in Worker, NEW op \in Call, NEW m \in Seq(Message),
         NEW a \in Approval, Pause(w, op, m, a)
  PROVE  /\ QuestionsGrow
         /\ Left(w) /\ Bystanders
         /\ a = NoApproval => Marked(checkpoint.marker, checkpoint.approval)
         /\ a # NoApproval /\ a.op = op => Posed(op, a.replaySafe)
<1>1. Left(w) /\ Bystanders
  BY LeaveShape DEF Pause
<1> DEFINE n == Len(questions) + 1
           new == [op |-> op, approval |-> a # NoApproval, status |-> "pending",
                   answer |-> "none"]
           s == Safe(m)
           b == [a EXCEPT !.question = n]
           d == [b EXCEPT !.decision = "none"]
           g == IF a = NoApproval THEN s.approval ELSE d
<1>2. questions' = Append(questions, new) /\ new.op = op
  BY DEF Pause
<1> HIDE DEF new
<1>3. /\ DOMAIN questions' = DOMAIN questions \cup {n}
      /\ \A q \in DOMAIN questions : questions'[q] = questions[q]
      /\ questions'[n].op = op
  BY <1>2 DEF TypeOK
<1>4. QuestionsGrow
  BY <1>3 DEF QuestionsGrow
<1>5. checkpoint'.marker = checkpoint.marker /\ checkpoint'.approval = g
  <2>1. s \in Checkpoint /\ s.marker = checkpoint.marker
    BY SafeType, SafeFields
  <2>2. checkpoint' = [s EXCEPT !.approval = g]
    BY DEF Pause
  <2> HIDE DEF s, g
  <2> QED BY <2>1, <2>2 DEF Checkpoint
<1>6. a = NoApproval => Marked(checkpoint.marker, checkpoint.approval)
  BY <1>5, SafeFields DEF Marked
<1>7. d.op = a.op /\ d.replaySafe = a.replaySafe /\ d.question = n /\ d.decision = "none"
  <2> HIDE DEF n
  <2>1. b.op = a.op /\ b.replaySafe = a.replaySafe /\ b.question = n
        /\ DOMAIN b = {"op", "question", "replaySafe", "decision"}
    BY DEF Approval
  <2> HIDE DEF b
  <2> QED BY <2>1
<1>8. a # NoApproval /\ a.op = op => Posed(op, a.replaySafe)
  BY <1>3, <1>5, <1>7 DEF Posed
<1> QED BY <1>1, <1>4, <1>6, <1>8

\* The approval a request starts with.
LEMMA RequestedApproval ==
  ASSUME NEW n \in Call, NEW b \in BOOLEAN
  PROVE  LET a == [NoApproval EXCEPT !.op = n, !.replaySafe = b]
         IN  a \in Approval /\ a.op = n /\ a.replaySafe = b /\ a # NoApproval
<1> DEFINE c == [NoApproval EXCEPT !.op = n]
           d == [c EXCEPT !.replaySafe = b]
<1>1. n # 0 /\ NoApproval.op = 0
  BY DEF Call, NoApproval
<1>2. c \in Approval /\ c.op = n
  BY DEF NoApproval, Approval
<1>3. [NoApproval EXCEPT !.op = n, !.replaySafe = b] = d
  OBVIOUS
<1> HIDE DEF c
<1>4. d \in Approval /\ d.op = n /\ d.replaySafe = b
  BY <1>2 DEF Approval
<1> HIDE DEF d
<1> QED BY <1>1, <1>3, <1>4

\* Steps in which the model names a tool.
LEMMA ToolCalls ==
  ASSUME ConstantsAssumption, TypeInv, NEW w \in Worker,
         \/ DirectResult(w) \/ AskUser(w) \/ WaitForSubagents(w) \/ StartBatch(w)
         \/ \E b \in BOOLEAN : RequestApproval(w, b)
  PROVE  Aside \/ Starts(w) \/ Requests(w)
<1> USE DEF TypeInv
<1>1. NextCall \in Call /\ worker[w].phase = "decided" /\ LeaseMatches(w)
  BY NewCallType DEF DirectResult, AskUser, WaitForSubagents, StartBatch, RequestApproval,
                     CallKind
<1>2. /\ Append(worker[w].messages, CallMessage(NextCall)) \in Seq(Message)
      /\ worker[w].messages \o <<CallMessage(NextCall), ToolMessage(NextCall)>> \in Seq(Message)
  BY <1>1, CallMessages
<1>3. NoApproval \in Approval
  BY DEF NoApproval, Approval
<1>4. CASE DirectResult(w) \/ WaitForSubagents(w)
  <2>1. UNCHANGED <<effects, questions>> /\ \E kind \in CallKind : NewCall(kind)
    BY <1>4 DEF DirectResult, WaitForSubagents, CallKind
  <2>2. Marked(checkpoint.marker, checkpoint.approval)
    BY <1>2, <1>4, SafeMarks DEF DirectResult, WaitForSubagents
  <2>3. Bystanders
    BY <1>1, <1>4, NextRoundShape, LeaveShape
       DEF DirectResult, WaitForSubagents, Moves, ToolPhase
  <2> QED BY <2>1, <2>2, <2>3, SameQuestions, AsideShape
<1>5. CASE AskUser(w)
  <2>1. UNCHANGED effects /\ \E kind \in CallKind : NewCall(kind)
    BY <1>5 DEF AskUser, CallKind
  <2>2. Pause(w, NextCall, Append(worker[w].messages, CallMessage(NextCall)), NoApproval)
    BY <1>5 DEF AskUser
  <2> QED BY <1>1, <1>2, <1>3, <2>1, <2>2, PoseShape, AsideShape
<1>6. CASE StartBatch(w)
  <2> DEFINE k == [op |-> NextCall, phase |-> "executing"]
             x == [worker[w] EXCEPT !.op = NextCall, !.phase = "batch"]
  <2>1. checkpoint' = [checkpoint EXCEPT !.marker = k] /\ ~Executing
    BY <1>6 DEF StartBatch, MarkExecuting
  <2>2. Marked(k, checkpoint.approval)
    <3> HIDE DEF k
    <3> QED BY <2>1 DEF Marked, TypeOK, Checkpoint
  <2>3. worker' = [worker EXCEPT ![w] = x]
    BY <1>6 DEF StartBatch, TypeOK
  <2>4. x.op = NextCall /\ x.phase = "batch" /\ x.approval = worker[w].approval
        /\ x.fence = worker[w].fence
    BY DEF TypeOK, WorkerState
  <2> HIDE DEF x
  <2>5. Became(w, "batch", NextCall, worker[w].approval)
    BY <2>3, <2>4 DEF Became, TypeOK
  <2>6. run'.status = run.status
    BY <1>6, CommitFields DEF StartBatch, TypeOK
  <2> QED BY <1>1, <1>6, <2>1, <2>2, <2>5, <2>6 DEF StartBatch, Starts
<1>7. ASSUME NEW b \in BOOLEAN, RequestApproval(w, b) PROVE Requests(w)
  <2> DEFINE a == [NoApproval EXCEPT !.op = NextCall, !.replaySafe = b]
  <2>1. a \in Approval /\ a.op = NextCall /\ a.replaySafe = b /\ a # NoApproval
    BY <1>1, RequestedApproval
  <2>2. Pause(w, NextCall, Append(worker[w].messages, CallMessage(NextCall)), a)
    BY <1>7 DEF RequestApproval
  <2> HIDE DEF a
  <2>3. Posed(NextCall, b) /\ Left(w)
    BY <1>1, <1>2, <2>1, <2>2, PoseShape
  <2> QED BY <1>1, <1>7, <2>3 DEF RequestApproval, Requests
<1> QED BY <1>4, <1>5, <1>6, <1>7

\* Running a tool, once or again, happens outside every transaction.
LEMMA RunShape ==
  ASSUME TypeOK, NEW w \in Worker, RunBatch(w) \/ InvokeApproved(w)
  PROVE  Runs(w)
<1>1. CASE RunBatch(w)
  BY <1>1, GotoShape DEF RunBatch, Runs
<1>2. CASE InvokeApproved(w)
  <2> DEFINE t == worker[w].tries + 1
             x == [worker[w] EXCEPT !.tries = t, !.phase = "invoked"]
  <2>1. worker' = [worker EXCEPT ![w] = x]
    BY <1>2 DEF InvokeApproved, TypeOK
  <2> HIDE DEF t
  <2>2. x.phase = "invoked" /\ x.op = worker[w].op /\ x.approval = worker[w].approval
        /\ x.fence = worker[w].fence
    BY DEF TypeOK, WorkerState
  <2> HIDE DEF x
  <2>3. Became(w, "invoked", worker[w].op, worker[w].approval)
    BY <2>1, <2>2 DEF Became, TypeOK
  <2> QED BY <1>2, <2>3 DEF InvokeApproved, Runs
<1> QED BY <1>1, <1>2

\* Completing a batch closes the marker of that batch.
LEMMA EndShape ==
  ASSUME TypeInv, NEW w \in Worker, CompleteBatch(w)
  PROVE  Ends(w)
<1> USE DEF TypeInv
<1> DEFINE op == worker[w].op
           m == worker[w].messages \o <<CallMessage(op), ToolMessage(op)>>
           k == [op |-> op, phase |-> "completed"]
           s == Safe(m)
<1>1. /\ LeaseMatches(w) /\ worker[w].phase = "batch_done"
      /\ checkpoint.marker = [op |-> op, phase |-> "executing"]
      /\ checkpoint' = [s EXCEPT !.marker = k]
      /\ NextRound(w, m) /\ UNCHANGED <<questions, history>>
  BY DEF CompleteBatch, MarkCompleted
<1>2. m \in Seq(Message)
  BY <1>1, CallMessages DEF CallsKnown, WorkersKnowCall, ToolPhase
<1>3. s \in Checkpoint /\ s.approval = checkpoint.approval
  BY <1>2, SafeType, SafeFields
<1>4. Marked(k, checkpoint.approval)
  <2> HIDE DEF k, s
  <2> QED BY <1>1, <1>3 DEF Marked, Checkpoint
<1>5. Back(w)
  BY <1>1, NextRoundShape
<1> QED BY <1>1, <1>4, <1>5 DEF Ends

\* A claimed task takes up the approval of the checkpoint, if there is one.
LEMMA LoadShape ==
  ASSUME TypeOK, NEW w \in Worker, LoadState(w)
  PROVE  Aside \/ Loads(w)
<1> DEFINE p == IF checkpoint.approval = NoApproval THEN "head" ELSE "approval"
           m == checkpoint.messages
           a == checkpoint.approval
           o == checkpoint.approval.op
           x == [worker[w] EXCEPT !.messages = m, !.approval = a, !.op = o, !.phase = p]
<1>1. /\ worker' = [worker EXCEPT ![w] = x] /\ worker[w].phase = "claimed"
      /\ LeaseMatches(w) /\ UNCHANGED <<checkpoint, questions, history>>
  BY DEF LoadState, TypeOK
<1>2. x.phase = p /\ x.op = o /\ x.approval = a /\ x.fence = worker[w].fence
  <2> HIDE DEF p, m, a, o
  <2> QED BY DEF TypeOK, WorkerState
<1> HIDE DEF x
<1>3. CASE a = NoApproval
  <2>1. Bystanders
    BY <1>1, <1>2, <1>3, MoveShape DEF Moves, ToolPhase
  <2> QED BY <1>1, <2>1, SameQuestions, AsideShape DEF Marked, history
<1>4. CASE a # NoApproval
  <2>1. Became(w, "approval", o, a)
    BY <1>1, <1>2, <1>4 DEF Became, TypeOK
  <2> QED BY <1>1, <1>4, <2>1 DEF Loads
<1> QED BY <1>3, <1>4

\* Closing an approval.
LEMMA CloseShape ==
  ASSUME TypeInv, NEW w \in Worker, RejectApproval(w) \/ SettleApproved(w)
  PROVE  Closes(w)
<1> USE DEF TypeInv
<1> DEFINE m == Append(worker[w].messages, ToolMessage(worker[w].op))
           k == [op |-> worker[w].op, phase |-> "completed"]
           s == Safe(m)
           once == worker[w].approval.decision = "approved" /\ ~worker[w].approval.replaySafe
<1>1. /\ LeaseMatches(w) /\ ApprovalClosed(w) /\ UNCHANGED <<questions, history>>
      /\ \/ worker[w].phase = "approval" /\ worker[w].approval.decision = "rejected"
         \/ worker[w].phase = "invoked"
  BY DEF RejectApproval, SettleApproved
<1>2. m \in Seq(Message)
  BY <1>1, CallMessages DEF CallsKnown, WorkersKnowCall, ToolPhase
<1>3. s \in Checkpoint /\ s.marker = checkpoint.marker
  BY <1>2, SafeType, SafeFields
<1>4. Back(w)
  BY <1>1, NextRoundShape DEF ApprovalClosed
<1>5. once => /\ checkpoint.marker = [op |-> worker[w].op, phase |-> "executing"]
              /\ checkpoint' = [s EXCEPT !.approval = NoApproval, !.marker = k]
  BY <1>1 DEF ApprovalClosed
<1>6. ~once => checkpoint' = [s EXCEPT !.approval = NoApproval]
  BY <1>1 DEF ApprovalClosed
<1>7. once => Marked(k, NoApproval)
  <2> HIDE DEF k, s
  <2> QED BY <1>3, <1>5 DEF Marked, Checkpoint
<1>8. ~once => Marked(checkpoint.marker, NoApproval)
  <2> HIDE DEF s
  <2> QED BY <1>3, <1>6 DEF Marked, Checkpoint
<1> QED BY <1>1, <1>4, <1>5, <1>7, <1>8 DEF Closes

\* Beginning an approved call marks it, unless it is replay-safe.
LEMMA BeginShape ==
  ASSUME TypeOK, NEW w \in Worker, BeginApproved(w)
  PROVE  Begins(w)
<1> DEFINE x == [worker[w] EXCEPT !.tries = 0, !.phase = "invoke"]
           k == [op |-> worker[w].op, phase |-> "executing"]
<1>1. worker' = [worker EXCEPT ![w] = x]
  BY DEF BeginApproved, TypeOK
<1>2. x.phase = "invoke" /\ x.op = worker[w].op /\ x.approval = worker[w].approval
      /\ x.fence = worker[w].fence
  BY DEF TypeOK, WorkerState
<1> HIDE DEF x
<1>3. Became(w, "invoke", worker[w].op, worker[w].approval)
  BY <1>1, <1>2 DEF Became, TypeOK
<1>6. run'.status = run.status
  BY CommitFields DEF BeginApproved, TypeOK
<1>4. CASE worker[w].approval.replaySafe
  BY <1>3, <1>4, <1>6 DEF BeginApproved, Begins, Marked
<1>5. CASE ~worker[w].approval.replaySafe
  <2>1. checkpoint' = [checkpoint EXCEPT !.marker = k] /\ ~Executing
    BY <1>5 DEF BeginApproved, MarkExecuting
  <2>2. Marked(k, checkpoint.approval)
    <3> HIDE DEF k
    <3> QED BY <2>1 DEF Marked, TypeOK, Checkpoint
  <2> QED BY <1>3, <1>5, <1>6, <2>1, <2>2 DEF BeginApproved, Begins
<1> QED BY <1>4, <1>5

\* Asking again poses a new question about the call of the approval.
LEMMA AgainShape ==
  ASSUME TypeInv, KnownInv, NEW w \in Worker, AskApprovalAgain(w)
  PROVE  AsksAgain(w)
<1> USE DEF TypeInv
<1>1. /\ LeaseMatches(w) /\ worker[w].phase = "invoked" /\ worker[w].approval.replaySafe
      /\ Pause(w, worker[w].op, worker[w].messages, worker[w].approval)
      /\ UNCHANGED history
  BY DEF AskApprovalAgain
<1>2. worker[w].approval \in Approval /\ worker[w].messages \in Seq(Message)
  BY DEF TypeOK, WorkerState
<1>3. worker[w].op \in Call /\ worker[w].approval.op \in Call
  BY <1>1 DEF CallsKnown, WorkersKnowCall, ToolPhase, ApprovalPhase
<1>4. worker[w].approval # NoApproval
  BY <1>3 DEF NoApproval, Call
<1>5. worker[w].approval.op = worker[w].op
  BY <1>1 DEF KnownInv, WorkerKnown, ApprovalPhase
<1> QED BY <1>1, <1>2, <1>3, <1>4, <1>5, PoseShape DEF AsksAgain

\* An answer decides the approval it is about, or only closes its own question.
LEMMA RespondShape ==
  ASSUME TypeInv, NEW q \in DOMAIN questions,
         NEW answer \in {"none", "option-1", "option-2", "text"}, Respond(q, answer)
  PROVE  Aside \/ Decides
<1> USE DEF TypeInv
<1> DEFINE st == IF answer = "none" THEN "cancelled" ELSE "answered"
           x == [questions[q] EXCEPT !.status = st]
           y == [x EXCEPT !.answer = answer]
<1>1. questions[q] \in Question
  BY DEF TypeOK
<1>2. y.op = questions[q].op /\ y.status = st /\ y.answer = answer
  <2> HIDE DEF st
  <2>1. x.op = questions[q].op /\ x.status = st
        /\ DOMAIN x = {"op", "approval", "status", "answer"}
    BY <1>1 DEF Question
  <2> HIDE DEF x
  <2> QED BY <2>1
<1>3. questions' = [questions EXCEPT ![q] = y]
  BY DEF Respond, TypeOK
<1> HIDE DEF x, y
<1>4. QuestionsGrow /\ questions'[q] = y
  BY <1>2, <1>3 DEF QuestionsGrow, Respond, TypeOK
<1>5. UNCHANGED <<worker, history>> /\ run.status = "waiting_for_user"
  BY DEF Respond
<1>6. CASE questions[q].approval
  <2> DEFINE d == Decision(answer)
             b == [checkpoint.approval EXCEPT !.decision = d]
  <2>1. checkpoint' = [checkpoint EXCEPT !.approval = b] /\ checkpoint.approval.question = q
    BY <1>6 DEF Respond, TypeOK, Checkpoint
  <2>2. checkpoint.approval \in Approval
    BY DEF TypeOK, Checkpoint
  <2>3. d = "approved" => answer = "option-1"
    BY DEF Decision
  <2> HIDE DEF d
  <2>4. b.op = checkpoint.approval.op /\ b.question = q /\ b.decision = d
        /\ b.replaySafe = checkpoint.approval.replaySafe
    BY <2>1, <2>2 DEF Approval
  <2> HIDE DEF b
  <2>5. checkpoint'.marker = checkpoint.marker /\ checkpoint'.approval = b
    BY <2>1 DEF TypeOK, Checkpoint
  <2>6. Decides
    BY <1>2, <1>4, <1>5, <2>1, <2>3, <2>4, <2>5 DEF Decides
  <2> QED BY <2>6
<1>7. CASE ~questions[q].approval
  <2> DEFINE m == Append(checkpoint.messages, ToolMessage(questions[q].op))
  <2>1. checkpoint' = [checkpoint EXCEPT !.messages = m]
    BY <1>7 DEF Respond, TypeOK, Checkpoint
  <2> HIDE DEF m
  <2>2. Marked(checkpoint.marker, checkpoint.approval)
    BY <2>1 DEF Marked, TypeOK, Checkpoint
  <2> QED BY <1>4, <1>5, <2>2, AsideShape DEF Bystanders, history
<1> QED BY <1>6, <1>7

\* The other transactions of the API and of the reconcilers are about no tool call.
LEMMA EnvironmentCalls ==
  ASSUME TypeInv, \/ Tick \/ Recover \/ SubmitSteer \/ NotifySteer
                  \/ CancelRun \/ ResumeWait \/ FailWait
  PROVE  Aside
<1> USE DEF TypeInv
<1>1. UNCHANGED <<worker, calls, effects>>
  BY DEF Tick, Recover, SubmitSteer, NotifySteer, CancelRun, ResumeWait, FailWait, history
<1>2. QuestionsGrow
  <2>1. CASE CancelRun
    <3> DEFINE x(q) == [questions[q] EXCEPT !.status = "cancelled"]
    <3>1. \A q \in DOMAIN questions : questions'[q] =
            IF q \in Pending(questions) THEN x(q) ELSE questions[q]
      BY <2>1 DEF CancelRun
    <3>2. \A q \in DOMAIN questions : x(q).op = questions[q].op
      BY DEF TypeOK, Question
    <3>3. DOMAIN questions' = DOMAIN questions
      BY <2>1 DEF CancelRun
    <3> HIDE DEF x
    <3> QED BY <3>1, <3>2, <3>3 DEF QuestionsGrow, Pending
  <2>2. CASE ~CancelRun
    BY <2>2, SameQuestions DEF Tick, Recover, SubmitSteer, NotifySteer, ResumeWait, FailWait
  <2> QED BY <2>1, <2>2
<1>3. Marked(checkpoint.marker, checkpoint.approval)
  <2>1. CASE ResumeWait
    <3> DEFINE m == Append(checkpoint.messages, ToolMessage(checkpoint.wait))
    <3>1. checkpoint' = [Safe(m) EXCEPT !.wait = 0] /\ checkpoint.wait \in Call
      BY <2>1 DEF ResumeWait, CallsKnown
    <3>2. m \in Seq(Message)
      BY <3>1 DEF TypeOK, Checkpoint, ToolMessage, Message
    <3> QED BY <3>1, <3>2, SafeMarks
  <2>2. CASE ~ResumeWait
    <3>1. UNCHANGED checkpoint \/ checkpoint' = Settled(checkpoint)
      BY <2>2 DEF Tick, Recover, SubmitSteer, NotifySteer, CancelRun, FailWait
    <3> QED BY <3>1, SettledFields DEF Marked, TypeOK
  <2> QED BY <2>1, <2>2
<1> QED BY <1>1, <1>2, <1>3, AsideShape DEF Bystanders

\* Every step has one of the shapes, as far as tool calls are concerned.
LEMMA CallShape ==
  ASSUME ConstantsAssumption, TypeInv, KnownInv, [Next]_vars
  PROVE  CallStep
<1>1. CASE UNCHANGED vars
  BY <1>1, SameQuestions, AsideShape DEF vars, history, TypeInv, CallStep, Bystanders, Marked
<1>2. ASSUME NEW w \in Worker, WorkerStep(w) PROVE CallStep
  <2>1. CASE Claim(w) \/ ClaimOversized(w) \/ RenewLease(w) \/ LoseLease(w) \/ Crash(w)
             \/ FailRun(w) \/ StepFails(w)
    BY <2>1, LeaseCalls DEF TypeInv, CallStep
  <2>2. CASE BeginRound(w) \/ BeginSteeredRound(w) \/ Compact(w) \/ Delta(w) \/ EndRound(w)
             \/ Complete(w) \/ CompleteSteered(w)
    BY <2>2, RoundCalls DEF TypeInv, CallStep
  <2>3. CASE DirectResult(w) \/ AskUser(w) \/ WaitForSubagents(w) \/ StartBatch(w)
             \/ \E b \in BOOLEAN : RequestApproval(w, b)
    BY <2>3, ToolCalls DEF CallStep
  <2>4. CASE LoadState(w)
    BY <2>4, LoadShape DEF TypeInv, CallStep
  <2>5. CASE RunBatch(w) \/ InvokeApproved(w)
    BY <2>5, RunShape DEF TypeInv, CallStep
  <2>6. CASE CompleteBatch(w)
    BY <2>6, EndShape DEF CallStep
  <2>7. CASE RejectApproval(w) \/ SettleApproved(w)
    BY <2>7, CloseShape DEF CallStep
  <2>8. CASE BeginApproved(w)
    BY <2>8, BeginShape DEF TypeInv, CallStep
  <2>9. CASE AskApprovalAgain(w)
    BY <2>9, AgainShape DEF CallStep
  <2>10. CASE RetryApproved(w)
    BY <2>10, GotoShape DEF RetryApproved, Retries, TypeInv, CallStep
  <2> QED BY <1>2, <2>1, <2>2, <2>3, <2>4, <2>5, <2>6, <2>7, <2>8, <2>9, <2>10 DEF WorkerStep
<1>3. CASE Tick \/ Recover \/ SubmitSteer \/ NotifySteer \/ CancelRun \/ ResumeWait \/ FailWait
  BY <1>3, EnvironmentCalls DEF CallStep
<1>4. CASE RespondQuestion \/ ResumeSteeringQuestion
  <2>1. PICK q \in DOMAIN questions, answer \in {"none", "option-1", "option-2", "text"} :
          Respond(q, answer)
    BY <1>4 DEF RespondQuestion, ResumeSteeringQuestion
  <2> QED BY <2>1, RespondShape DEF CallStep
<1> QED BY <1>1, <1>2, <1>3, <1>4 DEF Next

-----------------------------------------------------------------------------
(* What is known of a call stays known. *)

\* A known approval stays known while calls and questions only grow.
LEMMA KnownKept ==
  ASSUME TypeInv, NEW a \in Approval, Known(a, calls, questions), CallsGrow, QuestionsGrow
  PROVE  Known(a, calls', questions')
<1>1. questions[a.question].status = "answered" => questions'[a.question] = questions[a.question]
  BY DEF QuestionsGrow, Known
<1> QED BY <1>1 DEF Known, CallsGrow, QuestionsGrow, TypeInv, TypeOK, KindOf

\* A question posed about a call makes the approval known.
LEMMA PosedKnown ==
  ASSUME TypeInv, TypeInv', NEW op, NEW b \in BOOLEAN, Posed(op, b),
         op \in 1..Len(calls'), calls'[op] = (IF b THEN "approval" ELSE "approval_once")
  PROVE  Known(checkpoint'.approval, calls', questions')
<1> QED BY DEF Known, Posed, KindOf

\* Every shape only adds calls and questions, and only running a tool has an effect.
LEMMA Grows ==
  ASSUME TypeOK, CallStep
  PROVE  /\ CallsGrow /\ QuestionsGrow
         /\ (\A w \in Worker : ~Runs(w)) => UNCHANGED effects
<1>1. CallsGrow /\ QuestionsGrow
  <2>1. ASSUME NEW kind \in CallKind, NewCall(kind) PROVE CallsGrow
    BY <2>1, NewCallShape
  <2>2. UNCHANGED calls => CallsGrow
    BY SameCalls
  <2>3. ASSUME NEW op, NEW b, Posed(op, b) PROVE QuestionsGrow
    BY <2>3 DEF Posed, QuestionsGrow
  <2>4. CASE Aside
    BY <2>4 DEF Aside
  <2>5. CASE Decides
    BY <2>2, <2>5 DEF Decides, history
  <2>6. ASSUME NEW w \in Worker,
               Loads(w) \/ Runs(w) \/ Ends(w) \/ Begins(w) \/ Retries(w) \/ Closes(w)
        PROVE  CallsGrow /\ QuestionsGrow
    BY <2>2, <2>6, SameQuestions DEF Loads, Runs, Ends, Begins, Retries, Closes, history
  <2>7. ASSUME NEW w \in Worker, Starts(w) PROVE CallsGrow /\ QuestionsGrow
    BY <2>1, <2>7, SameQuestions DEF Starts, CallKind
  <2>8. ASSUME NEW w \in Worker, Requests(w) PROVE CallsGrow /\ QuestionsGrow
    BY <2>1, <2>3, <2>8 DEF Requests, CallKind
  <2>9. ASSUME NEW w \in Worker, AsksAgain(w) PROVE CallsGrow /\ QuestionsGrow
    BY <2>2, <2>3, <2>9 DEF AsksAgain, history
  <2> QED BY <2>4, <2>5, <2>6, <2>7, <2>8, <2>9 DEF CallStep
<1>2. (\A w \in Worker : ~Runs(w)) => UNCHANGED effects
  BY DEF CallStep, Aside, Decides, Loads, Starts, Ends, Requests, AsksAgain, Begins,
         Retries, Closes, history
<1> QED BY <1>1, <1>2

\* Every shape keeps what workers and the checkpoint know of their calls.
LEMMA KnownStep ==
  ASSUME ConstantsAssumption, TypeInv, TypeInv', KnownInv, CallStep
  PROVE  KnownInv'
<1> USE DEF TypeInv
<1>0. /\ checkpoint.approval \in Approval
      /\ \A w \in Worker : worker[w].approval \in Approval /\ worker[w] \in WorkerState
      /\ Idle.phase = "idle" /\ Len(calls) \in Nat /\ Len(calls') \in Nat
      /\ effects \in [Call -> Nat]
  <2>1. effects \in [Call -> Nat] /\ Len(calls) \in Nat
    BY DEF TypeOK
  <2>5. checkpoint.approval \in Approval
    BY DEF TypeOK, Checkpoint
  <2>2. \A w \in Worker : worker[w].approval \in Approval /\ worker[w] \in WorkerState
    BY DEF TypeOK, WorkerState
  <2>3. Len(calls') \in Nat
    BY DEF TypeOK
  <2>4. Idle.phase = "idle"
    BY DEF Idle
  <2> QED BY <2>1, <2>2, <2>3, <2>4, <2>5
<1>1. CallsGrow /\ QuestionsGrow
  BY Grows
<1>2. ASSUME NEW c \in Call, c > Len(calls') PROVE effects'[c] = 0
  <2>1. c > Len(calls)
    BY <1>0, <1>1, <1>2 DEF CallsGrow, Call
  <2>2. effects[c] = 0
    BY <2>1 DEF KnownInv
  <2>3. ASSUME NEW w \in Worker, Runs(w) PROVE worker[w].op # c
    BY <1>0, <2>1, <2>3 DEF Runs, KnownInv, WorkerKnown, Known, ApprovalPhase, Call
  <2>4. (\A w \in Worker : ~Runs(w)) => UNCHANGED effects
    BY Grows
  <2> QED BY <1>0, <2>2, <2>3, <2>4 DEF Runs
<1>3. checkpoint'.approval # NoApproval
        => Known(checkpoint'.approval, calls', questions')
  <2> SUFFICES ASSUME checkpoint'.approval # NoApproval
               PROVE  Known(checkpoint'.approval, calls', questions')
    OBVIOUS
  <2>1. CASE checkpoint'.approval = checkpoint.approval
    BY <1>0, <1>1, <2>1, KnownKept DEF KnownInv
  <2>2. CASE Decides
    <3>1. checkpoint.approval # NoApproval
      <4>1. checkpoint.approval.question \in 1..Len(questions)
        <5>1. questions \in Seq(Question)
          BY DEF TypeOK
        <5>2. checkpoint.approval.question \in DOMAIN questions
          BY <2>2 DEF Decides
        <5> QED BY <5>1, <5>2
      <4>2. NoApproval.question = 0
        BY DEF NoApproval
      <4> QED BY <4>1, <4>2
    <3>2. Known(checkpoint.approval, calls, questions)
      BY <3>1 DEF KnownInv
    <3> QED BY <1>0, <2>2, <3>2 DEF Known, Decides, QuestionsGrow, KindOf, history
  <2>3. ASSUME NEW w \in Worker, Requests(w) PROVE Known(checkpoint'.approval, calls', questions')
    <3>1. PICK b \in BOOLEAN :
            NewCall(IF b THEN "approval" ELSE "approval_once") /\ Posed(NextCall, b)
      BY <2>3 DEF Requests
    <3>2. calls'[NextCall] = (IF b THEN "approval" ELSE "approval_once")
          /\ NextCall \in 1..Len(calls')
      BY <1>0, <3>1, NewCallShape DEF CallKind, NextCall
    <3> QED BY <3>1, <3>2, PosedKnown
  <2>4. ASSUME NEW w \in Worker, AsksAgain(w) PROVE Known(checkpoint'.approval, calls', questions')
    <3>1. worker[w].op \in 1..Len(calls) /\ calls[worker[w].op] = "approval"
      BY <2>4 DEF AsksAgain, KnownInv, WorkerKnown, Known, ApprovalPhase, KindOf
    <3> QED BY <2>4, <3>1, PosedKnown DEF AsksAgain, history
  <2> QED BY <2>1, <2>2, <2>3, <2>4
          DEF CallStep, Aside, Loads, Starts, Runs, Ends, Begins, Retries, Closes, Marked
<1>4. ASSUME NEW v \in Worker PROVE WorkerKnown(v)'
  <2>1. CASE worker'[v] = worker[v]
    BY <1>0, <1>1, <2>1, KnownKept DEF KnownInv, WorkerKnown, CallsGrow
  <2>2. CASE worker'[v].phase \notin ToolPhase
    BY <2>2 DEF WorkerKnown, ToolPhase, ApprovalPhase
  <2>3. CASE Loads(v)
    <3>1. Known(checkpoint.approval, calls, questions)
      BY <2>3 DEF Loads, KnownInv
    <3> QED BY <2>3, <3>1 DEF Loads, Became, WorkerKnown, history, ApprovalPhase
  <2>4. CASE Starts(v)
    <3>1. NextCall \in 1..Len(calls') /\ calls'[NextCall] = "batch"
      BY <1>0, <2>4, NewCallShape DEF CallKind, NextCall, Starts
    <3> QED BY <2>4, <3>1 DEF Starts, Became, WorkerKnown, ApprovalPhase
  <2>5. CASE Runs(v)
    BY <2>5 DEF Runs, Became, WorkerKnown, KnownInv, ApprovalPhase
  <2>6. CASE Begins(v) \/ Retries(v)
    BY <2>6 DEF Begins, Retries, Became, WorkerKnown, KnownInv, ApprovalPhase, history
  <2>7. CASE Ends(v) \/ Closes(v) \/ Requests(v) \/ AsksAgain(v)
    BY <1>0, <2>2, <2>7
       DEF Ends, Closes, Requests, AsksAgain, Back, Became, Left, ToolPhase
  <2> QED BY <2>1, <2>2, <2>3, <2>4, <2>5, <2>6, <2>7
          DEF CallStep, Aside, Bystanders, Moves, Decides, Loads, Starts, Runs, Ends, Begins,
              Retries, Closes, Requests, AsksAgain, Back, Became, Left, ToolPhase
<1>5. Len(calls') <= MaxCalls
  BY <1>0, <1>1, ConstantsAssumption DEF ConstantsAssumption, CallsGrow, KnownInv
<1> QED BY <1>2, <1>3, <1>4, <1>5 DEF KnownInv

\* The calls made so far are within the bound.
LEMMA KnownCall == ASSUME TypeOK, KnownInv PROVE 1..Len(calls) \subseteq Call
BY ConstantsAssumption DEF ConstantsAssumption, TypeOK, KnownInv, Call

\* The tool of the next call was not run yet.
LEMMA NewCallUntouched ==
  ASSUME TypeOK, KnownInv, CallStep, NEW c \in 1..Len(calls'), effects'[c] > 0
  PROVE  c \in 1..Len(calls) /\ calls'[c] = calls[c]
<1>1. /\ CallsGrow /\ Len(calls) \in Nat /\ MaxCalls \in Nat
      /\ Len(calls') \in Nat
  BY Grows, ConstantsAssumption DEF ConstantsAssumption, TypeOK
<1>2. ASSUME c > Len(calls) PROVE FALSE
  <2>1. c \in Call /\ effects[c] = 0
    BY <1>1, <1>2 DEF CallsGrow, Call, KnownInv
  <2>2. PICK w \in Worker : Runs(w)
    BY <2>1, Grows
  <2>3. calls' = calls
    BY <2>2 DEF Runs
  <2> QED BY <1>1, <1>2, <2>3
<1> QED BY <1>1, <1>2 DEF CallsGrow

\* A tool that needs approval is run for a call whose question was answered with the
\* first option.
LEMMA ApprovedStep ==
  ASSUME TypeInv, KnownInv, OnlyApprovedToolsRun, CallStep
  PROVE  OnlyApprovedToolsRun'
<1> USE DEF TypeInv
<1> DEFINE Chosen(c, asked) == \E q \in DOMAIN asked :
             asked[q].op = c /\ asked[q].status = "answered" /\ asked[q].answer = "option-1"
<1>1. SUFFICES ASSUME NEW c \in 1..Len(calls'), calls'[c] \in {"approval", "approval_once"},
                      effects'[c] > 0
               PROVE  Chosen(c, questions')
  BY DEF OnlyApprovedToolsRun
<1>2. c \in 1..Len(calls) /\ calls[c] \in {"approval", "approval_once"} /\ QuestionsGrow
  BY <1>1, NewCallUntouched, Grows
<1>3. Chosen(c, questions) => Chosen(c, questions')
  BY <1>2 DEF QuestionsGrow
<1>4. CASE effects'[c] = effects[c]
  BY <1>1, <1>2, <1>3, <1>4 DEF OnlyApprovedToolsRun
<1>5. CASE effects'[c] # effects[c]
  <2>1. PICK w \in Worker : Runs(w) /\ worker[w].op = c
    BY <1>2, <1>5, Grows, KnownCall DEF Runs, TypeOK
  <2>2. /\ worker[w].phase = "invoke" /\ worker[w].approval.op = c
        /\ Known(worker[w].approval, calls, questions)
        /\ worker[w].approval.decision = "approved"
    BY <1>2, <2>1 DEF Runs, KnownInv, WorkerKnown, ApprovalPhase
  <2> QED BY <1>3, <2>2 DEF Known
<1> QED BY <1>4, <1>5

-----------------------------------------------------------------------------
(* What the present holder of the lease knows. *)

RoundPhase == {"head", "round", "decided", "batch", "batch_done"}

\* The worker that holds the fence of a running run works on the approval of the
\* checkpoint, enters the round loop without one, and an executing marker is its own.
HolderInv ==
  run.status = "running" =>
    \A w \in Worker : worker[w].fence = run.fence /\ worker[w].phase # "idle" =>
      /\ worker[w].phase \in ApprovalPhase => worker[w].approval = checkpoint.approval
      /\ worker[w].phase \in RoundPhase => checkpoint.approval = NoApproval
      /\ Executing => \/ worker[w].phase \in {"batch", "batch_done", "failing"}
                      \/ /\ worker[w].phase \in {"invoke", "invoked"}
                         /\ ~worker[w].approval.replaySafe

\* A worker that writes is the only one with the present fence.
LEMMA OneHolder ==
  ASSUME FenceInv, NEW v \in Worker, NEW w \in Worker, LeaseMatches(v),
         worker[w].fence = run.fence
  PROVE  v = w
BY DEF FenceInv, LeaseExclusive, LeaseMatches

\* A run that is running after a step was running before, in the same hands, or was
\* claimed by the step.
LEMMA StillRunning ==
  ASSUME TypeInv, FenceInv, QuestionMatchesStatus, [Next]_vars, RowStep,
         run'.status = "running", NEW w \in Worker, worker'[w].fence = run'.fence,
         worker'[w].phase # "idle"
  PROVE  \/ /\ run.status = "running" /\ worker[w].fence = run.fence
            /\ worker[w].phase # "idle"
         \/ Claim(w) /\ run.status = "pending"
<1>1. run.fence \in Nat /\ \A v \in Worker : worker[v].fence \in Nat
  BY DEF TypeInv, TypeOK, RunRow, WorkerState
<1>2. CASE \E v \in Worker : Claim(v)
  <2>1. PICK v \in Worker : Claim(v)
    BY <1>2
  <2>2. run.status = "pending" /\ run'.fence = run.fence + 1
    BY <2>1, ClaimShape, ConstantsAssumption DEF TypeInv, Take
  <2>4. \A u \in Worker \ {v} : worker'[u] = worker[u]
    <3>1. \E x : worker' = [worker EXCEPT ![v] = x]
      BY <2>1 DEF Claim
    <3> QED BY <3>1 DEF TypeInv, TypeOK
  <2>3. worker[w].fence # run.fence + 1
    BY <1>1 DEF FenceInv, LeaseExclusive
  <2> QED BY <2>1, <2>2, <2>3, <2>4
<1>3. CASE \A v \in Worker : ~Claim(v)
  <2>1. worker'[w].fence = worker[w].fence /\ worker[w].phase # "idle"
    BY <1>3, FencesKept DEF WorkersKeepFence, Idle
  <2>2. run.status = "running" /\ run'.fence = run.fence
    BY <1>3 DEF RowStep, Quiet, Clock, Refuse, TakenBack, Answered, Resumed, GivenUp,
           Cancelled, Announced, Take, Hold, Keep, GiveUp, Ask, Lease, LeaseMatches,
           QuestionMatchesStatus
  <2> QED BY <2>1, <2>2
<1> QED BY <1>2, <1>3

\* Every step keeps what the holder knows.
LEMMA HolderStep ==
  ASSUME ConstantsAssumption, TypeInv, FenceInv, QuestionMatchesStatus, KnownInv, HolderInv,
         UnknownOutcomeNeverResumes, [Next]_vars, RowStep, CallStep
  PROVE  HolderInv'
<1> DEFINE Good(x, c) ==
      /\ x.phase \in ApprovalPhase => x.approval = c.approval
      /\ x.phase \in RoundPhase => c.approval = NoApproval
      /\ c.marker.phase = "executing"
           => \/ x.phase \in {"batch", "batch_done", "failing"}
              \/ x.phase \in {"invoke", "invoked"} /\ ~x.approval.replaySafe
<1>1. SUFFICES ASSUME run'.status = "running", NEW w \in Worker,
                      worker'[w].fence = run'.fence, worker'[w].phase # "idle"
               PROVE  Good(worker'[w], checkpoint')
  BY DEF HolderInv, Executing
<1>2. CASE Claim(w) /\ run.status = "pending"
  <2>1. ~Executing
    BY <1>2 DEF UnknownOutcomeNeverResumes
  <2>2. worker'[w].phase = "claimed" /\ UNCHANGED checkpoint
    BY <1>2 DEF Claim, Idle, TypeInv, TypeOK
  <2> QED BY <2>1, <2>2 DEF Executing, ApprovalPhase, RoundPhase
<1>3. CASE run.status = "running" /\ worker[w].fence = run.fence /\ worker[w].phase # "idle"
  <2>1. Good(worker[w], checkpoint)
    BY <1>3 DEF HolderInv, Executing
  <2>2. \A v \in Worker : LeaseMatches(v) => v = w
    BY <1>3, OneHolder
  <2>3. CASE Aside
    <3>1. checkpoint'.approval = checkpoint.approval /\ checkpoint'.marker = checkpoint.marker
      BY <2>3 DEF Aside, Marked
    <3>2. worker[w].phase \in Phase
      BY DEF TypeInv, TypeOK, WorkerState
    <3>3. CASE worker'[w] = worker[w]
      BY <2>1, <3>1, <3>3
    <3>4. CASE worker'[w].phase \in {"idle", "failing"}
      BY <1>1, <3>4 DEF ApprovalPhase, RoundPhase
    <3>5. CASE Moves(w, worker'[w].phase)
      BY <1>3, <2>1, <3>1, <3>2, <3>5
         DEF Moves, Phase, ToolPhase, ApprovalPhase, RoundPhase
    <3> QED BY <2>3, <3>3, <3>4, <3>5 DEF Aside, Bystanders
  <2>4. ~Decides
    BY <1>3 DEF Decides
  <2>5. CASE Loads(w)
    BY <2>1, <2>5 DEF Loads, Became, ApprovalPhase, RoundPhase
  <2>6. CASE Starts(w)
    BY <2>1, <2>6 DEF Starts, Became, Marked, ApprovalPhase, RoundPhase
  <2>7. ASSUME NEW v \in Worker, Runs(v) \/ Retries(v) PROVE Good(worker'[w], checkpoint')
    <3>1. CASE v = w
      BY <2>1, <2>7, <3>1 DEF Runs, Retries, Became, ApprovalPhase, RoundPhase
    <3>2. CASE v # w
      BY <2>1, <2>7, <3>2 DEF Runs, Retries, Became
    <3> QED BY <3>1, <3>2
  <2>8. CASE Ends(w)
    BY <2>1, <2>8 DEF Ends, Back, Became, Marked, ApprovalPhase, RoundPhase
  <2>9. ~Requests(w) /\ ~AsksAgain(w)
    <3>1. Idle.phase = "idle"
      BY DEF Idle
    <3> QED BY <1>1, <3>1 DEF Requests, AsksAgain, Left
  <2>10. CASE Begins(w)
    BY <2>1, <2>10 DEF Begins, Became, Marked, ApprovalPhase, RoundPhase
  <2>11. CASE Closes(w)
    BY <2>1, <2>11 DEF Closes, Back, Became, Marked, KnownInv, WorkerKnown, ApprovalPhase,
                       RoundPhase
  <2> QED BY <2>2, <2>3, <2>4, <2>5, <2>6, <2>7, <2>8, <2>9, <2>10, <2>11
          DEF CallStep, Loads, Starts, Ends, Requests, AsksAgain, Begins, Closes
<1> QED BY <1>1, <1>2, <1>3, StillRunning

\* A run whose tool may have run with an unknown outcome stays running or fails.
LEMMA OutcomeStep ==
  ASSUME TypeInv, FenceInv, QuestionMatchesStatus, HolderInv, UnknownOutcomeNeverResumes,
         RowStep, CallStep
  PROVE  UnknownOutcomeNeverResumes'
<1>1. SUFFICES ASSUME checkpoint'.marker.phase = "executing"
               PROVE  run'.status \in {"running", "failed", "cancelled"}
  BY DEF UnknownOutcomeNeverResumes, Executing
<1>2. CASE ~Executing
  <2>1. PICK w \in Worker : Starts(w) \/ Begins(w)
    <3>1. checkpoint'.marker # checkpoint.marker
      BY <1>1, <1>2 DEF Executing
    <3>2. ~Aside /\ ~Decides
      BY <3>1 DEF Aside, Decides, Marked
    <3>3. ASSUME NEW w \in Worker
          PROVE  ~(Loads(w) \/ Runs(w) \/ Requests(w) \/ AsksAgain(w) \/ Retries(w))
      BY <3>1 DEF Loads, Runs, Requests, AsksAgain, Retries, Posed
    <3>4. ASSUME NEW w \in Worker PROVE ~(Ends(w) \/ Closes(w))
      BY <1>1, <3>1 DEF Ends, Closes, Marked
    <3> QED BY <3>2, <3>3, <3>4 DEF CallStep
  <2> QED BY <2>1 DEF Starts, Begins, LeaseMatches
<1>3. CASE Executing
  <2>1. run.status \in {"running", "failed", "cancelled"}
    BY <1>3 DEF UnknownOutcomeNeverResumes
  <2>2. CASE \/ Quiet \/ Clock \/ Answered \/ Resumed \/ GivenUp \/ Cancelled \/ Announced
             \/ \E w \in Worker : Take(w) \/ Refuse(w) \/ Hold(w) \/ Keep(w)
    BY <2>1, <2>2 DEF Quiet, Clock, Answered, Resumed, GivenUp, Cancelled, Announced,
         Take, Refuse, Hold, Keep, Lease
  <2>3. CASE TakenBack
    BY <1>3, <2>1, <2>3 DEF TakenBack, Lease, QuestionMatchesStatus
  <2>4. ASSUME NEW w \in Worker, GiveUp(w) \/ Ask(w)
        PROVE  run'.status \in {"running", "failed", "cancelled"}
    <3>1. /\ run.status = "running" /\ worker[w].fence = run.fence
          /\ worker[w].phase # "idle" \/ GiveUp(w)
      BY <2>4 DEF GiveUp, Ask, LeaseMatches
    <3>2. worker[w].phase # "idle"
      BY <3>1 DEF FenceInv, TypeInv, TypeOK, RunRow, WorkerState
    <3>3. \/ worker[w].phase \in {"batch", "batch_done", "failing"}
          \/ worker[w].phase \in {"invoke", "invoked"} /\ ~worker[w].approval.replaySafe
      BY <1>3, <3>1, <3>2 DEF HolderInv
    <3> QED BY <2>4, <3>3 DEF GiveUp, Ask, Lease
  <2> QED BY <2>2, <2>3, <2>4 DEF RowStep
<1> QED BY <1>2, <1>3

-----------------------------------------------------------------------------
(* Tools that must not run twice. *)

AboutTo(w, c) == worker[w].phase \in {"batch", "invoke"} /\ worker[w].op = c
Touched(c) == effects[c] > 0 \/ \E w \in Worker : AboutTo(w, c)

\* A tool ran or one worker is about to run it, never both; and while the checkpoint
\* holds an approval whose tool was touched, the marker forbids to begin it again.
Once(c) ==
  /\ effects[c] <= 1
  /\ \A w \in Worker : AboutTo(w, c) => effects[c] = 0
  /\ \A v, w \in Worker : AboutTo(v, c) /\ AboutTo(w, c) => v = w
  /\ checkpoint.approval.op = c /\ Touched(c)
       => checkpoint.marker = [op |-> c, phase |-> "executing"]

OnceInv ==
  \A c \in 1..Len(calls) : calls[c] \in {"batch", "approval_once"} => Once(c)

\* Nothing happens to call c itself.
Spared(c) ==
  effects'[c] = effects[c] /\ \A v \in Worker : AboutTo(v, c)' => AboutTo(v, c)

\* A step that spares a call, and neither its approval nor the marker, keeps it safe.
LEMMA SparedOnce ==
  ASSUME NEW c, Spared(c), Once(c),
         \/ checkpoint'.approval.op # c
         \/ /\ checkpoint'.approval.op = checkpoint.approval.op
            /\ checkpoint'.marker = checkpoint.marker
  PROVE  Once(c)'
BY DEF Spared, Once, Touched

\* A worker that did not begin or go on with call c leaves it alone.
LEMMA WorkerSpares ==
  ASSUME NEW w \in Worker, NEW c, \A v \in Worker \ {w} : worker'[v] = worker[v],
         effects'[c] = effects[c],
         worker'[w].phase \notin {"batch", "invoke"} \/ worker'[w].op # c
  PROVE  Spared(c)
BY DEF Spared, AboutTo

\* Calls that workers are about to run are known calls of their kind.
LEMMA AboutToKnown ==
  ASSUME TypeInv, KnownInv, NEW w \in Worker, NEW c, AboutTo(w, c)
  PROVE  c \in 1..Len(calls)
BY DEF AboutTo, KnownInv, WorkerKnown, Known, ApprovalPhase

\* Every shape keeps each call from running twice.
LEMMA OnceStep ==
  ASSUME ConstantsAssumption, TypeInv, KnownInv, HolderInv, FenceInv, OnceInv, CallStep
  PROVE  OnceInv'
<1>1. SUFFICES ASSUME NEW c \in 1..Len(calls'), calls'[c] \in {"batch", "approval_once"}
               PROVE  Once(c)'
  BY DEF OnceInv
<1>2. /\ Len(calls) \in Nat /\ Len(calls') \in Nat /\ MaxCalls \in Nat
      /\ effects \in [Call -> Nat] /\ CallsGrow
      /\ Len(calls) <= MaxCalls
  BY Grows, ConstantsAssumption DEF ConstantsAssumption, TypeInv, TypeOK, KnownInv, CallsGrow
<1>3. c \in Call
  BY <1>2 DEF Call, CallsGrow
<1>4. c > Len(calls) => ~Touched(c)
  BY <1>2, <1>3, AboutToKnown DEF Touched, KnownInv
<1>5. c <= Len(calls) => calls[c] = calls'[c]
  BY <1>2 DEF CallsGrow
<1>6. Once(c)
  <2>1. CASE c > Len(calls)
    BY <1>2, <1>3, <1>4, <2>1 DEF Once, Touched
  <2>2. CASE c <= Len(calls)
    BY <1>1, <1>2, <1>5, <2>2 DEF OnceInv
  <2> QED BY <1>2, <2>1, <2>2
<1>7. c # 0 /\ NoApproval.op = 0 /\ Idle.phase = "idle"
  BY DEF NoApproval, Idle
<1>8. \A w \in Worker : worker[w].phase \in ApprovalPhase /\ worker[w].op = c
        => ~worker[w].approval.replaySafe
  BY <1>1, <1>2, <1>5 DEF KnownInv, WorkerKnown, Known, KindOf
<1>9. checkpoint.approval.op = c => calls'[c] = "approval_once"
  <2>1. checkpoint.approval.op = c => Known(checkpoint.approval, calls, questions)
    BY <1>7 DEF KnownInv
  <2> QED BY <1>1, <1>2, <1>5, <2>1 DEF Known, KindOf
<1>10. CASE Aside
  <2>1. Spared(c)
    BY <1>10 DEF Aside, Bystanders, Moves, Spared, AboutTo, ToolPhase
  <2> QED BY <1>6, <1>10, <2>1, SparedOnce DEF Aside, Marked
<1>11. CASE Decides
  <2>1. Spared(c)
    BY <1>11 DEF Decides, Spared, AboutTo, history
  <2> QED BY <1>6, <1>11, <2>1, SparedOnce DEF Decides
<1>12. ASSUME NEW w \in Worker, Loads(w) \/ Retries(w) PROVE Once(c)'
  <2>1. worker'[w].phase \notin {"batch", "invoke"} \/ worker'[w].op # c
    BY <1>8, <1>12 DEF Loads, Retries, Became, ApprovalPhase
  <2>2. Spared(c)
    BY <1>12, <2>1, WorkerSpares DEF Loads, Retries, Became, history
  <2> QED BY <1>6, <1>12, <2>2, SparedOnce DEF Loads, Retries
<1>13. ASSUME NEW w \in Worker, Starts(w) PROVE Once(c)'
  <2>1. CASE c = NextCall
    <3>1. ~Touched(c)
      BY <1>2, <1>4, <2>1 DEF NextCall
    <3>2. \A v \in Worker : AboutTo(v, c)' => v = w
      BY <1>13, <3>1 DEF Starts, Became, Touched, AboutTo
    <3>3. effects'[c] = 0 /\ checkpoint'.marker = [op |-> c, phase |-> "executing"]
      BY <1>2, <1>3, <1>13, <2>1, <3>1 DEF Starts, Touched, Marked
    <3> QED BY <3>2, <3>3 DEF Once
  <2>2. CASE c # NextCall
    <3>1. Spared(c)
      BY <1>13, <2>2, WorkerSpares DEF Starts, Became
    <3>2. checkpoint.approval.op = c => ~Touched(c)
      BY <1>6, <1>13 DEF Once, Starts, Executing
    <3> QED BY <1>6, <1>13, <3>1, <3>2 DEF Once, Starts, Marked, Spared, Touched
  <2> QED BY <2>1, <2>2
<1>14. ASSUME NEW w \in Worker, Runs(w) PROVE Once(c)'
  <2>1. CASE worker[w].op = c
    <3>1. AboutTo(w, c)
      BY <1>14, <2>1 DEF Runs, AboutTo
    <3>2. effects[c] = 0 /\ \A v \in Worker : AboutTo(v, c) => v = w
      BY <1>6, <3>1 DEF Once
    <3>3. effects'[c] = 1
      BY <1>2, <1>3, <1>14, <2>1, <3>2 DEF Runs
    <3>4. \A v \in Worker : ~AboutTo(v, c)'
      BY <1>14, <3>2 DEF Runs, Became, AboutTo
    <3>5. checkpoint.approval.op = c
            => checkpoint.marker = [op |-> c, phase |-> "executing"]
      BY <1>6, <3>1 DEF Once, Touched
    <3> QED BY <1>14, <3>3, <3>4, <3>5 DEF Once, Runs
  <2>2. CASE worker[w].op # c
    <3>1. effects'[c] = effects[c]
      BY <1>2, <1>3, <1>14, <2>2 DEF Runs
    <3>2. Spared(c)
      BY <1>14, <2>2, <3>1, WorkerSpares DEF Runs, Became
    <3> QED BY <1>6, <1>14, <3>2, SparedOnce DEF Runs
  <2> QED BY <2>1, <2>2
<1>15. ASSUME NEW w \in Worker, Ends(w) PROVE Once(c)'
  <2>1. Spared(c)
    BY <1>15, WorkerSpares DEF Ends, Back, Became, history
  <2>2. checkpoint.approval.op = c => ~Touched(c)
    <3>1. checkpoint.approval.op = c /\ Touched(c) => worker[w].op = c
      BY <1>6, <1>15 DEF Once, Ends
    <3>2. worker[w].op = c => calls'[c] = "batch"
      BY <1>15 DEF Ends, KnownInv, WorkerKnown, history
    <3> QED BY <1>9, <3>1, <3>2
  <2> QED BY <1>6, <1>15, <2>1, <2>2 DEF Once, Ends, Marked, Spared, Touched
<1>16. ASSUME NEW w \in Worker, Requests(w) PROVE Once(c)'
  <2>1. Spared(c)
    BY <1>7, <1>16, WorkerSpares DEF Requests, Left
  <2>2. checkpoint'.approval.op = NextCall
    BY <1>16 DEF Requests, Posed
  <2>3. CASE c = NextCall
    <3>1. ~Touched(c)
      BY <1>2, <1>4, <2>3 DEF NextCall
    <3> QED BY <1>6, <2>1, <3>1 DEF Once, Spared, Touched
  <2>4. CASE c # NextCall
    BY <1>6, <2>1, <2>2, <2>4, SparedOnce
  <2> QED BY <2>3, <2>4
<1>17. ASSUME NEW w \in Worker, AsksAgain(w) PROVE Once(c)'
  <2>1. Spared(c)
    BY <1>7, <1>17, WorkerSpares DEF AsksAgain, Left, history
  <2>2. checkpoint'.approval.op # c
    BY <1>8, <1>17 DEF AsksAgain, Posed, ApprovalPhase
  <2> QED BY <1>6, <2>1, <2>2, SparedOnce
<1>18. ASSUME NEW w \in Worker, Begins(w) PROVE Once(c)'
  <2>1. CASE worker[w].op = c
    <3>1. ~worker[w].approval.replaySafe
      BY <1>8, <1>18, <2>1 DEF Begins, ApprovalPhase
    <3>2. /\ run.status = "running" /\ worker[w].fence = run.fence
          /\ worker[w].phase # "idle" /\ worker[w].phase \in ApprovalPhase
      BY <1>18 DEF Begins, LeaseMatches, ApprovalPhase
    <3>3. checkpoint.approval.op = c
      BY <2>1, <3>2 DEF HolderInv, KnownInv, WorkerKnown
    <3>4. ~Touched(c)
      BY <1>6, <1>18, <3>1, <3>3 DEF Once, Begins, Executing
    <3>5. \A v \in Worker : AboutTo(v, c)' => v = w
      BY <1>18, <3>4 DEF Begins, Became, Touched, AboutTo
    <3>6. effects'[c] = 0 /\ checkpoint'.marker = [op |-> c, phase |-> "executing"]
      BY <1>2, <1>3, <1>18, <2>1, <3>1, <3>4 DEF Begins, Touched, Marked, history
    <3> QED BY <3>5, <3>6 DEF Once
  <2>2. CASE worker[w].op # c
    <3>1. Spared(c)
      BY <1>18, <2>2, WorkerSpares DEF Begins, Became, history
    <3>2. CASE worker[w].approval.replaySafe
      BY <1>6, <1>18, <3>1, <3>2, SparedOnce DEF Begins, Marked
    <3>3. CASE ~worker[w].approval.replaySafe
      <4>1. checkpoint.approval.op = c => ~Touched(c)
        BY <1>6, <1>18, <3>3 DEF Once, Begins, Executing
      <4> QED BY <1>6, <1>18, <3>1, <3>3, <4>1 DEF Once, Begins, Marked, Spared, Touched
    <3> QED BY <3>2, <3>3
  <2> QED BY <2>1, <2>2
<1>19. ASSUME NEW w \in Worker, Closes(w) PROVE Once(c)'
  <2>1. Spared(c)
    BY <1>19, WorkerSpares DEF Closes, Back, Became, history
  <2>2. checkpoint'.approval.op # c
    BY <1>7, <1>19 DEF Closes, Marked
  <2> QED BY <1>6, <2>1, <2>2, SparedOnce
<1> QED BY <1>10, <1>11, <1>12, <1>13, <1>14, <1>15, <1>16, <1>17, <1>18, <1>19 DEF CallStep

-----------------------------------------------------------------------------
(* The invariant of tool calls. *)

CallInv ==
  /\ TypeInv /\ QuestionMatchesStatus /\ FenceInv
  /\ KnownInv /\ HolderInv /\ UnknownOutcomeNeverResumes /\ OnceInv /\ OnlyApprovedToolsRun

\* A new run has made no call.
LEMMA CallInit == ASSUME ConstantsAssumption, Init PROVE CallInv
<1>1. TypeInv
  BY TypeInit
<1>2. QuestionMatchesStatus
  BY DEF Init, QuestionMatchesStatus, Pending
<1>3. FenceInv
  BY DEF Init, FenceInv, LeaseExclusive, Idle
<1>4. KnownInv
  <2>1. Len(calls) = 0 /\ checkpoint.approval = NoApproval /\ \A c \in Call : effects[c] = 0
    BY DEF Init
  <2>2. \A w \in Worker : worker[w].phase = "idle"
    BY DEF Init, Idle
  <2> QED BY <2>1, <2>2, ConstantsAssumption
          DEF KnownInv, WorkerKnown, ApprovalPhase, ConstantsAssumption
<1>5. HolderInv
  BY DEF Init, HolderInv
<1>6. UnknownOutcomeNeverResumes
  BY DEF Init, UnknownOutcomeNeverResumes, Executing, NoMarker
<1>7. OnceInv /\ OnlyApprovedToolsRun
  BY DEF Init, OnceInv, OnlyApprovedToolsRun
<1> QED BY <1>1, <1>2, <1>3, <1>4, <1>5, <1>6, <1>7 DEF CallInv

\* Every step keeps the invariant of tool calls.
LEMMA CallNext == ASSUME ConstantsAssumption, CallInv, [Next]_vars PROVE CallInv'
<1> USE DEF CallInv
<1>1. TypeInv' /\ RowStep /\ CallStep
  BY TypeNext, StepShape, CallShape
<1>2. QuestionMatchesStatus' /\ FenceInv'
  BY <1>1, QuestionsStep, FenceStep
<1>3. KnownInv' /\ OnlyApprovedToolsRun'
  BY <1>1, KnownStep, ApprovedStep
<1>4. HolderInv' /\ UnknownOutcomeNeverResumes'
  BY <1>1, HolderStep, OutcomeStep
<1>5. OnceInv'
  BY <1>1, OnceStep
<1> QED BY <1>1, <1>2, <1>3, <1>4, <1>5

\* Ordinary tools and approved tools that are not replay-safe run at most once, through
\* any crash, takeover and stale worker.
THEOREM ReplayCorrect == Spec => []NoReplay
<1>1. Init => CallInv
  BY ConstantsAssumption, CallInit
<1>2. CallInv /\ [Next]_vars => CallInv'
  BY ConstantsAssumption, CallNext
<1>3. CallInv => NoReplay
  BY DEF CallInv, OnceInv, Once, NoReplay
<1> QED BY <1>1, <1>2, <1>3, PTL DEF Spec

\* A run is not resumed, paused or completed once a tool may have run with an unknown
\* outcome: it is still running, or it has ended in failure or by cancellation.
THEOREM OutcomeCorrect == Spec => []UnknownOutcomeNeverResumes
<1>1. Init => CallInv
  BY ConstantsAssumption, CallInit
<1>2. CallInv /\ [Next]_vars => CallInv'
  BY ConstantsAssumption, CallNext
<1>3. CallInv => UnknownOutcomeNeverResumes
  BY DEF CallInv
<1> QED BY <1>1, <1>2, <1>3, PTL DEF Spec

\* A tool that needs approval ran only after a person chose the first option of a
\* question about that very call.
THEOREM ApprovalCorrect == Spec => []OnlyApprovedToolsRun
<1>1. Init => CallInv
  BY ConstantsAssumption, CallInit
<1>2. CallInv /\ [Next]_vars => CallInv'
  BY ConstantsAssumption, CallNext
<1>3. CallInv => OnlyApprovedToolsRun
  BY DEF CallInv
<1> QED BY <1>1, <1>2, <1>3, PTL DEF Spec

-----------------------------------------------------------------------------
(* The provider history. *)

Pairs(m) ==
  \A i \in 1..Len(m) :
    /\ m[i].role = "tool" => i > 1 /\ m[i-1] = CallMessage(m[i].op)
    /\ m[i].role = "call" /\ i < Len(m) => m[i+1] = ToolMessage(m[i].op)
OpenCall(m) == Len(m) > 0 /\ m[Len(m)].role = "call"
EndsIn(m, c) == Len(m) > 0 /\ m[Len(m)] = CallMessage(c)

\* A history in which every call has its result.
Answers(m) == m \in Seq(Message) /\ Pairs(m) /\ ~OpenCall(m)

\* A history in which every call but the last, c, has its result.
Asks(m, c) == m \in Seq(Message) /\ Pairs(m) /\ EndsIn(m, c)

\* What a call and a result of the history are.
LEMMA MessageRoles ==
  ASSUME NEW c \in Call
  PROVE  /\ CallMessage(c) \in Message /\ CallMessage(c).role = "call" /\ CallMessage(c).op = c
         /\ ToolMessage(c) \in Message /\ ToolMessage(c).role = "tool" /\ ToolMessage(c).op = c
BY DEF CallMessage, ToolMessage, Message

\* The empty history has no open call.
LEMMA EmptyAnswers == Answers(<<>>)
BY DEF Answers, Pairs, OpenCall

\* A call opens a history that had none open.
LEMMA CallAsks ==
  ASSUME NEW m, Answers(m), NEW c \in Call
  PROVE  Asks(Append(m, CallMessage(c)), c)
<1> DEFINE n == Append(m, CallMessage(c))
<1>1. /\ n \in Seq(Message) /\ Len(n) = Len(m) + 1 /\ n[Len(n)] = CallMessage(c)
      /\ \A i \in 1..Len(m) : n[i] = m[i]
  BY MessageRoles DEF Answers
<1>2. Len(m) \in Nat /\ Len(n) > 0
  BY <1>1 DEF Answers
<1>3. Pairs(n)
  BY <1>1, <1>2, MessageRoles DEF Answers, Pairs, OpenCall
<1> QED BY <1>1, <1>2, <1>3 DEF Asks, EndsIn

\* Its result closes the call a history ends in.
LEMMA ResultAnswers ==
  ASSUME NEW c \in Call, NEW m, Asks(m, c)
  PROVE  Answers(Append(m, ToolMessage(c)))
<1> DEFINE n == Append(m, ToolMessage(c))
<1>1. /\ n \in Seq(Message) /\ Len(n) = Len(m) + 1 /\ n[Len(n)] = ToolMessage(c)
      /\ \A i \in 1..Len(m) : n[i] = m[i]
      /\ Len(m) \in Nat \ {0}
  BY MessageRoles DEF Asks, EndsIn
<1>2. Pairs(n)
  BY <1>1, MessageRoles DEF Asks, Pairs, EndsIn
<1> QED BY <1>1, <1>2, MessageRoles DEF Answers, OpenCall

\* A call that comes with its result leaves no call open.
LEMMA PairAnswers ==
  ASSUME NEW c \in Call, NEW m, Answers(m)
  PROVE  Answers(m \o <<CallMessage(c), ToolMessage(c)>>)
<1>1. m \o <<CallMessage(c), ToolMessage(c)>>
        = Append(Append(m, CallMessage(c)), ToolMessage(c))
  BY MessageRoles DEF Answers
<1> QED BY <1>1, CallAsks, ResultAnswers

\* The messages of the user open no call.
LEMMA SteersAnswer ==
  ASSUME TypeOK, NEW m, Answers(m)
  PROVE  Answers(WithSteers(m))
<1> DEFINE n == WithSteers(m)
<1>1. m \in Seq(Message) /\ Len(m) \in Nat /\ steers.pending \in Nat
  BY DEF Answers, TypeOK
<1>2. /\ n \in Seq(Message) /\ Len(n) = Len(m) + steers.pending
      /\ \A i \in 1..Len(m) : n[i] = m[i]
  BY <1>1, WithSteersShape
<1>3. ASSUME NEW i \in 1..Len(n), i > Len(m)
      PROVE  n[i].role = "user"
  <2> DEFINE k == i - Len(m)
  <2>1. k \in 1..steers.pending /\ Len(m) + k = i
    BY <1>1, <1>2, <1>3
  <2> HIDE DEF k
  <2>2. n[Len(m) + k] = UserMessage(steers.made - steers.pending + k)
    BY <1>1, <2>1, WithSteersShape
  <2> HIDE DEF n
  <2> QED BY <2>1, <2>2 DEF UserMessage
<1> HIDE DEF n
<1>4. ~OpenCall(n)
  <2>1. CASE steers.pending = 0
    BY <1>1, <1>2, <2>1 DEF Answers, OpenCall
  <2>2. CASE steers.pending > 0
    <3>1. n[Len(n)].role = "user"
      BY <1>1, <1>2, <1>3, <2>2
    <3> QED BY <3>1 DEF OpenCall
  <2> QED BY <1>1, <2>1, <2>2
<1>5. ASSUME NEW i \in 1..Len(n), n[i].role # "user"
      PROVE  /\ i \in 1..Len(m) /\ n[i] = m[i]
             /\ i > 1 => n[i-1] = m[i-1]
             /\ i < Len(m) => n[i+1] = m[i+1]
  <2>1. i \in 1..Len(m)
    BY <1>1, <1>2, <1>3, <1>5
  <2> QED BY <1>1, <1>2, <2>1
<1>6. ASSUME NEW i \in 1..Len(n), n[i].role # "user"
      PROVE  /\ n[i].role = "tool" => i > 1 /\ n[i-1] = CallMessage(n[i].op)
             /\ n[i].role = "call" /\ i < Len(n) => n[i+1] = ToolMessage(n[i].op)
  <2>1. /\ m[i].role = "tool" => i > 1 /\ m[i-1] = CallMessage(m[i].op)
        /\ m[i].role = "call" /\ i < Len(m) => m[i+1] = ToolMessage(m[i].op)
        /\ i = Len(m) => m[i].role # "call"
    BY <1>1, <1>5, <1>6 DEF Answers, Pairs, OpenCall
  <2> QED BY <1>1, <1>5, <1>6, <2>1
<1>7. Pairs(n)
  BY <1>6 DEF Pairs
<1> QED BY <1>2, <1>4, <1>7 DEF Answers, n

\* Compaction drops a call together with its result.
LEMMA CompactAnswers ==
  ASSUME NEW m, Answers(m), NEW i \in 1..Len(m) - 1, m[i].role = "call",
         m[i+1] = ToolMessage(m[i].op)
  PROVE  Answers(SubSeq(m, 1, i - 1) \o SubSeq(m, i + 2, Len(m)))
<1> DEFINE a == SubSeq(m, 1, i - 1)
           b == SubSeq(m, i + 2, Len(m))
           n == a \o b
<1>1. m \in Seq(Message) /\ Len(m) \in Nat /\ i \in Nat /\ i >= 1 /\ i < Len(m)
  BY DEF Answers
<1>2. a \in Seq(Message) /\ Len(a) = i - 1 /\ \A j \in 1..i - 1 : a[j] = m[j]
  BY <1>1
<1>3. b \in Seq(Message) /\ Len(b) = Len(m) - i - 1
      /\ \A j \in 1..Len(m) - i - 1 : b[j] = m[j + i + 1]
  BY <1>1
<1> HIDE DEF a, b
<1>4. n \in Seq(Message) /\ Len(n) = Len(m) - 2
  <2>1. n \in Seq(Message)
    BY <1>2, <1>3
  <2>2. Len(n) = Len(a) + Len(b)
    <3>1. \A x, y \in Seq(Message) : Len(x \o y) = Len(x) + Len(y)
      OBVIOUS
    <3> QED BY <1>2, <1>3, <3>1
  <2> HIDE DEF n
  <2> QED BY <1>1, <1>2, <1>3, <2>1, <2>2
<1>5. \A j \in 1..i - 1 : n[j] = m[j]
  BY <1>1, <1>2, <1>3
<1>6. \A j \in i..Len(m) - 2 : n[j] = m[j + 2]
  BY <1>1, <1>2, <1>3
<1> HIDE DEF n
<1>7. m[i] \in Message /\ m[i+1].role = "tool"
  BY <1>1 DEF ToolMessage
<1>8. i + 2 <= Len(m) => m[i+2].role # "tool"
  <2>1. i + 2 <= Len(m) /\ m[i+2].role = "tool" => m[i+1] = CallMessage(m[i+2].op)
    BY <1>1 DEF Answers, Pairs
  <2> QED BY <1>7, <2>1 DEF CallMessage
<1>9. i > 1 => m[i-1].role # "call"
  <2>1. i > 1 /\ m[i-1].role = "call" => m[i] = ToolMessage(m[i-1].op)
    BY <1>1 DEF Answers, Pairs
  <2> QED BY <2>1 DEF ToolMessage
<1>10. ASSUME NEW j \in 1..Len(n), n[j].role = "tool"
       PROVE  j > 1 /\ n[j-1] = CallMessage(n[j].op)
  <2>1. CASE j < i
    BY <1>1, <1>5, <1>10, <2>1 DEF Answers, Pairs
  <2>2. j # i
    BY <1>1, <1>4, <1>6, <1>8, <1>10
  <2>3. CASE j > i
    <3>1. n[j] = m[j+2] /\ n[j-1] = m[j+1] /\ j + 2 \in 1..Len(m)
      BY <1>1, <1>4, <1>6, <2>3
    <3> QED BY <1>1, <1>10, <2>3, <3>1 DEF Answers, Pairs
  <2> QED BY <1>1, <1>4, <2>1, <2>2, <2>3
<1>11. ASSUME NEW j \in 1..Len(n), n[j].role = "call", j < Len(n)
       PROVE  n[j+1] = ToolMessage(n[j].op)
  <2>1. CASE j + 1 < i
    BY <1>1, <1>5, <1>11, <2>1 DEF Answers, Pairs
  <2>2. j + 1 # i
    BY <1>1, <1>4, <1>5, <1>9, <1>11
  <2>3. CASE j >= i
    <3>1. n[j] = m[j+2] /\ n[j+1] = m[j+3] /\ j + 2 \in 1..Len(m) /\ j + 2 < Len(m)
      BY <1>1, <1>4, <1>6, <1>11, <2>3
    <3> QED BY <1>1, <1>11, <3>1 DEF Answers, Pairs
  <2> QED BY <1>1, <1>4, <2>1, <2>2, <2>3
<1>12. ~OpenCall(n)
  <2>1. CASE i + 2 <= Len(m)
    <3>1. n[Len(n)] = m[Len(m)]
      BY <1>1, <1>4, <1>6, <2>1
    <3> QED BY <1>1, <3>1 DEF Answers, OpenCall
  <2>2. CASE ~(i + 2 <= Len(m))
    <3>1. Len(n) = i - 1 /\ (i > 1 => n[Len(n)] = m[i-1])
      BY <1>1, <1>4, <1>5, <2>2
    <3> QED BY <1>1, <1>9, <3>1 DEF OpenCall
  <2> QED BY <2>1, <2>2
<1>13. Answers(n)
  BY <1>4, <1>10, <1>11, <1>12 DEF Answers, Pairs
<1> QED BY <1>13 DEF n, a, b

\* Settling leaves no call open.
LEMMA SettledAnswers ==
  ASSUME NEW c \in Checkpoint, Pairs(c.messages)
  PROVE  Answers(Settled(c).messages)
<1> DEFINE m == c.messages
           r == IF Len(m) > 0 /\ m[Len(m)].role = "call"
                THEN Append(m, ToolMessage(m[Len(m)].op)) ELSE m
           d == [c EXCEPT !.wait = 0]
<1>1. Settled(c) = [d EXCEPT !.messages = r]
  BY DEF Settled
<1>2. DOMAIN d = {"messages", "safeDraft", "marker", "approval", "wait"}
  BY DEF Checkpoint
<1>3. m \in Seq(Message)
  BY DEF Checkpoint
<1> HIDE DEF d
<1>4. Settled(c).messages = r
  <2> HIDE DEF r
  <2> QED BY <1>1, <1>2
<1>5. CASE ~OpenCall(m)
  BY <1>3, <1>4, <1>5 DEF Answers, OpenCall
<1>6. CASE OpenCall(m)
  <2>1. m[Len(m)] \in Message
    BY <1>3, <1>6 DEF OpenCall
  <2>2. m[Len(m)].op \in Call /\ m[Len(m)] = CallMessage(m[Len(m)].op)
    BY <1>6, <2>1 DEF Message, OpenCall, CallMessage
  <2>3. Asks(m, m[Len(m)].op)
    BY <1>3, <1>6, <2>2 DEF Asks, EndsIn, OpenCall
  <2> QED BY <1>4, <1>6, <2>2, <2>3, ResultAnswers DEF OpenCall
<1> QED BY <1>5, <1>6

-----------------------------------------------------------------------------
(* The histories of the checkpoint and of the workers. *)

RowHist ==
  /\ Pairs(checkpoint.messages)
  /\ checkpoint.approval # NoApproval /\ run.status \notin TerminalStatuses
       => EndsIn(checkpoint.messages, checkpoint.approval.op)
  /\ run.status = "waiting_for_subagents"
       => EndsIn(checkpoint.messages, checkpoint.wait) /\ checkpoint.approval = NoApproval
  /\ OpenCall(checkpoint.messages)
       => /\ run.status \notin TerminalStatuses
          /\ \/ run.status \in {"waiting_for_user", "waiting_for_subagents"}
             \/ checkpoint.approval # NoApproval
  /\ \A q \in Pending(questions) :
       /\ EndsIn(checkpoint.messages, questions[q].op)
       /\ questions[q].approval <=> checkpoint.approval # NoApproval
       /\ questions[q].approval => checkpoint.approval.question = q

\* Only a worker that resumes an approval has an open call in hand, the approved one.
WorkerPaired(x) ==
  /\ Pairs(x.messages)
  /\ x.phase \in ApprovalPhase => EndsIn(x.messages, x.op)
  /\ x.phase \notin ApprovalPhase => ~OpenCall(x.messages)

WorkersPaired == \A w \in Worker : WorkerPaired(worker[w])

HistInv == RowHist /\ WorkersPaired

\* The invariant of histories implies what the code promises of them.
LEMMA HistoryFromInv == ASSUME TypeOK, HistInv PROVE HistoryPaired
<1>1. Len(checkpoint.messages) \in Nat
  BY DEF TypeOK, Checkpoint
<1> QED BY <1>1 DEF HistInv, RowHist, Pairs, OpenCall, HistoryPaired

\* A worker's new record is all that changes.
LEMMA SetPaired ==
  ASSUME TypeOK, WorkersPaired, NEW w \in Worker, NEW x, WorkerPaired(x),
         worker' = [worker EXCEPT ![w] = x]
  PROVE  WorkersPaired'
BY DEF TypeOK, WorkersPaired

\* A task that ends holds no history.
LEMMA LeavePaired ==
  ASSUME TypeOK, WorkersPaired, NEW w \in Worker, Leave(w)
  PROVE  WorkersPaired'
<1>1. WorkerPaired(Idle)
  BY EmptyAnswers DEF WorkerPaired, Idle, ApprovalPhase, Answers
<1> QED BY <1>1, SetPaired DEF Leave

\* Changing phase keeps the history, within and outside the phases of an approval.
LEMMA GotoPaired ==
  ASSUME TypeOK, WorkersPaired, NEW w \in Worker, NEW p, Goto(w, p),
         worker[w].phase \in ApprovalPhase <=> p \in ApprovalPhase
  PROVE  WorkersPaired'
<1> DEFINE x == [worker[w] EXCEPT !.phase = p]
<1>1. worker' = [worker EXCEPT ![w] = x]
  BY DEF Goto, TypeOK
<1>2. x.phase = p /\ x.op = worker[w].op /\ x.messages = worker[w].messages
  BY DEF TypeOK, WorkerState
<1> HIDE DEF x
<1>3. WorkerPaired(x)
  BY <1>2 DEF WorkersPaired, WorkerPaired
<1> QED BY <1>1, <1>3, SetPaired

\* The next round starts from an answered history.
LEMMA NextRoundPaired ==
  ASSUME TypeOK, WorkersPaired, NEW w \in Worker, NEW m, Answers(m), NextRound(w, m)
  PROVE  WorkersPaired'
<1> DEFINE x == [Idle EXCEPT !.phase = "head", !.messages = m, !.fence = worker[w].fence]
<1>1. worker' = [worker EXCEPT ![w] = x]
  BY DEF NextRound
<1>2. x.phase = "head" /\ x.messages = m
  BY DEF Idle
<1> HIDE DEF x
<1>3. WorkerPaired(x)
  BY <1>2 DEF WorkerPaired, ApprovalPhase, Answers
<1> QED BY <1>1, <1>3, SetPaired

\* The history in a worker's hands.
LEMMA WorkerHistory ==
  ASSUME TypeInv, WorkersPaired, NEW w \in Worker
  PROVE  /\ worker[w].phase \notin ApprovalPhase => Answers(worker[w].messages)
         /\ worker[w].phase \in ApprovalPhase => /\ Asks(worker[w].messages, worker[w].op)
                                                 /\ worker[w].op \in Call
BY DEF TypeInv, TypeOK, WorkerState, WorkersPaired, WorkerPaired, Answers, Asks, CallsKnown,
       WorkersKnowCall, ToolPhase, ApprovalPhase

\* A step that only moves the run between pending and running, or not at all.
LEMMA RowKept ==
  ASSUME RowHist, UNCHANGED questions,
         checkpoint'.messages = checkpoint.messages, checkpoint'.wait = checkpoint.wait,
         checkpoint'.approval = checkpoint.approval,
         \/ run'.status = run.status
         \/ {run.status, run'.status} \subseteq {"pending", "running"}
  PROVE  RowHist'
<1>1. Pending(questions)' = Pending(questions)
  BY DEF Pending
<1>2. run'.status \in TerminalStatuses <=> run.status \in TerminalStatuses
  BY DEF TerminalStatuses
<1>3. run'.status = run.status \/ {run.status, run'.status}
        \cap {"waiting_for_user", "waiting_for_subagents"} = {}
  OBVIOUS
<1> QED BY <1>1, <1>2, <1>3 DEF RowHist

\* A step that leaves every call answered and no approval or question open.
LEMMA RowClosed ==
  ASSUME Answers(checkpoint'.messages), Pending(questions)' = {},
         checkpoint'.approval = NoApproval \/ run'.status \in TerminalStatuses,
         run'.status # "waiting_for_subagents"
  PROVE  RowHist'
BY DEF RowHist, Answers

\* A running run has no pending question.
LEMMA NonePending ==
  ASSUME QuestionMatchesStatus, run.status # "waiting_for_user", UNCHANGED questions
  PROVE  Pending(questions)' = {}
BY DEF QuestionMatchesStatus, Pending

\* The holder has a fence, so its worker is not idle.
LEMMA HolderHolds ==
  ASSUME TypeInv, FenceInv, HolderInv, NEW w \in Worker, LeaseMatches(w)
  PROVE  /\ worker[w].phase \in RoundPhase => checkpoint.approval = NoApproval
         /\ worker[w].phase \in ApprovalPhase => checkpoint.approval = worker[w].approval
BY DEF LeaseMatches, HolderInv, FenceInv, RoundPhase, ApprovalPhase

\* Steps of a worker that change no more of the checkpoint than its marker.
LEMMA QuietCheckpoint ==
  ASSUME TypeOK, NEW w \in Worker,
         \/ Claim(w) \/ RenewLease(w) \/ LoseLease(w) \/ Crash(w) \/ LoadState(w)
         \/ BeginRound(w) \/ Delta(w) \/ EndRound(w) \/ StepFails(w) \/ StartBatch(w)
         \/ RunBatch(w) \/ BeginApproved(w) \/ InvokeApproved(w) \/ RetryApproved(w)
  PROVE  /\ checkpoint'.messages = checkpoint.messages
         /\ checkpoint'.wait = checkpoint.wait
         /\ checkpoint'.approval = checkpoint.approval
<1>1. CASE UNCHANGED checkpoint
  BY <1>1
<1>2. ASSUME NEW k, checkpoint' = [checkpoint EXCEPT !.marker = k]
      PROVE  /\ checkpoint'.messages = checkpoint.messages
             /\ checkpoint'.wait = checkpoint.wait
             /\ checkpoint'.approval = checkpoint.approval
  BY <1>2 DEF TypeOK, Checkpoint
<1>3. UNCHANGED checkpoint \/ \E k : checkpoint' = [checkpoint EXCEPT !.marker = k]
  BY DEF Claim, RenewLease, LoseLease, Crash, LoadState, BeginRound, Delta, EndRound,
         StepFails, StartBatch, RunBatch, BeginApproved, InvokeApproved, RetryApproved,
         MarkExecuting
<1> QED BY <1>1, <1>2, <1>3

\* Steps of a worker that leave the history of the checkpoint alone.
LEMMA HistQuiet ==
  ASSUME ConstantsAssumption, TypeInv, HistInv, QuestionMatchesStatus, NEW w \in Worker,
         \/ Claim(w) \/ RenewLease(w) \/ LoseLease(w) \/ Crash(w) \/ LoadState(w)
         \/ BeginRound(w) \/ Delta(w) \/ EndRound(w) \/ StepFails(w) \/ StartBatch(w)
         \/ RunBatch(w) \/ BeginApproved(w) \/ InvokeApproved(w) \/ RetryApproved(w)
  PROVE  HistInv'
<1> USE DEF TypeInv, HistInv
<1>1. UNCHANGED questions
  BY DEF Claim, RenewLease, LoseLease, Crash, LoadState, BeginRound, Delta, EndRound,
         StepFails, StartBatch, RunBatch, BeginApproved, InvokeApproved, RetryApproved
<1>2. /\ checkpoint'.messages = checkpoint.messages /\ checkpoint'.wait = checkpoint.wait
      /\ checkpoint'.approval = checkpoint.approval
  BY QuietCheckpoint
<1>3. \/ run'.status = run.status
      \/ {run.status, run'.status} \subseteq {"pending", "running"}
  <2>1. CASE Claim(w)
    BY <2>1, ClaimShape DEF Take, Lease
  <2>2. CASE RenewLease(w)
    BY <2>2 DEF RenewLease, TypeOK, RunRow
  <2>3. CASE Delta(w)
    <3> DEFINE d == run.draft + 1
               r == [run EXCEPT !.draft = d]
    <3>3. d \in Nat
      BY DEF TypeOK, RunRow
    <3> HIDE DEF d
    <3>1. r \in RunRow /\ r.status = run.status
      BY <3>3 DEF TypeOK, RunRow
    <3>2. Commit(w, r)
      BY <2>3 DEF Delta, d
    <3> HIDE DEF r
    <3> QED BY <3>1, <3>2, CommitFields
  <2>4. CASE StartBatch(w) \/ BeginApproved(w)
    BY <2>4, CommitFields DEF StartBatch, BeginApproved, TypeOK
  <2>5. CASE \/ LoseLease(w) \/ Crash(w) \/ LoadState(w) \/ BeginRound(w) \/ EndRound(w)
             \/ StepFails(w) \/ RunBatch(w) \/ InvokeApproved(w) \/ RetryApproved(w)
    BY <2>5 DEF LoseLease, Crash, LoadState, BeginRound, EndRound, StepFails, RunBatch,
                InvokeApproved, RetryApproved
  <2> QED BY <2>1, <2>2, <2>3, <2>4, <2>5
<1>4. WorkersPaired'
  <2>1. CASE Claim(w)
    <3> DEFINE x == [Idle EXCEPT !.phase = "claimed", !.fence = run.fence + 1]
    <3>1. WorkerPaired(x)
      BY EmptyAnswers DEF WorkerPaired, Idle, ApprovalPhase, Answers
    <3>2. worker' = [worker EXCEPT ![w] = x]
      BY <2>1 DEF Claim
    <3> QED BY <3>1, <3>2, SetPaired
  <2>2. CASE RenewLease(w) \/ Delta(w)
    BY <2>2 DEF RenewLease, Delta, WorkersPaired
  <2>3. CASE LoseLease(w) \/ Crash(w)
    BY <2>3, LeavePaired DEF LoseLease, Crash
  <2>4. CASE BeginRound(w) \/ EndRound(w) \/ RunBatch(w) \/ RetryApproved(w)
    BY <2>4, GotoPaired DEF BeginRound, EndRound, RunBatch, RetryApproved, ApprovalPhase
  <2>5. CASE StepFails(w)
    <3> DEFINE x == [Idle EXCEPT !.phase = "failing", !.fence = worker[w].fence]
    <3>1. WorkerPaired(x)
      BY EmptyAnswers DEF WorkerPaired, Idle, ApprovalPhase, Answers
    <3>2. worker' = [worker EXCEPT ![w] = x]
      BY <2>5 DEF StepFails
    <3> QED BY <3>1, <3>2, SetPaired
  <2>6. CASE StartBatch(w)
    <3> DEFINE n == NextCall
               x == [worker[w] EXCEPT !.op = n, !.phase = "batch"]
    <3>1. worker' = [worker EXCEPT ![w] = x] /\ worker[w].phase = "decided"
      BY <2>6 DEF StartBatch, TypeOK
    <3> HIDE DEF n
    <3>2. x.phase = "batch" /\ x.messages = worker[w].messages
      BY DEF TypeOK, WorkerState
    <3> HIDE DEF x
    <3>3. WorkerPaired(x)
      BY <3>1, <3>2 DEF WorkersPaired, WorkerPaired, ApprovalPhase
    <3> QED BY <3>1, <3>3, SetPaired
  <2>7. CASE BeginApproved(w)
    <3> DEFINE x == [worker[w] EXCEPT !.tries = 0, !.phase = "invoke"]
    <3>1. worker' = [worker EXCEPT ![w] = x] /\ worker[w].phase = "approval"
      BY <2>7 DEF BeginApproved, TypeOK
    <3>2. x.phase = "invoke" /\ x.messages = worker[w].messages /\ x.op = worker[w].op
      BY DEF TypeOK, WorkerState
    <3> HIDE DEF x
    <3>3. WorkerPaired(x)
      BY <3>1, <3>2 DEF WorkersPaired, WorkerPaired, ApprovalPhase
    <3> QED BY <3>1, <3>3, SetPaired
  <2>8. CASE InvokeApproved(w)
    <3> DEFINE t == worker[w].tries + 1
               x == [worker[w] EXCEPT !.tries = t, !.phase = "invoked"]
    <3>1. worker' = [worker EXCEPT ![w] = x] /\ worker[w].phase = "invoke"
      BY <2>8 DEF InvokeApproved, TypeOK
    <3> HIDE DEF t
    <3>2. x.phase = "invoked" /\ x.messages = worker[w].messages /\ x.op = worker[w].op
      BY DEF TypeOK, WorkerState
    <3> HIDE DEF x
    <3>3. WorkerPaired(x)
      BY <3>1, <3>2 DEF WorkersPaired, WorkerPaired, ApprovalPhase
    <3> QED BY <3>1, <3>3, SetPaired
  <2>9. CASE LoadState(w)
    <3> DEFINE p == IF checkpoint.approval = NoApproval THEN "head" ELSE "approval"
               m == checkpoint.messages
               a == checkpoint.approval
               o == checkpoint.approval.op
               x == [worker[w] EXCEPT !.messages = m, !.approval = a, !.op = o, !.phase = p]
    <3>1. worker' = [worker EXCEPT ![w] = x] /\ run.status = "running"
      BY <2>9 DEF LoadState, LeaseMatches, TypeOK
    <3>2. x.phase = p /\ x.op = o /\ x.messages = m
      <4> HIDE DEF p, m, a, o
      <4> QED BY DEF TypeOK, WorkerState
    <3> HIDE DEF x
    <3>3. WorkerPaired(x)
      BY <3>1, <3>2 DEF RowHist, WorkerPaired, ApprovalPhase, TerminalStatuses
    <3> QED BY <3>1, <3>3, SetPaired
  <2> QED BY <2>1, <2>2, <2>3, <2>4, <2>5, <2>6, <2>7, <2>8, <2>9
<1> QED BY <1>1, <1>2, <1>3, <1>4, RowKept

\* The messages of a safe checkpoint, whatever else the transaction sets.
LEMMA SafeMessages ==
  ASSUME TypeOK, NEW m \in Seq(Message),
         \/ checkpoint' = Safe(m)
         \/ \E wait : checkpoint' = [Safe(m) EXCEPT !.wait = wait]
         \/ \E marker : checkpoint' = [Safe(m) EXCEPT !.marker = marker]
         \/ \E approval : checkpoint' = [Safe(m) EXCEPT !.approval = approval]
         \/ \E approval, marker :
              checkpoint' = [Safe(m) EXCEPT !.approval = approval, !.marker = marker]
  PROVE  checkpoint'.messages = m
<1>1. ASSUME NEW s \in Checkpoint, s.messages = m,
             \/ checkpoint' = s
             \/ \E wait : checkpoint' = [s EXCEPT !.wait = wait]
             \/ \E marker : checkpoint' = [s EXCEPT !.marker = marker]
             \/ \E approval : checkpoint' = [s EXCEPT !.approval = approval]
             \/ \E approval, marker :
                  checkpoint' = [s EXCEPT !.approval = approval, !.marker = marker]
      PROVE  checkpoint'.messages = m
  <2>1. ASSUME NEW k, \/ checkpoint' = [s EXCEPT !.wait = k]
                      \/ checkpoint' = [s EXCEPT !.marker = k]
                      \/ checkpoint' = [s EXCEPT !.approval = k]
        PROVE  checkpoint'.messages = m
    BY <1>1, <2>1 DEF Checkpoint
  <2>2. ASSUME NEW a, NEW k, checkpoint' = [s EXCEPT !.approval = a, !.marker = k]
        PROVE  checkpoint'.messages = m
    BY <1>1, <2>2 DEF Checkpoint
  <2> QED BY <1>1, <2>1, <2>2
<1>2. Safe(m) \in Checkpoint /\ Safe(m).messages = m
  BY SafeType, SafeFields
<1> QED BY <1>1, <1>2

\* Steps of the holder that write the answered history it has in hand.
LEMMA HistSafe ==
  ASSUME ConstantsAssumption, TypeInv, HistInv, FenceInv, HolderInv, QuestionMatchesStatus,
         NEW w \in Worker,
         \/ BeginSteeredRound(w) \/ CompleteSteered(w) \/ Complete(w) \/ Compact(w)
         \/ DirectResult(w) \/ CompleteBatch(w)
  PROVE  HistInv'
<1> USE DEF TypeInv, HistInv
<1>1. LeaseMatches(w) /\ worker[w].phase \in RoundPhase
  BY DEF BeginSteeredRound, CompleteSteered, Complete, Compact, DirectResult, CompleteBatch,
         RoundPhase
<1>2. checkpoint.approval = NoApproval /\ run.status = "running"
  BY <1>1, HolderHolds DEF LeaseMatches
<1>3. Answers(worker[w].messages)
  BY <1>1, WorkerHistory DEF RoundPhase, ApprovalPhase
<1>4. UNCHANGED questions
  BY DEF BeginSteeredRound, CompleteSteered, Complete, Compact, DirectResult, CompleteBatch,
         ConsumeSteers
<1>5. run'.status \in {"running", "completed"}
  <2>1. CASE Complete(w)
    BY <2>1, ReleaseShape DEF Complete, Lease, TerminalStatuses
  <2>2. CASE Compact(w)
    BY <1>2, <2>2 DEF Compact
  <2>3. CASE BeginSteeredRound(w) \/ CompleteSteered(w) \/ DirectResult(w) \/ CompleteBatch(w)
    BY <1>2, <2>3, CommitFields
       DEF BeginSteeredRound, CompleteSteered, ConsumeSteers, DirectResult, CompleteBatch,
           TypeOK
  <2> QED BY <2>1, <2>2, <2>3
<1>6. checkpoint'.approval = NoApproval
  <2>1. CASE CompleteBatch(w)
    BY <1>2, <2>1, EndShape DEF Ends, Marked
  <2>2. CASE DirectResult(w)
    <3> DEFINE m == worker[w].messages \o <<CallMessage(NextCall), ToolMessage(NextCall)>>
    <3>1. m \in Seq(Message) /\ checkpoint' = Safe(m)
      BY <2>2, NewCallType, CallMessages DEF DirectResult, CallKind
    <3> HIDE DEF m
    <3> QED BY <1>2, <3>1, SafeFields
  <2>3. CASE BeginSteeredRound(w) \/ CompleteSteered(w) \/ Complete(w) \/ Compact(w)
    BY <1>2, <2>3, RoundCalls DEF Aside, Marked
  <2> QED BY <2>1, <2>2, <2>3
<1>7. Answers(checkpoint'.messages) /\ WorkersPaired'
  <2>1. CASE Complete(w)
    <3>1. checkpoint'.messages = worker[w].messages
      BY <1>3, <2>1, SafeMessages DEF Complete, Answers
    <3> QED BY <1>3, <2>1, <3>1, LeavePaired DEF Complete
  <2>2. CASE Compact(w)
    <3> DEFINE m == worker[w].messages
    <3>1. PICK i \in 1..Len(m) - 1 :
            /\ m[i].role = "call" /\ m[i+1] = ToolMessage(m[i].op)
            /\ checkpoint' = Safe(SubSeq(m, 1, i - 1) \o SubSeq(m, i + 2, Len(m)))
            /\ worker' = [worker EXCEPT
                 ![w].messages = SubSeq(m, 1, i - 1) \o SubSeq(m, i + 2, Len(m))]
            /\ worker[w].phase = "round"
      BY <2>2 DEF Compact
    <3> DEFINE kept == SubSeq(m, 1, i - 1) \o SubSeq(m, i + 2, Len(m))
               x == [worker[w] EXCEPT !.messages = kept]
    <3>2. Answers(kept)
      BY <1>3, <3>1, CompactAnswers
    <3>3. checkpoint'.messages = kept
      BY <3>1, <3>2, SafeMessages DEF Answers
    <3>4. worker' = [worker EXCEPT ![w] = x]
      BY <3>1 DEF TypeOK
    <3> HIDE DEF kept
    <3>5. x.messages = kept /\ x.phase = "round"
      BY <3>1 DEF TypeOK, WorkerState
    <3> HIDE DEF x
    <3>6. WorkerPaired(x)
      BY <3>2, <3>5 DEF WorkerPaired, ApprovalPhase, Answers
    <3> QED BY <3>2, <3>3, <3>4, <3>6, SetPaired
  <2>3. CASE DirectResult(w)
    <3> DEFINE m == worker[w].messages \o <<CallMessage(NextCall), ToolMessage(NextCall)>>
    <3>1. NextCall \in Call
      BY <2>3, NewCallType DEF DirectResult, CallKind
    <3>2. Answers(m)
      BY <1>3, <3>1, PairAnswers
    <3>3. checkpoint' = Safe(m) /\ NextRound(w, m)
      BY <2>3 DEF DirectResult
    <3> HIDE DEF m
    <3> QED BY <3>2, <3>3, SafeMessages, NextRoundPaired DEF Answers
  <2>4. CASE CompleteBatch(w)
    <3> DEFINE op == worker[w].op
               m == worker[w].messages \o <<CallMessage(op), ToolMessage(op)>>
    <3>1. op \in Call
      BY <2>4 DEF CompleteBatch, CallsKnown, WorkersKnowCall, ToolPhase
    <3>2. Answers(m)
      BY <1>3, <3>1, PairAnswers
    <3>3. (\E k : checkpoint' = [Safe(m) EXCEPT !.marker = k]) /\ NextRound(w, m)
      BY <2>4 DEF CompleteBatch, MarkCompleted
    <3> HIDE DEF m
    <3> QED BY <3>2, <3>3, SafeMessages, NextRoundPaired DEF Answers
  <2>5. CASE BeginSteeredRound(w) \/ CompleteSteered(w)
    <3> DEFINE m == WithSteers(worker[w].messages)
    <3>1. Answers(m)
      BY <1>3, SteersAnswer
    <3>2. checkpoint' = Safe(m)
      BY <2>5 DEF BeginSteeredRound, CompleteSteered, ConsumeSteers
    <3>3. checkpoint'.messages = m
      BY <3>1, <3>2, SafeMessages DEF Answers
    <3>4. CASE CompleteSteered(w)
      BY <3>1, <3>3, <3>4, NextRoundPaired DEF CompleteSteered
    <3>5. CASE BeginSteeredRound(w)
      <4>1. PICK x : worker' = [worker EXCEPT ![w] = x] /\ x.phase = "round" /\ x.messages = m
        BY <3>5, SteeredRoundShape
      <4>2. WorkerPaired(x)
        BY <3>1, <4>1 DEF WorkerPaired, ApprovalPhase, Answers
      <4> QED BY <3>1, <3>3, <4>1, <4>2, SetPaired
    <3> QED BY <2>5, <3>4, <3>5
  <2> QED BY <2>1, <2>2, <2>3, <2>4, <2>5
<1> QED BY <1>2, <1>4, <1>5, <1>6, <1>7, NonePending, RowClosed

\* Closing an approval answers the call the history ends in.
LEMMA HistCloses ==
  ASSUME ConstantsAssumption, TypeInv, HistInv, QuestionMatchesStatus,
         NEW w \in Worker, RejectApproval(w) \/ SettleApproved(w)
  PROVE  HistInv'
<1> USE DEF TypeInv, HistInv
<1> DEFINE m == Append(worker[w].messages, ToolMessage(worker[w].op))
<1>1. LeaseMatches(w) /\ worker[w].phase \in ApprovalPhase /\ ApprovalClosed(w)
      /\ UNCHANGED questions
  BY DEF RejectApproval, SettleApproved, ApprovalPhase
<1>2. Answers(m)
  BY <1>1, WorkerHistory, ResultAnswers
<1>3. WorkersPaired'
  BY <1>1, <1>2, NextRoundPaired DEF ApprovalClosed
<1>4. checkpoint'.messages = m
  BY <1>1, <1>2, SafeMessages DEF ApprovalClosed, Answers
<1>5. checkpoint'.approval = NoApproval
  BY CloseShape DEF Closes, Marked
<1>6. run.status = "running" /\ run'.status = "running"
  BY <1>1, CommitFields DEF ApprovalClosed, LeaseMatches, TypeOK
<1> QED BY <1>1, <1>2, <1>3, <1>4, <1>5, <1>6, NonePending, RowClosed

\* A run that ends answers the call its history ends in.
LEMMA HistEnds ==
  ASSUME ConstantsAssumption, TypeInv, HistInv, QuestionMatchesStatus,
         CancelRun \/ FailWait \/ \E w \in Worker : ClaimOversized(w) \/ FailRun(w)
  PROVE  HistInv'
<1> USE DEF TypeInv, HistInv
<1>1. checkpoint' = Settled(checkpoint)
  BY DEF CancelRun, FailWait, ClaimOversized, FailRun
<1>2. Answers(checkpoint'.messages)
  BY <1>1, SettledAnswers DEF RowHist, TypeOK
<1>3. run'.status \in TerminalStatuses
  <2>1. ASSUME NEW w \in Worker, ClaimOversized(w) PROVE run'.status = "failed"
    BY <2>1, RefuseShape DEF Refuse, Lease
  <2>2. (\E s \in {"cancelled", "failed"} : \E who : Commit(who, Released(run, s)))
          => run'.status \in TerminalStatuses
    BY ReleaseShape DEF Lease, TerminalStatuses
  <2> QED BY <2>1, <2>2 DEF CancelRun, FailWait, FailRun, TerminalStatuses
<1>4. Pending(questions)' = {}
  <2>1. CASE CancelRun
    <3> DEFINE x(q) == [questions[q] EXCEPT !.status = "cancelled"]
    <3>1. /\ DOMAIN questions' = DOMAIN questions
          /\ \A q \in DOMAIN questions :
               questions'[q] = IF q \in Pending(questions) THEN x(q) ELSE questions[q]
      BY <2>1 DEF CancelRun
    <3>2. \A q \in DOMAIN questions : x(q).status = "cancelled"
      BY DEF TypeOK, Question
    <3> HIDE DEF x
    <3> QED BY <3>1, <3>2 DEF Pending
  <2>2. CASE ~CancelRun
    BY <2>2, NonePending DEF FailWait, ClaimOversized, FailRun, LeaseMatches
  <2> QED BY <2>1, <2>2
<1>5. WorkersPaired'
  <2>1. ASSUME NEW w \in Worker, FailRun(w) PROVE WorkersPaired'
    BY <2>1, LeavePaired DEF FailRun
  <2>2. UNCHANGED worker => WorkersPaired'
    BY DEF WorkersPaired
  <2> QED BY <2>1, <2>2 DEF CancelRun, FailWait, ClaimOversized
<1> QED BY <1>2, <1>3, <1>4, <1>5, RowClosed DEF TerminalStatuses

\* A question leaves the history open at the call it is about.
LEMMA HistPause ==
  ASSUME TypeInv, HistInv, QuestionMatchesStatus, NEW w \in Worker, LeaseMatches(w),
         NEW op \in Call, NEW m, Asks(m, op), NEW a \in Approval,
         a = NoApproval => checkpoint.approval = NoApproval,
         a # NoApproval => a.op = op, Pause(w, op, m, a)
  PROVE  HistInv'
<1> USE DEF TypeInv, HistInv
<1> DEFINE n == Len(questions) + 1
           new == [op |-> op, approval |-> a # NoApproval, status |-> "pending",
                   answer |-> "none"]
<1>1. /\ a = NoApproval => Marked(checkpoint.marker, checkpoint.approval)
      /\ a # NoApproval => Posed(op, a.replaySafe)
  BY PoseShape DEF Asks
<1>2. questions' = Append(questions, new)
      /\ new.op = op /\ (new.approval <=> a # NoApproval)
  BY DEF Pause
<1> HIDE DEF new
<1>3. Pending(questions)' \subseteq {n} /\ questions'[n] = new
  <2>1. DOMAIN questions' = DOMAIN questions \cup {n} /\ questions'[n] = new
        /\ \A q \in DOMAIN questions : questions'[q] = questions[q]
    BY <1>2 DEF TypeOK
  <2>2. Pending(questions) = {}
    BY DEF QuestionMatchesStatus, LeaseMatches
  <2> QED BY <2>1, <2>2 DEF Pending
<1>4. checkpoint'.messages = m
  BY SafeMessages DEF Pause, Asks
<1>5. run'.status = "waiting_for_user"
  BY ReleaseShape DEF Pause, Lease, ActiveStatuses
<1>6. op # 0 /\ NoApproval.op = 0
  BY DEF NoApproval, Call
<1>7. /\ a = NoApproval <=> checkpoint'.approval = NoApproval
      /\ a # NoApproval => checkpoint'.approval.op = op /\ checkpoint'.approval.question = n
  BY <1>1, <1>6 DEF Marked, Posed
<1> HIDE DEF n
<1>8. RowHist'
  BY <1>2, <1>3, <1>4, <1>5, <1>7 DEF RowHist, Asks, TerminalStatuses
<1>9. WorkersPaired'
  BY LeavePaired DEF Pause
<1> QED BY <1>8, <1>9

\* Steps of the holder that leave the history open.
LEMMA HistAsks ==
  ASSUME ConstantsAssumption, TypeInv, HistInv, FenceInv, HolderInv, KnownInv,
         QuestionMatchesStatus, NEW w \in Worker,
         \/ AskUser(w) \/ (\E b \in BOOLEAN : RequestApproval(w, b)) \/ WaitForSubagents(w)
         \/ AskApprovalAgain(w)
  PROVE  HistInv'
<1> USE DEF TypeInv, HistInv
<1> DEFINE m == Append(worker[w].messages, CallMessage(NextCall))
<1>1. CASE AskApprovalAgain(w)
  <2>1. /\ LeaseMatches(w) /\ worker[w].phase \in ApprovalPhase
        /\ Pause(w, worker[w].op, worker[w].messages, worker[w].approval)
    BY <1>1 DEF AskApprovalAgain, ApprovalPhase
  <2>2. worker[w].approval \in Approval
    BY DEF TypeOK, WorkerState
  <2>3. worker[w].approval.op = worker[w].op
    BY <2>1 DEF KnownInv, WorkerKnown
  <2>4. Asks(worker[w].messages, worker[w].op) /\ worker[w].op \in Call
    BY <2>1, WorkerHistory
  <2>5. worker[w].approval # NoApproval
    BY <2>3, <2>4 DEF NoApproval, Call
  <2> QED BY <2>1, <2>2, <2>3, <2>4, <2>5, HistPause
<1>2. CASE ~AskApprovalAgain(w)
  <2>1. LeaseMatches(w) /\ worker[w].phase = "decided" /\ NextCall \in Call
    BY <1>2, NewCallType DEF AskUser, RequestApproval, WaitForSubagents, CallKind
  <2>2. checkpoint.approval = NoApproval
    BY <2>1, HolderHolds DEF RoundPhase
  <2>3. Asks(m, NextCall)
    BY <2>1, WorkerHistory, CallAsks DEF ApprovalPhase
  <2>4. CASE AskUser(w)
    <3>1. NoApproval \in Approval
      BY DEF NoApproval, Approval
    <3> QED BY <2>1, <2>2, <2>3, <2>4, <3>1, HistPause DEF AskUser
  <2>5. ASSUME NEW b \in BOOLEAN, RequestApproval(w, b) PROVE HistInv'
    <3> DEFINE a == [NoApproval EXCEPT !.op = NextCall, !.replaySafe = b]
    <3>1. a \in Approval /\ a.op = NextCall /\ a # NoApproval
      BY <2>1, RequestedApproval
    <3>2. Pause(w, NextCall, m, a)
      BY <2>5 DEF RequestApproval
    <3> HIDE DEF a, m
    <3> QED BY <2>1, <2>3, <3>1, <3>2, HistPause
  <2>6. CASE WaitForSubagents(w)
    <3> DEFINE s == Safe(m)
    <3>1. checkpoint' = [s EXCEPT !.wait = NextCall] /\ UNCHANGED questions
      BY <2>6 DEF WaitForSubagents
    <3>2. checkpoint'.messages = m
      BY <2>3, <3>1, SafeMessages DEF Asks
    <3>3. s \in Checkpoint /\ s.approval = checkpoint.approval
      BY <2>3, SafeType, SafeFields DEF Asks
    <3> HIDE DEF s
    <3>4. checkpoint'.wait = NextCall /\ checkpoint'.approval = NoApproval
      BY <2>2, <3>1, <3>3 DEF Checkpoint
    <3>5. run'.status = "waiting_for_subagents"
      BY <2>6, ReleaseShape DEF WaitForSubagents, Lease, ActiveStatuses
    <3>6. Pending(questions)' = {}
      BY <2>1, <3>1, NonePending DEF LeaseMatches
    <3>7. WorkersPaired'
      BY <2>6, LeavePaired DEF WaitForSubagents
    <3> QED BY <2>3, <3>2, <3>4, <3>5, <3>6, <3>7 DEF RowHist, Asks, TerminalStatuses
  <2> QED BY <1>2, <2>4, <2>5, <2>6
<1> QED BY <1>1, <1>2

\* Transactions of the API and of the reconcilers.
LEMMA HistEnvironment ==
  ASSUME ConstantsAssumption, TypeInv, HistInv, KnownInv, QuestionMatchesStatus,
         Tick \/ Recover \/ SubmitSteer \/ NotifySteer \/ ResumeWait
  PROVE  HistInv'
<1> USE DEF TypeInv, HistInv
<1>1. UNCHANGED <<worker, questions>>
  BY DEF Tick, Recover, SubmitSteer, NotifySteer, ResumeWait
<1>2. WorkersPaired'
  BY <1>1 DEF WorkersPaired
<1>3. CASE Tick \/ SubmitSteer \/ NotifySteer
  <2>1. run'.status = run.status
    <3>1. CASE Tick
      BY <3>1 DEF Tick, TypeOK, RunRow
    <3>2. CASE SubmitSteer \/ NotifySteer
      BY <3>2, CommitFields DEF SubmitSteer, NotifySteer, TypeOK
    <3> QED BY <1>3, <3>1, <3>2
  <2>2. UNCHANGED checkpoint
    BY <1>3 DEF Tick, SubmitSteer, NotifySteer
  <2> QED BY <1>1, <1>2, <2>1, <2>2, RowKept
<1>4. CASE Recover
  <2>1. /\ run.status = "running"
        /\ run'.status \in {"failed", "pending"}
    BY <1>4, TakenBackShape DEF TakenBack, LeaseExpired, Lease, QuestionMatchesStatus
  <2>2. CASE run'.status = "pending"
    BY <1>1, <1>2, <1>4, <2>1, <2>2, RowKept DEF Recover
  <2>3. CASE run'.status = "failed"
    <3>1. Answers(checkpoint'.messages)
      BY <1>4, <2>3, SettledAnswers DEF Recover, RowHist, TypeOK
    <3>2. Pending(questions)' = {}
      BY <1>1, <2>1, NonePending
    <3> QED BY <1>2, <2>3, <3>1, <3>2, RowClosed DEF TerminalStatuses
  <2> QED BY <2>1, <2>2, <2>3
<1>5. CASE ResumeWait
  <2> DEFINE m == Append(checkpoint.messages, ToolMessage(checkpoint.wait))
             s == Safe(m)
  <2>1. /\ run.status = "waiting_for_subagents" /\ checkpoint.wait \in Call
        /\ checkpoint' = [s EXCEPT !.wait = 0]
    BY <1>5 DEF ResumeWait, CallsKnown
  <2>2. Asks(checkpoint.messages, checkpoint.wait) /\ checkpoint.approval = NoApproval
    BY <2>1 DEF RowHist, Asks, TypeOK, Checkpoint
  <2>3. Answers(m)
    BY <2>1, <2>2, ResultAnswers
  <2>4. s \in Checkpoint /\ s.approval = NoApproval
    BY <2>2, <2>3, SafeType, SafeFields DEF Answers
  <2>5. checkpoint'.messages = m
    BY <2>1, <2>3, SafeMessages DEF Answers
  <2> HIDE DEF s, m
  <2>6. checkpoint'.approval = NoApproval
    BY <2>1, <2>4 DEF Checkpoint
  <2>7. run'.status = "pending"
    BY <1>5, NewEpochShape DEF ResumeWait, Lease
  <2>8. Pending(questions)' = {}
    BY <1>1, <2>1, NonePending
  <2> QED BY <1>2, <2>3, <2>5, <2>6, <2>7, <2>8, RowClosed
<1> QED BY <1>3, <1>4, <1>5

\* An answer closes the open call of a question, or decides the approval it is about.
LEMMA HistAnswer ==
  ASSUME TypeInv, HistInv, KnownInv, QuestionMatchesStatus, NEW q \in DOMAIN questions,
         NEW answer \in {"none", "option-1", "option-2", "text"}, Respond(q, answer)
  PROVE  HistInv'
<1> USE DEF TypeInv, HistInv
<1>1. /\ q \in Pending(questions) /\ UNCHANGED worker
      /\ EndsIn(checkpoint.messages, questions[q].op)
      /\ questions[q].approval <=> checkpoint.approval # NoApproval
      /\ questions[q] \in Question
  BY DEF Respond, Pending, RowHist, TypeOK
<1>2. WorkersPaired'
  BY <1>1 DEF WorkersPaired
<1>3. run'.status = "pending"
  BY NewEpochShape DEF Respond, Lease
<1>4. Pending(questions)' = {}
  <2>1. PICK p \in Pending(questions) : Pending(questions)' = Pending(questions) \ {p}
    BY AnsweredShape DEF Answered
  <2> QED BY <1>1, <2>1 DEF QuestionMatchesStatus
<1>5. CASE ~questions[q].approval
  <2> DEFINE m == Append(checkpoint.messages, ToolMessage(questions[q].op))
  <2>1. checkpoint' = [checkpoint EXCEPT !.messages = m]
    BY <1>5 DEF Respond, TypeOK, Checkpoint
  <2>2. Asks(checkpoint.messages, questions[q].op) /\ questions[q].op \in Call
    BY <1>1 DEF Asks, RowHist, TypeOK, Checkpoint, Question
  <2>3. Answers(m)
    BY <2>2, ResultAnswers
  <2> HIDE DEF m
  <2>4. checkpoint'.messages = m /\ checkpoint'.approval = NoApproval
    BY <1>1, <1>5, <2>1 DEF TypeOK, Checkpoint
  <2> QED BY <1>2, <1>3, <1>4, <2>3, <2>4, RowClosed
<1>6. CASE questions[q].approval
  <2> DEFINE b == [checkpoint.approval EXCEPT !.decision = Decision(answer)]
  <2>1. checkpoint' = [checkpoint EXCEPT !.approval = b]
    BY <1>6 DEF Respond, TypeOK, Checkpoint
  <2>2. b.op = checkpoint.approval.op
    BY DEF TypeOK, Checkpoint, Approval
  <2> HIDE DEF b
  <2>3. checkpoint'.messages = checkpoint.messages /\ checkpoint'.approval = b
    BY <2>1 DEF TypeOK, Checkpoint
  <2>4. checkpoint.approval.op # 0 /\ NoApproval.op = 0
    BY <1>1, <1>6 DEF KnownInv, Known, NoApproval
  <2>5. EndsIn(checkpoint.messages, checkpoint.approval.op)
    BY <1>1, <1>6 DEF RowHist, Respond, TerminalStatuses
  <2> QED BY <1>2, <1>3, <1>4, <2>2, <2>3, <2>4, <2>5 DEF RowHist, TerminalStatuses
<1> QED BY <1>5, <1>6

\* Every step keeps the histories paired.
LEMMA HistNext ==
  ASSUME ConstantsAssumption, CallInv, HistInv, [Next]_vars
  PROVE  HistInv'
<1> USE DEF CallInv
<1>1. CASE UNCHANGED vars
  BY <1>1 DEF vars, HistInv, RowHist, WorkersPaired, Pending
<1>2. ASSUME NEW w \in Worker, WorkerStep(w) PROVE HistInv'
  <2>1. CASE \/ Claim(w) \/ RenewLease(w) \/ LoseLease(w) \/ Crash(w) \/ LoadState(w)
             \/ BeginRound(w) \/ Delta(w) \/ EndRound(w) \/ StepFails(w) \/ StartBatch(w)
             \/ RunBatch(w) \/ BeginApproved(w) \/ InvokeApproved(w) \/ RetryApproved(w)
    BY <2>1, HistQuiet
  <2>2. CASE \/ BeginSteeredRound(w) \/ CompleteSteered(w) \/ Complete(w) \/ Compact(w)
             \/ DirectResult(w) \/ CompleteBatch(w)
    BY <2>2, HistSafe
  <2>3. CASE RejectApproval(w) \/ SettleApproved(w)
    BY <2>3, HistCloses
  <2>4. CASE ClaimOversized(w) \/ FailRun(w)
    BY <2>4, HistEnds
  <2>5. CASE \/ AskUser(w) \/ (\E b \in BOOLEAN : RequestApproval(w, b))
             \/ WaitForSubagents(w) \/ AskApprovalAgain(w)
    BY <2>5, HistAsks
  <2> QED BY <1>2, <2>1, <2>2, <2>3, <2>4, <2>5 DEF WorkerStep
<1>3. CASE Tick \/ Recover \/ SubmitSteer \/ NotifySteer \/ ResumeWait
  BY <1>3, HistEnvironment
<1>4. CASE CancelRun \/ FailWait
  BY <1>4, HistEnds
<1>5. CASE RespondQuestion \/ ResumeSteeringQuestion
  <2>1. PICK q \in DOMAIN questions, answer \in {"none", "option-1", "option-2", "text"} :
          Respond(q, answer)
    BY <1>5 DEF RespondQuestion, ResumeSteeringQuestion
  <2> QED BY <2>1, HistAnswer
<1> QED BY <1>1, <1>2, <1>3, <1>4, <1>5 DEF Next

\* A new run has an empty history.
LEMMA HistInit == Init => HistInv
<1>1. Init => Answers(checkpoint.messages) /\ checkpoint.approval = NoApproval
  BY EmptyAnswers DEF Init
<1>2. Init => \A w \in Worker : WorkerPaired(worker[w])
  <2>1. WorkerPaired(Idle)
    BY EmptyAnswers DEF WorkerPaired, Idle, ApprovalPhase, Answers
  <2> QED BY <2>1 DEF Init
<1> QED BY <1>1, <1>2 DEF Init, HistInv, RowHist, WorkersPaired, Answers, Pending

\* The durable provider history pairs every call with one result next to it, and ends in
\* an open call only while the run still waits for the result.
THEOREM HistoryCorrect == Spec => []HistoryPaired
<1> DEFINE Inv == CallInv /\ HistInv
<1>1. Init => Inv
  BY ConstantsAssumption, CallInit, HistInit
<1>2. Inv /\ [Next]_vars => Inv'
  BY ConstantsAssumption, CallNext, HistNext
<1>3. Inv => HistoryPaired
  BY HistoryFromInv DEF CallInv, TypeInv
<1> QED BY <1>1, <1>2, <1>3, PTL DEF Spec

-----------------------------------------------------------------------------
(* Steers that were consumed. *)

Consumed == steers.made - steers.pending

\* The history m has the messages of the first k steers.
Told(m, k) == \A n \in 1..k : \E i \in 1..Len(m) : m[i] = UserMessage(n)

\* Every message of the user in a is in b.
UsersKept(a, b) == \A i \in 1..Len(a) : a[i].role = "user" => \E j \in 1..Len(b) : b[j] = a[i]

\* The phases in which a worker has a history in hand.
WorkPhase == RoundPhase \cup ApprovalPhase

\* Steers that were consumed are in the checkpoint, and in the history of the worker that
\* may replace it.
SteerInv ==
  /\ Told(checkpoint.messages, Consumed)
  /\ run.status = "running" =>
       \A w \in Worker : worker[w].fence = run.fence /\ worker[w].phase \in WorkPhase
                           => Told(worker[w].messages, Consumed)

Writes(w) == LeaseMatches(w) /\ worker[w].phase \in WorkPhase

\* No worker forgets a message of the user it had in hand, but by reading the checkpoint.
HandsKept ==
  \A v \in Worker : worker'[v].phase \in WorkPhase =>
    \/ worker[v].phase \in WorkPhase /\ UsersKept(worker[v].messages, worker'[v].messages)
    \/ worker'[v].messages = checkpoint.messages

\* What is saved grows out of what was saved, or of what the holder has in hand.
SavedKept ==
  \/ UsersKept(checkpoint.messages, checkpoint'.messages)
  \/ \E w \in Worker : Writes(w) /\ UsersKept(worker[w].messages, checkpoint'.messages)

Remembers == Consumed' = Consumed /\ HandsKept /\ SavedKept

Consumes(w) ==
  /\ Writes(w)
  /\ Consumed' = steers.made
  /\ checkpoint'.messages = WithSteers(worker[w].messages)
  /\ worker'[w].messages = WithSteers(worker[w].messages)

\* A history that keeps the user messages of another has its steers.
LEMMA ToldKept ==
  ASSUME NEW a, NEW b, NEW k, UsersKept(a, b), Told(a, k)
  PROVE  Told(b, k)
<1> SUFFICES ASSUME NEW n \in 1..k PROVE \E i \in 1..Len(b) : b[i] = UserMessage(n)
  BY DEF Told
<1>1. PICK i \in 1..Len(a) : a[i] = UserMessage(n)
  BY DEF Told
<1>2. a[i].role = "user"
  BY <1>1 DEF UserMessage
<1> QED BY <1>1, <1>2 DEF UsersKept

\* With the pending steers a history has all of them.
LEMMA ToldSteers ==
  ASSUME TypeOK, NEW m \in Seq(Message), Told(m, Consumed)
  PROVE  Told(WithSteers(m), steers.made)
<1> DEFINE h == WithSteers(m)
<1>1. /\ steers.pending \in Nat /\ steers.made \in Nat /\ steers.pending <= steers.made
      /\ Len(m) \in Nat
  BY DEF TypeOK
<1>2. /\ Len(h) = Len(m) + steers.pending
      /\ \A i \in 1..Len(m) : h[i] = m[i]
      /\ \A i \in 1..steers.pending :
           h[Len(m) + i] = UserMessage(steers.made - steers.pending + i)
  BY WithSteersShape
<1> HIDE DEF h
<1>3. ASSUME NEW n \in 1..steers.made PROVE \E i \in 1..Len(h) : h[i] = UserMessage(n)
  <2>1. CASE n <= Consumed
    <3>1. PICK i \in 1..Len(m) : m[i] = UserMessage(n)
      BY <1>1, <2>1 DEF Told, Consumed
    <3>2. i \in 1..Len(h) /\ h[i] = UserMessage(n)
      BY <1>1, <1>2, <3>1
    <3> QED BY <3>2
  <2>2. CASE n > Consumed
    <3> DEFINE k == n - Consumed
    <3>1. k \in 1..steers.pending /\ steers.made - steers.pending + k = n
      BY <1>1, <2>2 DEF Consumed
    <3> HIDE DEF k
    <3>2. h[Len(m) + k] = UserMessage(n)
      BY <1>2, <3>1
    <3>3. Len(m) + k \in 1..Len(h)
      BY <1>1, <1>2, <3>1
    <3> QED BY <3>2, <3>3
  <2> QED BY <1>1, <2>1, <2>2 DEF Consumed
<1> QED BY <1>3 DEF Told, h

\* What is added at the end of a history takes nothing from it.
LEMMA KeptAppend ==
  ASSUME NEW m \in Seq(Message), NEW x \in Message
  PROVE  UsersKept(m, Append(m, x))
<1> DEFINE h == Append(m, x)
<1>1. Len(m) \in Nat /\ Len(h) = Len(m) + 1 /\ \A i \in 1..Len(m) : h[i] = m[i]
  OBVIOUS
<1> HIDE DEF h
<1>2. \A i \in 1..Len(m) : i \in 1..Len(h)
  BY <1>1
<1> QED BY <1>1, <1>2 DEF UsersKept, h

\* A call that comes with its result takes nothing either.
LEMMA KeptPair ==
  ASSUME NEW m \in Seq(Message), NEW c \in Call
  PROVE  UsersKept(m, m \o <<CallMessage(c), ToolMessage(c)>>)
<1> DEFINE h == Append(m, CallMessage(c))
<1>1. m \o <<CallMessage(c), ToolMessage(c)>> = Append(h, ToolMessage(c))
  BY MessageRoles
<1>2. h \in Seq(Message) /\ UsersKept(m, h)
  BY MessageRoles, KeptAppend
<1> HIDE DEF h
<1>3. UsersKept(h, Append(h, ToolMessage(c)))
  BY <1>2, MessageRoles, KeptAppend
<1>4. UsersKept(m, Append(h, ToolMessage(c)))
  BY <1>2, <1>3 DEF UsersKept
<1> QED BY <1>1, <1>4

\* Compaction drops a call and its result, and no message of the user.
LEMMA KeptCompact ==
  ASSUME NEW m \in Seq(Message), NEW i \in 1..Len(m) - 1, m[i].role = "call",
         m[i+1] = ToolMessage(m[i].op)
  PROVE  UsersKept(m, SubSeq(m, 1, i - 1) \o SubSeq(m, i + 2, Len(m)))
<1> DEFINE a == SubSeq(m, 1, i - 1)
           b == SubSeq(m, i + 2, Len(m))
           h == a \o b
<1>1. Len(m) \in Nat /\ i \in Nat /\ i >= 1 /\ i < Len(m)
  OBVIOUS
<1>2. a \in Seq(Message) /\ Len(a) = i - 1 /\ \A j \in 1..i - 1 : a[j] = m[j]
  BY <1>1
<1>3. b \in Seq(Message) /\ Len(b) = Len(m) - i - 1
      /\ \A j \in 1..Len(m) - i - 1 : b[j] = m[j + i + 1]
  BY <1>1
<1> HIDE DEF a, b
<1>4. \A x, y \in Seq(Message) :
        /\ Len(x \o y) = Len(x) + Len(y)
        /\ \A j \in 1..Len(x) : (x \o y)[j] = x[j]
        /\ \A j \in 1..Len(y) : (x \o y)[Len(x) + j] = y[j]
  OBVIOUS
<1>5. /\ Len(h) = Len(a) + Len(b)
      /\ \A j \in 1..Len(a) : h[j] = a[j]
      /\ \A j \in 1..Len(b) : h[Len(a) + j] = b[j]
  BY <1>2, <1>3, <1>4
<1> HIDE DEF h
<1>6. ASSUME NEW j \in 1..Len(m), m[j].role = "user"
      PROVE  \E k \in 1..Len(h) : h[k] = m[j]
  <2>1. j # i /\ j # i + 1
    BY <1>6 DEF ToolMessage
  <2>2. CASE j < i
    <3>1. j \in 1..Len(a) /\ j \in 1..Len(h)
      BY <1>1, <1>2, <1>3, <1>5, <2>2
    <3>2. h[j] = m[j]
      BY <1>1, <1>2, <1>5, <2>2, <3>1
    <3> QED BY <3>1, <3>2
  <2>3. CASE j > i + 1
    <3> DEFINE k == j - i - 1
    <3>1. k \in 1..Len(m) - i - 1 /\ k + i + 1 = j
      BY <1>1, <2>3
    <3> HIDE DEF k
    <3>2. Len(a) + k \in 1..Len(h)
      BY <1>1, <1>2, <1>3, <1>5, <3>1
    <3>3. b[k] = m[j] /\ h[Len(a) + k] = b[k]
      BY <1>3, <1>5, <3>1
    <3> QED BY <3>2, <3>3
  <2> QED BY <1>1, <2>1, <2>2, <2>3
<1> QED BY <1>6 DEF UsersKept, h, a, b

\* Settling adds the result of an open call at most.
LEMMA KeptSettled ==
  ASSUME NEW c \in Checkpoint
  PROVE  UsersKept(c.messages, Settled(c).messages)
<1> DEFINE m == c.messages
           r == IF Len(m) > 0 /\ m[Len(m)].role = "call"
                THEN Append(m, ToolMessage(m[Len(m)].op)) ELSE m
           d == [c EXCEPT !.wait = 0]
<1>1. Settled(c) = [d EXCEPT !.messages = r]
  BY DEF Settled
<1>2. DOMAIN d = {"messages", "safeDraft", "marker", "approval", "wait"}
  BY DEF Checkpoint
<1>3. m \in Seq(Message)
  BY DEF Checkpoint
<1> HIDE DEF d
<1>4. Settled(c).messages = r
  <2> HIDE DEF r
  <2> QED BY <1>1, <1>2
<1>5. CASE Len(m) > 0 /\ m[Len(m)].role = "call"
  <2>1. m[Len(m)].op \in Call
    BY <1>3, <1>5 DEF Message
  <2>2. r = Append(m, ToolMessage(m[Len(m)].op))
    BY <1>5
  <2> QED BY <1>3, <1>4, <2>1, <2>2, KeptAppend, MessageRoles
<1>6. CASE ~(Len(m) > 0 /\ m[Len(m)].role = "call")
  <2>1. r = m
    BY <1>6
  <2> QED BY <1>4, <2>1 DEF UsersKept
<1> QED BY <1>5, <1>6

\* A worker's new record is all that changes.
LEMMA HandsSet ==
  ASSUME TypeOK, NEW w \in Worker, NEW x, worker' = [worker EXCEPT ![w] = x],
         \/ x.phase \notin WorkPhase
         \/ worker[w].phase \in WorkPhase /\ UsersKept(worker[w].messages, x.messages)
         \/ x.messages = checkpoint.messages
  PROVE  HandsKept
<1>1. ASSUME NEW v \in Worker, v # w PROVE UsersKept(worker[v].messages, worker'[v].messages)
                                           /\ worker'[v] = worker[v]
  BY <1>1 DEF TypeOK, UsersKept
<1>2. worker'[w] = x
  BY DEF TypeOK
<1> QED BY <1>1, <1>2 DEF HandsKept

\* Workers that stay as they are forget nothing.
LEMMA HandsSame == ASSUME UNCHANGED worker PROVE HandsKept
BY DEF HandsKept, UsersKept

\* A task that ends has nothing in hand.
LEMMA HandsLeave == ASSUME TypeOK, NEW w \in Worker, Leave(w) PROVE HandsKept
<1>1. Idle.phase \notin WorkPhase
  BY DEF Idle, WorkPhase, RoundPhase, ApprovalPhase
<1> QED BY <1>1, HandsSet DEF Leave

\* A record that keeps the messages forgets nothing.
LEMMA HandsHeld ==
  ASSUME TypeOK, NEW w \in Worker, NEW x, worker' = [worker EXCEPT ![w] = x],
         worker[w].phase \in WorkPhase, x.messages = worker[w].messages
  PROVE  HandsKept
<1>1. UsersKept(worker[w].messages, x.messages)
  BY DEF UsersKept
<1> QED BY <1>1, HandsSet

\* Changing phase keeps the messages.
LEMMA HandsGoto ==
  ASSUME TypeOK, NEW w \in Worker, NEW p, Goto(w, p), worker[w].phase \in WorkPhase
  PROVE  HandsKept
<1> DEFINE x == [worker[w] EXCEPT !.phase = p]
<1>1. worker' = [worker EXCEPT ![w] = x]
  BY DEF Goto, TypeOK
<1>2. x.messages = worker[w].messages
  BY DEF TypeOK, WorkerState
<1> HIDE DEF x
<1> QED BY <1>1, <1>2, HandsHeld

\* The next round starts from the messages it is given.
LEMMA HandsNext ==
  ASSUME TypeOK, NEW w \in Worker, NEW m, NextRound(w, m), worker[w].phase \in WorkPhase,
         UsersKept(worker[w].messages, m)
  PROVE  HandsKept
<1> DEFINE x == [Idle EXCEPT !.phase = "head", !.messages = m, !.fence = worker[w].fence]
<1>1. worker' = [worker EXCEPT ![w] = x]
  BY DEF NextRound
<1>2. x.messages = m
  BY DEF Idle
<1> HIDE DEF x
<1> QED BY <1>1, <1>2, HandsSet

\* Steps of a worker that leave the history of the checkpoint alone.
LEMMA QuietRemembers ==
  ASSUME TypeOK, NEW w \in Worker,
         \/ Claim(w) \/ RenewLease(w) \/ LoseLease(w) \/ Crash(w) \/ LoadState(w)
         \/ BeginRound(w) \/ Delta(w) \/ EndRound(w) \/ StepFails(w) \/ StartBatch(w)
         \/ RunBatch(w) \/ BeginApproved(w) \/ InvokeApproved(w) \/ RetryApproved(w)
  PROVE  Remembers
<1>1. SavedKept
  <2>1. UsersKept(checkpoint.messages, checkpoint'.messages)
    BY QuietCheckpoint DEF UsersKept
  <2> QED BY <2>1 DEF SavedKept
<1>2. Consumed' = Consumed
  BY DEF Consumed, Claim, RenewLease, LoseLease, Crash, LoadState, BeginRound, Delta, EndRound,
         StepFails, StartBatch, RunBatch, BeginApproved, InvokeApproved, RetryApproved
<1>3. HandsKept
  <2>1. CASE Claim(w)
    <3> DEFINE x == [Idle EXCEPT !.phase = "claimed", !.fence = run.fence + 1]
    <3>1. x.phase \notin WorkPhase
      BY DEF Idle, WorkPhase, RoundPhase, ApprovalPhase
    <3>2. worker' = [worker EXCEPT ![w] = x]
      BY <2>1 DEF Claim
    <3> HIDE DEF x
    <3> QED BY <3>1, <3>2, HandsSet
  <2>2. CASE RenewLease(w) \/ Delta(w)
    BY <2>2, HandsSame DEF RenewLease, Delta
  <2>3. CASE LoseLease(w) \/ Crash(w)
    BY <2>3, HandsLeave DEF LoseLease, Crash
  <2>4. CASE BeginRound(w) \/ EndRound(w) \/ RunBatch(w) \/ RetryApproved(w)
    BY <2>4, HandsGoto
       DEF BeginRound, EndRound, RunBatch, RetryApproved, WorkPhase, RoundPhase, ApprovalPhase
  <2>5. CASE StepFails(w)
    <3> DEFINE x == [Idle EXCEPT !.phase = "failing", !.fence = worker[w].fence]
    <3>1. x.phase \notin WorkPhase
      BY DEF Idle, WorkPhase, RoundPhase, ApprovalPhase
    <3>2. worker' = [worker EXCEPT ![w] = x]
      BY <2>5 DEF StepFails
    <3> HIDE DEF x
    <3> QED BY <3>1, <3>2, HandsSet
  <2>6. CASE StartBatch(w)
    <3> DEFINE n == NextCall
               x == [worker[w] EXCEPT !.op = n, !.phase = "batch"]
    <3>1. worker' = [worker EXCEPT ![w] = x] /\ worker[w].phase \in WorkPhase
      BY <2>6 DEF StartBatch, TypeOK, WorkPhase, RoundPhase
    <3> HIDE DEF n
    <3>2. x.messages = worker[w].messages
      BY DEF TypeOK, WorkerState
    <3> HIDE DEF x
    <3> QED BY <3>1, <3>2, HandsHeld
  <2>7. CASE BeginApproved(w)
    <3> DEFINE x == [worker[w] EXCEPT !.tries = 0, !.phase = "invoke"]
    <3>1. worker' = [worker EXCEPT ![w] = x] /\ worker[w].phase \in WorkPhase
      BY <2>7 DEF BeginApproved, TypeOK, WorkPhase, ApprovalPhase
    <3>2. x.messages = worker[w].messages
      BY DEF TypeOK, WorkerState
    <3> HIDE DEF x
    <3> QED BY <3>1, <3>2, HandsHeld
  <2>8. CASE InvokeApproved(w)
    <3> DEFINE t == worker[w].tries + 1
               x == [worker[w] EXCEPT !.tries = t, !.phase = "invoked"]
    <3>1. worker' = [worker EXCEPT ![w] = x] /\ worker[w].phase \in WorkPhase
      BY <2>8 DEF InvokeApproved, TypeOK, WorkPhase, ApprovalPhase
    <3> HIDE DEF t
    <3>2. x.messages = worker[w].messages
      BY DEF TypeOK, WorkerState
    <3> HIDE DEF x
    <3> QED BY <3>1, <3>2, HandsHeld
  <2>9. CASE LoadState(w)
    <3> DEFINE p == IF checkpoint.approval = NoApproval THEN "head" ELSE "approval"
               m == checkpoint.messages
               a == checkpoint.approval
               o == checkpoint.approval.op
               x == [worker[w] EXCEPT !.messages = m, !.approval = a, !.op = o, !.phase = p]
    <3>1. worker' = [worker EXCEPT ![w] = x]
      BY <2>9 DEF LoadState, TypeOK
    <3>2. x.messages = m
      <4> HIDE DEF p, m, a, o
      <4> QED BY DEF TypeOK, WorkerState
    <3> HIDE DEF x
    <3> QED BY <3>1, <3>2, HandsSet
  <2> QED BY <2>1, <2>2, <2>3, <2>4, <2>5, <2>6, <2>7, <2>8, <2>9
<1> QED BY <1>1, <1>2, <1>3 DEF Remembers

\* Steps of the holder that save a history that grows out of the one in hand.
LEMMA HolderRemembers ==
  ASSUME ConstantsAssumption, TypeInv, NEW w \in Worker,
         \/ Complete(w) \/ Compact(w) \/ DirectResult(w) \/ CompleteBatch(w)
         \/ RejectApproval(w) \/ SettleApproved(w)
         \/ AskUser(w) \/ (\E b \in BOOLEAN : RequestApproval(w, b)) \/ WaitForSubagents(w)
         \/ AskApprovalAgain(w)
  PROVE  Remembers
<1> USE DEF TypeInv
<1> DEFINE m == worker[w].messages
<1>1. Writes(w)
  BY DEF Complete, Compact, DirectResult, CompleteBatch, RejectApproval, SettleApproved,
         AskUser, RequestApproval, WaitForSubagents, AskApprovalAgain, Writes, WorkPhase,
         RoundPhase, ApprovalPhase
<1>2. Consumed' = Consumed
  BY DEF Consumed, Complete, Compact, DirectResult, CompleteBatch, RejectApproval,
         SettleApproved, AskUser, RequestApproval, WaitForSubagents, AskApprovalAgain
<1>3. m \in Seq(Message) /\ UsersKept(m, m)
  BY DEF TypeOK, WorkerState, UsersKept
<1> HIDE DEF m
<1>4. ASSUME NEW h, checkpoint'.messages = h, UsersKept(m, h), HandsKept PROVE Remembers
  BY <1>1, <1>2, <1>4 DEF Remembers, SavedKept, m
<1>5. CASE Complete(w)
  <2>1. checkpoint'.messages = m
    BY <1>3, <1>5, SafeMessages DEF Complete, m
  <2> QED BY <1>3, <1>4, <1>5, <2>1, HandsLeave DEF Complete
<1>6. CASE Compact(w)
  <2>1. PICK i \in 1..Len(m) - 1 :
          /\ m[i].role = "call" /\ m[i+1] = ToolMessage(m[i].op)
          /\ checkpoint' = Safe(SubSeq(m, 1, i - 1) \o SubSeq(m, i + 2, Len(m)))
          /\ worker' = [worker EXCEPT
               ![w].messages = SubSeq(m, 1, i - 1) \o SubSeq(m, i + 2, Len(m))]
    BY <1>6 DEF Compact, m
  <2> DEFINE h == SubSeq(m, 1, i - 1) \o SubSeq(m, i + 2, Len(m))
             x == [worker[w] EXCEPT !.messages = h]
  <2>2. h \in Seq(Message)
    BY <1>3
  <2>3. UsersKept(m, h)
    BY <1>3, <2>1, KeptCompact
  <2>4. checkpoint'.messages = h
    BY <2>1, <2>2, SafeMessages
  <2>5. worker' = [worker EXCEPT ![w] = x]
    BY <2>1 DEF TypeOK
  <2> HIDE DEF h
  <2>6. x.messages = h
    BY DEF TypeOK, WorkerState
  <2> HIDE DEF x
  <2>7. HandsKept
    BY <1>1, <2>3, <2>5, <2>6, HandsSet DEF Writes, m
  <2> QED BY <1>4, <2>3, <2>4, <2>7
<1>7. CASE DirectResult(w)
  <2> DEFINE h == m \o <<CallMessage(NextCall), ToolMessage(NextCall)>>
  <2>1. NextCall \in Call
    BY <1>7, NewCallType DEF DirectResult, CallKind
  <2>2. h \in Seq(Message) /\ UsersKept(m, h)
    BY <1>3, <2>1, KeptPair, MessageRoles
  <2>3. checkpoint' = Safe(h) /\ NextRound(w, h)
    BY <1>7 DEF DirectResult, m
  <2> HIDE DEF h
  <2>4. checkpoint'.messages = h
    BY <2>2, <2>3, SafeMessages
  <2> QED BY <1>1, <1>4, <2>2, <2>3, <2>4, HandsNext DEF Writes, m
<1>8. CASE CompleteBatch(w)
  <2> DEFINE op == worker[w].op
             h == m \o <<CallMessage(op), ToolMessage(op)>>
  <2>1. op \in Call
    BY <1>8 DEF CompleteBatch, CallsKnown, WorkersKnowCall, ToolPhase
  <2>2. h \in Seq(Message) /\ UsersKept(m, h)
    BY <1>3, <2>1, KeptPair, MessageRoles
  <2>3. (\E k : checkpoint' = [Safe(h) EXCEPT !.marker = k]) /\ NextRound(w, h)
    BY <1>8 DEF CompleteBatch, MarkCompleted, m
  <2> HIDE DEF h
  <2>4. checkpoint'.messages = h
    BY <2>2, <2>3, SafeMessages
  <2> QED BY <1>1, <1>4, <2>2, <2>3, <2>4, HandsNext DEF Writes, m
<1>9. CASE RejectApproval(w) \/ SettleApproved(w)
  <2> DEFINE h == Append(m, ToolMessage(worker[w].op))
  <2>1. ApprovalClosed(w) /\ worker[w].phase \in ToolPhase
    BY <1>9 DEF RejectApproval, SettleApproved, ToolPhase
  <2>2. worker[w].op \in Call
    BY <2>1 DEF CallsKnown, WorkersKnowCall
  <2>3. h \in Seq(Message) /\ UsersKept(m, h)
    BY <1>3, <2>2, KeptAppend, MessageRoles
  <2>4. checkpoint'.messages = h
    BY <2>1, <2>3, SafeMessages DEF ApprovalClosed, m
  <2>5. NextRound(w, h)
    BY <2>1 DEF ApprovalClosed, m
  <2> QED BY <1>1, <1>4, <2>3, <2>4, <2>5, HandsNext DEF Writes, m
<1>10. CASE AskUser(w) \/ \E b \in BOOLEAN : RequestApproval(w, b)
  <2> DEFINE h == Append(m, CallMessage(NextCall))
  <2>1. NextCall \in Call
    BY <1>10, NewCallType DEF AskUser, RequestApproval, CallKind
  <2>2. h \in Seq(Message) /\ UsersKept(m, h)
    BY <1>3, <2>1, KeptAppend, MessageRoles
  <2>3. PICK a : Pause(w, NextCall, h, a)
    BY <1>10 DEF AskUser, RequestApproval, m
  <2> HIDE DEF h
  <2>4. checkpoint'.messages = h
    BY <2>2, <2>3, SafeMessages DEF Pause
  <2> QED BY <1>4, <2>2, <2>3, <2>4, HandsLeave DEF Pause
<1>11. CASE WaitForSubagents(w)
  <2> DEFINE h == Append(m, CallMessage(NextCall))
  <2>1. NextCall \in Call
    BY <1>11, NewCallType DEF WaitForSubagents, CallKind
  <2>2. h \in Seq(Message) /\ UsersKept(m, h)
    BY <1>3, <2>1, KeptAppend, MessageRoles
  <2>3. checkpoint' = [Safe(h) EXCEPT !.wait = NextCall] /\ Leave(w)
    BY <1>11 DEF WaitForSubagents, m
  <2> HIDE DEF h
  <2>4. checkpoint'.messages = h
    BY <2>2, <2>3, SafeMessages
  <2> QED BY <1>4, <2>2, <2>3, <2>4, HandsLeave
<1>12. CASE AskApprovalAgain(w)
  <2>1. Pause(w, worker[w].op, m, worker[w].approval)
    BY <1>12 DEF AskApprovalAgain, m
  <2>2. checkpoint'.messages = m
    BY <1>3, <2>1, SafeMessages DEF Pause
  <2> QED BY <1>3, <1>4, <2>1, <2>2, HandsLeave DEF Pause
<1> QED BY <1>5, <1>6, <1>7, <1>8, <1>9, <1>10, <1>11, <1>12

\* Consuming saves every pending steer and leaves it in the worker's hands.
LEMMA SteersConsumed ==
  ASSUME TypeOK, NEW w \in Worker, BeginSteeredRound(w) \/ CompleteSteered(w)
  PROVE  Consumes(w)
<1> DEFINE h == WithSteers(worker[w].messages)
<1>1. Writes(w) /\ ConsumeSteers(w)
  BY DEF BeginSteeredRound, CompleteSteered, Writes, WorkPhase, RoundPhase
<1>2. h \in Seq(Message)
  BY WithSteersShape DEF TypeOK, WorkerState
<1>3. checkpoint'.messages = h
  BY <1>1, <1>2, SafeMessages DEF ConsumeSteers
<1>4. Consumed' = steers.made
  <2>1. steers' = [steers EXCEPT !.pending = 0]
    BY <1>1 DEF ConsumeSteers
  <2>2. steers'.pending = 0 /\ steers'.made = steers.made /\ steers.made \in Nat
    BY <2>1 DEF TypeOK
  <2> QED BY <2>2 DEF Consumed
<1>5. worker'[w].messages = h
  <2>1. CASE BeginSteeredRound(w)
    BY <2>1, SteeredRoundShape DEF TypeOK
  <2>2. CASE CompleteSteered(w)
    <3> HIDE DEF h
    <3>1. NextRound(w, h)
      BY <2>2 DEF CompleteSteered, h
    <3> QED BY <3>1 DEF NextRound, Idle, TypeOK
  <2> QED BY <2>1, <2>2
<1> QED BY <1>1, <1>3, <1>4, <1>5 DEF Consumes

\* An answer adds the result of the question at most.
LEMMA AnswerRemembers ==
  ASSUME TypeOK, NEW q \in DOMAIN questions,
         NEW answer \in {"none", "option-1", "option-2", "text"}, Respond(q, answer)
  PROVE  Remembers
<1>1. UNCHANGED <<steers, worker>>
  BY DEF Respond
<1>2. UsersKept(checkpoint.messages, checkpoint'.messages)
  <2>1. CASE ~questions[q].approval
    <3> DEFINE h == Append(checkpoint.messages, ToolMessage(questions[q].op))
    <3>1. checkpoint' = [checkpoint EXCEPT !.messages = h]
      BY <2>1 DEF Respond, TypeOK, Checkpoint
    <3>2. questions[q] \in Question /\ checkpoint \in Checkpoint
      BY DEF TypeOK
    <3>3. UsersKept(checkpoint.messages, h)
      <4>1. questions[q].op \in Call /\ checkpoint.messages \in Seq(Message)
        BY <3>2 DEF Question, Checkpoint
      <4> QED BY <4>1, KeptAppend, MessageRoles
    <3> HIDE DEF h
    <3>4. checkpoint'.messages = h
      BY <3>1 DEF TypeOK, Checkpoint
    <3> QED BY <3>3, <3>4
  <2>2. CASE questions[q].approval
    <3> DEFINE b == [checkpoint.approval EXCEPT !.decision = Decision(answer)]
    <3>1. checkpoint' = [checkpoint EXCEPT !.approval = b]
      BY <2>2 DEF Respond, TypeOK, Checkpoint
    <3> HIDE DEF b
    <3>2. checkpoint'.messages = checkpoint.messages
      BY <3>1 DEF TypeOK, Checkpoint
    <3> QED BY <3>2 DEF UsersKept
  <2> QED BY <2>1, <2>2
<1> QED BY <1>1, <1>2, HandsSame DEF Remembers, SavedKept, Consumed

\* The transactions of others keep the saved history, or settle its last call.
LEMMA OthersRemember ==
  ASSUME TypeInv,
         \/ Tick \/ Recover \/ SubmitSteer \/ NotifySteer \/ ResumeWait \/ CancelRun \/ FailWait
         \/ \E w \in Worker : ClaimOversized(w) \/ FailRun(w)
  PROVE  Remembers
<1> USE DEF TypeInv
<1>1. Consumed' = Consumed
  <2>1. CASE UNCHANGED steers
    BY <2>1 DEF Consumed
  <2>2. CASE SubmitSteer
    <3>1. steers' = [steers EXCEPT !.pending = @ + 1, !.made = @ + 1]
      BY <2>2 DEF SubmitSteer
    <3>2. /\ steers'.pending = steers.pending + 1 /\ steers'.made = steers.made + 1
          /\ steers.pending \in Nat /\ steers.made \in Nat
      BY <3>1 DEF TypeOK
    <3> QED BY <3>2 DEF Consumed
  <2>3. CASE NotifySteer
    <3>1. steers' = [steers EXCEPT !.told = @ + 1]
      BY <2>3 DEF NotifySteer
    <3>2. steers'.pending = steers.pending /\ steers'.made = steers.made
      BY <3>1 DEF TypeOK
    <3> QED BY <3>2 DEF Consumed
  <2> QED BY <2>1, <2>2, <2>3
          DEF Tick, Recover, ResumeWait, CancelRun, FailWait, ClaimOversized, FailRun
<1>2. HandsKept
  <2>1. ASSUME NEW w \in Worker, FailRun(w) PROVE HandsKept
    BY <2>1, HandsLeave DEF FailRun
  <2> QED BY <2>1, HandsSame DEF Tick, Recover, SubmitSteer, NotifySteer, ResumeWait, CancelRun,
                                 FailWait, ClaimOversized
<1>3. UsersKept(checkpoint.messages, checkpoint'.messages)
  <2>1. CASE UNCHANGED checkpoint
    BY <2>1 DEF UsersKept
  <2>2. CASE checkpoint' = Settled(checkpoint)
    BY <2>2, KeptSettled DEF TypeOK
  <2>3. CASE ResumeWait
    <3> DEFINE h == Append(checkpoint.messages, ToolMessage(checkpoint.wait))
    <3>1. checkpoint.wait \in Call /\ checkpoint.messages \in Seq(Message)
      BY <2>3 DEF ResumeWait, CallsKnown, TypeOK, Checkpoint
    <3>2. h \in Seq(Message) /\ UsersKept(checkpoint.messages, h)
      BY <3>1, KeptAppend, MessageRoles
    <3>3. checkpoint' = [Safe(h) EXCEPT !.wait = 0]
      BY <2>3 DEF ResumeWait
    <3> HIDE DEF h
    <3> QED BY <3>2, <3>3, SafeMessages
  <2> QED BY <2>1, <2>2, <2>3 DEF Tick, Recover, SubmitSteer, NotifySteer, CancelRun, FailWait,
                                  ClaimOversized, FailRun
<1> QED BY <1>1, <1>2, <1>3 DEF Remembers, SavedKept

\* Every step remembers the steers, or consumes more of them.
LEMMA SteerShape ==
  ASSUME ConstantsAssumption, TypeInv, [Next]_vars
  PROVE  Remembers \/ \E w \in Worker : Consumes(w)
<1>1. CASE UNCHANGED vars
  BY <1>1, HandsSame DEF vars, Remembers, SavedKept, Consumed, UsersKept
<1>2. ASSUME NEW w \in Worker, WorkerStep(w) PROVE Remembers \/ Consumes(w)
  <2>1. CASE \/ Claim(w) \/ RenewLease(w) \/ LoseLease(w) \/ Crash(w) \/ LoadState(w)
             \/ BeginRound(w) \/ Delta(w) \/ EndRound(w) \/ StepFails(w) \/ StartBatch(w)
             \/ RunBatch(w) \/ BeginApproved(w) \/ InvokeApproved(w) \/ RetryApproved(w)
    BY <2>1, QuietRemembers DEF TypeInv
  <2>2. CASE \/ Complete(w) \/ Compact(w) \/ DirectResult(w) \/ CompleteBatch(w)
             \/ RejectApproval(w) \/ SettleApproved(w)
             \/ AskUser(w) \/ (\E b \in BOOLEAN : RequestApproval(w, b))
             \/ WaitForSubagents(w) \/ AskApprovalAgain(w)
    BY <2>2, HolderRemembers
  <2>3. CASE BeginSteeredRound(w) \/ CompleteSteered(w)
    BY <2>3, SteersConsumed DEF TypeInv
  <2>4. CASE ClaimOversized(w) \/ FailRun(w)
    BY <2>4, OthersRemember
  <2> QED BY <1>2, <2>1, <2>2, <2>3, <2>4 DEF WorkerStep
<1>3. CASE \/ Tick \/ Recover \/ SubmitSteer \/ NotifySteer
           \/ ResumeWait \/ CancelRun \/ FailWait
  BY <1>3, OthersRemember
<1>4. CASE RespondQuestion \/ ResumeSteeringQuestion
  <2>1. PICK q \in DOMAIN questions, answer \in {"none", "option-1", "option-2", "text"} :
          Respond(q, answer)
    BY <1>4 DEF RespondQuestion, ResumeSteeringQuestion
  <2> QED BY <2>1, AnswerRemembers DEF TypeInv
<1> QED BY <1>1, <1>2, <1>3, <1>4 DEF Next

\* Consumed steers stay where they are saved: whoever may write the checkpoint has them.
LEMMA SteerStep ==
  ASSUME ConstantsAssumption, TypeInv, FenceInv, QuestionMatchesStatus, SteerInv,
         [Next]_vars, RowStep
  PROVE  SteerInv'
<1>1. ASSUME run'.status = "running", NEW v \in Worker, worker'[v].fence = run'.fence,
             worker'[v].phase \in WorkPhase
      PROVE  /\ run.status = "running" /\ worker[v].fence = run.fence
             /\ worker[v].phase # "idle"
  <2>1. "idle" \notin WorkPhase /\ "claimed" \notin WorkPhase
    BY DEF WorkPhase, RoundPhase, ApprovalPhase
  <2>2. ~Claim(v)
    BY <1>1, <2>1 DEF Claim, Idle, TypeInv, TypeOK
  <2> QED BY <1>1, <2>1, <2>2, StillRunning
<1>2. ASSUME NEW w \in Worker, Writes(w) PROVE Told(worker[w].messages, Consumed)
  BY <1>2 DEF Writes, LeaseMatches, SteerInv
<1>3. CASE Remembers
  <2>1. Told(checkpoint'.messages, Consumed')
    BY <1>2, <1>3, ToldKept DEF Remembers, SavedKept, SteerInv
  <2>2. ASSUME run'.status = "running", NEW v \in Worker, worker'[v].fence = run'.fence,
               worker'[v].phase \in WorkPhase
        PROVE  Told(worker'[v].messages, Consumed')
    <3>1. run.status = "running" /\ worker[v].fence = run.fence
      BY <1>1, <2>2
    <3> QED BY <1>3, <2>2, <3>1, ToldKept DEF Remembers, HandsKept, SteerInv
  <2> QED BY <2>1, <2>2 DEF SteerInv
<1>4. ASSUME NEW w \in Worker, Consumes(w) PROVE SteerInv'
  <2>1. Told(WithSteers(worker[w].messages), steers.made)
    BY <1>2, <1>4, ToldSteers DEF Consumes, TypeInv, TypeOK, WorkerState
  <2>2. ASSUME run'.status = "running", NEW v \in Worker, worker'[v].fence = run'.fence,
               worker'[v].phase \in WorkPhase
        PROVE  v = w
    BY <1>1, <1>4, <2>2, OneHolder DEF Consumes, Writes
  <2> QED BY <1>4, <2>1, <2>2 DEF Consumes, SteerInv
<1> QED BY <1>3, <1>4, SteerShape

\* A steer that was taken from the queue is in the durable history for good: no
\* compaction, takeover, stale worker, question, wait or end of the run drops it.
THEOREM SteersCorrect == Spec => []SteersKept
<1> DEFINE Inv == TypeInv /\ FenceInv /\ QuestionMatchesStatus /\ SteerInv
<1>1. Init => Inv
  <2>1. Init => QuestionMatchesStatus
    BY DEF Init, QuestionMatchesStatus, Pending
  <2>2. Init => FenceInv
    BY DEF Init, FenceInv, LeaseExclusive, Idle
  <2>3. Init => SteerInv
    BY DEF Init, SteerInv, Told, Consumed
  <2> QED BY <2>1, <2>2, <2>3, ConstantsAssumption, TypeInit
<1>2. Inv /\ [Next]_vars => Inv'
  BY ConstantsAssumption, TypeNext, StepShape, QuestionsStep, FenceStep, SteerStep
<1>3. Inv => SteersKept
  <2>1. TypeOK => DOMAIN checkpoint.messages = 1..Len(checkpoint.messages)
    BY DEF TypeOK, Checkpoint
  <2> QED BY <2>1 DEF SteerInv, Told, Consumed, SteersKept, InHistory, TypeInv
<1> QED BY <1>1, <1>2, <1>3, PTL DEF Spec
=============================================================================
