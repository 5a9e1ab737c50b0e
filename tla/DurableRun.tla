----------------------------- MODULE DurableRun -----------------------------
(***************************************************************************)
(* What an AgentRun promises to the rest of the system, without its        *)
(* questions or clock: a job with at most one holder.  Every commit that   *)
(* moves its event cursor or what is saved of it has an author: a worker,  *)
(* only while it is the holder (or when it takes the job), or a person or  *)
(* a reconciler, in the few ways open to them.  The job is handed to       *)
(* another worker only while nobody holds it.                              *)
(***************************************************************************)
EXTENDS Naturals

CONSTANTS Worker, NoWorker

VARIABLES
  status,  \* the edges are those of persistence/transitions.py that the code uses
  holder,  \* the worker whose writes are accepted now
  fence,   \* how often the job was taken
  cursor,  \* <<epoch, sequence>> of the newest event
  author,  \* who committed last: a worker, NoWorker for a person or a reconciler
  saved    \* the checkpoint

vars == <<status, holder, fence, cursor, author, saved>>

Waiting == {"waiting_for_user", "waiting_for_subagents"}
Terminal == {"completed", "failed", "cancelled"}

Later(a, b) == b[1] < a[1] \/ (a[1] = b[1] /\ b[2] < a[2])

Init ==
  /\ status = "pending"
  /\ holder = NoWorker
  /\ fence = 0
  /\ cursor = <<0, 0>>
  /\ author = NoWorker

\* A worker takes a pending job and becomes its holder.
Acquire(w) ==
  /\ status = "pending"
  /\ status' = "running"
  /\ holder' = w
  /\ fence' = fence + 1
  /\ Later(cursor', cursor)
  /\ author' = w
  /\ UNCHANGED saved

\* A job that cannot be started fails when a worker takes it.
Reject(w) ==
  /\ status = "pending"
  /\ status' = "failed"
  /\ fence' = fence + 1
  /\ Later(cursor', cursor)
  /\ author' = w
  /\ UNCHANGED holder

\* The holder makes progress: an event, a checkpoint or both.
Write(w) ==
  /\ holder = w
  /\ cursor' = cursor \/ Later(cursor', cursor)
  /\ author' = w
  /\ UNCHANGED <<status, holder, fence>>

\* The holder ends its turn.
Yield(w) ==
  /\ holder = w
  /\ status' \in Waiting \cup {"completed", "failed"}
  /\ holder' = NoWorker
  /\ Later(cursor', cursor)
  /\ author' = w
  /\ UNCHANGED fence

\* The lease of the holder runs out.
Expire ==
  /\ holder # NoWorker
  /\ holder' = NoWorker
  /\ UNCHANGED <<status, fence, cursor, author, saved>>

\* Only a job without a holder is taken back, from what was saved of it.
TakeBack ==
  /\ status = "running"
  /\ holder = NoWorker
  /\ \/ status' = "pending" /\ UNCHANGED saved
     \/ status' = "failed"
  /\ author' = NoWorker
  /\ UNCHANGED <<holder, fence, cursor>>

\* An answer, finished children or their failure end a wait.
EndWait ==
  /\ status \in Waiting
  /\ \/ status' = "pending"
     \/ status = "waiting_for_subagents" /\ status' = "failed"
  /\ Later(cursor', cursor)
  /\ author' = NoWorker
  /\ UNCHANGED <<holder, fence>>

\* A person's new input is announced on the stream of a job that is not over.
Announce ==
  /\ status \notin Terminal
  /\ Later(cursor', cursor)
  /\ author' = NoWorker
  /\ UNCHANGED <<status, holder, fence, saved>>

Cancel ==
  /\ status \notin Terminal
  /\ status' = "cancelled"
  /\ holder' = NoWorker
  /\ Later(cursor', cursor)
  /\ author' = NoWorker
  /\ UNCHANGED fence

Next ==
  \/ \E w \in Worker : Acquire(w) \/ Reject(w) \/ Write(w) \/ Yield(w)
  \/ Expire \/ TakeBack \/ EndWait \/ Announce \/ Cancel

Spec == Init /\ [][Next]_vars
=============================================================================
