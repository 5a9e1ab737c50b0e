---------------------------- MODULE FileLifecycle ----------------------------
(***************************************************************************)
(* Session attachments: a row in PostgreSQL, the bytes in an object store, *)
(* and no transaction over the two.  A file is created, uploaded, has its  *)
(* text extracted, is claimed by a session, read by its runs, retired with *)
(* the session or by the user, and erased by the collector that every      *)
(* server process runs.  A cancelled run has ended in its row while its    *)
(* task still unwinds, and a read it was in the middle of goes on.         *)
(*                                                                         *)
(* The row lock is held from an action's first read to its commit, except  *)
(* by a collector, whose transaction spans one deletion in the store after *)
(* another: the rows it has locked are its batch, and who needs one waits. *)
(*                                                                         *)
(* Abstractions: bytes and their digest are a member of Content, always of *)
(* the declared size and a valid format; one user owns every file; limits  *)
(* on number and size, and the admission semaphores, are left out, as are  *)
(* the sessions created anew under a deleted one's id and the downloads of *)
(* the content endpoint, which change nothing.                             *)
(***************************************************************************)
EXTENDS Naturals, FiniteSets

CONSTANTS
  File,       \* ids, each derived from the idempotency key of its creation
  Document,   \* the files that need their text extracted
  Content,    \* bytes
  Session,
  Process,    \* server processes: each has a collector
  Task,       \* extractions and reads under way
  None,
  MaxFaults   \* bound: collections and uploads that fail half-way

ASSUME FileConstants ==
  /\ Document \subseteq File
  /\ None \notin Content \cup Session
  /\ MaxFaults \in Nat

VARIABLES
  row,     \* FileResource rows
  blob,    \* the object store
  open,    \* sessions that exist
  active,  \* sessions that have an active run
  batch,   \* batch[p]: the rows the collector of p has locked, and those yet to erase
  task,    \* task[t]: an extraction or a read, with what it has read so far
  faults,  \* number of faults
  torn     \* history: files erased by a collection that was then rolled back

vars == <<row, blob, open, active, batch, task, faults, torn>>

-----------------------------------------------------------------------------
Absent == [state |-> "absent", sha |-> None, session |-> None, text |-> "none", old |-> FALSE]
NoBatch == [rows |-> {}, left |-> {}]
Idle == [kind |-> "idle"]

Init ==
  /\ row = [f \in File |-> Absent]
  /\ blob = [f \in File |-> None]
  /\ open = Session
  /\ active = {}
  /\ batch = [p \in Process |-> NoBatch]
  /\ task = [t \in Task |-> Idle]
  /\ faults = 0
  /\ torn = {}

-----------------------------------------------------------------------------
Locked == UNION {batch[p].rows : p \in Process}

Free(f) == f \notin Locked

Fault == faults < MaxFaults /\ faults' = faults + 1

-----------------------------------------------------------------------------
(* The file endpoints. *)

CreateFile(f) ==
  /\ row[f].state = "absent"
  /\ row' = [row EXCEPT ![f].state = "pending"]
  /\ UNCHANGED <<blob, open, active, batch, task, faults, torn>>

\* Mutant: an object that exists counts as written.
PutKeeping(f, c) == blob' = [blob EXCEPT ![f] = IF @ = None THEN c ELSE @]

\* put: objects are immutable.
Put(f, c) == blob[f] \in {None, c} /\ blob' = [blob EXCEPT ![f] = c]

\* _store_upload.  A repeated upload of a stored file changes nothing.
StoreUpload(f, c) ==
  /\ Free(f)
  /\ row[f].state = "pending"
  /\ Put(f, c)
  /\ row' = [row EXCEPT ![f].state = "stored", ![f].sha = c]
  /\ UNCHANGED <<open, active, batch, task, faults, torn>>

\* The process dies, or the commit fails, after the object is written.
UploadFails(f, c) ==
  /\ Free(f)
  /\ row[f].state = "pending"
  /\ Put(f, c)
  /\ Fault
  /\ UNCHANGED <<row, open, active, batch, task, torn>>

\* delete_file: a claimed file goes with its session only.
DeleteFile(f) ==
  /\ Free(f)
  /\ row[f].state \in {"pending", "stored"}
  /\ row' = [row EXCEPT ![f].state = "delete_pending"]
  /\ UNCHANGED <<blob, open, active, batch, task, faults, torn>>

\* extract_file: reads row and bytes without a lock, then parses.
StartExtraction(t, f) ==
  /\ task[t] = Idle
  /\ f \in Document
  /\ row[f].state \in {"stored", "ready"}
  /\ row[f].text # "ready"
  /\ blob[f] = row[f].sha
  /\ \E ok \in BOOLEAN :
       task' = [task EXCEPT ![t] = [kind |-> "extract", file |-> f, sha |-> blob[f], ok |-> ok]]
  /\ UNCHANGED <<row, blob, open, active, batch, faults, torn>>

Extractable(f, sha) == row[f].state \in {"stored", "ready"} /\ row[f].sha = sha

\* _finish_extraction.
FinishExtraction(t) ==
  /\ task[t].kind = "extract"
  /\ LET f == task[t].file
     IN  /\ Free(f)
         /\ row' = IF Extractable(f, task[t].sha) /\ row[f].text # "ready"
                   THEN [row EXCEPT ![f].text = IF task[t].ok THEN "ready" ELSE "failed"]
                   ELSE row
  /\ task' = [task EXCEPT ![t] = Idle]
  /\ UNCHANGED <<blob, open, active, batch, faults, torn>>

-----------------------------------------------------------------------------
(* Sessions. *)

Claimable(f, s) ==
  /\ \/ row[f].state = "ready" /\ row[f].session = s
     \/ row[f].state = "stored"
  /\ f \in Document => row[f].text = "ready"

\* Mutant: the rows are read without their locks.
AttachUnlocked(s, files) ==
  /\ s \in open
  /\ \A f \in files : Claimable(f, s)
  /\ row' = [f \in File |->
              IF f \in files THEN [row[f] EXCEPT !.state = "ready", !.session = s] ELSE row[f]]
  /\ UNCHANGED <<blob, open, active, batch, task, faults, torn>>

\* _attach_files, in the transaction of a message or of a queued input: all or none.
AttachFiles(s, files) ==
  /\ s \in open
  /\ \A f \in files : Free(f) /\ Claimable(f, s)
  /\ row' = [f \in File |->
              IF f \in files THEN [row[f] EXCEPT !.state = "ready", !.session = s] ELSE row[f]]
  /\ UNCHANGED <<blob, open, active, batch, task, faults, torn>>

\* A run of the session is created, and ends: its worker commits the end, or a person
\* cancels it while the worker is still in the middle of a read.
StartRun(s) ==
  /\ s \in open \ active
  /\ active' = active \cup {s}
  /\ UNCHANGED <<row, blob, open, batch, task, faults, torn>>

Reading(t) == task[t].kind \in {"read", "recheck", "give"}

EndRun(s) ==
  /\ s \in active
  /\ active' = active \ {s}
  /\ task' = [t \in Task |-> IF Reading(t) /\ task[t].session = s
                             THEN [task[t] EXCEPT !.live = FALSE] ELSE task[t]]
  /\ UNCHANGED <<row, blob, open, batch, faults, torn>>

\* Mutant: an active run does not keep its session.
DeletableActive(s) == s \in open

Deletable(s) == s \in open \ active

\* delete_session and retire_agent_session_attachments.
DeleteSession(s) ==
  /\ Deletable(s)
  /\ \A f \in File : row[f].session = s => Free(f)
  /\ open' = open \ {s}
  /\ row' = [f \in File |->
              IF row[f].session = s
              THEN [row[f] EXCEPT !.state = "delete_pending", !.session = None] ELSE row[f]]
  /\ UNCHANGED <<blob, active, batch, task, faults, torn>>

-----------------------------------------------------------------------------
(* What runs read. *)

Readable(f, s) == row[f].state = "ready" /\ row[f].session = s

Read(kind, f, s, live) == [kind |-> kind, file |-> f, session |-> s, live |-> live]

\* A run looks at the row: one that has ended does so as long as it has not noticed.
\* The text is in the row; pages and images are still to be fetched from the store.
StartRead(t, f, s) ==
  /\ task[t] = Idle
  /\ Readable(f, s)
  /\ \E live \in BOOLEAN :
       /\ live => s \in active
       /\ task' = [task EXCEPT ![t] = Read("read", f, s, live)]
  /\ UNCHANGED <<row, blob, open, active, batch, faults, torn>>

ReadText(t, f, s) ==
  /\ task[t] = Idle
  /\ Readable(f, s)
  /\ row[f].text = "ready"
  /\ \E live \in BOOLEAN :
       /\ live => s \in active
       /\ task' = [task EXCEPT ![t] = Read("give", f, s, live)]
  /\ UNCHANGED <<row, blob, open, active, batch, faults, torn>>

\* The bytes arrive, or are gone.  The pages of a document are rechecked, an image is not.
ReadTarget(t) ==
  /\ task[t].kind = "read"
  /\ LET f == task[t].file
         next == IF f \in Document THEN "recheck" ELSE "give"
     IN  task' = [task EXCEPT ![t] = IF blob[f] # None THEN [@ EXCEPT !.kind = next] ELSE Idle]
  /\ UNCHANGED <<row, blob, open, active, batch, faults, torn>>

\* Mutant: the pages are given without another look at the row.
AuthorizedAnyway(t) == TRUE

Authorized(t) == Readable(task[t].file, task[t].session)

\* read_file looks at the row again, in a transaction of its own.
RecheckRead(t) ==
  /\ task[t].kind = "recheck"
  /\ task' = [task EXCEPT ![t] = IF Authorized(t) THEN [@ EXCEPT !.kind = "give"] ELSE Idle]
  /\ UNCHANGED <<row, blob, open, active, batch, faults, torn>>

\* What was read becomes part of the run's next model request.
GiveRead(t) ==
  /\ task[t].kind = "give"
  /\ task' = [task EXCEPT ![t] = Idle]
  /\ UNCHANGED <<row, blob, open, active, batch, faults, torn>>

-----------------------------------------------------------------------------
(* The collector, collect_files. *)

\* More than 24 hours have passed since the file was created.
Age(f) ==
  /\ row[f].state # "absent" /\ ~row[f].old
  /\ row' = [row EXCEPT ![f].old = TRUE]
  /\ UNCHANGED <<blob, open, active, batch, task, faults, torn>>

\* Mutant: the age is asked of every file.
CollectableAged(f) == row[f].state \in {"delete_pending", "pending", "stored"} /\ row[f].old

Collectable(f) ==
  \/ row[f].state = "delete_pending"
  \/ row[f].state \in {"pending", "stored"} /\ row[f].old

StartCollection(p) ==
  LET rows == {f \in File : Collectable(f) /\ Free(f)}
  IN  /\ batch[p] = NoBatch
      /\ rows # {}
      /\ batch' = [batch EXCEPT ![p] = [rows |-> rows, left |-> rows]]
      /\ UNCHANGED <<row, blob, open, active, task, faults, torn>>

EraseBlob(p) ==
  \E f \in batch[p].left :
    /\ blob' = [blob EXCEPT ![f] = None]
    /\ batch' = [batch EXCEPT ![p].left = @ \ {f}]
    /\ UNCHANGED <<row, open, active, task, faults, torn>>

Erased(r) == [r EXCEPT !.state = "deleted", !.text = "none"]

CommitCollection(p) ==
  /\ batch[p] # NoBatch
  /\ batch[p].left = {}
  /\ row' = [f \in File |-> IF f \in batch[p].rows THEN Erased(row[f]) ELSE row[f]]
  /\ batch' = [batch EXCEPT ![p] = NoBatch]
  /\ UNCHANGED <<blob, open, active, task, faults, torn>>

\* A deletion or the commit fails, or the process dies: the transaction is
\* rolled back, what the store has erased stays erased.
AbortCollection(p) ==
  /\ batch[p] # NoBatch
  /\ Fault
  /\ torn' = torn \cup (batch[p].rows \ batch[p].left)
  /\ batch' = [batch EXCEPT ![p] = NoBatch]
  /\ UNCHANGED <<row, blob, open, active, task>>

-----------------------------------------------------------------------------
FileStep(f) ==
  \/ CreateFile(f) \/ DeleteFile(f) \/ Age(f)
  \/ \E c \in Content : StoreUpload(f, c) \/ UploadFails(f, c)

SessionStep(s) ==
  \/ \E files \in SUBSET File \ {{}} : AttachFiles(s, files)
  \/ StartRun(s) \/ EndRun(s) \/ DeleteSession(s)

TaskStep(t) ==
  \/ \E f \in File : StartExtraction(t, f)
  \/ \E f \in File, s \in Session : StartRead(t, f, s) \/ ReadText(t, f, s)
  \/ FinishExtraction(t) \/ ReadTarget(t) \/ RecheckRead(t) \/ GiveRead(t)

Collect(p) == StartCollection(p) \/ EraseBlob(p) \/ CommitCollection(p)

Next ==
  \/ \E f \in File : FileStep(f)
  \/ \E s \in Session : SessionStep(s)
  \/ \E t \in Task : TaskStep(t)
  \/ \E p \in Process : Collect(p) \/ AbortCollection(p)

Spec == Init /\ [][Next]_vars

\* file_collector runs every 60 seconds in every process.
Fairness == \A p \in Process : WF_vars(Collect(p))

FairSpec == Spec /\ Fairness

-----------------------------------------------------------------------------
(* Properties. *)

\* The bytes of a file that counts as uploaded are those its digest was taken
\* of, or there are none: neither a repeated upload nor one that was written
\* and never committed can exchange them.
BytesMatchDigest ==
  \A f \in File : row[f].state \in {"stored", "ready"} => blob[f] \in {row[f].sha, None}

\* A file that a session has claimed has its bytes, unless a collection erased
\* them and was rolled back before the session claimed it.
ClaimedKeepsBytes ==
  \A f \in File : row[f].state = "ready" /\ blob[f] = None => f \in torn

\* A second look at the row after the session's deletion gives no pages, however long ago
\* the reading began; and what is given to a run that has not ended, of text and images
\* too, belongs to a session that still exists.  A cancelled run whose worker has not yet
\* noticed can be given, after the deletion, what it was authorized to before (the new
\* reads it makes are refused, docs/storage.md:62).
ReadsAuthorized ==
  [][\A t \in Task :
       /\ RecheckRead(t) /\ task'[t].kind = "give" => task[t].session \in open
       /\ GiveRead(t) /\ task[t].live => task[t].session \in open]_vars

\* What is retired is erased, also after collections that failed.
RetiredIsErased ==
  \A f \in File : row[f].state = "delete_pending" ~> row[f].state = "deleted" /\ blob[f] = None

=============================================================================
