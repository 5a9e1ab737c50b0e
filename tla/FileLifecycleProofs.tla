------------------------- MODULE FileLifecycleProofs -------------------------
(***************************************************************************)
(* Proofs about attachments, for every set of files, sessions, tasks and   *)
(* collecting processes and any number of faults.                          *)
(*                                                                         *)
(* What a session has claimed keeps its bytes because a collector's locks  *)
(* last from the choice of its batch to its end: a locked row stays one    *)
(* that may be collected (LockInv), and a stored row without bytes is in   *)
(* such a batch or was in one that was rolled back (BytesInv).  What an    *)
(* active run is given is its session's, because the session is not        *)
(* deleted under it (ReadInv), and pages of an ended one because a claimed *)
(* file has an existing session (ClaimInv) when it is looked at again.     *)
(***************************************************************************)
EXTENDS FileLifecycle, TLAPS

FileRow == [state: {"absent", "pending", "stored", "ready", "delete_pending", "deleted"},
            sha: Content \cup {None}, session: Session \cup {None},
            text: {"none", "ready", "failed"}, old: BOOLEAN]
TaskRow == {Idle}
           \cup [kind: {"extract"}, file: File, sha: Content \cup {None}, ok: BOOLEAN]
           \cup [kind: {"read", "recheck", "give"}, file: File, session: Session,
                 live: BOOLEAN]
BatchRow == [rows: SUBSET File, left: SUBSET File]

TypeInv ==
  /\ row \in [File -> FileRow]
  /\ blob \in [File -> Content \cup {None}]
  /\ open \subseteq Session
  /\ batch \in [Process -> BatchRow]
  /\ task \in [Task -> TaskRow]
  /\ faults \in Nat
  /\ torn \subseteq File

\* A row is in one batch at most, and while it is, it may be collected.
LockInv ==
  /\ \A p \in Process : batch[p].left \subseteq batch[p].rows
  /\ \A p, q \in Process : p # q => batch[p].rows \cap batch[q].rows = {}
  /\ \A p \in Process : \A f \in batch[p].rows :
       row[f].state \in {"delete_pending", "pending", "stored"}

\* An uploaded file without bytes is being collected, or was by a collection that failed.
BytesInv ==
  \A f \in File : row[f].state \in {"stored", "ready"} /\ blob[f] = None =>
    \/ f \in torn
    \/ \E p \in Process : f \in batch[p].rows /\ f \notin batch[p].left

\* A claimed file belongs to a session that exists.
ClaimInv == \A f \in File : row[f].state = "ready" => row[f].session \in open

\* An active run's session exists, and so does that of a read for it.
ReadInv ==
  /\ active \subseteq open
  /\ \A t \in Task : Reading(t) => (task[t].live => task[t].session \in active)

FileInv == TypeInv /\ LockInv /\ BytesInv /\ ClaimInv /\ BytesMatchDigest

-----------------------------------------------------------------------------
(* Steps that leave every batch alone. *)

\* What such a step must do to a file for the invariant to survive.
Kept(f) ==
  /\ row'[f] \in FileRow /\ blob'[f] \in Content \cup {None}
  /\ (\E p \in Process : f \in batch[p].rows) => row'[f].state = row[f].state
  /\ row'[f].state \in {"stored", "ready"} =>
       /\ blob'[f] \in {row'[f].sha, None}
       /\ blob'[f] = None => row[f].state \in {"stored", "ready"} /\ blob[f] = None
  /\ row'[f].state = "ready" => row'[f].session \in open'

\* A step that keeps every file keeps the invariant.
LEMMA KeptFiles ==
  ASSUME FileInv, \A f \in File : Kept(f),
         row' = [f \in File |-> row'[f]], blob' = [f \in File |-> blob'[f]],
         open' \subseteq Session, task' \in [Task -> TaskRow], faults' \in Nat,
         UNCHANGED <<batch, torn>>
  PROVE  FileInv'
<1>1. TypeInv'
  <2>1. row' \in [File -> FileRow] /\ blob' \in [File -> Content \cup {None}]
    BY DEF Kept
  <2> QED BY <2>1 DEF FileInv, TypeInv
<1>2. LockInv'
  BY DEF FileInv, LockInv, TypeInv, BatchRow, Kept
<1>3. BytesInv'
  BY DEF FileInv, BytesInv, Kept
<1>4. ClaimInv'
  BY DEF ClaimInv, Kept
<1>5. BytesMatchDigest'
  BY DEF BytesMatchDigest, Kept
<1> QED BY <1>1, <1>2, <1>3, <1>4, <1>5 DEF FileInv

\* A file whose row and bytes stay is kept while its session is.
LEMMA SameFile ==
  ASSUME FileInv, NEW f \in File, row'[f] = row[f], blob'[f] = blob[f],
         row[f].session \in open => row[f].session \in open'
  PROVE  Kept(f)
BY DEF FileInv, TypeInv, ClaimInv, BytesMatchDigest, Kept

\* A free file is in no batch.
LEMMA FreeFile ==
  ASSUME NEW f \in File, Free(f)
  PROVE  \A p \in Process : f \notin batch[p].rows
BY DEF Free, Locked

\* Its text and its age say nothing about a row's state.
LEMMA RowColumns ==
  ASSUME NEW r \in FileRow
  PROVE  /\ \A x \in {"none", "ready", "failed"} :
              LET u == [r EXCEPT !.text = x]
              IN  /\ u \in FileRow /\ u.state = r.state /\ u.sha = r.sha
                  /\ u.session = r.session
         /\ LET u == [r EXCEPT !.old = TRUE]
            IN  u \in FileRow /\ u.state = r.state /\ u.sha = r.sha /\ u.session = r.session
BY DEF FileRow

\* The endpoints of a file, and its age.
LEMMA FileActions ==
  ASSUME FileInv, NEW f \in File, FileStep(f)
  PROVE  FileInv'
<1>0. /\ row[f] \in FileRow /\ row \in [File -> FileRow]
      /\ blob \in [File -> Content \cup {None}]
      /\ open \subseteq Session /\ task \in [Task -> TaskRow] /\ faults \in Nat
      /\ None \notin Content
  BY FileConstants DEF FileInv, TypeInv, FileConstants
<1>1. ASSUME CreateFile(f) \/ DeleteFile(f) PROVE FileInv'
  <2>1. PICK s \in {"pending", "delete_pending"} : row' = [row EXCEPT ![f] = [row[f] EXCEPT !.state = s]]
    BY <1>0, <1>1 DEF CreateFile, DeleteFile
  <2>2. UNCHANGED <<blob, open, batch, task, faults, torn>>
    BY <1>1 DEF CreateFile, DeleteFile
  <2>3. \A p \in Process : f \notin batch[p].rows
    BY <1>1, FreeFile DEF CreateFile, DeleteFile, FileInv, LockInv
  <2> DEFINE u == [row[f] EXCEPT !.state = s]
  <2>4. u \in FileRow /\ u.state = s
    <3> DEFINE r == row[f]
    <3>1. r \in FileRow
      BY <1>0
    <3> HIDE DEF r
    <3>2. [r EXCEPT !.state = s] \in FileRow /\ [r EXCEPT !.state = s].state = s
      BY <3>1 DEF FileRow
    <3> QED BY <3>2 DEF r
  <2> HIDE DEF u
  <2>5. row' = [row EXCEPT ![f] = u]
    BY <2>1 DEF u
  <2>6. Kept(f)
    BY <1>0, <2>2, <2>3, <2>4, <2>5 DEF Kept
  <2>7. \A g \in File \ {f} : Kept(g)
    BY <1>0, <2>2, <2>5, SameFile
  <2>8. row' = [g \in File |-> row'[g]] /\ blob' = [g \in File |-> blob'[g]]
    BY <1>0, <2>2, <2>5
  <2> QED BY <1>0, <2>2, <2>6, <2>7, <2>8, KeptFiles
<1>2. ASSUME NEW c \in Content, StoreUpload(f, c) PROVE FileInv'
  <2> DEFINE u == [row[f] EXCEPT !.state = "stored", !.sha = c]
  <2>1. u \in FileRow /\ u.state = "stored" /\ u.sha = c
    BY <1>0 DEF FileRow
  <2>2. /\ row' = [row EXCEPT ![f] = u] /\ blob' = [blob EXCEPT ![f] = c]
        /\ UNCHANGED <<open, batch, task, faults, torn>>
    BY <1>2 DEF StoreUpload, Put
  <2> HIDE DEF u
  <2>3. \A p \in Process : f \notin batch[p].rows
    BY <1>2, FreeFile DEF StoreUpload
  <2>4. Kept(f)
    BY <1>0, <2>1, <2>2, <2>3 DEF Kept
  <2>5. \A g \in File \ {f} : Kept(g)
    BY <1>0, <2>2, SameFile
  <2>6. row' = [g \in File |-> row'[g]] /\ blob' = [g \in File |-> blob'[g]]
    BY <1>0, <2>2
  <2> QED BY <1>0, <2>2, <2>4, <2>5, <2>6, KeptFiles
<1>3. ASSUME NEW c \in Content, UploadFails(f, c) PROVE FileInv'
  <2>1. /\ row[f].state = "pending" /\ blob' = [blob EXCEPT ![f] = c]
        /\ faults' = faults + 1
        /\ UNCHANGED <<row, open, batch, task, torn>>
    BY <1>3 DEF UploadFails, Put, Fault
  <2>2. Kept(f)
    BY <1>0, <2>1 DEF Kept
  <2>3. \A g \in File \ {f} : Kept(g)
    BY <1>0, <2>1, SameFile
  <2>4. row' = [g \in File |-> row'[g]] /\ blob' = [g \in File |-> blob'[g]]
    BY <1>0, <2>1
  <2>5. faults' \in Nat
    BY <1>0, <2>1
  <2> QED BY <1>0, <2>1, <2>2, <2>3, <2>4, <2>5, KeptFiles
<1>4. ASSUME Age(f) PROVE FileInv'
  <2> DEFINE u == [row[f] EXCEPT !.old = TRUE]
  <2>1. u \in FileRow /\ u.state = row[f].state /\ u.sha = row[f].sha /\ u.session = row[f].session
    BY <1>0, RowColumns
  <2>2. row' = [row EXCEPT ![f] = u] /\ UNCHANGED <<blob, open, batch, task, faults, torn>>
    BY <1>4 DEF Age
  <2> HIDE DEF u
  <2>3. Kept(f)
    BY <1>0, <2>1, <2>2 DEF Kept, FileInv, ClaimInv, BytesMatchDigest
  <2>4. \A g \in File \ {f} : Kept(g)
    BY <1>0, <2>2, SameFile
  <2>5. row' = [g \in File |-> row'[g]] /\ blob' = [g \in File |-> blob'[g]]
    BY <1>0, <2>2
  <2> QED BY <1>0, <2>2, <2>3, <2>4, <2>5, KeptFiles
<1> QED BY <1>1, <1>2, <1>3, <1>4 DEF FileStep

\* A read whose run ends stays one, and is no longer for an active run.
LEMMA EndedReads ==
  ASSUME TypeInv, NEW s \in Session, EndRun(s)
  PROVE  /\ task' \in [Task -> TaskRow]
         /\ \A t \in Task :
              \/ task'[t] = task[t] /\ ~(Reading(t) /\ task[t].session = s)
              \/ ~task'[t].live
<1>1. task' = [t \in Task |-> IF Reading(t) /\ task[t].session = s
                              THEN [task[t] EXCEPT !.live = FALSE] ELSE task[t]]
  BY DEF EndRun
<1>2. ASSUME NEW t \in Task, Reading(t)
      PROVE  /\ [task[t] EXCEPT !.live = FALSE] \in TaskRow
             /\ ~[task[t] EXCEPT !.live = FALSE].live
  <2> DEFINE x == task[t]
  <2>1. x \in [kind: {"read", "recheck", "give"}, file: File, session: Session, live: BOOLEAN]
    BY <1>2 DEF TypeInv, TaskRow, Reading, Idle
  <2> HIDE DEF x
  <2>2. [x EXCEPT !.live = FALSE] \in TaskRow /\ ~[x EXCEPT !.live = FALSE].live
    BY <2>1 DEF TaskRow
  <2> QED BY <2>2 DEF x
<1>3. ASSUME NEW t \in Task
      PROVE  /\ task'[t] \in TaskRow
             /\ \/ task'[t] = task[t] /\ ~(Reading(t) /\ task[t].session = s)
                \/ ~task'[t].live
  <2>1. CASE Reading(t) /\ task[t].session = s
    BY <1>1, <1>2, <2>1
  <2>2. CASE ~(Reading(t) /\ task[t].session = s)
    BY <1>1, <2>2 DEF TypeInv
  <2> QED BY <2>1, <2>2
<1> QED BY <1>1, <1>3

\* A session claims files, and takes those it has claimed with it.
LEMMA SessionActions ==
  ASSUME FileInv, NEW s \in Session, SessionStep(s)
  PROVE  FileInv'
<1>0. /\ row \in [File -> FileRow] /\ blob \in [File -> Content \cup {None}]
      /\ open \subseteq Session /\ task \in [Task -> TaskRow] /\ faults \in Nat
  BY DEF FileInv, TypeInv
<1>1. ASSUME NEW files \in SUBSET File \ {{}}, AttachFiles(s, files) PROVE FileInv'
  <2>1. /\ s \in open /\ \A f \in files : Free(f) /\ Claimable(f, s)
        /\ UNCHANGED <<blob, open, batch, task, faults, torn>>
        /\ row' = [f \in File |->
              IF f \in files THEN [row[f] EXCEPT !.state = "ready", !.session = s] ELSE row[f]]
    BY <1>1 DEF AttachFiles
  <2>2. ASSUME NEW f \in files PROVE Kept(f)
    <3> DEFINE u == [row[f] EXCEPT !.state = "ready", !.session = s]
    <3>1. row[f] \in FileRow
      BY <1>0
    <3>2. u \in FileRow /\ u.state = "ready" /\ u.session = s /\ u.sha = row[f].sha
      BY <3>1 DEF FileRow
    <3> HIDE DEF u
    <3>3. row'[f] = u
      BY <2>1 DEF u
    <3>4. /\ \A p \in Process : f \notin batch[p].rows
          /\ row[f].state \in {"stored", "ready"}
      BY <2>1, FreeFile DEF Claimable
    <3>5. blob[f] \in {row[f].sha, None}
      BY <3>4 DEF FileInv, BytesMatchDigest
    <3>6. blob'[f] = blob[f] /\ blob[f] \in Content \cup {None} /\ open' = open
      BY <1>0, <2>1
    <3> QED BY <2>1, <3>2, <3>3, <3>4, <3>5, <3>6 DEF Kept
  <2>3. \A f \in File \ files : Kept(f)
    BY <2>1, SameFile
  <2>4. row' = [f \in File |-> row'[f]] /\ blob' = [f \in File |-> blob'[f]]
    BY <1>0, <2>1
  <2> QED BY <1>0, <2>1, <2>2, <2>3, <2>4, KeptFiles
<1>2. ASSUME DeleteSession(s) PROVE FileInv'
  <2>1. /\ \A f \in File : row[f].session = s => Free(f)
        /\ open' = open \ {s}
        /\ UNCHANGED <<blob, batch, task, faults, torn>>
        /\ row' = [f \in File |->
              IF row[f].session = s
              THEN [row[f] EXCEPT !.state = "delete_pending", !.session = None] ELSE row[f]]
    BY <1>2 DEF DeleteSession
  <2>2. ASSUME NEW f \in File, row[f].session = s PROVE Kept(f)
    <3> DEFINE u == [row[f] EXCEPT !.state = "delete_pending", !.session = None]
    <3>1. row[f] \in FileRow
      BY <1>0
    <3>2. u \in FileRow /\ u.state = "delete_pending"
      BY <3>1 DEF FileRow
    <3> HIDE DEF u
    <3>3. row'[f] = u
      BY <2>1, <2>2 DEF u
    <3>4. \A p \in Process : f \notin batch[p].rows
      BY <2>1, <2>2, FreeFile
    <3> QED BY <1>0, <2>1, <3>2, <3>3, <3>4 DEF Kept
  <2>3. ASSUME NEW f \in File, row[f].session # s PROVE Kept(f)
    <3>1. row'[f] = row[f] /\ blob'[f] = blob[f]
          /\ (row[f].session \in open => row[f].session \in open')
      BY <2>1, <2>3
    <3> QED BY <3>1, SameFile
  <2>4. row' = [f \in File |-> row'[f]] /\ blob' = [f \in File |-> blob'[f]]
        /\ open' \subseteq Session
    BY <1>0, <2>1
  <2> QED BY <1>0, <2>1, <2>2, <2>3, <2>4, KeptFiles
<1>3. ASSUME StartRun(s) PROVE FileInv'
  <2>1. UNCHANGED <<row, blob, open, batch, task, faults, torn>>
    BY <1>3 DEF StartRun
  <2> QED BY <2>1 DEF FileInv, TypeInv, LockInv, BytesInv, ClaimInv, BytesMatchDigest
<1>4. ASSUME EndRun(s) PROVE FileInv'
  <2>1. UNCHANGED <<row, blob, open, batch, faults, torn>>
    BY <1>4 DEF EndRun
  <2>2. \A f \in File : Kept(f)
    BY <2>1, SameFile
  <2>3. task' \in [Task -> TaskRow]
    BY <1>4, EndedReads DEF FileInv
  <2>4. row' = [f \in File |-> row'[f]] /\ blob' = [f \in File |-> blob'[f]]
    BY <1>0, <2>1
  <2> QED BY <1>0, <2>1, <2>2, <2>3, <2>4, KeptFiles
<1> QED BY <1>1, <1>2, <1>3, <1>4 DEF SessionStep

\* Extractions and reads.
LEMMA TaskActions ==
  ASSUME FileInv, NEW t \in Task, TaskStep(t)
  PROVE  FileInv'
<1>0. /\ row \in [File -> FileRow] /\ blob \in [File -> Content \cup {None}]
      /\ open \subseteq Session /\ task \in [Task -> TaskRow] /\ faults \in Nat
  BY DEF FileInv, TypeInv
<1>1. Idle \in TaskRow
  BY DEF TaskRow
<1>2. ASSUME NEW x \in TaskRow, task' = [task EXCEPT ![t] = x],
             UNCHANGED <<row, blob, open, batch, faults, torn>>
      PROVE  FileInv'
  <2>1. \A f \in File : Kept(f)
    BY <1>2, SameFile
  <2>2. /\ row' = [f \in File |-> row'[f]] /\ blob' = [f \in File |-> blob'[f]]
        /\ task' \in [Task -> TaskRow]
    BY <1>0, <1>2
  <2> QED BY <1>0, <1>2, <2>1, <2>2, KeptFiles
<1>3. ASSUME NEW f \in File, StartExtraction(t, f) PROVE FileInv'
  <2>1. PICK ok \in BOOLEAN :
          task' = [task EXCEPT ![t] = [kind |-> "extract", file |-> f, sha |-> blob[f], ok |-> ok]]
    BY <1>3 DEF StartExtraction
  <2>2. [kind |-> "extract", file |-> f, sha |-> blob[f], ok |-> ok] \in TaskRow
    BY <1>0 DEF TaskRow
  <2> QED BY <1>2, <1>3, <2>1, <2>2 DEF StartExtraction
<1>4. ASSUME NEW f \in File, NEW s \in Session, StartRead(t, f, s) \/ ReadText(t, f, s)
      PROVE  FileInv'
  <2>1. PICK kind \in {"read", "give"}, live \in BOOLEAN :
          task' = [task EXCEPT ![t] = Read(kind, f, s, live)]
    BY <1>4 DEF StartRead, ReadText
  <2>2. Read(kind, f, s, live) \in TaskRow
    BY DEF Read, TaskRow
  <2> QED BY <1>2, <1>4, <2>1, <2>2 DEF StartRead, ReadText
<1>5. ASSUME ReadTarget(t) \/ RecheckRead(t) PROVE FileInv'
  <2> DEFINE x == task[t]
  <2>1. x \in TaskRow /\ x.kind \in {"read", "recheck"}
    BY <1>0, <1>5 DEF ReadTarget, RecheckRead
  <2>2. \/ \E k \in {"recheck", "give"} : task' = [task EXCEPT ![t] = [x EXCEPT !.kind = k]]
        \/ task' = [task EXCEPT ![t] = Idle]
    BY <1>5 DEF ReadTarget, RecheckRead
  <2>3. UNCHANGED <<row, blob, open, batch, faults, torn>>
    BY <1>5 DEF ReadTarget, RecheckRead
  <2> HIDE DEF x
  <2>4. x \in [kind: {"read", "recheck", "give"}, file: File, session: Session, live: BOOLEAN]
    BY <2>1 DEF TaskRow, Idle
  <2>5. \A k \in {"recheck", "give"} : [x EXCEPT !.kind = k] \in TaskRow
    BY <2>4 DEF TaskRow
  <2> QED BY <1>1, <1>2, <2>2, <2>3, <2>5
<1>6. ASSUME GiveRead(t) PROVE FileInv'
  BY <1>1, <1>2, <1>6 DEF GiveRead
<1>7. ASSUME FinishExtraction(t) PROVE FileInv'
  <2> DEFINE f == task[t].file
  <2>1. f \in File
    BY <1>0, <1>7 DEF FinishExtraction, TaskRow, Idle
  <2>2. /\ task' = [task EXCEPT ![t] = Idle] /\ UNCHANGED <<blob, open, batch, faults, torn>>
        /\ \/ row' = row
           \/ \E x \in {"ready", "failed"} : row' = [row EXCEPT ![f].text = x]
    BY <1>7 DEF FinishExtraction
  <2> HIDE DEF f
  <2>3. CASE row' = row
    BY <1>1, <1>2, <2>2, <2>3
  <2>4. ASSUME NEW x \in {"ready", "failed"}, row' = [row EXCEPT ![f].text = x] PROVE FileInv'
    <3> DEFINE u == [row[f] EXCEPT !.text = x]
    <3>1. /\ u \in FileRow /\ u.state = row[f].state /\ u.sha = row[f].sha
          /\ u.session = row[f].session
      BY <1>0, <2>1, RowColumns
    <3>2. row' = [row EXCEPT ![f] = u]
      BY <2>4
    <3> HIDE DEF u
    <3>3. Kept(f)
      BY <1>0, <2>1, <2>2, <3>1, <3>2 DEF Kept, FileInv, ClaimInv, BytesMatchDigest
    <3>4. \A g \in File \ {f} : Kept(g)
      BY <1>0, <2>2, <3>2, SameFile
    <3>5. /\ row' = [g \in File |-> row'[g]] /\ blob' = [g \in File |-> blob'[g]]
          /\ task' \in [Task -> TaskRow]
      BY <1>0, <1>1, <2>2, <3>2
    <3> QED BY <1>0, <2>2, <3>3, <3>4, <3>5, KeptFiles
  <2> QED BY <2>2, <2>3, <2>4
<1> QED BY <1>3, <1>4, <1>5, <1>6, <1>7 DEF TaskStep

-----------------------------------------------------------------------------
(* The collectors. *)

\* A collector locks what it may collect, erases it file by file, and commits or fails.
LEMMA CollectorActions ==
  ASSUME FileInv, NEW p \in Process, Collect(p) \/ AbortCollection(p)
  PROVE  FileInv'
<1>0. /\ row \in [File -> FileRow] /\ blob \in [File -> Content \cup {None}]
      /\ open \subseteq Session /\ task \in [Task -> TaskRow] /\ faults \in Nat
      /\ torn \subseteq File /\ batch \in [Process -> BatchRow] /\ batch[p] \in BatchRow
  BY DEF FileInv, TypeInv
<1>00. /\ \A q \in Process : batch[q].left \subseteq batch[q].rows
       /\ \A q, r \in Process : q # r => batch[q].rows \cap batch[r].rows = {}
       /\ \A q \in Process : \A f \in batch[q].rows :
            row[f].state \in {"delete_pending", "pending", "stored"}
  BY DEF FileInv, LockInv
<1>1. NoBatch \in BatchRow /\ NoBatch.rows = {} /\ NoBatch.left = {}
  BY DEF NoBatch, BatchRow
<1>2. ASSUME StartCollection(p) PROVE FileInv'
  <2> DEFINE rows == {f \in File : Collectable(f) /\ Free(f)}
             b == [rows |-> rows, left |-> rows]
  <2>1. /\ batch[p] = NoBatch /\ batch' = [batch EXCEPT ![p] = b]
        /\ UNCHANGED <<row, blob, open, task, faults, torn>>
    BY <1>2 DEF StartCollection
  <2>2. /\ rows \subseteq File
        /\ \A f \in rows : row[f].state \in {"delete_pending", "pending", "stored"}
        /\ \A f \in rows, q \in Process : f \notin batch[q].rows
    BY FreeFile DEF Collectable
  <2> HIDE DEF rows
  <2>3. b \in BatchRow /\ b.rows = rows /\ b.left = rows
    BY <2>2 DEF BatchRow
  <2> HIDE DEF b
  <2>4. batch'[p] = b /\ \A q \in Process \ {p} : batch'[q] = batch[q]
    BY <1>0, <2>1
  <2>5. TypeInv'
    BY <1>0, <2>1, <2>3 DEF TypeInv
  <2>6. LockInv'
    BY <1>00, <2>1, <2>2, <2>3, <2>4 DEF LockInv
  <2>7. BytesInv'
    BY <1>1, <2>1, <2>4 DEF FileInv, BytesInv
  <2>8. ClaimInv' /\ BytesMatchDigest'
    BY <2>1 DEF FileInv, ClaimInv, BytesMatchDigest
  <2> QED BY <2>5, <2>6, <2>7, <2>8 DEF FileInv
<1>3. ASSUME EraseBlob(p) PROVE FileInv'
  <2>1. PICK f \in batch[p].left :
          /\ blob' = [blob EXCEPT ![f] = None]
          /\ batch' = [batch EXCEPT ![p].left = @ \ {f}]
          /\ UNCHANGED <<row, open, task, faults, torn>>
    BY <1>3 DEF EraseBlob
  <2> DEFINE l == batch[p].left \ {f}
             b == [batch[p] EXCEPT !.left = l]
  <2>2. batch' = [batch EXCEPT ![p] = b]
    BY <2>1
  <2>3. l \subseteq File
    BY <1>0 DEF BatchRow
  <2>4. l = batch[p].left \ {f} /\ f \in File /\ f \in batch[p].rows
    BY <1>0, <1>00, <2>1 DEF BatchRow
  <2> HIDE DEF l
  <2>5. b \in BatchRow /\ b.rows = batch[p].rows /\ b.left = l
    BY <1>0, <2>3 DEF BatchRow
  <2> HIDE DEF b
  <2>6. batch'[p] = b /\ \A q \in Process \ {p} : batch'[q] = batch[q]
    BY <1>0, <2>2
  <2>7. blob'[f] = None /\ \A g \in File \ {f} : blob'[g] = blob[g]
    BY <1>0, <2>1, <2>4
  <2>8. TypeInv'
    BY <1>0, <2>1, <2>2, <2>5 DEF TypeInv
  <2>9. LockInv'
    BY <1>00, <2>1, <2>4, <2>5, <2>6 DEF LockInv
  <2>10. BytesInv'
    <3>1. ASSUME NEW g \in File, row'[g].state \in {"stored", "ready"}, blob'[g] = None
          PROVE  g \in torn' \/ \E q \in Process : g \in batch'[q].rows /\ g \notin batch'[q].left
      <4>1. CASE g = f
        BY <2>4, <2>5, <2>6, <4>1
      <4>2. CASE g # f
        <5>1. g \in torn \/ \E q \in Process : g \in batch[q].rows /\ g \notin batch[q].left
          BY <2>1, <2>7, <3>1, <4>2 DEF FileInv, BytesInv
        <5> QED BY <2>1, <2>4, <2>5, <2>6, <5>1
      <4> QED BY <4>1, <4>2
    <3> QED BY <3>1 DEF BytesInv
  <2>11. ClaimInv' /\ BytesMatchDigest'
    BY <2>1, <2>7 DEF FileInv, ClaimInv, BytesMatchDigest
  <2> QED BY <2>8, <2>9, <2>10, <2>11 DEF FileInv
<1>4. ASSUME CommitCollection(p) PROVE FileInv'
  <2>1. /\ row' = [f \in File |-> IF f \in batch[p].rows THEN Erased(row[f]) ELSE row[f]]
        /\ batch' = [batch EXCEPT ![p] = NoBatch]
        /\ UNCHANGED <<blob, open, task, faults, torn>>
    BY <1>4 DEF CommitCollection
  <2>2. ASSUME NEW f \in File
        PROVE  /\ row'[f] \in FileRow
               /\ \/ f \in batch[p].rows /\ row'[f].state = "deleted"
                  \/ f \notin batch[p].rows /\ row'[f] = row[f]
    <3> DEFINE r == row[f]
    <3>1. r \in FileRow
      BY <1>0
    <3> HIDE DEF r
    <3>2. Erased(r) \in FileRow /\ Erased(r).state = "deleted"
      BY <3>1 DEF Erased, FileRow
    <3>3. row'[f] = IF f \in batch[p].rows THEN Erased(r) ELSE r
      BY <2>1 DEF r
    <3> HIDE DEF Erased
    <3> QED BY <3>1, <3>2, <3>3 DEF r
  <2>3. row' \in [File -> FileRow]
    BY <2>1, <2>2
  <2>4. batch'[p] = NoBatch /\ \A q \in Process \ {p} : batch'[q] = batch[q]
    BY <1>0, <2>1
  <2>5. TypeInv'
    BY <1>0, <1>1, <2>1, <2>3 DEF TypeInv
  <2>6. LockInv'
    <3>1. ASSUME NEW q \in Process, NEW f \in batch'[q].rows
          PROVE  row'[f].state \in {"delete_pending", "pending", "stored"}
      <4>1. q # p /\ f \in batch[q].rows /\ f \notin batch[p].rows /\ f \in File
        BY <1>0, <1>00, <1>1, <2>4, <3>1 DEF BatchRow
      <4> QED BY <1>00, <2>2, <4>1
    <3>2. \A q \in Process : batch'[q].left \subseteq batch'[q].rows
      BY <1>00, <1>1, <2>4
    <3>3. \A q, r \in Process : q # r => batch'[q].rows \cap batch'[r].rows = {}
      BY <1>00, <1>1, <2>4
    <3> QED BY <3>1, <3>2, <3>3 DEF LockInv
  <2>7. BytesInv'
    <3>1. ASSUME NEW f \in File, row'[f].state \in {"stored", "ready"}, blob'[f] = None
          PROVE  f \in torn' \/ \E q \in Process : f \in batch'[q].rows /\ f \notin batch'[q].left
      <4>1. f \notin batch[p].rows /\ row'[f] = row[f]
        BY <2>2, <3>1
      <4>2. f \in torn \/ \E q \in Process : f \in batch[q].rows /\ f \notin batch[q].left
        BY <2>1, <3>1, <4>1 DEF FileInv, BytesInv
      <4> QED BY <2>1, <2>4, <4>1, <4>2
    <3> QED BY <3>1 DEF BytesInv
  <2>8. ClaimInv' /\ BytesMatchDigest'
    BY <2>1, <2>2 DEF FileInv, ClaimInv, BytesMatchDigest
  <2> QED BY <2>5, <2>6, <2>7, <2>8 DEF FileInv
<1>5. ASSUME AbortCollection(p) PROVE FileInv'
  <2>1. /\ torn' = torn \cup (batch[p].rows \ batch[p].left)
        /\ batch' = [batch EXCEPT ![p] = NoBatch]
        /\ faults' = faults + 1
        /\ UNCHANGED <<row, blob, open, task>>
    BY <1>5 DEF AbortCollection, Fault
  <2>2. batch'[p] = NoBatch /\ \A q \in Process \ {p} : batch'[q] = batch[q]
    BY <1>0, <2>1
  <2>3. TypeInv'
    <3>1. faults' \in Nat /\ torn' \subseteq File
      BY <1>0, <2>1 DEF BatchRow
    <3> QED BY <1>0, <1>1, <2>1, <3>1 DEF TypeInv
  <2>4. LockInv'
    BY <1>00, <1>1, <2>1, <2>2 DEF LockInv
  <2>5. BytesInv'
    BY <2>1, <2>2 DEF FileInv, BytesInv
  <2>6. ClaimInv' /\ BytesMatchDigest'
    BY <2>1 DEF FileInv, ClaimInv, BytesMatchDigest
  <2> QED BY <2>3, <2>4, <2>5, <2>6 DEF FileInv
<1> QED BY <1>2, <1>3, <1>4, <1>5 DEF Collect

-----------------------------------------------------------------------------
(* The properties. *)

\* The invariant holds throughout.
LEMMA Invariant == Spec => []FileInv
<1>1. Init => FileInv
  <2> SUFFICES ASSUME Init PROVE FileInv
    OBVIOUS
  <2>1. /\ Absent \in FileRow /\ Absent.state = "absent"
        /\ NoBatch \in BatchRow /\ NoBatch.rows = {} /\ NoBatch.left = {}
        /\ Idle \in TaskRow
    BY DEF Absent, FileRow, NoBatch, BatchRow, TaskRow
  <2> HIDE DEF Absent, NoBatch, Idle
  <2>2. TypeInv
    BY <2>1 DEF Init, TypeInv
  <2> QED BY <2>1, <2>2 DEF Init, FileInv, LockInv, BytesInv, ClaimInv, BytesMatchDigest
<1>2. FileInv /\ [Next]_vars => FileInv'
  <2>1. FileInv /\ Next => FileInv'
    BY FileActions, SessionActions, TaskActions, CollectorActions DEF Next
  <2>2. FileInv /\ UNCHANGED vars => FileInv'
    BY DEF vars, FileInv, TypeInv, LockInv, BytesInv, ClaimInv, BytesMatchDigest
  <2> QED BY <2>1, <2>2
<1> QED BY <1>1, <1>2, PTL DEF Spec

\* The bytes of an uploaded file are those its digest was taken of, or there are none,
\* whatever uploads are repeated or fail half-way.
THEOREM DigestCorrect == Spec => []BytesMatchDigest
<1>1. FileInv => BytesMatchDigest
  BY DEF FileInv
<1> QED BY <1>1, Invariant, PTL

\* No collector erases the bytes of a file while a session holds it: a claimed file
\* without bytes had lost them to a collection that was rolled back.
THEOREM ClaimedCorrect == Spec => []ClaimedKeepsBytes
<1>1. FileInv => ClaimedKeepsBytes
  <2> SUFFICES ASSUME FileInv, NEW f \in File, row[f].state = "ready", blob[f] = None
               PROVE  f \in torn
    BY DEF ClaimedKeepsBytes
  <2>1. \A p \in Process : f \notin batch[p].rows
    BY DEF FileInv, LockInv
  <2> QED BY <2>1 DEF FileInv, BytesInv
<1> QED BY <1>1, Invariant, PTL

\* Reads and the runs they are for: one step.
LEMMA ReadStep ==
  ASSUME TypeInv, ReadInv, [Next]_vars
  PROVE  ReadInv'
<1>0. active \subseteq open /\ task \in [Task -> TaskRow]
  BY DEF TypeInv, ReadInv
<1>1. ASSUME NEW t \in Task, NEW x, task' = [task EXCEPT ![t] = x], UNCHANGED <<open, active>>,
             x.kind \in {"read", "recheck", "give"} => (x.live => x.session \in active)
      PROVE  ReadInv'
  <2>1. task'[t] = x /\ \A u \in Task \ {t} : task'[u] = task[u]
    BY <1>0, <1>1
  <2> QED BY <1>1, <2>1 DEF ReadInv, Reading
<1>2. ASSUME UNCHANGED <<open, active, task>> PROVE ReadInv'
  BY <1>2 DEF ReadInv, Reading
<1>3. ASSUME NEW f \in File, FileStep(f) PROVE ReadInv'
  BY <1>2, <1>3 DEF FileStep, CreateFile, DeleteFile, Age, StoreUpload, UploadFails
<1>4. ASSUME NEW p \in Process, Collect(p) \/ AbortCollection(p) PROVE ReadInv'
  BY <1>2, <1>4 DEF Collect, StartCollection, EraseBlob, CommitCollection, AbortCollection
<1>5. ASSUME NEW s \in Session, SessionStep(s) PROVE ReadInv'
  <2>1. ASSUME NEW files \in SUBSET File \ {{}}, AttachFiles(s, files) PROVE ReadInv'
    BY <1>2, <2>1 DEF AttachFiles
  <2>2. ASSUME StartRun(s) PROVE ReadInv'
    BY <2>2 DEF StartRun, ReadInv, Reading
  <2>3. ASSUME EndRun(s) PROVE ReadInv'
    <3>1. active' = active \ {s} /\ open' = open
      BY <2>3 DEF EndRun
    <3>2. ASSUME NEW t \in Task, Reading(t)', task'[t].live PROVE task'[t].session \in active'
      <4>1. task'[t] = task[t] /\ ~(Reading(t) /\ task[t].session = s)
        BY <2>3, <3>2, EndedReads
      <4> QED BY <3>1, <3>2, <4>1 DEF ReadInv, Reading
    <3> QED BY <1>0, <3>1, <3>2 DEF ReadInv
  <2>4. ASSUME DeleteSession(s) PROVE ReadInv'
    BY <2>4 DEF DeleteSession, Deletable, ReadInv, Reading
  <2> QED BY <1>5, <2>1, <2>2, <2>3, <2>4 DEF SessionStep
<1>6. ASSUME NEW t \in Task, TaskStep(t) PROVE ReadInv'
  <2>0. Idle.kind = "idle"
    BY DEF Idle
  <2>1. ASSUME NEW f \in File, StartExtraction(t, f) PROVE ReadInv'
    <3>1. PICK ok \in BOOLEAN :
            task' = [task EXCEPT ![t] = [kind |-> "extract", file |-> f, sha |-> blob[f],
                                         ok |-> ok]]
      BY <2>1 DEF StartExtraction
    <3> QED BY <1>1, <2>1, <3>1 DEF StartExtraction
  <2>2. ASSUME NEW f \in File, NEW s \in Session, StartRead(t, f, s) \/ ReadText(t, f, s)
        PROVE  ReadInv'
    <3>1. PICK kind \in {"read", "give"}, live \in BOOLEAN :
            (live => s \in active) /\ task' = [task EXCEPT ![t] = Read(kind, f, s, live)]
      BY <2>2 DEF StartRead, ReadText
    <3>2. Read(kind, f, s, live).live = live /\ Read(kind, f, s, live).session = s
      BY DEF Read
    <3>3. UNCHANGED <<open, active>>
      BY <2>2 DEF StartRead, ReadText
    <3> HIDE DEF Read
    <3> QED BY <1>1, <3>1, <3>2, <3>3
  <2>3. ASSUME ReadTarget(t) \/ RecheckRead(t) PROVE ReadInv'
    <3> DEFINE x == task[t]
    <3>1. x.live => x.session \in active
      BY <2>3 DEF ReadTarget, RecheckRead, ReadInv, Reading
    <3>2. x \in [kind: {"read", "recheck", "give"}, file: File, session: Session, live: BOOLEAN]
      BY <1>0, <2>3 DEF ReadTarget, RecheckRead, TaskRow, Idle
    <3>3. \/ \E k \in {"recheck", "give"} : task' = [task EXCEPT ![t] = [x EXCEPT !.kind = k]]
          \/ task' = [task EXCEPT ![t] = Idle]
      BY <2>3 DEF ReadTarget, RecheckRead
    <3>4. UNCHANGED <<open, active>>
      BY <2>3 DEF ReadTarget, RecheckRead
    <3> HIDE DEF x
    <3>5. \A k : [x EXCEPT !.kind = k].live = x.live /\ [x EXCEPT !.kind = k].session = x.session
      BY <3>2
    <3> QED BY <1>1, <2>0, <3>1, <3>3, <3>4, <3>5
  <2>4. ASSUME FinishExtraction(t) \/ GiveRead(t) PROVE ReadInv'
    BY <1>1, <2>0, <2>4 DEF FinishExtraction, GiveRead
  <2> QED BY <1>6, <2>1, <2>2, <2>3, <2>4 DEF TaskStep
<1> QED BY <1>2, <1>3, <1>4, <1>5, <1>6 DEF Next, vars

\* Pages are given only on a second look that finds the session undeleted, however long
\* ago the reading began; and whatever is given to an active run, text and images
\* included, is given while its session exists.
THEOREM ReadsCorrect == Spec => ReadsAuthorized
<1>1. Spec => []ReadInv
  <2>1. Init => ReadInv
    BY DEF Init, ReadInv, Reading, Idle
  <2>2. TypeInv /\ ReadInv /\ [Next]_vars => ReadInv'
    BY ReadStep
  <2>3. FileInv => TypeInv
    BY DEF FileInv
  <2> QED BY <2>1, <2>2, <2>3, Invariant, PTL DEF Spec
<1>2. ASSUME FileInv, NEW t \in Task, RecheckRead(t), task'[t].kind = "give"
      PROVE  task[t].session \in open
  <2>1. task[t] \in TaskRow /\ task \in [Task -> TaskRow] /\ Idle.kind = "idle"
    BY <1>2 DEF FileInv, TypeInv, Idle
  <2>2. Authorized(t) /\ task[t].kind = "recheck"
    BY <1>2, <2>1 DEF RecheckRead
  <2>3. task[t].file \in File
    BY <2>1, <2>2 DEF TaskRow
  <2> QED BY <1>2, <2>2, <2>3 DEF Authorized, Readable, FileInv, ClaimInv
<1>3. ASSUME ReadInv, NEW t \in Task, GiveRead(t), task[t].live
      PROVE  task[t].session \in open
  BY <1>3 DEF GiveRead, ReadInv, Reading
<1>4. FileInv /\ ReadInv =>
        [\A t \in Task :
           /\ RecheckRead(t) /\ task'[t].kind = "give" => task[t].session \in open
           /\ GiveRead(t) /\ task[t].live => task[t].session \in open]_vars
  BY <1>2, <1>3
<1> QED BY <1>1, <1>4, Invariant, PTL DEF ReadsAuthorized
============================================================================
