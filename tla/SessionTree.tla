----------------------------- MODULE SessionTree -----------------------------
(***************************************************************************)
(* The message tree of one session: runs append a user message and an      *)
(* answer to the active branch, an answer is regenerated or a message      *)
(* edited as another version of it, a steering message is put between a    *)
(* question and the answer under way, and the reader switches to another   *)
(* version.  What a run sends to the model is the path that leads to its   *)
(* answer.                                                                 *)
(*                                                                         *)
(* A request is two steps: what it reads before it holds the lock of the   *)
(* session row, and everything it does under that lock.                    *)
(*                                                                         *)
(* Abstractions: a message is its number, in order of creation; a context  *)
(* is the sequence of the messages whose text it carries; a moment is one  *)
(* more than the latest creation time.  Requests with equal operation and  *)
(* target have equal hashes.  The lock makes the IntegrityErrors that      *)
(* _commit_idempotent_run handles impossible within one session.           *)
(***************************************************************************)
EXTENDS Integers, Sequences, FiniteSets, SequencesExt

CONSTANTS
  Caller,      \* requests that can be under way at the same time
  Key,         \* idempotency keys of requests to an open session
  MaxMessages  \* bound: messages of the session

ASSUME TreeConstants == MaxMessages \in Nat /\ {"session", "none"} \cap Key = {}

VARIABLES
  msg,   \* AgentMessage rows
  clock, \* the latest creation time
  leaf,  \* AgentSession.active_leaf_message_id, 0 for none
  run,   \* AgentRun rows
  call,  \* call[c]: the request of caller c, what it has read, its result
  gone   \* the session has been deleted

vars == <<msg, clock, leaf, run, call, gone>>

-----------------------------------------------------------------------------
NoMessage == 0

\* What a request is answered, where it is not a run: a refusal, or nothing yet.
Waiting == 0
Active == -1
Conflict == -2
Missing == -3

NoCall == [op |-> "create", target |-> NoMessage, key |-> "session",
           parent |-> NoMessage, result |-> Missing]

Init ==
  /\ msg = <<>>
  /\ clock = 0
  /\ leaf = NoMessage
  /\ run = <<>>
  /\ call = [c \in Caller |-> NoCall]
  /\ gone = FALSE

-----------------------------------------------------------------------------
(* The tree. *)

Now == clock + 1

\* The messages from the root to m.
Branch(m) ==
  LET path[x \in 0..Len(msg)] ==
        IF x = NoMessage THEN <<>> ELSE Append(path[msg[x].parent], x)
  IN  path[m]

\* Mutant: the lineage takes an answer without its question.
LineageShort(m) ==
  LET path[x \in 0..Len(msg)] ==
        IF x = NoMessage THEN <<>>
        ELSE IF msg[x].role = "assistant" THEN Append(msg[x].provider, x)
        ELSE Append(path[msg[x].parent], x)
  IN  path[m]

\* _provider_lineage: back to the nearest answer that has a checkpoint, which
\* stands for everything before it.
Lineage(m) ==
  LET path[x \in 0..Len(msg)] ==
        IF x = NoMessage THEN <<>>
        ELSE IF msg[x].provider # <<>> THEN msg[x].provider
        ELSE Append(path[msg[x].parent], x)
  IN  path[m]

Children(m) == {x \in DOMAIN msg : msg[x].parent = m}

\* _latest_descendant_leaf: the youngest leaf below m.
LatestLeaf(m) ==
  LET leaves == {y \in DOMAIN msg : Contains(Branch(y), m) /\ Children(y) = {}}
  IN  {x \in leaves : \A y \in leaves : msg[y].created <= msg[x].created}

NextIndex(group) ==
  1 + FoldLeft(LAMBDA n, m : IF m.group = group /\ m.index > n THEN m.index ELSE n, 0, msg)

New(role, parent, group, index, supersedes, created) ==
  [role |-> role, parent |-> parent, group |-> group, index |-> index,
   supersedes |-> supersedes, created |-> created, provider |-> <<>>]

\* A first version is a group of its own.
Fresh(role, parent, id, created) == New(role, parent, id, 1, NoMessage, created)

-----------------------------------------------------------------------------
(* Runs. *)

ActiveRuns == {r \in DOMAIN run : run[r].status # "ended"}
Request(c) == [op |-> call[c].op, target |-> call[c].target]
\* Mutant: the active run is looked for before the key.
ReplayedIdle(key) == {r \in DOMAIN run : run[r].key = key /\ ActiveRuns = {}}

Replayed(key) == {r \in DOMAIN run : run[r].key = key}

NewRun(user, assistant, request, key) ==
  [user |-> user, assistant |-> assistant, request |-> request, key |-> key,
   context |-> <<>>, status |-> "pending"]

\* New messages, the last of which is the answer, and the run that writes it.
Start(new, user, request, key) ==
  LET answer == Len(msg) + Len(new)
  IN  /\ answer <= MaxMessages
      /\ msg' = msg \o new
      /\ clock' = clock + Len(new)
      /\ leaf' = answer
      /\ run' = Append(run, NewRun(user, answer, request, key))

\* _append_create_run.
AppendCreate(request, key) ==
  LET user == Len(msg) + 1
  IN  Start(<<Fresh("user", leaf, user, Now), Fresh("assistant", user, user + 1, Now + 1)>>,
            user, request, key)

AppendRegenerated(c) ==
  LET target == msg[call[c].target]
      user == call[c].parent
  IN  Start(<<New("assistant", user, target.group, NextIndex(target.group),
                  call[c].target, Now)>>,
            user, Request(c), call[c].key)

AppendEdited(c) ==
  LET target == msg[call[c].target]
      user == Len(msg) + 1
  IN  Start(<<New("user", call[c].parent, target.group, NextIndex(target.group),
                  call[c].target, Now),
              Fresh("assistant", user, user + 1, Now + 1)>>,
            user, Request(c), call[c].key)

-----------------------------------------------------------------------------
(* Requests. *)

Answer(c, result) == call' = [call EXCEPT ![c].result = result]

\* What regenerate and edit read of the message they name before they lock.
Target(op, m) ==
  CASE op = "regenerate" -> msg[m].role = "assistant" /\ msg[m].parent # NoMessage
    [] op = "edit"       -> msg[m].role = "user"
    [] OTHER             -> FALSE

Ask(c, op, target, key, parent) ==
  /\ call[c].result # Waiting
  /\ call' = [call EXCEPT ![c] = [op |-> op, target |-> target, key |-> key,
                                  parent |-> parent, result |-> Waiting]]
  /\ UNCHANGED <<msg, clock, leaf, run, gone>>

AskOpen(c) == Ask(c, "open", NoMessage, "session", NoMessage)

AskCreate(c) == \E key \in Key : Ask(c, "create", NoMessage, key, NoMessage)

AskVersion(c) ==
  \E op \in {"edit", "regenerate"}, m \in DOMAIN msg, key \in Key :
    /\ ~gone
    /\ Target(op, m)
    /\ Ask(c, op, m, key, msg[m].parent)

\* The request holds the session's lock, but replays what its key has done or
\* is refused.  Only a request to open a session may find none.
Refuse(c) ==
  /\ call[c].result = Waiting
  /\ LET replayed == Replayed(call[c].key)
     IN  \/ /\ gone \/ (msg = <<>> /\ call[c].op # "open")
            /\ Answer(c, Missing)
         \/ /\ ~gone
            /\ \E r \in replayed :
                 Answer(c, IF run[r].request = Request(c) THEN r ELSE Conflict)
         \/ /\ ~gone /\ msg # <<>>
            /\ replayed = {}
            /\ ActiveRuns # {}
            /\ Answer(c, Active)
  /\ UNCHANGED <<msg, clock, leaf, run, gone>>

Begins(c, op) ==
  /\ call[c].result = Waiting
  /\ call[c].op = op
  /\ ~gone
  /\ (op = "open") = (msg = <<>>)
  /\ Replayed(call[c].key) = {}
  /\ ActiveRuns = {}
  /\ Answer(c, Len(run) + 1)
  /\ UNCHANGED gone

CreateSessionRun(c) == Begins(c, "open") /\ AppendCreate(Request(c), call[c].key)
CreateRun(c) == Begins(c, "create") /\ AppendCreate(Request(c), call[c].key)
Regenerate(c) == Begins(c, "regenerate") /\ AppendRegenerated(c)
EditUserMessage(c) == Begins(c, "edit") /\ AppendEdited(c)

SwitchVersion ==
  /\ ~gone
  /\ ActiveRuns = {}
  /\ \E m \in DOMAIN msg : leaf' \in LatestLeaf(m)
  /\ UNCHANGED <<msg, clock, run, call, gone>>

DeleteSession ==
  /\ msg # <<>> /\ ~gone
  /\ ActiveRuns = {}
  /\ gone' = TRUE
  /\ UNCHANGED <<msg, clock, leaf, run, call>>

-----------------------------------------------------------------------------
(* The input queue and the workers. *)

Dispatch ==
  /\ msg # <<>> /\ ~gone
  /\ ActiveRuns = {}
  /\ AppendCreate([op |-> "create", target |-> NoMessage], "none")
  /\ UNCHANGED <<call, gone>>

ClaimRun ==
  \E r \in DOMAIN run :
    /\ run[r].status = "pending"
    /\ run' = [run EXCEPT ![r].status = "running", ![r].context = Lineage(run[r].user)]
    /\ UNCHANGED <<msg, clock, leaf, call, gone>>

\* Mutant: the answer keeps the creation time it had before the steering messages.
ConsumeOld(r, n) ==
  LET a == run[r].assistant
      first == Len(msg) + 1
      steers == [i \in 1..n |->
                  Fresh("user", IF i = 1 THEN msg[a].parent ELSE first + i - 2,
                        first + i - 1, Now + i - 1)]
  IN  /\ run[r].status = "running"
      /\ Len(msg) + n <= MaxMessages
      /\ msg' = [msg EXCEPT ![a].parent = Len(msg) + n] \o steers
      /\ clock' = Now + n
      /\ run' = [run EXCEPT ![r].context = @ \o [i \in 1..n |-> Len(msg) + i]]
      /\ UNCHANGED <<leaf, call, gone>>

\* consume: n steering messages go before the answer, which moves below them.
Consume(r, n) ==
  LET a == run[r].assistant
      first == Len(msg) + 1
      steers == [i \in 1..n |->
                  Fresh("user", IF i = 1 THEN msg[a].parent ELSE first + i - 2,
                        first + i - 1, Now + i - 1)]
  IN  /\ run[r].status = "running"
      /\ Len(msg) + n <= MaxMessages
      /\ msg' = [msg EXCEPT ![a].parent = Len(msg) + n, ![a].created = Now + n] \o steers
      /\ clock' = Now + n
      /\ run' = [run EXCEPT ![r].context = @ \o [i \in 1..n |-> Len(msg) + i]]
      /\ UNCHANGED <<leaf, call, gone>>

ConsumeSteers == \E r \in DOMAIN run, n \in 1..2 : Consume(r, n)

\* _persist_terminal_assistant, with or without an answer: a run that ends
\* before its claim leaves no checkpoint.
Finish(r, context) ==
  /\ run' = [run EXCEPT ![r].status = "ended"]
  /\ msg' = [msg EXCEPT ![run[r].assistant].provider = context]
  /\ UNCHANGED <<clock, leaf, call, gone>>

CompleteRun ==
  \E r \in DOMAIN run :
    /\ run[r].status = "running"
    /\ Finish(r, Append(run[r].context, run[r].assistant))

StopRun == \E r \in ActiveRuns : Finish(r, run[r].context)

-----------------------------------------------------------------------------
Next ==
  \/ \E c \in Caller :
       \/ AskOpen(c) \/ AskCreate(c) \/ AskVersion(c) \/ Refuse(c)
       \/ CreateSessionRun(c) \/ CreateRun(c) \/ Regenerate(c) \/ EditUserMessage(c)
  \/ SwitchVersion \/ DeleteSession
  \/ Dispatch \/ ClaimRun \/ ConsumeSteers \/ CompleteRun \/ StopRun

Spec == Init /\ [][Next]_vars

-----------------------------------------------------------------------------
(* Properties. *)

\* The page that session_detail cuts off at the creation time of the active
\* leaf holds the whole active branch, parents before children: on every branch
\* a message is older than its child, also when steering moved the answer.
BranchInOrder ==
  \A m \in DOMAIN msg :
    msg[m].parent # NoMessage => msg[msg[m].parent].created < msg[m].created

\* The elements of s come in t in the order they have in s.
InOrder(s, t) ==
  \A i, j \in DOMAIN s :
    i < j => \E k, l \in DOMAIN t : k < l /\ t[k] = s[i] /\ t[l] = s[j]

\* What a run sends to the model is the path to its answer: every user message
\* on it, in order, and nothing of another branch, through any mixture of
\* checkpoints of earlier answers, stopped runs, edits and steering.
ContextIsBranch ==
  LET users == {m \in DOMAIN msg : msg[m].role = "user"}
  IN  \A r \in DOMAIN run :
        run[r].context # <<>> =>
          LET branch == Branch(msg[run[r].assistant].parent)
          IN  /\ ToSet(run[r].context) \subseteq ToSet(branch)
              /\ ToSet(branch) \cap users \subseteq ToSet(run[r].context)
              /\ InOrder(run[r].context, branch)

\* Whoever repeats a request whose run exists is answered that run, and no
\* second one starts: never that another run is active.
RetryAnswered ==
  [][\A c \in Caller :
       LET done == {r \in DOMAIN run : run[r].key = call[c].key /\ run[r].request = Request(c)}
       IN  call[c].result = Waiting /\ call'[c].result # Waiting /\ done # {} /\ ~gone
             => call'[c].result \in done /\ run' = run]_vars

=============================================================================
