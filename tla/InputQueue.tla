------------------------------ MODULE InputQueue ------------------------------
(***************************************************************************)
(* The durable queue of messages a user writes while a run is busy, as the *)
(* tabs of a browser see it: inputs are created and changed by requests    *)
(* that may be answered too late or twice, taken into the running run at   *)
(* its boundaries (steer) or made the next run when the session is idle.   *)
(*                                                                         *)
(* Every operation locks the session row first and is one action.  An      *)
(* input's id is derived from the idempotency key of the request that      *)
(* creates it, so Input is also the set of those keys; a change has a key  *)
(* of its own, <<tab, number>>.                                            *)
(*                                                                         *)
(* Abstractions: a text is the tab that wrote it, Original the text the    *)
(* input was created with; a run is only whether the session has an active *)
(* one; attachments are the choice of whether they can still be attached.  *)
(***************************************************************************)
EXTENDS Integers, FiniteSets, Sequences

CONSTANTS
  Input,       \* the messages the user writes
  Tab,         \* browser tabs, each with one request under way at a time
  Original,    \* the text of an unchanged input
  Limit,       \* the 20 inputs a session may have open
  MaxChanges,  \* bound: changes a tab asks for
  MaxRuns      \* bound: runs the user starts without the queue

ASSUME QueueConstants ==
  /\ IsFiniteSet(Input)
  /\ Original \notin Tab
  /\ Limit \in Nat \ {0}
  /\ {MaxChanges, MaxRuns} \subseteq Nat

VARIABLES
  item,      \* AgentInput rows
  mutation,  \* keys of AgentInputMutation rows
  active,    \* does the session have an active run
  runs,      \* runs the user has started
  message,   \* the user messages of the session that came from inputs, in order
  failed,    \* history: the inputs that ever failed
  past,      \* past[i]: every row of i ever committed, which a tab may still show
  tab        \* tab[t]: its request, the server's answer, its number of changes

vars == <<item, mutation, active, runs, message, failed, past, tab>>

-----------------------------------------------------------------------------
Mode == {"queue", "steer"}
Text == {Original} \cup Tab
Row ==
  [status : {"absent", "pending", "failed", "applied", "cancelled"}, mode : Mode,
   content : Text, version : Nat, at : Nat]
Absent == [status |-> "absent", mode |-> "queue", content |-> Original, version |-> 0, at |-> 0]
Idle == [kind |-> "none"]
Requests ==
  {Idle} \cup [kind : {"create"}, input : Input, mode : Mode]
         \cup [kind : {"change"}, input : Input, version : Nat, key : Tab \X Nat,
               change : {"edit", "mode", "cancel"}]

Init ==
  /\ item = [i \in Input |-> Absent]
  /\ mutation = {}
  /\ active = TRUE
  /\ runs = 0
  /\ message = <<>>
  /\ failed = {}
  /\ past = [i \in Input |-> {item[i]}]
  /\ tab = [t \in Tab |-> [request |-> Idle, answer |-> "none", changes |-> 0]]

-----------------------------------------------------------------------------
Pending == {i \in Input : item[i].status = "pending"}
OpenInputs == {i \in Input : item[i].status \in {"pending", "failed"}}
Created == {i \in Input : item[i].status # "absent"}

(* Tabs. *)

Ask(t, request) ==
  /\ tab[t].request = Idle
  /\ tab' = [tab EXCEPT ![t].request = request, ![t].answer = "none",
                        ![t].changes = @ + (IF request.kind = "change" THEN 1 ELSE 0)]
  /\ UNCHANGED <<item, mutation, active, runs, message, failed, past>>

AskCreate(t, i, mode) ==
  /\ item[i].status = "absent"
  /\ \A s \in Tab : tab[s].request.kind = "create" => tab[s].request.input # i
  /\ Ask(t, [kind |-> "create", input |-> i, mode |-> mode])

\* A change names the version the tab shows.
AskChange(t, i, change) ==
  \E shown \in past[i] :
    /\ shown.status \in {"pending", "failed"}
    /\ tab[t].changes < MaxChanges
    /\ Ask(t, [kind |-> "change", input |-> i, version |-> shown.version,
               key |-> <<t, tab[t].changes + 1>>, change |-> change])

\* The answer arrives, or is lost and the same request is sent again.
Receive(t) ==
  /\ tab[t].answer # "none"
  /\ \/ tab' = [tab EXCEPT ![t].request = Idle, ![t].answer = "none"]
     \/ tab' = [tab EXCEPT ![t].answer = "none"]
  /\ UNCHANGED <<item, mutation, active, runs, message, failed, past>>

\* A tab shows rows as some answer of session_detail gave them, so a change may come from any
\* of them.
Remember == past' = [i \in Input |-> past[i] \cup {item'[i]}]

-----------------------------------------------------------------------------
(* Requests. *)

Answer(t, answer) ==
  /\ tab[t].answer = "none"
  /\ tab' = [tab EXCEPT ![t].answer = answer]
  /\ UNCHANGED <<active, runs, message, failed>>

NewRow(mode) ==
  [status |-> "pending", mode |-> mode, content |-> Original, version |-> 1,
   at |-> Cardinality(Created) + 1]

\* Mutant: a repeated creation revives an input that was cancelled.
InsertedRevive(i, mode) ==
  CASE item[i].status = "absent" /\ Cardinality(OpenInputs) < Limit -> NewRow(mode)
    [] item[i].status = "cancelled" ->
         [item[i] EXCEPT !.status = "pending", !.version = @ + 1]
    [] OTHER -> item[i]

\* The key decides whether the input exists, before the limit is looked at.
Inserted(i, mode) ==
  IF item[i].status = "absent" /\ Cardinality(OpenInputs) < Limit THEN NewRow(mode) ELSE item[i]

Create(t) ==
  LET i == tab[t].request.input IN
  /\ tab[t].request.kind = "create"
  /\ item' = [item EXCEPT ![i] = Inserted(i, tab[t].request.mode)]
  /\ Answer(t, IF item'[i].status = "absent" THEN "full" ELSE "ok")
  /\ Remember
  /\ UNCHANGED mutation

\* A copy of a creation that was sent again is served when the tab has had its answer.
CreateAgain(i, mode) ==
  /\ item[i].status # "absent"
  /\ item' = [item EXCEPT ![i] = Inserted(i, mode)]
  /\ Remember
  /\ UNCHANGED <<mutation, active, runs, message, failed, tab>>

Changed(row, t, change) ==
  [row EXCEPT
    !.status = IF change = "cancel" THEN "cancelled" ELSE "pending",
    !.content = IF change = "edit" THEN t ELSE @,
    !.mode = IF change = "mode" THEN (IF @ = "queue" THEN "steer" ELSE "queue") ELSE @,
    !.version = @ + 1]

Change(t) ==
  LET request == tab[t].request
      row == item[request.input]
  IN  /\ request.kind = "change"
      /\ \/ /\ request.key \in mutation
            /\ Answer(t, "ok")
            /\ UNCHANGED <<item, mutation>>
         \/ /\ request.key \notin mutation
            /\ row.version # request.version \/ row.status \notin {"pending", "failed"}
            /\ Answer(t, "conflict")
            /\ UNCHANGED <<item, mutation>>
         \/ /\ request.key \notin mutation
            /\ row.version = request.version
            /\ row.status \in {"pending", "failed"}
            /\ item' = [item EXCEPT ![request.input] = Changed(row, t, request.change)]
            /\ mutation' = mutation \cup {request.key}
            /\ Answer(t, "ok")
      /\ Remember

-----------------------------------------------------------------------------
(* Runs. *)

\* Mutant: the version is for changes by the user only.
AppliedSameVersion(rows, taken) ==
  [i \in Input |-> IF i \in taken THEN [rows[i] EXCEPT !.status = "applied"] ELSE rows[i]]

Applied(rows, taken) ==
  [i \in Input |-> IF i \in taken
                   THEN [rows[i] EXCEPT !.status = "applied", !.version = @ + 1]
                   ELSE rows[i]]

\* Mutant: the newest pending input comes first.
NextNewest(i) == i \in Pending /\ \A j \in Pending : item[j].at <= item[i].at

\* Mutant: a failed input keeps its place at the head.
NextHead(i) == i \in Pending /\ \A j \in OpenInputs : item[i].at <= item[j].at

\* pending(): by created_at, the first whose status is pending.
NextInput(i) == i \in Pending /\ \A j \in Pending : item[i].at <= item[j].at

\* dispatch: an idle session's next run and the input it comes from, in one transaction.
\* An input whose files cannot be attached fails; the pass goes on to the next session.
Dispatch ==
  /\ ~active
  /\ \E i \in Input :
       /\ NextInput(i)
       /\ \/ /\ item' = Applied(item, {i})
             /\ message' = Append(message, [input |-> i, content |-> item[i].content,
                                            steer |-> FALSE])
             /\ active' = TRUE
             /\ UNCHANGED failed
          \/ /\ item' = [item EXCEPT ![i].status = "failed", ![i].version = @ + 1]
             /\ failed' = failed \cup {i}
             /\ UNCHANGED <<message, active>>
  /\ Remember
  /\ UNCHANGED <<mutation, runs, tab>>

Steers == {i \in Pending : item[i].mode = "steer"}

\* consume: all steers, oldest first, become messages of the active run.
Consume ==
  /\ active
  /\ Steers # {}
  /\ item' = Applied(item, Steers)
  /\ \E order \in [1..Cardinality(Steers) -> Steers] :
       /\ \A m, n \in DOMAIN order : m < n => item[order[m]].at < item[order[n]].at
       /\ message' = message \o [n \in DOMAIN order |->
            [input |-> order[n], content |-> item[order[n]].content, steer |-> TRUE]]
  /\ Remember
  /\ UNCHANGED <<mutation, active, runs, failed, tab>>

\* The active run completes (then no steer is left), or fails or is cancelled.
RunEnds ==
  /\ active
  /\ active' = FALSE
  /\ UNCHANGED <<item, mutation, runs, message, failed, past, tab>>

\* create_run, regenerate and edit do not look at the queue.
UserRun ==
  /\ ~active
  /\ runs < MaxRuns
  /\ active' = TRUE
  /\ runs' = runs + 1
  /\ UNCHANGED <<item, mutation, message, failed, past, tab>>

-----------------------------------------------------------------------------
TabStep(t) ==
  \/ \E i \in Input, mode \in Mode : AskCreate(t, i, mode)
  \/ \E i \in Input, change \in {"edit", "mode", "cancel"} : AskChange(t, i, change)
  \/ Receive(t) \/ Create(t) \/ Change(t)

Next ==
  \/ \E t \in Tab : TabStep(t)
  \/ \E i \in Input, mode \in Mode : CreateAgain(i, mode)
  \/ Dispatch \/ Consume \/ RunEnds \/ UserRun

Spec == Init /\ [][Next]_vars

\* Every process reconciles on a timer.  Nothing makes a run end: its questions have no
\* timeout and its rounds no limit.
Fairness == WF_vars(Dispatch)

FairSpec == Spec /\ Fairness

-----------------------------------------------------------------------------
\* Every row is a row, every request one the tabs can make.
TypeOK ==
  /\ item \in [Input -> Row]
  /\ mutation \subseteq Tab \X Nat
  /\ active \in BOOLEAN
  /\ runs \in Nat
  /\ message \in Seq([input : Input, content : Text, steer : BOOLEAN])
  /\ failed \subseteq Input
  /\ past \in [Input -> SUBSET Row]
  /\ tab \in [Tab -> [request : Requests, answer : {"none", "ok", "full", "conflict"},
                      changes : Nat]]

Sent(i) == {n \in DOMAIN message : message[n].input = i}

\* What is sent is what an up-to-date tab shows: two rows of one version are the same, and
\* the row one version before the sent one, which the dispatcher read, has the text sent.
SentAsShown ==
  \A i \in Input : \A shown \in past[i] :
    /\ shown.version = item[i].version => shown = item[i]
    /\ (item[i].status = "applied" /\ shown.version = item[i].version - 1 /\ shown.version > 0)
         => /\ shown.status \in {"pending", "failed"}
            /\ \A n \in Sent(i) : message[n].content = shown.content

\* A younger input is sent as a run before an older one only if the older one had failed
\* when its turn came.
QueueOrder ==
  \A m, n \in DOMAIN message :
    LET younger == message[m].input
        older == message[n].input
    IN  (m < n /\ item[older].at < item[younger].at /\ ~message[m].steer)
          => older \in failed

\* A decided input stays decided.
DecisionsLast ==
  [][\A i \in Input : item[i].status \in {"applied", "cancelled"} => item'[i] = item[i]]_vars

\* The runs that are active end: the user answers or stops them.
ActiveRunsEnd == []<>~active

\* If the active runs end, an input that waits is sent, cancelled or reported as failed,
\* also when one before it cannot be sent.
PendingDecided ==
  ActiveRunsEnd => \A i \in Input : item[i].status = "pending" ~> item[i].status # "pending"
=============================================================================
