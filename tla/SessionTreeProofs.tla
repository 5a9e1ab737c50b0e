-------------------------- MODULE SessionTreeProofs --------------------------
(***************************************************************************)
(* Proofs about the message tree of a session, for every set of callers    *)
(* and keys and any number of messages.                                    *)
(*                                                                         *)
(* A branch stays in order because only one run is active and nothing is   *)
(* below the answer it writes, the one message that ever moves (TreeInv).  *)
(* A repeated request finds its run because a key is given to one run at   *)
(* most (KeyInv).                                                          *)
(*                                                                         *)
(* A context carries its branch because every checkpoint does, and the     *)
(* lineage is cut at checkpoints only (TextInv).  Branch and Lineage are   *)
(* recursive functions: that they compute anything is shown from the ages  *)
(* of the messages, as a least counterexample would have an older parent.  *)
(*                                                                         *)
(* The last section is about what becomes of such a context when it is     *)
(* compacted, module ContextWindow.                                        *)
(***************************************************************************)
EXTENDS SessionTree, ContextWindow, SequenceTheorems, FiniteSetTheorems, WellFoundedInduction, TLAPS

\* The columns of a row, whatever they hold.
IsMessage(m) ==
  m = [role |-> m.role, parent |-> m.parent, group |-> m.group, index |-> m.index,
       supersedes |-> m.supersedes, created |-> m.created, provider |-> m.provider]
IsRun(r) ==
  r = [user |-> r.user, assistant |-> r.assistant, request |-> r.request, key |-> r.key,
       context |-> r.context, status |-> r.status]
CallRow == [op: {"open", "create", "edit", "regenerate"}, target: Nat, key: Key \cup {"session"},
            parent: Nat, result: Int]

IsSequence(s) == Len(s) \in Nat /\ s = [i \in 1..Len(s) |-> s[i]]

TypeInv ==
  /\ IsSequence(msg) /\ \A m \in 1..Len(msg) : IsMessage(msg[m])
  /\ IsSequence(run) /\ \A r \in 1..Len(run) : IsRun(run[r])
  /\ call \in [Caller -> CallRow]
  /\ clock \in Nat

\* Everything points into the tree, and the answer of the one active run is a leaf of it.
TreeInv ==
  /\ \A m \in DOMAIN msg : msg[m].parent \in 0..Len(msg) /\ msg[m].created \in 0..clock
  /\ leaf \in 0..Len(msg)
  /\ \A c \in Caller : call[c].parent \in 0..Len(msg)
  /\ \A r \in DOMAIN run : run[r].assistant \in DOMAIN msg
  /\ \A r, s \in ActiveRuns : r = s
  /\ \A r \in ActiveRuns : Children(run[r].assistant) = {}

\* A key names one run, and a session with a run has messages.
KeyInv ==
  /\ \A r, s \in DOMAIN run : run[r].key = run[s].key /\ run[r].key # "none" => r = s
  /\ run # <<>> => msg # <<>>

Inv == TypeInv /\ TreeInv /\ KeyInv /\ BranchInOrder

-----------------------------------------------------------------------------
(* Lemmas about sequences whose elements are not typed. *)

\* A function on 1..n is a sequence of length n.
LEMMA FunctionSequence ==
  ASSUME NEW n \in Nat, NEW f, f = [i \in 1..n |-> f[i]]
  PROVE  IsSequence(f) /\ Len(f) = n /\ DOMAIN f = 1..n
<1> DEFINE S == {f[i] : i \in 1..n}
<1>1. f \in [1..n -> S]
  OBVIOUS
<1> HIDE DEF S
<1>2. f \in Seq(S)
  BY <1>1, SeqDef
<1>3. Len(f) \in Nat /\ DOMAIN f = 1..Len(f)
  BY <1>2, LenProperties
<1>4. 1..Len(f) = 1..n
  BY <1>1, <1>3
<1>5. Len(f) = n
  BY <1>3, <1>4
<1> QED BY <1>1, <1>5 DEF IsSequence

\* A sequence is a sequence of its elements.
LEMMA SequenceOf ==
  ASSUME NEW s, IsSequence(s), NEW S, \A i \in 1..Len(s) : s[i] \in S
  PROVE  s \in Seq(S) /\ DOMAIN s = 1..Len(s)
<1>1. s \in [1..Len(s) -> S] /\ Len(s) \in Nat
  BY DEF IsSequence
<1> QED BY <1>1, SeqDef DEF IsSequence

\* Two sequences joined.
LEMMA JoinedSequences ==
  ASSUME NEW s, NEW t, IsSequence(s), IsSequence(t)
  PROVE  /\ IsSequence(s \o t) /\ Len(s \o t) = Len(s) + Len(t)
         /\ DOMAIN (s \o t) = 1..(Len(s) + Len(t))
         /\ \A i \in 1..Len(s) : (s \o t)[i] = s[i]
         /\ \A i \in 1..Len(t) : (s \o t)[Len(s) + i] = t[i]
<1> DEFINE S == {s[i] : i \in 1..Len(s)} \cup {t[i] : i \in 1..Len(t)}
<1>1. (\A i \in 1..Len(s) : s[i] \in S) /\ (\A i \in 1..Len(t) : t[i] \in S)
  OBVIOUS
<1> HIDE DEF S
<1>2. s \in Seq(S) /\ t \in Seq(S) /\ Len(s) \in Nat /\ Len(t) \in Nat
  BY <1>1, SequenceOf DEF IsSequence
<1>3. /\ s \o t \in Seq(S) /\ Len(s \o t) = Len(s) + Len(t)
      /\ \A i \in 1..(Len(s) + Len(t)) :
           (s \o t)[i] = IF i <= Len(s) THEN s[i] ELSE t[i - Len(s)]
  BY <1>2, ConcatProperties
<1>4. s \o t \in [1..(Len(s) + Len(t)) -> S]
  BY <1>3, LenProperties
<1>5. IsSequence(s \o t) /\ DOMAIN (s \o t) = 1..(Len(s) + Len(t))
  <2> DEFINE u == s \o t
             n == Len(s) + Len(t)
  <2>1. n \in Nat /\ Len(u) = n /\ u \in [1..n -> S]
    BY <1>2, <1>3, <1>4
  <2> HIDE DEF u, n
  <2>2. u = [i \in 1..n |-> u[i]] /\ DOMAIN u = 1..n
    BY <2>1
  <2>3. IsSequence(u)
    BY <2>1, <2>2 DEF IsSequence
  <2> QED BY <2>2, <2>3 DEF u, n
<1>6. \A i \in 1..Len(t) : Len(s) + i \in 1..(Len(s) + Len(t)) /\ ~(Len(s) + i <= Len(s))
                           /\ (Len(s) + i) - Len(s) = i
  BY <1>2
<1>7. \A i \in 1..Len(s) : i \in 1..(Len(s) + Len(t)) /\ i <= Len(s)
  BY <1>2
<1> QED BY <1>3, <1>5, <1>6, <1>7

\* A sequence with one more element.
LEMMA LongerSequence ==
  ASSUME NEW s, IsSequence(s), NEW e
  PROVE  LET t == Append(s, e)
         IN  /\ IsSequence(t) /\ Len(t) = Len(s) + 1 /\ DOMAIN t = 1..(Len(s) + 1)
             /\ \A i \in 1..Len(s) : t[i] = s[i]
             /\ t[Len(s) + 1] = e
<1> DEFINE S == {s[i] : i \in 1..Len(s)} \cup {e}
<1>1. (\A i \in 1..Len(s) : s[i] \in S) /\ e \in S
  OBVIOUS
<1> HIDE DEF S
<1>2. s \in Seq(S) /\ Len(s) \in Nat
  BY <1>1, SequenceOf DEF IsSequence
<1>3. /\ Append(s, e) \in Seq(S) /\ Len(Append(s, e)) = Len(s) + 1
      /\ \A i \in 1..Len(s) : Append(s, e)[i] = s[i]
      /\ Append(s, e)[Len(s) + 1] = e
  BY <1>1, <1>2, AppendProperties
<1>4. Append(s, e) \in [1..(Len(s) + 1) -> S]
  BY <1>3, LenProperties
<1>5. IsSequence(Append(s, e)) /\ DOMAIN Append(s, e) = 1..(Len(s) + 1)
  <2> DEFINE u == Append(s, e)
             n == Len(s) + 1
  <2>1. n \in Nat /\ Len(u) = n /\ u \in [1..n -> S]
    BY <1>2, <1>3, <1>4
  <2> HIDE DEF u, n
  <2>2. u = [i \in 1..n |-> u[i]] /\ DOMAIN u = 1..n
    BY <2>1
  <2>3. IsSequence(u)
    BY <2>1, <2>2 DEF IsSequence
  <2> QED BY <2>2, <2>3 DEF u, n
<1> QED BY <1>3, <1>5

\* A sequence with one element replaced.
LEMMA ReplacedElement ==
  ASSUME NEW s, IsSequence(s), NEW k \in 1..Len(s), NEW e
  PROVE  LET t == [s EXCEPT ![k] = e]
         IN  /\ IsSequence(t) /\ Len(t) = Len(s) /\ DOMAIN t = 1..Len(s)
             /\ t[k] = e
             /\ \A i \in 1..Len(s) : i # k => t[i] = s[i]
<1> DEFINE t == [s EXCEPT ![k] = e]
<1>1. Len(s) \in Nat /\ s = [i \in 1..Len(s) |-> s[i]]
  BY DEF IsSequence
<1>2. t = [i \in 1..Len(s) |-> t[i]] /\ t[k] = e /\ \A i \in 1..Len(s) : i # k => t[i] = s[i]
  BY <1>1
<1> HIDE DEF t
<1>3. IsSequence(t) /\ Len(t) = Len(s) /\ DOMAIN t = 1..Len(s)
  BY <1>1, <1>2, FunctionSequence
<1> QED BY <1>2, <1>3 DEF t

-----------------------------------------------------------------------------
(* Rows. *)

\* A new row holds what it was made of.
LEMMA NewMessage ==
  ASSUME NEW role, NEW parent, NEW group, NEW index, NEW supersedes, NEW created
  PROVE  LET m == New(role, parent, group, index, supersedes, created)
         IN  /\ IsMessage(m) /\ m.parent = parent /\ m.created = created
             /\ m.role = role /\ m.provider = <<>>
BY DEF New, IsMessage

\* A new run is pending.
LEMMA NewRunRow ==
  ASSUME NEW user, NEW assistant, NEW request, NEW key
  PROVE  LET r == NewRun(user, assistant, request, key)
         IN  /\ IsRun(r) /\ r.assistant = assistant /\ r.key = key
             /\ r.request = request /\ r.status = "pending"
             /\ r.user = user /\ r.context = <<>>
BY DEF NewRun, IsRun

\* An answer's checkpoint is written into its row and nothing else.
LEMMA CheckpointedMessage ==
  ASSUME NEW m, IsMessage(m), NEW context
  PROVE  LET n == [m EXCEPT !.provider = context]
         IN  /\ IsMessage(n) /\ n.parent = m.parent /\ n.created = m.created
             /\ n.role = m.role /\ n.provider = context
BY DEF IsMessage

\* A run's status changes and neither its answer, its key nor its request.
LEMMA RunWithStatus ==
  ASSUME NEW r, IsRun(r), NEW status
  PROVE  LET n == [r EXCEPT !.status = status]
         IN  /\ IsRun(n) /\ n.assistant = r.assistant /\ n.key = r.key
             /\ n.request = r.request /\ n.status = status /\ n.context = r.context
BY DEF IsRun

\* The same for its context.
LEMMA RunWithContext ==
  ASSUME NEW r, IsRun(r), NEW context
  PROVE  LET n == [r EXCEPT !.context = context]
         IN  /\ IsRun(n) /\ n.assistant = r.assistant /\ n.key = r.key
             /\ n.request = r.request /\ n.status = r.status /\ n.context = context
BY DEF IsRun

-----------------------------------------------------------------------------
(* The shapes of a step. *)

\* The domains of the tables.
LEMMA Domains ==
  ASSUME TypeInv
  PROVE  /\ Len(msg) \in Nat /\ DOMAIN msg = 1..Len(msg)
         /\ Len(run) \in Nat /\ DOMAIN run = 1..Len(run)
BY DEF TypeInv, IsSequence

\* A step that adds no message, moves none and starts no run.
LEMMA ProgressStep ==
  ASSUME Inv,
         IsSequence(msg'), Len(msg') = Len(msg),
         \A m \in 1..Len(msg) : /\ IsMessage(msg'[m]) /\ msg'[m].parent = msg[m].parent
                                /\ msg'[m].created = msg[m].created,
         IsSequence(run'), Len(run') = Len(run),
         \A r \in 1..Len(run) : /\ IsRun(run'[r]) /\ run'[r].assistant = run[r].assistant
                                /\ run'[r].key = run[r].key
                                /\ run[r].status = "ended" => run'[r].status = "ended",
         call' \in [Caller -> CallRow], \A c \in Caller : call'[c].parent \in 0..Len(msg),
         leaf' \in 0..Len(msg), clock' = clock
  PROVE  Inv'
<1>1. /\ Len(msg) \in Nat /\ DOMAIN msg = 1..Len(msg) /\ DOMAIN msg' = 1..Len(msg)
      /\ Len(run) \in Nat /\ DOMAIN run = 1..Len(run) /\ DOMAIN run' = 1..Len(run)
  BY Domains DEF Inv, IsSequence
<1>2. /\ \A m \in 1..Len(msg) : /\ msg[m].parent \in 0..Len(msg)
                                /\ msg[m].created \in 0..clock
      /\ clock \in Nat /\ \A r \in 1..Len(run) : run[r].assistant \in 1..Len(msg)
  BY <1>1 DEF Inv, TypeInv, TreeInv
<1>3. TypeInv'
  <2>1. \A m \in 1..Len(msg') : IsMessage(msg'[m])
    OBVIOUS
  <2>2. \A r \in 1..Len(run') : IsRun(run'[r])
    OBVIOUS
  <2>3. clock' \in Nat
    BY <1>2
  <2> QED BY <2>1, <2>2, <2>3 DEF TypeInv
<1>4. ActiveRuns' \subseteq ActiveRuns
  <2> SUFFICES ASSUME NEW r \in 1..Len(run), run'[r].status # "ended"
               PROVE  run[r].status # "ended"
    BY <1>1 DEF ActiveRuns
  <2> QED OBVIOUS
<1>5. TreeInv'
  <2>1. \A m \in DOMAIN msg' : msg'[m].parent \in 0..Len(msg') /\ msg'[m].created \in 0..clock'
    BY <1>1, <1>2
  <2>2. \A r \in DOMAIN run' : run'[r].assistant \in DOMAIN msg'
    BY <1>1, <1>2
  <2>3. \A r, s \in ActiveRuns' : r = s
    BY <1>4 DEF Inv, TreeInv
  <2>4. ASSUME NEW r \in ActiveRuns' PROVE (Children(run[r].assistant))' = {}
    <3>1. r \in ActiveRuns /\ r \in 1..Len(run)
      BY <1>1, <1>4 DEF ActiveRuns
    <3>2. run'[r].assistant = run[r].assistant
      BY <3>1
    <3>3. Children(run[r].assistant) = {}
      BY <3>1 DEF Inv, TreeInv
    <3>4. \A m \in 1..Len(msg) : msg[m].parent # run[r].assistant
      BY <1>1, <3>3 DEF Children
    <3>5. \A m \in 1..Len(msg) : msg'[m].parent # run'[r].assistant
      BY <3>2, <3>4
    <3> QED BY <1>1, <3>5 DEF Children
  <2> QED BY <2>1, <2>2, <2>3, <2>4 DEF TreeInv
<1>6. KeyInv'
  <2>1. run' # <<>> => run # <<>>
    BY <1>1
  <2>2. msg # <<>> => msg' # <<>>
    BY <1>1
  <2>3. \A r, s \in 1..Len(run) : run'[r].key = run'[s].key /\ run'[r].key # "none" => r = s
    BY <1>1 DEF Inv, KeyInv
  <2> QED BY <1>1, <2>1, <2>2, <2>3 DEF Inv, KeyInv
<1>7. BranchInOrder'
  <2> SUFFICES ASSUME NEW m \in 1..Len(msg), msg'[m].parent # NoMessage
               PROVE  msg'[msg'[m].parent].created < msg'[m].created
    BY <1>1 DEF BranchInOrder
  <2>1. msg'[m].parent = msg[m].parent /\ msg[m].parent \in 1..Len(msg)
    BY <1>1, <1>2 DEF NoMessage
  <2>2. msg[msg[m].parent].created < msg[m].created
    BY <1>1, <2>1 DEF Inv, BranchInOrder
  <2> QED BY <2>1, <2>2
<1> QED BY <1>3, <1>5, <1>6, <1>7 DEF Inv

\* New messages, each below the one before, the first below p.
Chain(new, p) ==
  /\ IsSequence(new)
  /\ \A i \in 1..Len(new) : /\ IsMessage(new[i]) /\ new[i].created = clock + i
                            /\ new[i].parent = IF i = 1 THEN p ELSE Len(msg) + i - 1
                            /\ new[i].provider = <<>>

\* What a run starts with: such a chain, the last of which answers the user's message.
Begun(new, p, user) ==
  /\ Chain(new, p) /\ Len(new) >= 1
  /\ new[Len(new)].role = "assistant" /\ new[Len(new)].parent = user

\* The tree after a chain was added to rows that may have changed.
Grown(old, new, p) ==
  /\ IsSequence(msg') /\ Len(new) \in Nat /\ Len(msg') = Len(msg) + Len(new)
  /\ DOMAIN msg' = 1..Len(msg')
  /\ \A m \in 1..Len(msg') : IsMessage(msg'[m])
  /\ \A m \in 1..Len(msg) : msg'[m] = old[m]
  /\ \A m \in (Len(msg) + 1)..Len(msg') :
       /\ msg'[m].created = clock + (m - Len(msg))
       /\ msg'[m].parent = IF m = Len(msg) + 1 THEN p ELSE m - 1
  /\ \A i \in 1..Len(new) : msg'[Len(msg) + i] = new[i]

\* A tree grows by joining the chain to its rows.
LEMMA GrownTree ==
  ASSUME Inv, NEW old, IsSequence(old), Len(old) = Len(msg),
         \A m \in 1..Len(msg) : IsMessage(old[m]),
         NEW new, NEW p, Chain(new, p), msg' = old \o new
  PROVE  Grown(old, new, p)
<1>1. IsSequence(new) /\ Len(new) \in Nat /\ Len(msg) \in Nat
  <2>1. IsSequence(new)
    BY DEF Chain
  <2>2. TypeInv
    BY DEF Inv
  <2> HIDE DEF Inv, Chain, TypeInv
  <2>3. Len(msg) \in Nat
    BY <2>2, Domains
  <2> QED BY <2>1, <2>3 DEF IsSequence
<1>2. /\ IsSequence(old \o new) /\ Len(old \o new) = Len(msg) + Len(new)
      /\ DOMAIN (old \o new) = 1..(Len(msg) + Len(new))
      /\ \A i \in 1..Len(msg) : (old \o new)[i] = old[i]
      /\ \A i \in 1..Len(new) : (old \o new)[Len(msg) + i] = new[i]
  <2> HIDE DEF Inv, Chain
  <2>1. /\ IsSequence(old \o new) /\ Len(old \o new) = Len(old) + Len(new)
        /\ DOMAIN (old \o new) = 1..(Len(old) + Len(new))
        /\ \A i \in 1..Len(old) : (old \o new)[i] = old[i]
        /\ \A i \in 1..Len(new) : (old \o new)[Len(old) + i] = new[i]
    BY <1>1, JoinedSequences
  <2> QED BY <2>1
<1>3. ASSUME NEW m \in (Len(msg) + 1)..Len(msg')
      PROVE  /\ IsMessage(msg'[m]) /\ msg'[m].created = clock + (m - Len(msg))
             /\ msg'[m].parent = IF m = Len(msg) + 1 THEN p ELSE m - 1
  <2> DEFINE i == m - Len(msg)
  <2>1. i \in 1..Len(new) /\ m = Len(msg) + i /\ (i = 1 <=> m = Len(msg) + 1)
        /\ Len(msg) + i - 1 = m - 1
    BY <1>1, <1>2, <1>3
  <2> HIDE DEF i
  <2>2. msg'[m] = new[i]
    BY <1>2, <2>1
  <2>3. /\ IsMessage(new[i]) /\ new[i].created = clock + i
        /\ new[i].parent = IF i = 1 THEN p ELSE Len(msg) + i - 1
    BY <2>1 DEF Chain
  <2>4. IsMessage(msg'[m]) /\ msg'[m].created = clock + i
    BY <2>2, <2>3
  <2>5. msg'[m].parent = IF m = Len(msg) + 1 THEN p ELSE m - 1
    BY <2>1, <2>2, <2>3
  <2> QED BY <2>4, <2>5 DEF i
<1>4. \A m \in 1..Len(msg) : msg'[m] = old[m] /\ IsMessage(msg'[m])
  BY <1>2
<1>5. /\ IsSequence(msg') /\ Len(msg') = Len(msg) + Len(new) /\ DOMAIN msg' = 1..Len(msg')
  BY <1>2
<1>6. \A m \in 1..Len(msg') : m \in 1..Len(msg) \/ m \in (Len(msg) + 1)..Len(msg')
  BY <1>1, <1>5
<1>7. \A i \in 1..Len(new) : msg'[Len(msg) + i] = new[i]
  BY <1>2
<1> QED BY <1>1, <1>3, <1>4, <1>5, <1>6, <1>7 DEF Grown

\* A run starts, under a key that is new or "none".
StartsRun ==
  \E new, user, request, key : \E p \in 0..Len(msg) :
    /\ Begun(new, p, user) /\ Start(new, user, request, key)
    /\ key = "none" \/ Replayed(key) = {}

\* A run starts: its messages go below one of the tree, its answer is the last.
LEMMA StartStep ==
  ASSUME Inv, ActiveRuns = {}, StartsRun,
         call' \in [Caller -> CallRow], \A c \in Caller : call'[c].parent = call[c].parent
  PROVE  Inv'
<1> PICK new, user, request, key :
      \E p \in 0..Len(msg) :
        /\ Begun(new, p, user) /\ Start(new, user, request, key)
        /\ key = "none" \/ Replayed(key) = {}
  BY DEF StartsRun
<1> PICK p \in 0..Len(msg) :
      /\ Begun(new, p, user) /\ Start(new, user, request, key)
      /\ key = "none" \/ Replayed(key) = {}
  OBVIOUS
<1> Chain(new, p) /\ Len(new) >= 1
  BY DEF Begun
<1> DEFINE size == Len(msg)
           answer == Len(msg) + Len(new)
           r == Len(run) + 1
<1>0. /\ size \in Nat /\ DOMAIN msg = 1..size /\ clock \in Nat
      /\ Len(run) \in Nat /\ DOMAIN run = 1..Len(run)
      /\ IsSequence(msg) /\ IsSequence(run)
      /\ \A m \in 1..size : IsMessage(msg[m]) /\ msg[m].parent \in 0..size /\ msg[m].created \in 0..clock
  BY Domains DEF Inv, TypeInv, TreeInv
<1>1. /\ msg' = msg \o new /\ clock' = clock + Len(new) /\ leaf' = answer
      /\ run' = Append(run, NewRun(user, answer, request, key))
  BY DEF Start
<1>2. /\ IsSequence(msg') /\ Len(new) \in Nat /\ Len(msg') = answer
      /\ DOMAIN msg' = 1..Len(msg')
      /\ \A m \in 1..Len(msg') : IsMessage(msg'[m])
      /\ \A m \in 1..size : msg'[m] = msg[m]
      /\ \A m \in (size + 1)..Len(msg') :
           /\ msg'[m].created = clock + (m - size)
           /\ msg'[m].parent = IF m = size + 1 THEN p ELSE m - 1
  <2>1. Grown(msg, new, p)
    <3> HIDE DEF Chain, Inv, Grown
    <3> QED BY <1>0, <1>1, GrownTree
  <2> QED BY <2>1 DEF Grown
<1>3. /\ IsSequence(run') /\ Len(run') = r /\ DOMAIN run' = 1..r
      /\ \A s \in 1..Len(run) : run'[s] = run[s]
      /\ run'[r] = NewRun(user, answer, request, key)
  BY <1>0, <1>1, LongerSequence
<1>4. /\ IsRun(run'[r]) /\ run'[r].assistant = answer /\ run'[r].key = key
      /\ run'[r].status = "pending"
  BY <1>3, NewRunRow
<1> HIDE DEF size, answer, r
<1>5. /\ answer = size + Len(new) /\ answer \in Nat /\ answer > size /\ r = Len(run) + 1
      /\ size = Len(msg)
  BY <1>0, <1>2 DEF size, answer, r
<1>6. \A s \in 1..r : s \in 1..Len(run) \/ s = r
  BY <1>0, <1>5
<1>7. \A m \in 1..answer : m \in 1..size \/ m \in (size + 1)..answer
  BY <1>0, <1>5
<1>8. TypeInv'
  <2>1. \A s \in 1..Len(run') : IsRun(run'[s])
    BY <1>0, <1>3, <1>4, <1>6 DEF Inv, TypeInv
  <2>2. clock' \in Nat
    BY <1>0, <1>1, <1>2
  <2> QED BY <1>2, <1>3, <2>1, <2>2 DEF TypeInv
<1>9. \A m \in 1..answer : msg'[m].parent \in 0..answer /\ msg'[m].parent # answer
                         /\ msg'[m].created \in 0..clock'
  <2>1. ASSUME NEW m \in 1..size
        PROVE  msg'[m].parent \in 0..answer /\ msg'[m].parent # answer /\ msg'[m].created \in 0..clock'
    <3>1. msg'[m] = msg[m]
      BY <1>2
    <3>2. msg[m].parent \in 0..size /\ msg[m].created \in 0..clock
      BY <1>0
    <3>3. clock \in Nat /\ clock' \in Nat /\ clock <= clock' /\ size \in Nat
      BY <1>0, <1>1, <1>2
    <3>4. msg[m].parent \in 0..answer /\ msg[m].parent # answer
      BY <1>5, <3>2, <3>3
    <3>5. msg[m].created \in 0..clock'
      BY <3>2, <3>3
    <3> QED BY <3>1, <3>4, <3>5
  <2>2. ASSUME NEW m \in (size + 1)..answer
        PROVE  msg'[m].parent \in 0..answer /\ msg'[m].parent # answer /\ msg'[m].created \in 0..clock'
    <3>1. msg'[m].created = clock + (m - size) /\ clock' = clock + Len(new)
      BY <1>1, <1>2, <1>5
    <3>2. msg'[m].created \in 0..clock'
      BY <1>0, <1>2, <1>5, <3>1
    <3>3. p \in 0..size
      BY <1>5
    <3>4. msg'[m].parent = p \/ msg'[m].parent = m - 1
      BY <1>2, <1>5
    <3> QED BY <1>0, <1>5, <3>2, <3>3, <3>4
  <2> QED BY <1>7, <2>1, <2>2
<1>10. ActiveRuns' = {r}
  BY <1>0, <1>3, <1>4, <1>5, <1>6 DEF ActiveRuns
<1>11. TreeInv'
  <2>1. \A c \in Caller : call'[c].parent \in 0..Len(msg')
    BY <1>0, <1>2, <1>5 DEF Inv, TreeInv
  <2>2. \A s \in DOMAIN run' : run'[s].assistant \in DOMAIN msg'
    <3>1. \A s \in 1..Len(run) : run'[s] = run[s] /\ run[s].assistant \in 1..size
      BY <1>0, <1>3 DEF Inv, TreeInv
    <3>2. answer \in 1..answer /\ \A m \in 1..size : m \in 1..answer
      BY <1>0, <1>5
    <3>3. \A s \in 1..r : run'[s].assistant \in 1..answer
      BY <1>4, <1>6, <3>1, <3>2
    <3> QED BY <1>2, <1>3, <3>3
  <2>3. ASSUME NEW s \in ActiveRuns' PROVE (Children(run[s].assistant))' = {}
    <3>1. run'[s].assistant = answer
      BY <1>4, <1>10
    <3>2. \A m \in DOMAIN msg' : msg'[m].parent # run'[s].assistant
      BY <1>2, <1>9, <1>5, <3>1
    <3> QED BY <3>2 DEF Children
  <2>4. leaf' \in 0..Len(msg')
    BY <1>1, <1>2, <1>5
  <2> QED BY <1>2, <1>9, <1>10, <2>1, <2>2, <2>3, <2>4 DEF TreeInv
<1>12. KeyInv'
  <2>1. \A s \in 1..Len(run) : key = "none" \/ run[s].key # key
    BY <1>0 DEF Replayed
  <2>2. msg' # <<>>
    BY <1>2, <1>5
  <2>3. \A s \in 1..Len(run), t \in 1..Len(run) :
          run[s].key = run[t].key /\ run[s].key # "none" => s = t
    BY <1>0 DEF Inv, KeyInv
  <2> QED BY <1>3, <1>4, <1>6, <2>1, <2>2, <2>3 DEF KeyInv
<1>13. BranchInOrder'
  <2>1. ASSUME NEW m \in 1..size, msg'[m].parent # NoMessage
        PROVE  msg'[msg'[m].parent].created < msg'[m].created
    <3>1. msg'[m] = msg[m] /\ msg[m].parent \in 1..size
      BY <1>0, <1>2, <2>1 DEF NoMessage
    <3>2. msg'[msg[m].parent] = msg[msg[m].parent]
      BY <1>2, <3>1
    <3> QED BY <1>0, <2>1, <3>1, <3>2 DEF Inv, BranchInOrder
  <2>2. ASSUME NEW m \in (size + 1)..answer, msg'[m].parent # NoMessage
        PROVE  msg'[msg'[m].parent].created < msg'[m].created
    <3>1. CASE m = size + 1
      <4>1. msg'[m].parent = p /\ p \in 1..size /\ msg'[m].created = clock + 1
        BY <1>0, <1>2, <1>5, <2>2, <3>1 DEF NoMessage
      <4>2. msg'[p].created \in 0..clock
        BY <1>0, <1>2, <4>1
      <4> QED BY <1>0, <4>1, <4>2
    <3>2. CASE m # size + 1
      <4>1. m - 1 \in (size + 1)..answer /\ msg'[m].parent = m - 1
        BY <1>0, <1>2, <1>5, <3>2
      <4>2. msg'[m - 1].created = clock + ((m - 1) - size) /\ msg'[m].created = clock + (m - size)
        BY <1>2, <1>5, <4>1
      <4> QED BY <1>0, <4>1, <4>2
    <3> QED BY <3>1, <3>2
  <2> QED BY <1>2, <1>7, <2>1, <2>2 DEF BranchInOrder
<1> QED BY <1>8, <1>11, <1>12, <1>13 DEF Inv

\* The tables after n steering messages went between p and the answer of run r.
Steered(r, n, p) ==
  LET a == run[r].assistant
  IN  /\ IsSequence(msg') /\ Len(msg') = Len(msg) + n /\ DOMAIN msg' = 1..(Len(msg) + n)
      /\ \A m \in 1..(Len(msg) + n) : IsMessage(msg'[m])
      /\ \A m \in 1..Len(msg) : m # a => msg'[m] = msg[m]
      /\ msg'[a].parent = Len(msg) + n /\ msg'[a].created = Now + n
      /\ msg'[a].role = msg[a].role /\ msg'[a].provider = msg[a].provider
      /\ \A m \in (Len(msg) + 1)..(Len(msg) + n) :
           /\ msg'[m].created = clock + (m - Len(msg))
           /\ msg'[m].parent = IF m = Len(msg) + 1 THEN p ELSE m - 1
           /\ msg'[m].provider = <<>>
      /\ IsSequence(run') /\ Len(run') = Len(run) /\ DOMAIN run' = 1..Len(run)
      /\ \A s \in 1..Len(run) : s # r => run'[s] = run[s]
      /\ IsRun(run'[r]) /\ run'[r].assistant = a /\ run'[r].key = run[r].key
      /\ run'[r].status = run[r].status
      /\ run'[r].context = run[r].context \o [i \in 1..n |-> Len(msg) + i]

\* Steering puts a chain above the answer that is being written.
LEMMA ConsumeTables ==
  ASSUME Inv, NEW r \in DOMAIN run, NEW n \in 1..2, Consume(r, n)
  PROVE  Steered(r, n, msg[run[r].assistant].parent)
<1> DEFINE size == Len(msg)
           a == run[r].assistant
           p == msg[a].parent
           steers == [i \in 1..n |->
                       Fresh("user", IF i = 1 THEN p ELSE size + 1 + i - 2,
                             size + 1 + i - 1, Now + i - 1)]
           moved == [msg[a] EXCEPT !.parent = size + n, !.created = Now + n]
           old == [msg EXCEPT ![a] = moved]
           context == run[r].context \o [i \in 1..n |-> size + i]
           next == [run[r] EXCEPT !.context = context]
<1>0. /\ size \in Nat /\ DOMAIN msg = 1..size /\ clock \in Nat /\ Now = clock + 1
      /\ Len(run) \in Nat /\ DOMAIN run = 1..Len(run) /\ r \in 1..Len(run)
      /\ IsSequence(msg) /\ IsSequence(run)
      /\ \A m \in 1..size : IsMessage(msg[m]) /\ msg[m].parent \in 0..size /\ msg[m].created \in 0..clock
      /\ \A s \in 1..Len(run) : IsRun(run[s]) /\ run[s].assistant \in 1..size
      /\ a \in 1..size /\ p \in 0..size
  BY Domains DEF Inv, TypeInv, TreeInv, Now
<1>1. /\ run[r].status = "running"
      /\ msg' = old \o steers
      /\ run' = [run EXCEPT ![r] = next]
      /\ clock' = Now + n /\ UNCHANGED <<leaf, call, gone>>
  BY DEF Consume
<1>2. /\ IsMessage(moved) /\ moved.parent = size + n /\ moved.created = Now + n
      /\ moved.role = msg[a].role /\ moved.provider = msg[a].provider
  <2> DEFINE m == msg[a]
             below == size + n
             t == Now + n
             x == [m EXCEPT !.parent = below]
             y == [x EXCEPT !.created = t]
  <2>1. IsMessage(m) /\ moved = y
    BY <1>0
  <2> HIDE DEF m, below, t, moved
  <2>2. x = [role |-> m.role, parent |-> below, group |-> m.group, index |-> m.index,
             supersedes |-> m.supersedes, created |-> m.created, provider |-> m.provider]
    BY <2>1 DEF IsMessage
  <2> HIDE DEF x
  <2>3. y = [role |-> m.role, parent |-> below, group |-> m.group, index |-> m.index,
             supersedes |-> m.supersedes, created |-> t, provider |-> m.provider]
    BY <2>2
  <2> HIDE DEF y
  <2>4. /\ IsMessage(y) /\ y.parent = below /\ y.created = t
        /\ y.role = m.role /\ y.provider = m.provider
    BY <2>3 DEF IsMessage
  <2> QED BY <2>1, <2>4 DEF below, t, m
<1> HIDE DEF moved
<1>3. /\ IsSequence(old) /\ Len(old) = size /\ old[a] = moved
      /\ \A m \in 1..size : m # a => old[m] = msg[m]
  BY <1>0, ReplacedElement
<1>4. \A m \in 1..size : IsMessage(old[m])
  <2>1. \A m \in 1..size : IsMessage(msg[m])
    BY <1>0
  <2> HIDE DEF IsMessage, old, size, a
  <2> QED BY <1>2, <1>3, <2>1
<1> HIDE DEF old
<1>5. Chain(steers, p) /\ Len(steers) = n
  <2>1. n \in Nat /\ steers = [i \in 1..n |-> steers[i]]
    OBVIOUS
  <2>2. IsSequence(steers) /\ Len(steers) = n
    <3> HIDE DEF steers
    <3> QED BY <2>1, FunctionSequence
  <2>3. ASSUME NEW i \in 1..n
        PROVE  /\ IsMessage(steers[i]) /\ steers[i].created = clock + i
               /\ steers[i].parent = IF i = 1 THEN p ELSE size + i - 1
               /\ steers[i].provider = <<>> /\ steers[i].role = "user"
    <3> DEFINE q == IF i = 1 THEN p ELSE size + 1 + i - 2
               g == size + 1 + i - 1
               t == Now + i - 1
    <3>1. steers[i] = New("user", q, g, 1, NoMessage, t)
      BY DEF Fresh
    <3>2. q = (IF i = 1 THEN p ELSE size + i - 1) /\ t = clock + i
      BY <1>0
    <3> HIDE DEF q, g, t, steers
    <3>3. /\ IsMessage(steers[i]) /\ steers[i].parent = q /\ steers[i].created = t
          /\ steers[i].provider = <<>> /\ steers[i].role = "user"
      BY <3>1, NewMessage
    <3> QED BY <3>2, <3>3
  <2> HIDE DEF steers
  <2> QED BY <2>2, <2>3 DEF Chain
<1> HIDE DEF steers
<1>6. Grown(old, steers, p)
  <2> HIDE DEF Chain, Inv, Grown
  <2> QED BY <1>1, <1>3, <1>4, <1>5, GrownTree
<1>7. /\ IsSequence(msg') /\ Len(msg') = size + n /\ DOMAIN msg' = 1..(size + n)
      /\ \A m \in 1..(size + n) : IsMessage(msg'[m])
      /\ \A m \in 1..size : msg'[m] = old[m]
      /\ \A m \in (size + 1)..(size + n) :
            /\ msg'[m].created = clock + (m - size)
            /\ msg'[m].parent = IF m = size + 1 THEN p ELSE m - 1
      /\ \A i \in 1..n : msg'[size + i] = steers[i]
  BY <1>5, <1>6 DEF Grown
<1>8. /\ IsRun(next) /\ next.assistant = a /\ next.key = run[r].key
      /\ next.status = run[r].status /\ next.context = context
  <2>1. IsRun(run[r])
    BY <1>0
  <2> HIDE DEF context, Inv, Consume
  <2> QED BY <2>1, RunWithContext
<1> HIDE DEF next
<1>9. /\ IsSequence(run') /\ Len(run') = Len(run) /\ DOMAIN run' = 1..Len(run)
      /\ run'[r] = next /\ \A s \in 1..Len(run) : s # r => run'[s] = run[s]
  BY <1>0, <1>1, ReplacedElement
<1>10. ASSUME NEW m \in (size + 1)..(size + n) PROVE msg'[m].provider = <<>>
  <2>1. m - size \in 1..n /\ size + (m - size) = m
    BY <1>0
  <2>2. msg'[m] = steers[m - size] /\ steers[m - size].provider = <<>>
    BY <1>5, <1>7, <2>1 DEF Chain
  <2> QED BY <2>2
<1>11. /\ \A m \in 1..size : m # a => msg'[m] = msg[m]
       /\ msg'[a] = moved
  BY <1>0, <1>3, <1>7
<1> HIDE DEF size, a, p, context
<1>12. /\ msg'[a].parent = size + n /\ msg'[a].created = Now + n
       /\ msg'[a].role = msg[a].role /\ msg'[a].provider = msg[a].provider
  BY <1>2, <1>11
<1>13. /\ IsRun(run'[r]) /\ run'[r].assistant = a /\ run'[r].key = run[r].key
       /\ run'[r].status = run[r].status /\ run'[r].context = context
  BY <1>8, <1>9
<1> QED BY <1>7, <1>9, <1>10, <1>11, <1>12, <1>13 DEF Steered, size, a, p, context

\* The answer stays below what it answers and a leaf of the tree.
LEMMA ConsumeStep ==
  ASSUME Inv, NEW r \in DOMAIN run, NEW n \in 1..2, Consume(r, n)
  PROVE  Inv'
<1> DEFINE size == Len(msg)
           a == run[r].assistant
           p == msg[a].parent
<1>0. /\ size \in Nat /\ DOMAIN msg = 1..size /\ clock \in Nat /\ Now = clock + 1
      /\ Len(run) \in Nat /\ DOMAIN run = 1..Len(run) /\ r \in 1..Len(run)
      /\ \A m \in 1..size : msg[m].parent \in 0..size /\ msg[m].created \in 0..clock
      /\ \A s \in 1..Len(run) : IsRun(run[s]) /\ run[s].assistant \in 1..size
      /\ a \in 1..size /\ p \in 0..size
  BY Domains DEF Inv, TypeInv, TreeInv, Now
<1>1. run[r].status = "running" /\ clock' = Now + n /\ UNCHANGED <<leaf, call, gone>>
  BY DEF Consume
<1>2. r \in ActiveRuns /\ \A s \in ActiveRuns : s = r
  BY <1>0, <1>1 DEF ActiveRuns, Inv, TreeInv
<1>3. \A m \in 1..size : msg[m].parent # a
  BY <1>0, <1>2 DEF Inv, TreeInv, Children
<1>4. p # a
  BY <1>0, <1>3
<1>5. /\ IsSequence(msg') /\ Len(msg') = size + n /\ DOMAIN msg' = 1..(size + n)
      /\ \A m \in 1..(size + n) : IsMessage(msg'[m])
      /\ \A m \in 1..size : m # a => msg'[m] = msg[m]
      /\ msg'[a].parent = size + n /\ msg'[a].created = Now + n
      /\ \A m \in (size + 1)..(size + n) :
            /\ msg'[m].created = clock + (m - size)
            /\ msg'[m].parent = IF m = size + 1 THEN p ELSE m - 1
      /\ IsSequence(run') /\ Len(run') = Len(run) /\ DOMAIN run' = 1..Len(run)
      /\ \A s \in 1..Len(run) : s # r => run'[s] = run[s]
      /\ IsRun(run'[r]) /\ run'[r].assistant = a /\ run'[r].key = run[r].key
      /\ run'[r].status = run[r].status
  <2>1. Steered(r, n, p)
    <3> HIDE DEF Inv, Consume, Steered
    <3> QED BY ConsumeTables
  <2> QED BY <2>1 DEF Steered
<1>6. \A s \in 1..Len(run) : /\ IsRun(run'[s]) /\ run'[s].assistant = run[s].assistant
                             /\ run'[s].key = run[s].key /\ run'[s].status = run[s].status
  BY <1>0, <1>5
<1> HIDE DEF size, a, p
<1>7. size = Len(msg)
  BY DEF size
<1>8. \A m \in 1..(size + n) : m = a \/ (m \in 1..size /\ m # a) \/ m \in (size + 1)..(size + n)
  BY <1>0
<1>9. TypeInv'
  <2>1. clock' \in Nat
    BY <1>0, <1>1
  <2>2. call' \in [Caller -> CallRow]
    BY <1>1 DEF Inv, TypeInv
  <2> QED BY <1>5, <1>6, <2>1, <2>2 DEF TypeInv
<1>10. \A m \in 1..(size + n) : msg'[m].parent \in 0..(size + n) /\ msg'[m].parent # a
                              /\ msg'[m].created \in 0..clock'
  <2> SUFFICES ASSUME NEW m \in 1..(size + n)
               PROVE  msg'[m].parent \in 0..(size + n) /\ msg'[m].parent # a
                      /\ msg'[m].created \in 0..clock'
    OBVIOUS
  <2>1. clock' = clock + 1 + n
    BY <1>0, <1>1
  <2>2. CASE m = a
    <3>1. msg'[m].parent = size + n /\ msg'[m].created = clock + 1 + n
      BY <1>0, <1>5, <2>2
    <3> QED BY <1>0, <2>1, <3>1
  <2>3. CASE m \in 1..size /\ m # a
    <3>1. msg'[m] = msg[m]
      BY <1>5, <2>3
    <3> QED BY <1>0, <1>3, <2>1, <2>3, <3>1
  <2>4. CASE m \in (size + 1)..(size + n)
    <3>1. /\ msg'[m].created = clock + (m - size)
          /\ msg'[m].parent = p \/ (msg'[m].parent = m - 1 /\ m # size + 1)
      BY <1>5, <2>4
    <3>2. msg'[m].created \in 0..clock'
      <4>1. clock \in Nat /\ size \in Nat /\ m \in Int /\ m > size /\ m <= size + n /\ n \in Nat
        BY <1>0, <2>4
      <4>2. clock + (m - size) \in 0..(clock + 1 + n)
        BY <4>1
      <4> QED BY <2>1, <3>1, <4>2
    <3>3. a <= size /\ size < m /\ m <= size + n
      BY <1>0, <2>4
    <3>4. msg'[m].parent \in 0..(size + n) /\ msg'[m].parent # a
      BY <1>0, <1>4, <3>1, <3>3
    <3> QED BY <3>2, <3>4
  <2> QED BY <1>8, <2>2, <2>3, <2>4
<1>11. ActiveRuns' \subseteq {r}
  BY <1>0, <1>2, <1>5, <1>6 DEF ActiveRuns
<1>12. TreeInv'
  <2>1. \A m \in DOMAIN msg' : msg'[m].parent \in 0..Len(msg') /\ msg'[m].created \in 0..clock'
    BY <1>5, <1>10
  <2>2. leaf' \in 0..Len(msg') /\ \A c \in Caller : call'[c].parent \in 0..Len(msg')
    BY <1>0, <1>1, <1>5, <1>7 DEF Inv, TreeInv
  <2>3. \A s \in DOMAIN run' : run'[s].assistant \in DOMAIN msg'
    <3>1. \A s \in 1..Len(run) : run'[s].assistant = run[s].assistant /\ run[s].assistant \in 1..size
      BY <1>0, <1>6
    <3>2. \A m \in 1..size : m \in 1..(size + n)
      BY <1>0
    <3>3. DOMAIN run' = 1..Len(run) /\ DOMAIN msg' = 1..(size + n)
      BY <1>5
    <3> QED BY <3>1, <3>2, <3>3
  <2>4. ASSUME NEW s \in ActiveRuns' PROVE (Children(run[s].assistant))' = {}
    <3>1. s = r /\ run'[s].assistant = a
      BY <1>0, <1>5, <1>11, <2>4
    <3>2. \A m \in DOMAIN msg' : msg'[m].parent # run'[s].assistant
      BY <1>5, <1>10, <3>1
    <3> QED BY <3>2 DEF Children
  <2>5. \A s, t \in ActiveRuns' : s = t
    BY <1>11
  <2> QED BY <2>1, <2>2, <2>3, <2>4, <2>5 DEF TreeInv
<1>13. KeyInv'
  <2>1. msg' # <<>>
    BY <1>0, <1>5
  <2>2. \A s, t \in 1..Len(run) : run'[s].key = run'[t].key /\ run'[s].key # "none" => s = t
    BY <1>0, <1>6 DEF Inv, KeyInv
  <2> QED BY <1>5, <2>1, <2>2 DEF KeyInv
<1>14. BranchInOrder'
  <2> SUFFICES ASSUME NEW m \in 1..(size + n), msg'[m].parent # NoMessage
               PROVE  msg'[msg'[m].parent].created < msg'[m].created
    BY <1>5 DEF BranchInOrder
  <2>0. \A q \in 1..size : q # a => msg'[q] = msg[q] /\ msg[q].created \in 0..clock
    BY <1>0, <1>5
  <2>1. CASE m = a
    <3>1. msg'[m].parent = size + n /\ msg'[m].created = clock + 1 + n
      BY <1>0, <1>5, <2>1
    <3>2. msg'[size + n].created = clock + ((size + n) - size)
      <4>1. size + n \in (size + 1)..(size + n)
        BY <1>0
      <4> QED BY <1>5, <4>1
    <3>3. clock + ((size + n) - size) < clock + 1 + n
      BY <1>0
    <3> QED BY <3>1, <3>2, <3>3
  <2>2. CASE m \in 1..size /\ m # a
    <3>1. msg'[m] = msg[m] /\ msg[m].parent \in 1..size /\ msg[m].parent # a
      BY <1>0, <1>3, <2>0, <2>2 DEF NoMessage
    <3>2. msg[msg[m].parent].created < msg[m].created
      BY <1>0, <2>2, <3>1 DEF Inv, BranchInOrder, NoMessage
    <3> QED BY <2>0, <3>1, <3>2
  <2>3. CASE m \in (size + 1)..(size + n)
    <3>1. CASE m = size + 1
      <4>1. msg'[m].parent = p /\ p \in 1..size /\ msg'[m].created = clock + 1
        BY <1>0, <1>5, <2>3, <3>1 DEF NoMessage
      <4>2. msg'[p].created \in 0..clock
        BY <1>4, <2>0, <4>1
      <4> QED BY <1>0, <4>1, <4>2
    <3>2. CASE m # size + 1
      <4>1. m - 1 \in (size + 1)..(size + n) /\ msg'[m].parent = m - 1
        BY <1>0, <1>5, <2>3, <3>2
      <4>2. msg'[m - 1].created = clock + ((m - 1) - size) /\ msg'[m].created = clock + (m - size)
        BY <1>5, <2>3, <4>1
      <4>3. clock \in Nat /\ size \in Nat /\ m \in Int
        BY <1>0, <2>3
      <4>4. clock + ((m - 1) - size) < clock + (m - size)
        BY <4>3
      <4> QED BY <4>1, <4>2, <4>4
    <3> QED BY <3>1, <3>2
  <2> QED BY <1>8, <2>1, <2>2, <2>3
<1> QED BY <1>9, <1>12, <1>13, <1>14 DEF Inv

-----------------------------------------------------------------------------
(* The requests. *)

\* One new answer is a chain.
LEMMA OneMessage ==
  ASSUME NEW m, NEW p, IsMessage(m), m.parent = p, m.created = clock + 1,
         m.provider = <<>>, m.role = "assistant"
  PROVE  Begun(<<m>>, p, p)
<1>1. Len(<<m>>) = 1 /\ <<m>>[1] = m /\ <<m>> = [i \in 1..1 |-> <<m>>[i]]
  OBVIOUS
<1>2. IsSequence(<<m>>)
  BY <1>1, FunctionSequence
<1>3. \A i \in 1..1 : i = 1
  OBVIOUS
<1> QED BY <1>1, <1>2, <1>3 DEF Chain, Begun

\* A message and its answer are a chain.
LEMMA TwoMessages ==
  ASSUME NEW m, NEW a, NEW p, Len(msg) \in Nat, IsMessage(m), IsMessage(a),
         m.parent = p, m.created = clock + 1, m.provider = <<>>,
         a.parent = Len(msg) + 1, a.created = clock + 2, a.provider = <<>>, a.role = "assistant"
  PROVE  Begun(<<m, a>>, p, Len(msg) + 1)
<1>1. /\ Len(<<m, a>>) = 2 /\ <<m, a>>[1] = m /\ <<m, a>>[2] = a
      /\ <<m, a>> = [i \in 1..2 |-> <<m, a>>[i]]
  OBVIOUS
<1>2. IsSequence(<<m, a>>)
  BY <1>1, FunctionSequence
<1>3. \A i \in 1..2 : i = 1 \/ i = 2
  OBVIOUS
<1>4. Chain(<<m, a>>, p)
  BY <1>1, <1>2, <1>3 DEF Chain
<1> QED BY <1>1, <1>4 DEF Begun

\* An answer changes nothing of a request but its result.
LEMMA AnsweredCall ==
  ASSUME TypeInv, NEW c \in Caller, NEW result \in Int, Answer(c, result)
  PROVE  /\ call' \in [Caller -> CallRow]
         /\ \A d \in Caller : call'[d].parent = call[d].parent /\ (d # c => call'[d] = call[d])
         /\ call'[c].result = result
BY DEF TypeInv, Answer, CallRow

\* A message to the active leaf, or of the input queue.
LEMMA CreateStarts ==
  ASSUME Inv, NEW request, NEW key, AppendCreate(request, key),
         key = "none" \/ Replayed(key) = {}
  PROVE  StartsRun
<1> DEFINE user == Len(msg) + 1
           m == Fresh("user", leaf, user, Now)
           a == Fresh("assistant", user, user + 1, Now + 1)
<1>1. Len(msg) \in Nat /\ clock \in Nat /\ leaf \in 0..Len(msg)
  BY Domains DEF Inv, TypeInv, TreeInv
<1>2. /\ IsMessage(m) /\ m.parent = leaf /\ m.created = Now /\ m.provider = <<>>
      /\ IsMessage(a) /\ a.parent = user /\ a.created = Now + 1 /\ a.provider = <<>>
      /\ a.role = "assistant"
  BY NewMessage DEF Fresh
<1>3. Start(<<m, a>>, user, request, key)
  BY DEF AppendCreate
<1> HIDE DEF m, a
<1>4. Begun(<<m, a>>, leaf, user)
  BY <1>1, <1>2, TwoMessages DEF Now
<1> HIDE DEF Inv, Begun, Start, user
<1> QED BY <1>1, <1>3, <1>4 DEF StartsRun

\* A version: an answer again.
LEMMA RegenerateStarts ==
  ASSUME Inv, NEW c \in Caller, Regenerate(c)
  PROVE  StartsRun
<1> DEFINE target == msg[call[c].target]
           p == call[c].parent
           m == New("assistant", p, target.group, NextIndex(target.group), call[c].target, Now)
<1>1. p \in 0..Len(msg) /\ clock \in Nat /\ Replayed(call[c].key) = {}
  BY Domains DEF Inv, TypeInv, TreeInv, Regenerate, Begins
<1>2. IsMessage(m) /\ m.parent = p /\ m.created = Now /\ m.provider = <<>> /\ m.role = "assistant"
  BY NewMessage
<1>3. Start(<<m>>, p, Request(c), call[c].key)
  BY DEF Regenerate, AppendRegenerated
<1> HIDE DEF m
<1>4. Begun(<<m>>, p, p)
  BY <1>2, OneMessage DEF Now
<1> HIDE DEF Inv, Begun, Start, p
<1> QED BY <1>1, <1>3, <1>4 DEF StartsRun

\* A version: a message edited.
LEMMA EditStarts ==
  ASSUME Inv, NEW c \in Caller, EditUserMessage(c)
  PROVE  StartsRun
<1> DEFINE target == msg[call[c].target]
           p == call[c].parent
           user == Len(msg) + 1
           m == New("user", p, target.group, NextIndex(target.group), call[c].target, Now)
           a == Fresh("assistant", user, user + 1, Now + 1)
<1>1. p \in 0..Len(msg) /\ Len(msg) \in Nat /\ clock \in Nat /\ Replayed(call[c].key) = {}
  BY Domains DEF Inv, TypeInv, TreeInv, EditUserMessage, Begins
<1>2. /\ IsMessage(m) /\ m.parent = p /\ m.created = Now /\ m.provider = <<>>
      /\ IsMessage(a) /\ a.parent = user /\ a.created = Now + 1 /\ a.provider = <<>>
      /\ a.role = "assistant"
  BY NewMessage DEF Fresh
<1>3. Start(<<m, a>>, user, Request(c), call[c].key)
  BY DEF EditUserMessage, AppendEdited
<1> HIDE DEF m, a
<1>4. Begun(<<m, a>>, p, user)
  BY <1>1, <1>2, TwoMessages DEF Now
<1> HIDE DEF Inv, Begun, Start, p, user
<1> QED BY <1>1, <1>3, <1>4 DEF StartsRun

\* A step that leaves the tables as they are.
LEMMA AsideStep ==
  ASSUME Inv, UNCHANGED <<msg, clock, run>>, leaf' \in 0..Len(msg),
         call' \in [Caller -> CallRow], \A c \in Caller : call'[c].parent \in 0..Len(msg)
  PROVE  Inv'
<1>1. /\ IsSequence(msg) /\ \A m \in 1..Len(msg) : IsMessage(msg[m])
      /\ IsSequence(run) /\ \A r \in 1..Len(run) : IsRun(run[r])
  BY DEF Inv, TypeInv
<1>2. msg' = msg /\ run' = run /\ clock' = clock
  OBVIOUS
<1> HIDE DEF Inv
<1> QED BY <1>1, <1>2, ProgressStep

\* A request is made.
LEMMA AskStep ==
  ASSUME Inv, NEW c \in Caller, NEW op \in {"open", "create", "edit", "regenerate"},
         NEW target \in Nat, NEW key \in Key \cup {"session"}, NEW parent \in 0..Len(msg),
         Ask(c, op, target, key, parent)
  PROVE  Inv'
<1>1. UNCHANGED <<msg, clock, run>> /\ leaf' \in 0..Len(msg)
  BY DEF Ask, Inv, TreeInv
<1> DEFINE row == [op |-> op, target |-> target, key |-> key, parent |-> parent,
                   result |-> Waiting]
<1>2. row \in CallRow /\ row.parent \in 0..Len(msg)
  BY Domains DEF Inv, CallRow, Waiting
<1>3. call' = [call EXCEPT ![c] = row]
  BY DEF Ask
<1> HIDE DEF row
<1>4. call' \in [Caller -> CallRow] /\ \A d \in Caller : call'[d].parent \in 0..Len(msg)
  BY <1>2, <1>3 DEF Inv, TypeInv, TreeInv
<1> HIDE DEF Inv
<1> QED BY <1>1, <1>4, AsideStep

-----------------------------------------------------------------------------
(* The workers. *)

\* A run makes progress and a message may keep its checkpoint.
LEMMA ClaimStep ==
  ASSUME Inv, ClaimRun
  PROVE  Inv'
<1>0. PICK r \in DOMAIN run :
        /\ run[r].status = "pending"
        /\ run' = [run EXCEPT ![r].status = "running", ![r].context = Lineage(run[r].user)]
        /\ UNCHANGED <<msg, clock, leaf, call, gone>>
  BY DEF ClaimRun
<1> DEFINE context == Lineage(run[r].user)
           begun == [run[r] EXCEPT !.status = "running"]
           next == [begun EXCEPT !.context = context]
<1>1. /\ IsSequence(msg) /\ \A m \in 1..Len(msg) : IsMessage(msg[m])
      /\ IsSequence(run) /\ \A s \in 1..Len(run) : IsRun(run[s])
      /\ r \in 1..Len(run)
  BY Domains DEF Inv, TypeInv
<1>2. run' = [run EXCEPT ![r] = next]
  BY <1>0
<1> HIDE DEF context
<1>3. IsRun(begun) /\ begun.assistant = run[r].assistant /\ begun.key = run[r].key
      /\ begun.status = "running"
  BY <1>1, RunWithStatus
<1> HIDE DEF begun
<1>4. IsRun(next) /\ next.assistant = run[r].assistant /\ next.key = run[r].key
      /\ next.status = "running"
  BY <1>3, RunWithContext
<1> HIDE DEF next
<1>5. /\ IsSequence(run') /\ Len(run') = Len(run) /\ run'[r] = next
      /\ \A s \in 1..Len(run) : s # r => run'[s] = run[s]
  BY <1>1, <1>2, ReplacedElement
<1>6. \A s \in 1..Len(run) :
        /\ IsRun(run'[s]) /\ run'[s].assistant = run[s].assistant /\ run'[s].key = run[s].key
        /\ run[s].status = "ended" => run'[s].status = "ended"
  BY <1>0, <1>1, <1>4, <1>5
<1>7. /\ msg' = msg /\ clock' = clock /\ leaf' \in 0..Len(msg)
      /\ call' \in [Caller -> CallRow] /\ \A c \in Caller : call'[c].parent \in 0..Len(msg)
  BY <1>0 DEF Inv, TypeInv, TreeInv
<1> HIDE DEF Inv
<1> QED BY <1>1, <1>5, <1>6, <1>7, ProgressStep

\* The tables after run r ended: its row and that of its answer are changed.
Finished(r, context) ==
  LET a == run[r].assistant
  IN  /\ IsSequence(run') /\ Len(run') = Len(run)
      /\ \A s \in 1..Len(run) : s # r => run'[s] = run[s]
      /\ IsRun(run'[r]) /\ run'[r].assistant = a /\ run'[r].key = run[r].key
      /\ run'[r].status = "ended" /\ run'[r].context = run[r].context
      /\ IsSequence(msg') /\ Len(msg') = Len(msg) /\ DOMAIN msg' = 1..Len(msg)
      /\ \A m \in 1..Len(msg) : m # a => msg'[m] = msg[m]
      /\ IsMessage(msg'[a]) /\ msg'[a].parent = msg[a].parent /\ msg'[a].created = msg[a].created
      /\ msg'[a].role = msg[a].role /\ msg'[a].provider = context

\* So are they after Finish.
LEMMA FinishTables ==
  ASSUME Inv, NEW r \in DOMAIN run, NEW context, Finish(r, context)
  PROVE  Finished(r, context)
<1> DEFINE a == run[r].assistant
           done == [run[r] EXCEPT !.status = "ended"]
           kept == [msg[a] EXCEPT !.provider = context]
<1>1. /\ IsSequence(msg) /\ \A m \in 1..Len(msg) : IsMessage(msg[m])
      /\ IsSequence(run) /\ \A s \in 1..Len(run) : IsRun(run[s])
      /\ r \in 1..Len(run) /\ a \in 1..Len(msg)
  BY Domains DEF Inv, TypeInv, TreeInv
<1>2. run' = [run EXCEPT ![r] = done] /\ msg' = [msg EXCEPT ![a] = kept]
  BY DEF Finish
<1>3. /\ IsRun(done) /\ done.assistant = a /\ done.key = run[r].key /\ done.status = "ended"
      /\ done.context = run[r].context
  <2>1. IsRun(run[r])
    BY <1>1
  <2> HIDE DEF Inv, Finish
  <2> QED BY <2>1, RunWithStatus
<1>4. /\ IsMessage(kept) /\ kept.parent = msg[a].parent /\ kept.created = msg[a].created
      /\ kept.role = msg[a].role /\ kept.provider = context
  BY <1>1, CheckpointedMessage
<1> HIDE DEF done, kept
<1>5. /\ IsSequence(run') /\ Len(run') = Len(run) /\ run'[r] = done
      /\ \A s \in 1..Len(run) : s # r => run'[s] = run[s]
  BY <1>1, <1>2, ReplacedElement
<1>6. /\ IsSequence(msg') /\ Len(msg') = Len(msg) /\ DOMAIN msg' = 1..Len(msg) /\ msg'[a] = kept
      /\ \A m \in 1..Len(msg) : m # a => msg'[m] = msg[m]
  <2>1. IsSequence(msg) /\ a \in 1..Len(msg) /\ msg' = [msg EXCEPT ![a] = kept]
    BY <1>1, <1>2
  <2> HIDE DEF a
  <2> QED BY <2>1, ReplacedElement
<1> HIDE DEF Inv, Finish
<1> QED BY <1>3, <1>4, <1>5, <1>6 DEF Finished

\* A run ends, with its answer or without.
LEMMA FinishStep ==
  ASSUME Inv, NEW r \in DOMAIN run, NEW context, Finish(r, context)
  PROVE  Inv'
<1> DEFINE a == run[r].assistant
<1>1. /\ \A m \in 1..Len(msg) : IsMessage(msg[m])
      /\ \A s \in 1..Len(run) : IsRun(run[s])
      /\ r \in 1..Len(run) /\ a \in 1..Len(msg)
  BY Domains DEF Inv, TypeInv, TreeInv
<1>2. Finished(r, context)
  <2> HIDE DEF Inv, Finish, Finished
  <2> QED BY FinishTables
<1>3. IsSequence(run') /\ Len(run') = Len(run) /\ IsSequence(msg') /\ Len(msg') = Len(msg)
  BY <1>2 DEF Finished
<1>4. \A s \in 1..Len(run) : /\ IsRun(run'[s]) /\ run'[s].assistant = run[s].assistant
                             /\ run'[s].key = run[s].key
                             /\ run[s].status = "ended" => run'[s].status = "ended"
  BY <1>1, <1>2 DEF Finished
<1>5. \A m \in 1..Len(msg) : /\ IsMessage(msg'[m]) /\ msg'[m].parent = msg[m].parent
                             /\ msg'[m].created = msg[m].created
  BY <1>1, <1>2 DEF Finished
<1>6. /\ clock' = clock /\ leaf' \in 0..Len(msg)
      /\ call' \in [Caller -> CallRow] /\ \A c \in Caller : call'[c].parent \in 0..Len(msg)
  BY DEF Inv, TypeInv, TreeInv, Finish
<1> HIDE DEF Inv
<1> QED BY <1>3, <1>4, <1>5, <1>6, ProgressStep

-----------------------------------------------------------------------------
(* The theorems. *)

\* The empty session.
LEMMA InitInv ==
  ASSUME Init
  PROVE  Inv
<1>1. Len(msg) = 0 /\ DOMAIN msg = {} /\ Len(run) = 0 /\ DOMAIN run = {} /\ msg = run
  BY DEF Init
<1>2. IsSequence(msg) /\ IsSequence(run)
  <2>1. 0 \in Nat /\ msg = [i \in 1..0 |-> msg[i]]
    BY <1>1
  <2> QED BY <1>1, <2>1 DEF IsSequence
<1>3. NoCall \in CallRow /\ NoCall.parent = 0
  BY DEF NoCall, CallRow, NoMessage, Missing
<1>4. call \in [Caller -> CallRow] /\ \A c \in Caller : call[c].parent = 0
  BY <1>3 DEF Init
<1>5. TypeInv
  <2>1. (\A m \in 1..Len(msg) : IsMessage(msg[m])) /\ (\A r \in 1..Len(run) : IsRun(run[r]))
    BY <1>1
  <2> QED BY <1>2, <1>4, <2>1 DEF TypeInv, Init
<1>6. ActiveRuns = {}
  BY <1>1 DEF ActiveRuns
<1>7. TreeInv
  BY <1>1, <1>4, <1>6 DEF TreeInv, Init, NoMessage
<1>8. KeyInv /\ BranchInOrder
  BY <1>1 DEF KeyInv, BranchInOrder
<1> QED BY <1>5, <1>7, <1>8 DEF Inv

\* Every step keeps the invariant.
LEMMA StepInv ==
  ASSUME Inv, [Next]_vars
  PROVE  Inv'
<1>0. /\ Len(msg) \in Nat /\ DOMAIN msg = 1..Len(msg) /\ leaf \in 0..Len(msg)
      /\ Len(run) \in Nat /\ DOMAIN run = 1..Len(run)
      /\ call \in [Caller -> CallRow] /\ \A c \in Caller : call[c].parent \in 0..Len(msg)
  BY Domains DEF Inv, TypeInv, TreeInv
<1>1. ASSUME NEW c \in Caller, AskOpen(c) \/ AskCreate(c) PROVE Inv'
  <2>1. CASE AskOpen(c)
    BY <1>0, <2>1, AskStep DEF AskOpen, NoMessage
  <2>2. CASE AskCreate(c)
    BY <1>0, <2>2, AskStep DEF AskCreate, NoMessage
  <2> QED BY <1>1, <2>1, <2>2
<1>2. ASSUME NEW c \in Caller, AskVersion(c) PROVE Inv'
  <2> PICK op \in {"edit", "regenerate"}, m \in DOMAIN msg, key \in Key :
        Ask(c, op, m, key, msg[m].parent)
    BY <1>2 DEF AskVersion
  <2>1. m \in Nat /\ msg[m].parent \in 0..Len(msg)
    BY <1>0 DEF Inv, TreeInv
  <2> HIDE DEF Inv
  <2> QED BY <2>1, AskStep
<1>3. ASSUME NEW c \in Caller, Refuse(c) PROVE Inv'
  <2> PICK result \in Int : Answer(c, result)
    BY <1>0, <1>3 DEF Refuse, Replayed, Missing, Conflict, Active
  <2>1. UNCHANGED <<msg, clock, run, leaf>>
    BY <1>3 DEF Refuse
  <2>2. call' \in [Caller -> CallRow] /\ \A d \in Caller : call'[d].parent = call[d].parent
    BY AnsweredCall DEF Inv
  <2> HIDE DEF Inv
  <2> QED BY <1>0, <2>1, <2>2, AsideStep
<1>4. ASSUME NEW c \in Caller, Answer(c, Len(run) + 1), ActiveRuns = {}, StartsRun PROVE Inv'
  <2>1. call' \in [Caller -> CallRow] /\ \A d \in Caller : call'[d].parent = call[d].parent
    BY <1>0, <1>4, AnsweredCall DEF Inv
  <2> HIDE DEF Inv, StartsRun
  <2> QED BY <1>4, <2>1, StartStep
<1>5. ASSUME NEW c \in Caller,
             CreateSessionRun(c) \/ CreateRun(c) \/ Regenerate(c) \/ EditUserMessage(c)
      PROVE  Inv'
  <2>1. Answer(c, Len(run) + 1) /\ ActiveRuns = {} /\ Replayed(call[c].key) = {}
    BY <1>5 DEF CreateSessionRun, CreateRun, Regenerate, EditUserMessage, Begins
  <2>2. CASE CreateSessionRun(c) \/ CreateRun(c)
    <3>1. AppendCreate(Request(c), call[c].key)
      BY <2>2 DEF CreateSessionRun, CreateRun
    <3> HIDE DEF Inv, AppendCreate, StartsRun
    <3> QED BY <1>4, <2>1, <3>1, CreateStarts
  <2> HIDE DEF Inv, StartsRun
  <2> QED BY <1>4, <1>5, <2>1, <2>2, RegenerateStarts, EditStarts
<1>6. CASE SwitchVersion
  <2>1. /\ UNCHANGED <<msg, clock, run, call>>
        /\ \E m \in DOMAIN msg : leaf' \in LatestLeaf(m)
    BY <1>6 DEF SwitchVersion
  <2>2. leaf' \in DOMAIN msg
    BY <2>1 DEF LatestLeaf
  <2> HIDE DEF Inv
  <2> QED BY <1>0, <2>1, <2>2, AsideStep
<1>7. CASE DeleteSession \/ UNCHANGED vars
  <2>1. UNCHANGED <<msg, clock, leaf, run, call>>
    BY <1>7 DEF DeleteSession, vars
  <2> HIDE DEF Inv
  <2> QED BY <1>0, <2>1, AsideStep
<1>8. CASE Dispatch
  <2>1. /\ ActiveRuns = {} /\ call' = call
        /\ AppendCreate([op |-> "create", target |-> NoMessage], "none")
    BY <1>8 DEF Dispatch
  <2> HIDE DEF Inv, AppendCreate, StartsRun
  <2> QED BY <1>0, <2>1, CreateStarts, StartStep
<1>9. CASE ClaimRun
  BY <1>9, ClaimStep
<1>10. CASE ConsumeSteers
  <2> PICK r \in DOMAIN run, n \in 1..2 : Consume(r, n)
    BY <1>10 DEF ConsumeSteers
  <2> HIDE DEF Inv, Consume
  <2> QED BY ConsumeStep
<1>11. CASE CompleteRun \/ StopRun
  <2> PICK r \in DOMAIN run : \E context : Finish(r, context)
    BY <1>11 DEF CompleteRun, StopRun, ActiveRuns
  <2> HIDE DEF Inv, Finish
  <2> QED BY FinishStep
<1> HIDE DEF Inv
<1> QED BY <1>1, <1>2, <1>3, <1>5, <1>6, <1>7, <1>8, <1>9, <1>10, <1>11 DEF Next

\* The invariant holds in every state of the tree.
LEMMA Invariant == Spec => []Inv
<1>1. Init => Inv
  BY InitInv
<1>2. Inv /\ [Next]_vars => Inv'
  BY StepInv
<1> QED BY <1>1, <1>2, PTL DEF Spec

\* On every branch a message is older than its child, also where steering moved an answer.
THEOREM BranchCorrect == Spec => []BranchInOrder
<1>1. Inv => BranchInOrder
  BY DEF Inv
<1> QED BY <1>1, Invariant, PTL

\* What a step answers to a request whose run exists is that run.
LEMMA AnsweredAgain ==
  ASSUME Inv, [Next]_vars, NEW c \in Caller, NEW s \in DOMAIN run,
         run[s].key = call[c].key, run[s].request = Request(c),
         call[c].result = Waiting, call'[c].result # Waiting, ~gone
  PROVE  call'[c].result = s /\ run' = run
<1>0. /\ call \in [Caller -> CallRow] /\ Len(run) \in Nat /\ DOMAIN run = 1..Len(run)
      /\ call[c].key # "none" /\ msg # <<>> /\ s \in Replayed(call[c].key)
  BY Domains, TreeConstants DEF Inv, TypeInv, KeyInv, CallRow, Replayed
<1>1. ASSUME NEW d \in Caller, NEW op, NEW target, NEW key, NEW parent,
             Ask(d, op, target, key, parent)
      PROVE  FALSE
  <2>1. c # d
    BY <1>1 DEF Ask
  <2> QED BY <1>0, <1>1, <2>1 DEF Ask
<1>2. ASSUME NEW d \in Caller, AskOpen(d) \/ AskCreate(d) \/ AskVersion(d) PROVE FALSE
  <2> HIDE DEF Ask, Inv
  <2> QED BY <1>1, <1>2 DEF AskOpen, AskCreate, AskVersion
<1>3. ASSUME NEW d \in Caller, NEW op, Begins(d, op) PROVE FALSE
  <2>1. Answer(d, Len(run) + 1) /\ Replayed(call[d].key) = {}
    BY <1>3 DEF Begins
  <2>2. c # d
    BY <1>0, <2>1
  <2> QED BY <1>0, <2>1, <2>2 DEF Answer
<1>4. ASSUME NEW d \in Caller, CreateSessionRun(d) \/ CreateRun(d) \/ Regenerate(d) \/ EditUserMessage(d)
      PROVE  FALSE
  <2> HIDE DEF Begins, Inv
  <2> QED BY <1>3, <1>4 DEF CreateSessionRun, CreateRun, Regenerate, EditUserMessage
<1>5. ASSUME NEW d \in Caller, Refuse(d) PROVE call'[c].result = s /\ run' = run
  <2>1. run' = run /\ \E result : Answer(d, result)
    BY <1>5 DEF Refuse
  <2>2. c = d
    BY <1>0, <2>1 DEF Answer
  <2>3. \E r \in Replayed(call[c].key) :
          Answer(c, IF run[r].request = Request(c) THEN r ELSE Conflict)
    BY <1>0, <1>5, <2>2 DEF Refuse
  <2> PICK r \in Replayed(call[c].key) :
        Answer(c, IF run[r].request = Request(c) THEN r ELSE Conflict)
    BY <2>3
  <2>4. r = s
    BY <1>0 DEF Inv, KeyInv, Replayed
  <2>5. Answer(c, s)
    BY <2>4
  <2>6. call'[c].result = s
    BY <1>0, <2>5 DEF Answer, CallRow
  <2> QED BY <2>1, <2>6
<1>6. ASSUME call' = call PROVE FALSE
  BY <1>6
<1>7. SwitchVersion \/ DeleteSession \/ Dispatch \/ ClaimRun \/ ConsumeSteers \/ CompleteRun
        \/ StopRun \/ UNCHANGED vars => call' = call
  BY DEF SwitchVersion, DeleteSession, Dispatch, ClaimRun, ConsumeSteers, Consume, CompleteRun,
         StopRun, Finish, vars
<1> HIDE DEF Inv
<1> QED BY <1>2, <1>4, <1>5, <1>6, <1>7 DEF Next

\* Whoever repeats a request whose run exists is answered that run, and no second one starts.
THEOREM RetryCorrect == Spec => RetryAnswered
<1> DEFINE Done(c) == {r \in DOMAIN run : run[r].key = call[c].key /\ run[r].request = Request(c)}
           Retried(c) == call[c].result = Waiting /\ call'[c].result # Waiting /\ Done(c) # {} /\ ~gone
                           => call'[c].result \in Done(c) /\ run' = run
<1>1. ASSUME Inv, [Next]_vars, NEW c \in Caller PROVE Retried(c)
  <2> HIDE DEF Inv, Next
  <2> SUFFICES ASSUME call[c].result = Waiting, call'[c].result # Waiting, NEW s \in Done(c), ~gone
               PROVE  call'[c].result \in Done(c) /\ run' = run
    OBVIOUS
  <2>1. s \in DOMAIN run /\ run[s].key = call[c].key /\ run[s].request = Request(c)
    OBVIOUS
  <2>2. call'[c].result = s /\ run' = run
    BY <1>1, <2>1, AnsweredAgain
  <2> QED BY <2>2
<1>2. Inv /\ [Next]_vars => [\A c \in Caller : Retried(c)]_vars
  BY <1>1
<1> QED BY <1>2, Invariant, PTL DEF Spec, RetryAnswered

-----------------------------------------------------------------------------
(* Recursion along the parents of a tree. *)

\* A set of numbers has a least one.
LEMMA LeastNumber ==
  ASSUME NEW S \in SUBSET Nat, S # {}
  PROVE  \E n \in S : \A m \in S : n <= m
<1> DEFINE T == {0..n : n \in S}
<1>1. T \subseteq FiniteSubsetsOf(Nat) /\ T # {}
  <2>1. \A n \in S : 0..n \in SUBSET Nat /\ IsFiniteSet(0..n)
    BY FS_Interval
  <2> QED BY <2>1 DEF FiniteSubsetsOf
<1>2. PICK x \in T : \A y \in T : ~(<<y, x>> \in StrictSubsetOrdering(Nat))
  <2> HIDE DEF T
  <2> QED BY <1>1, WFMin, FS_StrictSubsetOrderingWellFounded
<1>3. PICK n \in S : x = 0..n
  BY <1>2
<1>4. ASSUME NEW m \in S, m < n PROVE FALSE
  <2>1. /\ 0..m \in SUBSET Nat /\ 0..n \in SUBSET Nat
        /\ 0..m \subseteq 0..n /\ n \in 0..n /\ n \notin 0..m
    BY <1>4
  <2>2. <<0..m, 0..n>> \in StrictSubsetOrdering(Nat)
    BY <2>1 DEF StrictSubsetOrdering
  <2> QED BY <1>2, <1>3, <2>2
<1> QED BY <1>4

\* Among some messages of a tree is one whose parent is not among them.
LEMMA Uppermost ==
  ASSUME NEW N \in Nat, NEW par, NEW age,
         \A x \in 1..N : age[x] \in Nat,
         \A x \in 1..N : par[x] # 0 => age[par[x]] < age[x],
         NEW B \in SUBSET (1..N), B # {}
  PROVE  \E x \in B : par[x] \notin B
<1> DEFINE S == {age[x] : x \in B}
<1>1. S \in SUBSET Nat /\ S # {}
  OBVIOUS
<1>2. PICK n \in S : \A m \in S : n <= m
  <2> HIDE DEF S
  <2> QED BY <1>1, LeastNumber
<1>3. PICK x \in B : n = age[x]
  BY <1>2
<1>4. ASSUME par[x] \in B PROVE FALSE
  <2>1. x \in 1..N /\ par[x] \in 1..N /\ age[par[x]] \in S
    BY <1>4
  <2>2. age[par[x]] < age[x] /\ age[par[x]] \in Nat /\ age[x] \in Nat
    BY <2>1
  <2>3. age[x] <= age[par[x]]
    BY <1>2, <1>3, <2>1
  <2> QED BY <2>2, <2>3
<1> QED BY <1>4

\* What Branch and Lineage define: the paths to the messages of a tree, along
\* their parents and from where one stops.
IsPath(f, N, par, stop) ==
  f = [x \in 0..N |-> IF x = 0 THEN <<>>
                      ELSE IF stop[x] # <<>> THEN stop[x]
                      ELSE Append(f[par[x]], x)]

PathRule(f, N, par, stop) ==
  /\ f[0] = <<>>
  /\ \A x \in 0..N : f[x] \in Seq(1..N)
  /\ \A x \in 1..N : f[x] = IF stop[x] # <<>> THEN stop[x] ELSE Append(f[par[x]], x)

\* A tree has such paths.
LEMMA PathExists ==
  ASSUME NEW N \in Nat, NEW K \in Nat,
         NEW par \in [1..N -> 0..N], NEW age \in [1..N -> 0..K],
         NEW stop \in [1..N -> Seq(1..N)],
         \A x \in 1..N : par[x] # 0 => age[par[x]] < age[x]
  PROVE  \E f : IsPath(f, N, par, stop)
<1> DEFINE Rows(n) == {x \in 0..N : x = 0 \/ age[x] < n}
           Path(f, x) == IF x = 0 THEN <<>> ELSE IF stop[x] # <<>> THEN stop[x]
                         ELSE Append(f[par[x]], x)
           Solves(n, f) == f \in [Rows(n) -> Seq(1..N)] /\ \A x \in Rows(n) : f[x] = Path(f, x)
           Solvable(n) == \E f : Solves(n, f)
           Bad == {n \in Nat : ~Solvable(n)}
<1>1. Solvable(0)
  <2> DEFINE g == [x \in Rows(0) |-> <<>>]
  <2>1. \A x \in Rows(0) : x = 0
    OBVIOUS
  <2>2. g \in [Rows(0) -> Seq(1..N)]
    OBVIOUS
  <2>3. Solves(0, g)
    BY <2>1, <2>2
  <2> HIDE DEF Solves
  <2> QED BY <2>3
<1>2. ASSUME NEW m \in Nat, Solvable(m) PROVE Solvable(m + 1)
  <2>1. PICK f : Solves(m, f)
    <3> HIDE DEF Solves
    <3> QED BY <1>2
  <2> DEFINE n == m + 1
             g == [x \in Rows(n) |-> Path(f, x)]
  <2>2. ASSUME NEW x \in Rows(n), x # 0 PROVE x \in 1..N /\ par[x] \in Rows(m)
    <3>1. x \in 1..N /\ age[x] \in Nat /\ age[x] < n /\ par[x] \in 0..N
      BY <2>2
    <3>2. CASE par[x] = 0
      BY <3>1, <3>2
    <3>3. CASE par[x] # 0
      <4>1. par[x] \in 1..N /\ age[par[x]] < age[x] /\ age[par[x]] \in Nat
        BY <3>1, <3>3
      <4> QED BY <3>1, <4>1
    <3> QED BY <3>2, <3>3
  <2>3. \A x \in Rows(m) : x \in Rows(n)
    <3> SUFFICES ASSUME NEW x \in Rows(m), x # 0 PROVE age[x] < n
      OBVIOUS
    <3>1. x \in 1..N /\ age[x] < m
      OBVIOUS
    <3>2. age[x] \in Nat
      BY <3>1
    <3> QED BY <3>1, <3>2
  <2>4. f \in [Rows(m) -> Seq(1..N)] /\ \A x \in Rows(m) : f[x] = Path(f, x)
    BY <2>1
  <2>5. \A x \in Rows(m) : g[x] = f[x]
    BY <2>3, <2>4
  <2>6. \A x \in Rows(n) : Path(f, x) = Path(g, x)
    BY <2>2, <2>5
  <2>7. ASSUME NEW x \in Rows(n) PROVE Path(f, x) \in Seq(1..N)
    <3>1. CASE x = 0
      BY <3>1
    <3>2. CASE x # 0
      <4>1. x \in 1..N /\ par[x] \in Rows(m) /\ stop[x] \in Seq(1..N)
        BY <2>2, <3>2
      <4>2. f[par[x]] \in Seq(1..N)
        <5> HIDE DEF Rows
        <5> QED BY <2>4, <4>1
      <4>3. Append(f[par[x]], x) \in Seq(1..N)
        BY <4>1, <4>2
      <4> QED BY <3>2, <4>1, <4>3
    <3> QED BY <3>1, <3>2
  <2>8. Solves(n, g)
    <3> HIDE DEF Path, Rows
    <3> QED BY <2>6, <2>7
  <2> HIDE DEF Solves, g
  <2> QED BY <2>8
<1> HIDE DEF Solves
<1>3. Bad = {}
  <2> SUFFICES ASSUME Bad # {} PROVE FALSE
    OBVIOUS
  <2>1. PICK n \in Bad : \A m \in Bad : n <= m
    <3>1. Bad \in SUBSET Nat
      OBVIOUS
    <3> HIDE DEF Bad
    <3> QED BY <3>1, LeastNumber
  <2> HIDE DEF Solvable
  <2>2. n \in Nat /\ ~Solvable(n) /\ n # 0
    BY <1>1
  <2>3. n - 1 \in Nat /\ ~(n <= n - 1) /\ (n - 1) + 1 = n
    BY <2>2
  <2>4. Solvable(n - 1)
    BY <2>1, <2>3
  <2> QED BY <1>2, <2>2, <2>3, <2>4
<1>4. PICK f : Solves(K + 1, f)
  <2>1. K + 1 \in Nat
    OBVIOUS
  <2>2. Solvable(K + 1)
    <3> HIDE DEF Solvable
    <3> QED BY <1>3, <2>1
  <2> QED BY <2>2
<1>5. Rows(K + 1) = 0..N
  <2>1. \A x \in 1..N : age[x] \in Nat /\ age[x] < K + 1
    OBVIOUS
  <2> QED BY <2>1
<1>6. f \in [0..N -> Seq(1..N)] /\ \A x \in 0..N : f[x] = Path(f, x)
  BY <1>4, <1>5 DEF Solves
<1>7. IsPath(f, N, par, stop)
  BY <1>6 DEF IsPath
<1> HIDE DEF IsPath
<1> QED BY <1>7

\* They are sequences of messages.
LEMMA PathTyped ==
  ASSUME NEW N \in Nat, NEW K \in Nat,
         NEW par \in [1..N -> 0..N], NEW age \in [1..N -> 0..K],
         NEW stop \in [1..N -> Seq(1..N)],
         \A x \in 1..N : par[x] # 0 => age[par[x]] < age[x],
         NEW f, IsPath(f, N, par, stop)
  PROVE  PathRule(f, N, par, stop)
<1>1. /\ f[0] = <<>>
      /\ \A x \in 1..N : f[x] = IF stop[x] # <<>> THEN stop[x] ELSE Append(f[par[x]], x)
  <2> DEFINE Path(x) == IF x = 0 THEN <<>> ELSE IF stop[x] # <<>> THEN stop[x]
                        ELSE Append(f[par[x]], x)
  <2>1. f = [x \in 0..N |-> Path(x)]
    BY DEF IsPath
  <2> HIDE DEF Path
  <2>2. \A x \in 0..N : f[x] = Path(x)
    BY <2>1
  <2>3. 0 \in 0..N /\ \A x \in 1..N : x \in 0..N /\ x # 0
    OBVIOUS
  <2> QED BY <2>2, <2>3 DEF Path
<1> DEFINE B == {x \in 1..N : f[x] \notin Seq(1..N)}
<1>2. ASSUME NEW x \in B, par[x] \notin B PROVE FALSE
  <2>1. x \in 1..N /\ stop[x] \in Seq(1..N) /\ par[x] \in 0..N
    OBVIOUS
  <2>2. par[x] # 0 => f[par[x]] \in Seq(1..N)
    BY <1>2, <2>1
  <2>3. f[par[x]] \in Seq(1..N)
    BY <1>1, <2>2
  <2>4. Append(f[par[x]], x) \in Seq(1..N)
    BY <2>1, <2>3
  <2>5. f[x] \in Seq(1..N)
    BY <1>1, <2>1, <2>4
  <2> QED BY <2>5
<1>3. B = {}
  <2>1. B \in SUBSET (1..N) /\ \A x \in 1..N : age[x] \in Nat
    OBVIOUS
  <2> HIDE DEF B
  <2> QED BY <1>2, <2>1, Uppermost
<1>4. \A x \in 1..N : f[x] \in Seq(1..N)
  BY <1>3
<1>5. ASSUME NEW x \in 0..N PROVE f[x] \in Seq(1..N)
  <2>1. x = 0 \/ x \in 1..N
    OBVIOUS
  <2>2. <<>> \in Seq(1..N)
    OBVIOUS
  <2> QED BY <1>1, <1>4, <2>1, <2>2
<1> QED BY <1>1, <1>5 DEF PathRule

-----------------------------------------------------------------------------
(* Branches and lineages. *)

\* The path to a message is the path to its parent and the message.
BranchRule ==
  /\ Branch(0) = <<>>
  /\ \A x \in 0..Len(msg) : Branch(x) \in Seq(1..Len(msg))
  /\ \A x \in 1..Len(msg) : Branch(x) = Append(Branch(msg[x].parent), x)

\* So it is, for the lineage, where it does not begin with a checkpoint.
LineageRule ==
  /\ Lineage(0) = <<>>
  /\ \A x \in 0..Len(msg) : Lineage(x) \in Seq(1..Len(msg))
  /\ \A x \in 1..Len(msg) :
       Lineage(x) = IF msg[x].provider # <<>> THEN msg[x].provider
                    ELSE Append(Lineage(msg[x].parent), x)

\* What the invariant says of the parents, as functions on the messages.
LEMMA TreeShape ==
  ASSUME Inv
  PROVE  LET par == [x \in 1..Len(msg) |-> msg[x].parent]
             age == [x \in 1..Len(msg) |-> msg[x].created]
         IN  /\ Len(msg) \in Nat /\ clock \in Nat
             /\ par \in [1..Len(msg) -> 0..Len(msg)] /\ age \in [1..Len(msg) -> 0..clock]
             /\ \A x \in 1..Len(msg) : par[x] # 0 => age[par[x]] < age[x]
<1>1. /\ Len(msg) \in Nat /\ clock \in Nat /\ DOMAIN msg = 1..Len(msg)
      /\ \A x \in 1..Len(msg) : msg[x].parent \in 0..Len(msg) /\ msg[x].created \in 0..clock
  BY Domains DEF Inv, TypeInv, TreeInv
<1>2. \A x \in 1..Len(msg) : msg[x].parent # 0 => msg[msg[x].parent].created < msg[x].created
  BY <1>1 DEF Inv, BranchInOrder, NoMessage
<1>3. \A x \in 1..Len(msg) : msg[x].parent # 0 => msg[x].parent \in 1..Len(msg)
  BY <1>1
<1> QED BY <1>1, <1>2, <1>3

\* Branch obeys its rule, as the tree has such paths.
LEMMA BranchRec == Inv => BranchRule
<1> SUFFICES ASSUME Inv PROVE BranchRule
  OBVIOUS
<1> DEFINE N == Len(msg)
           par == [x \in 1..N |-> msg[x].parent]
           age == [x \in 1..N |-> msg[x].created]
           stop == [x \in 1..N |-> <<>>]
           path == CHOOSE f : IsPath(f, N, par, stop)
<1>1. /\ N \in Nat /\ clock \in Nat /\ par \in [1..N -> 0..N] /\ age \in [1..N -> 0..clock]
      /\ \A x \in 1..N : par[x] # 0 => age[par[x]] < age[x]
  BY TreeShape
<1>2. stop \in [1..N -> Seq(1..N)]
  OBVIOUS
<1>3. IsPath(path, N, par, stop)
  <2> HIDE DEF par, age, stop, N, IsPath
  <2>1. \E f : IsPath(f, N, par, stop)
    BY <1>1, <1>2, PathExists
  <2> QED BY <2>1
<1>4. ASSUME NEW f
      PROVE  IsPath(f, N, par, stop)
              <=> f = [x \in 0..N |-> IF x = NoMessage THEN <<>> ELSE Append(f[msg[x].parent], x)]
  <2> DEFINE P(x) == IF x = 0 THEN <<>> ELSE IF stop[x] # <<>> THEN stop[x]
                     ELSE Append(f[par[x]], x)
             Q(x) == IF x = NoMessage THEN <<>> ELSE Append(f[msg[x].parent], x)
  <2>1. ASSUME NEW x \in 0..N PROVE P(x) = Q(x)
    <3>1. x = 0 \/ (x \in 1..N /\ stop[x] = <<>> /\ par[x] = msg[x].parent)
      OBVIOUS
    <3> QED BY <3>1 DEF NoMessage
  <2>2. IsPath(f, N, par, stop) <=> f = [x \in 0..N |-> P(x)]
    BY DEF IsPath
  <2> HIDE DEF P
  <2>3. [x \in 0..N |-> P(x)] = [x \in 0..N |-> Q(x)]
    <3> HIDE DEF Q
    <3> QED BY <2>1
  <2> QED BY <2>2, <2>3
<1>5. \A m : Branch(m) = path[m]
  BY <1>4 DEF Branch
<1>6. PathRule(path, N, par, stop)
  <2> HIDE DEF par, age, stop, N, path, IsPath, PathRule
  <2> QED BY <1>1, <1>2, <1>3, PathTyped
<1> HIDE DEF path
<1>7. path[0] = <<>> /\ \A x \in 0..N : path[x] \in Seq(1..N)
  BY <1>6 DEF PathRule
<1>8. ASSUME NEW x \in 1..N PROVE path[x] = Append(path[msg[x].parent], x)
  <2>1. stop[x] = <<>> /\ par[x] = msg[x].parent
    OBVIOUS
  <2> HIDE DEF stop, par, N
  <2>2. path[x] = Append(path[par[x]], x)
    BY <1>6, <2>1 DEF PathRule
  <2> QED BY <2>1, <2>2
<1> QED BY <1>5, <1>7, <1>8 DEF BranchRule

\* Every checkpoint names messages of the session.
CheckpointType == \A m \in 1..Len(msg) : msg[m].provider \in Seq(1..Len(msg))

\* The lineage is such a path, which stops at the first checkpoint.
LEMMA LineageRec ==
  ASSUME Inv, CheckpointType
  PROVE  LineageRule
<1> DEFINE N == Len(msg)
           par == [x \in 1..N |-> msg[x].parent]
           age == [x \in 1..N |-> msg[x].created]
           stop == [x \in 1..N |-> msg[x].provider]
           path == CHOOSE f : IsPath(f, N, par, stop)
<1>1. /\ N \in Nat /\ clock \in Nat /\ par \in [1..N -> 0..N] /\ age \in [1..N -> 0..clock]
      /\ \A x \in 1..N : par[x] # 0 => age[par[x]] < age[x]
  BY TreeShape
<1>2. stop \in [1..N -> Seq(1..N)]
  BY DEF CheckpointType
<1>3. IsPath(path, N, par, stop)
  <2> HIDE DEF par, age, stop, N, IsPath
  <2>1. \E f : IsPath(f, N, par, stop)
    BY <1>1, <1>2, PathExists
  <2> QED BY <2>1
<1>4. ASSUME NEW f
      PROVE  IsPath(f, N, par, stop)
              <=> f = [x \in 0..N |-> IF x = NoMessage THEN <<>>
                                      ELSE IF msg[x].provider # <<>> THEN msg[x].provider
                                      ELSE Append(f[msg[x].parent], x)]
  <2> DEFINE P(x) == IF x = 0 THEN <<>> ELSE IF stop[x] # <<>> THEN stop[x]
                     ELSE Append(f[par[x]], x)
             Q(x) == IF x = NoMessage THEN <<>>
                     ELSE IF msg[x].provider # <<>> THEN msg[x].provider
                     ELSE Append(f[msg[x].parent], x)
  <2>1. ASSUME NEW x \in 0..N PROVE P(x) = Q(x)
    <3>1. x = 0 \/ (x \in 1..N /\ stop[x] = msg[x].provider /\ par[x] = msg[x].parent)
      OBVIOUS
    <3> QED BY <3>1 DEF NoMessage
  <2>2. IsPath(f, N, par, stop) <=> f = [x \in 0..N |-> P(x)]
    BY DEF IsPath
  <2> HIDE DEF P
  <2>3. [x \in 0..N |-> P(x)] = [x \in 0..N |-> Q(x)]
    <3> HIDE DEF Q
    <3> QED BY <2>1
  <2> QED BY <2>2, <2>3
<1>5. \A m : Lineage(m) = path[m]
  BY <1>4 DEF Lineage
<1>6. PathRule(path, N, par, stop)
  <2> HIDE DEF par, age, stop, N, path, IsPath, PathRule
  <2> QED BY <1>1, <1>2, <1>3, PathTyped
<1> HIDE DEF path
<1>7. path[0] = <<>> /\ \A x \in 0..N : path[x] \in Seq(1..N)
  BY <1>6 DEF PathRule
<1>8. ASSUME NEW x \in 1..N
      PROVE  path[x] = IF msg[x].provider # <<>> THEN msg[x].provider
                       ELSE Append(path[msg[x].parent], x)
  <2>1. stop[x] = msg[x].provider /\ par[x] = msg[x].parent
    OBVIOUS
  <2> HIDE DEF stop, par, N
  <2>2. path[x] = IF stop[x] # <<>> THEN stop[x] ELSE Append(path[par[x]], x)
    BY <1>6 DEF PathRule
  <2> QED BY <2>1, <2>2
<1> QED BY <1>5, <1>7, <1>8 DEF LineageRule

\* Among messages of the tree is one whose parent is not among them.
LEMMA NoLoop ==
  ASSUME Inv, NEW B \in SUBSET (1..Len(msg)), \A x \in B : msg[x].parent \in B
  PROVE  B = {}
<1> DEFINE par == [x \in 1..Len(msg) |-> msg[x].parent]
           age == [x \in 1..Len(msg) |-> msg[x].created]
<1>1. /\ Len(msg) \in Nat /\ \A x \in 1..Len(msg) : age[x] \in Nat
      /\ \A x \in 1..Len(msg) : par[x] # 0 => age[par[x]] < age[x]
  <2>1. /\ Len(msg) \in Nat /\ clock \in Nat /\ age \in [1..Len(msg) -> 0..clock]
        /\ \A x \in 1..Len(msg) : par[x] # 0 => age[par[x]] < age[x]
    BY TreeShape
  <2> HIDE DEF par, age
  <2> QED BY <2>1
<1>2. \A x \in B : par[x] \in B
  OBVIOUS
<1> HIDE DEF par, age
<1> QED BY <1>1, <1>2, Uppermost

\* A step that leaves messages and all above them where they are keeps their branches.
LEMMA SameBranch ==
  ASSUME Inv, Inv', NEW A, A \subseteq 1..Len(msg), A \subseteq 1..Len(msg'),
         \A x \in A : msg[x].parent \in A \cup {0} /\ msg'[x].parent = msg[x].parent
  PROVE  \A x \in A \cup {0} : Branch(x)' = Branch(x)
<1>1. BranchRule
  BY BranchRec
<1>2. BranchRule'
  <2>1. (Inv => BranchRule)'
    BY BranchRec, PTL
  <2> QED BY <2>1
<1> DEFINE B == {x \in A : Branch(x)' # Branch(x)}
<1>3. Branch(0)' = Branch(0)
  BY <1>1, <1>2 DEF BranchRule
<1>4. ASSUME NEW x \in B, msg[x].parent \notin B PROVE FALSE
  <2>1. x \in 1..Len(msg) /\ x \in 1..Len(msg') /\ msg'[x].parent = msg[x].parent
    OBVIOUS
  <2> DEFINE p == msg[x].parent
  <2>2. Branch(p)' = Branch(p)
    BY <1>3, <1>4
  <2>3. Branch(x)' = Append(Branch(p)', x) /\ Branch(x) = Append(Branch(p), x)
    BY <1>1, <1>2, <2>1 DEF BranchRule
  <2> QED BY <2>2, <2>3
<1>5. B = {}
  <2>1. B \in SUBSET (1..Len(msg)) /\ \A x \in B : msg[x].parent \in B
    BY <1>4
  <2> HIDE DEF B, Inv
  <2> QED BY <2>1, NoLoop
<1> QED BY <1>3, <1>5

-----------------------------------------------------------------------------
(* What a context carries of a branch. *)

Users == {m \in DOMAIN msg : msg[m].role = "user"}

\* What ContextIsBranch says of a context and a branch.
Carried(users, context, branch) ==
  /\ ToSet(context) \subseteq ToSet(branch)
  /\ ToSet(branch) \cap users \subseteq ToSet(context)
  /\ InOrder(context, branch)

\* A message is added to a sequence.
LEMMA Added ==
  ASSUME NEW S, NEW s \in Seq(S), NEW x
  PROVE  /\ DOMAIN s = 1..Len(s) /\ Len(s) \in Nat
         /\ DOMAIN Append(s, x) = 1..(Len(s) + 1)
         /\ \A i \in 1..Len(s) : Append(s, x)[i] = s[i]
         /\ Append(s, x)[Len(s) + 1] = x
         /\ ToSet(Append(s, x)) = ToSet(s) \cup {x}
<1> DEFINE T == S \cup {x}
           t == Append(s, x)
<1>1. s \in Seq(T) /\ x \in T
  OBVIOUS
<1> HIDE DEF T
<1>2. /\ t \in Seq(T) /\ Len(t) = Len(s) + 1 /\ Len(s) \in Nat
      /\ \A i \in 1..Len(s) : t[i] = s[i]
      /\ t[Len(s) + 1] = x
  BY <1>1, AppendProperties, LenProperties
<1>3. DOMAIN s = 1..Len(s) /\ DOMAIN t = 1..(Len(s) + 1)
  BY <1>1, <1>2, LenProperties
<1> HIDE DEF t
<1>4. \A i \in 1..(Len(s) + 1) : i \in 1..Len(s) \/ i = Len(s) + 1
  BY <1>2
<1>5. \A i \in 1..Len(s) : i \in 1..(Len(s) + 1)
  BY <1>2
<1>6. Len(s) + 1 \in 1..(Len(s) + 1)
  BY <1>2
<1>7. ToSet(t) = ToSet(s) \cup {x}
  BY <1>2, <1>3, <1>4, <1>5, <1>6 DEF ToSet
<1> QED BY <1>2, <1>3, <1>7 DEF t

\* A longer branch keeps the order of what was on it.
LEMMA OrderKept ==
  ASSUME NEW S, NEW context \in Seq(S), NEW branch \in Seq(S), InOrder(context, branch), NEW x
  PROVE  InOrder(context, Append(branch, x))
<1> SUFFICES ASSUME NEW i \in DOMAIN context, NEW j \in DOMAIN context, i < j
             PROVE  \E k, l \in DOMAIN Append(branch, x) :
                      k < l /\ Append(branch, x)[k] = context[i] /\ Append(branch, x)[l] = context[j]
  BY DEF InOrder
<1>1. PICK k \in DOMAIN branch, l \in DOMAIN branch :
        k < l /\ branch[k] = context[i] /\ branch[l] = context[j]
  BY DEF InOrder
<1>2. /\ k \in DOMAIN Append(branch, x) /\ Append(branch, x)[k] = branch[k]
      /\ l \in DOMAIN Append(branch, x) /\ Append(branch, x)[l] = branch[l]
  BY Added
<1> QED BY <1>1, <1>2

\* A branch may grow by what is not a user's.
LEMMA CarriedBelow ==
  ASSUME NEW S, NEW context \in Seq(S), NEW branch \in Seq(S), NEW users, NEW x,
         x \notin users, Carried(users, context, branch)
  PROVE  Carried(users, context, Append(branch, x))
<1>1. ToSet(Append(branch, x)) = ToSet(branch) \cup {x}
  BY Added
<1>2. InOrder(context, Append(branch, x))
  BY OrderKept DEF Carried
<1> QED BY <1>1, <1>2 DEF Carried

\* A context and its branch may grow by the same message.
LEMMA CarriedOn ==
  ASSUME NEW S, NEW context \in Seq(S), NEW branch \in Seq(S), NEW users, NEW x,
         Carried(users, context, branch)
  PROVE  Carried(users, Append(context, x), Append(branch, x))
<1> DEFINE c == Append(context, x)
           b == Append(branch, x)
<1>1. ToSet(c) = ToSet(context) \cup {x} /\ ToSet(b) = ToSet(branch) \cup {x}
  BY Added
<1>2. InOrder(context, b)
  BY OrderKept DEF Carried
<1>3. /\ DOMAIN context = 1..Len(context) /\ DOMAIN c = 1..(Len(context) + 1) /\ Len(context) \in Nat
      /\ \A i \in 1..Len(context) : c[i] = context[i]
      /\ c[Len(context) + 1] = x
  BY Added
<1>4. /\ DOMAIN branch = 1..Len(branch) /\ DOMAIN b = 1..(Len(branch) + 1) /\ Len(branch) \in Nat
      /\ \A i \in 1..Len(branch) : b[i] = branch[i]
      /\ b[Len(branch) + 1] = x
  BY Added
<1> HIDE DEF c, b
<1>5. ASSUME NEW i \in DOMAIN c, NEW j \in DOMAIN c, i < j
      PROVE  \E k, l \in DOMAIN b : k < l /\ b[k] = c[i] /\ b[l] = c[j]
  <2>1. i \in 1..Len(context) /\ c[i] = context[i]
    BY <1>3, <1>5
  <2>2. CASE j \in 1..Len(context)
    <3>1. c[j] = context[j] /\ i \in DOMAIN context /\ j \in DOMAIN context
      BY <1>3, <2>1, <2>2
    <3> QED BY <1>2, <1>5, <2>1, <3>1 DEF InOrder
  <2>3. CASE j = Len(context) + 1
    <3>1. context[i] \in ToSet(branch)
      BY <1>3, <2>1 DEF Carried, ToSet
    <3>2. PICK k \in 1..Len(branch) : branch[k] = context[i]
      BY <1>4, <3>1 DEF ToSet
    <3> DEFINE l == Len(branch) + 1
    <3>3. k \in DOMAIN b /\ l \in DOMAIN b /\ k < l /\ b[k] = c[i] /\ b[l] = c[j]
      BY <1>3, <1>4, <2>1, <2>3, <3>2
    <3> QED BY <3>3
  <2> QED BY <1>3, <2>2, <2>3
<1>6. InOrder(c, b)
  BY <1>5 DEF InOrder
<1> QED BY <1>1, <1>6 DEF Carried, c, b

\* Nothing is carried of nothing.
LEMMA CarriedNothing ==
  ASSUME NEW users
  PROVE  Carried(users, <<>>, <<>>)
<1>1. ToSet(<<>>) = {} /\ DOMAIN <<>> = {}
  BY DEF ToSet
<1>2. InOrder(<<>>, <<>>)
  BY <1>1 DEF InOrder
<1> QED BY <1>1, <1>2 DEF Carried

\* A checkpoint carries the branch that ends with its answer.
MessageText(m) ==
  /\ msg[m].provider \in Seq(1..Len(msg))
  /\ msg[m].provider # <<>> => Carried(Users, msg[m].provider, Branch(m))

\* So the lineage of a message carries its branch.
LEMMA LineageCarries ==
  ASSUME Inv, \A m \in 1..Len(msg) : MessageText(m)
  PROVE  \A x \in 0..Len(msg) : Lineage(x) \in Seq(1..Len(msg)) /\ Carried(Users, Lineage(x), Branch(x))
<1>1. LineageRule /\ BranchRule
  <2>1. CheckpointType
    BY DEF CheckpointType, MessageText
  <2> QED BY <2>1, LineageRec, BranchRec
<1>2. Len(msg) \in Nat /\ \A x \in 1..Len(msg) : msg[x].parent \in 0..Len(msg)
  BY Domains DEF Inv, TreeInv
<1> DEFINE B == {x \in 1..Len(msg) : ~Carried(Users, Lineage(x), Branch(x))}
<1>3. Carried(Users, Lineage(0), Branch(0))
  BY <1>1, CarriedNothing DEF LineageRule, BranchRule
<1>4. ASSUME NEW x \in B, msg[x].parent \notin B PROVE FALSE
  <2> DEFINE p == msg[x].parent
  <2>1. x \in 1..Len(msg) /\ p \in 0..Len(msg) /\ ~Carried(Users, Lineage(x), Branch(x))
    BY <1>2
  <2>2. CASE msg[x].provider # <<>>
    BY <1>1, <2>1, <2>2 DEF LineageRule, MessageText
  <2>3. CASE msg[x].provider = <<>>
    <3>1. Carried(Users, Lineage(p), Branch(p))
      BY <1>2, <1>3, <1>4, <2>1
    <3>2. Lineage(x) = Append(Lineage(p), x) /\ Branch(x) = Append(Branch(p), x)
      BY <1>1, <2>1, <2>3 DEF LineageRule, BranchRule
    <3>3. Lineage(p) \in Seq(1..Len(msg)) /\ Branch(p) \in Seq(1..Len(msg))
      BY <1>1, <2>1 DEF LineageRule, BranchRule
    <3> HIDE DEF p
    <3>4. Carried(Users, Append(Lineage(p), x), Append(Branch(p), x))
      BY <3>1, <3>3, CarriedOn
    <3> QED BY <2>1, <3>2, <3>4
  <2> QED BY <2>2, <2>3
<1>5. B = {}
  <2>1. B \in SUBSET (1..Len(msg)) /\ \A x \in B : msg[x].parent \in B
    BY <1>4
  <2> HIDE DEF B, Inv
  <2> QED BY <2>1, NoLoop
<1>6. \A x \in 0..Len(msg) : Carried(Users, Lineage(x), Branch(x))
  BY <1>2, <1>3, <1>5
<1> QED BY <1>1, <1>6 DEF LineageRule

\* What a run has sent carries the branch of its answer, which is not a user's
\* and has no checkpoint before the run ends.
RunText(r) ==
  LET a == run[r].assistant
  IN  /\ msg[a].role = "assistant"
      /\ run[r].context \in Seq(1..Len(msg))
      /\ run[r].status # "ended" => msg[a].provider = <<>>
      /\ run[r].status = "pending" => run[r].context = <<>> /\ msg[a].parent = run[r].user
      /\ run[r].status = "running" \/ run[r].context # <<>>
           => Carried(Users, run[r].context, Branch(msg[a].parent))

TextInv ==
  /\ \A m \in 1..Len(msg) : MessageText(m)
  /\ \A r \in 1..Len(run) : RunText(r)
  /\ \A r, s \in 1..Len(run) : run[r].assistant = run[s].assistant => r = s

\* What is carried of a branch is so still when the branch and the roles of its messages stay.
LEMMA CarriedStill ==
  ASSUME Inv, Inv', Len(msg) <= Len(msg'),
         \A m \in 1..Len(msg) : msg'[m].role = msg[m].role,
         NEW x \in 0..Len(msg), Branch(x)' = Branch(x),
         NEW context, Carried(Users, context, Branch(x))
  PROVE  Carried(Users', context, Branch(x)')
<1>1. /\ Len(msg) \in Nat /\ DOMAIN msg = 1..Len(msg)
      /\ Len(msg') \in Nat /\ DOMAIN msg' = 1..Len(msg')
  BY Domains DEF Inv, TypeInv, IsSequence
<1>2. Branch(x) \in Seq(1..Len(msg))
  BY BranchRec DEF BranchRule
<1>3. ToSet(Branch(x)) \subseteq 1..Len(msg)
  BY <1>2 DEF ToSet
<1>4. \A m \in 1..Len(msg) : m \in Users' => m \in Users
  BY <1>1 DEF Users
<1>5. ToSet(Branch(x)) \cap Users' \subseteq ToSet(context)
  BY <1>3, <1>4 DEF Carried
<1> HIDE DEF Inv
<1> QED BY <1>5 DEF Carried

\* A sequence of messages is one of the messages of a larger tree.
LEMMA StillMessages ==
  ASSUME NEW n \in Nat, NEW k \in Nat, n <= k, NEW s \in Seq(1..n)
  PROVE  s \in Seq(1..k)
<1>1. 1..n \subseteq 1..k
  OBVIOUS
<1> QED BY <1>1

\* A step keeps the texts of the messages and the runs but for run r and its answer.
LEMMA TextStep ==
  ASSUME Inv, Inv', TextInv, NEW r \in 1..Len(run'), NEW a, a = run'[r].assistant,
         Len(msg) <= Len(msg'), a \in 1..Len(msg'),
         \A m \in 1..Len(msg) :
           /\ msg'[m].role = msg[m].role
           /\ m # a => /\ msg[m].parent # a /\ msg'[m].parent = msg[m].parent
                       /\ msg'[m].provider = msg[m].provider,
         \A m \in (Len(msg) + 1)..Len(msg') : m # a => msg'[m].provider = <<>>,
         \A s \in 1..Len(run') : s # r => /\ s \in 1..Len(run) /\ run'[s] = run[s]
                                          /\ run[s].status = "ended" /\ run[s].assistant # a,
         RunText(r)', MessageText(a)'
  PROVE  TextInv'
<1>0. /\ Len(msg) \in Nat /\ Len(msg') \in Nat
      /\ \A m \in 1..Len(msg) : msg[m].parent \in 0..Len(msg)
      /\ \A s \in 1..Len(run) : run[s].assistant \in 1..Len(msg)
  BY Domains DEF Inv, TypeInv, TreeInv, IsSequence
<1> DEFINE A == {m \in 1..Len(msg) : m # a}
<1>1. \A x \in A \cup {0} : Branch(x)' = Branch(x)
  <2>1. A \subseteq 1..Len(msg) /\ A \subseteq 1..Len(msg')
    BY <1>0
  <2>2. \A x \in A : msg[x].parent \in A \cup {0} /\ msg'[x].parent = msg[x].parent
    BY <1>0
  <2> HIDE DEF A, Inv
  <2> QED BY <2>1, <2>2, SameBranch
<1>2. ASSUME NEW m \in 1..Len(msg'), m # a PROVE MessageText(m)'
  <2>1. CASE m \in 1..Len(msg)
    <3>1. msg'[m].provider = msg[m].provider /\ MessageText(m) /\ Branch(m)' = Branch(m)
      BY <1>1, <1>2, <2>1 DEF TextInv
    <3>2. msg'[m].provider \in Seq(1..Len(msg'))
      BY <1>0, <3>1, StillMessages DEF MessageText
    <3>3. ASSUME msg'[m].provider # <<>> PROVE Carried(Users', msg'[m].provider, Branch(m)')
      <4>1. Carried(Users, msg[m].provider, Branch(m)) /\ m \in 0..Len(msg)
        BY <1>0, <2>1, <3>1, <3>3 DEF MessageText
      <4> HIDE DEF Inv
      <4> QED BY <3>1, <4>1, CarriedStill
    <3> QED BY <3>2, <3>3 DEF MessageText
  <2>2. CASE m \in (Len(msg) + 1)..Len(msg')
    <3>1. msg'[m].provider = <<>>
      BY <1>2, <2>2
    <3> QED BY <3>1 DEF MessageText
  <2> QED BY <1>0, <2>1, <2>2
<1>3. ASSUME NEW s \in 1..Len(run'), s # r PROVE RunText(s)'
  <2>0. PICK b : b = run[s].assistant
    OBVIOUS
  <2> PICK p : p = msg[b].parent
    OBVIOUS
  <2>1. /\ s \in 1..Len(run) /\ run'[s] = run[s] /\ run[s].status = "ended"
        /\ b \in 1..Len(msg) /\ b # a /\ RunText(s)
    BY <1>0, <1>3, <2>0 DEF TextInv
  <2>2. /\ msg'[b].role = "assistant" /\ msg'[b].parent = p
        /\ p \in 0..Len(msg) /\ p # a /\ Branch(p)' = Branch(p)
    <3>1. msg[b].role = "assistant"
      BY <2>0, <2>1 DEF RunText
    <3>2. /\ msg'[b].role = "assistant" /\ msg'[b].parent = p
          /\ p \in 0..Len(msg) /\ p # a
      BY <1>0, <2>1, <3>1
    <3>3. p \in A \cup {0}
      BY <1>0, <3>2
    <3>4. Branch(p)' = Branch(p)
      BY <1>1, <3>3
    <3> QED BY <3>2, <3>4
  <2>3. run[s].context \in Seq(1..Len(msg'))
    BY <1>0, <2>1, StillMessages DEF RunText
  <2>4. ASSUME run[s].context # <<>> PROVE Carried(Users', run[s].context, Branch(p)')
    <3>1. Carried(Users, run[s].context, Branch(p))
      BY <2>0, <2>1, <2>4 DEF RunText
    <3> HIDE DEF Inv
    <3> QED BY <2>2, <3>1, CarriedStill
  <2>5. run'[s].assistant = b /\ run'[s].context = run[s].context /\ run'[s].status = "ended"
    BY <2>0, <2>1
  <2> QED BY <2>2, <2>3, <2>4, <2>5 DEF RunText
<1>4. ASSUME NEW s \in 1..Len(run'), NEW t \in 1..Len(run'), run'[s].assistant = run'[t].assistant
      PROVE  s = t
  BY <1>4 DEF TextInv
<1> HIDE DEF Inv
<1> QED BY <1>2, <1>3, <1>4 DEF TextInv

-----------------------------------------------------------------------------
(* The steps of the runs. *)

\* A step beside the tables.
LEMMA AsideText ==
  ASSUME Inv, Inv', TextInv, UNCHANGED <<msg, run>>
  PROVE  TextInv'
<1>1. Len(msg) \in Nat /\ Users' = Users
  BY Domains DEF Inv, Users
<1>2. \A x \in 0..Len(msg) : Branch(x)' = Branch(x)
  <2> DEFINE A == 1..Len(msg)
  <2>1. \A x \in A : msg[x].parent \in A \cup {0} /\ msg'[x].parent = msg[x].parent
    BY Domains DEF Inv, TreeInv
  <2>2. A \subseteq 1..Len(msg) /\ A \subseteq 1..Len(msg')
    OBVIOUS
  <2>3. \A x \in A \cup {0} : Branch(x)' = Branch(x)
    <3> HIDE DEF A, Inv
    <3> QED BY <2>1, <2>2, SameBranch
  <2> QED BY <1>1, <2>3
<1>3. ASSUME NEW m \in 1..Len(msg) PROVE MessageText(m)'
  <2>1. MessageText(m) /\ Branch(m)' = Branch(m)
    BY <1>1, <1>2 DEF TextInv
  <2> QED BY <1>1, <2>1 DEF MessageText
<1>4. ASSUME NEW r \in 1..Len(run) PROVE RunText(r)'
  <2> PICK p : p = msg[run[r].assistant].parent
    OBVIOUS
  <2>1. RunText(r) /\ p \in 0..Len(msg)
    BY <1>1, Domains DEF TextInv, Inv, TreeInv
  <2>2. Branch(p)' = Branch(p)
    BY <1>2, <2>1
  <2> HIDE DEF Inv
  <2> QED BY <1>1, <2>1, <2>2 DEF RunText
<1> HIDE DEF Inv
<1> QED BY <1>3, <1>4 DEF TextInv

\* A run that starts has sent nothing.
LEMMA StartText ==
  ASSUME Inv, Inv', TextInv, ActiveRuns = {}, StartsRun
  PROVE  TextInv'
<1> PICK new, user, request, key :
      \E p \in 0..Len(msg) : Begun(new, p, user) /\ Start(new, user, request, key)
  BY DEF StartsRun
<1> PICK p \in 0..Len(msg) : Begun(new, p, user) /\ Start(new, user, request, key)
  OBVIOUS
<1> PICK a : a = Len(msg) + Len(new)
  OBVIOUS
<1> PICK r : r = Len(run) + 1
  OBVIOUS
<1>1. /\ Len(msg) \in Nat /\ Len(run) \in Nat /\ DOMAIN run = 1..Len(run)
      /\ IsSequence(msg) /\ IsSequence(run)
      /\ \A m \in 1..Len(msg) : IsMessage(msg[m]) /\ msg[m].parent \in 0..Len(msg)
      /\ \A s \in 1..Len(run) : run[s].assistant \in 1..Len(msg)
  BY Domains DEF Inv, TypeInv, TreeInv
<1>2. msg' = msg \o new /\ run' = Append(run, NewRun(user, a, request, key))
  BY DEF Start
<1>3. /\ Len(new) \in Nat /\ Len(msg') = a /\ a > Len(msg)
      /\ \A m \in 1..Len(msg) : msg'[m] = msg[m]
      /\ \A i \in 1..Len(new) : msg'[Len(msg) + i] = new[i] /\ new[i].provider = <<>>
  <2>1. Chain(new, p) /\ Len(new) >= 1
    BY DEF Begun
  <2>2. Grown(msg, new, p)
    <3> HIDE DEF Chain, Inv, Grown
    <3> QED BY <1>1, <1>2, <2>1, GrownTree
  <2> QED BY <1>1, <2>1, <2>2 DEF Grown, Chain
<1>4. /\ Len(run') = r /\ \A s \in 1..Len(run) : run'[s] = run[s]
      /\ run'[r] = NewRun(user, a, request, key)
  BY <1>1, <1>2, LongerSequence
<1>5. /\ run'[r].assistant = a /\ run'[r].status = "pending"
      /\ run'[r].user = user /\ run'[r].context = <<>>
  BY <1>4, NewRunRow
<1>6. msg'[a].role = "assistant" /\ msg'[a].parent = user
  <2>1. msg'[a] = new[Len(new)]
    BY <1>1, <1>3
  <2> QED BY <2>1 DEF Begun
<1>7. ASSUME NEW m \in (Len(msg) + 1)..Len(msg') PROVE msg'[m].provider = <<>>
  <2>1. m - Len(msg) \in 1..Len(new) /\ Len(msg) + (m - Len(msg)) = m
    BY <1>1, <1>3
  <2> QED BY <1>3, <2>1
<1>8. r \in 1..Len(run') /\ a \in 1..Len(msg') /\ a \in (Len(msg) + 1)..Len(msg') /\ Len(msg) <= Len(msg')
  BY <1>1, <1>3, <1>4
<1>9. MessageText(a)'
  <2>1. msg'[a].provider = <<>>
    BY <1>7, <1>8
  <2> QED BY <2>1 DEF MessageText
<1>10. RunText(r)'
  BY <1>5, <1>6, <1>7, <1>8 DEF RunText
<1>11. \A m \in 1..Len(msg) : /\ msg'[m].role = msg[m].role
                              /\ m # a => /\ msg[m].parent # a /\ msg'[m].parent = msg[m].parent
                                          /\ msg'[m].provider = msg[m].provider
  <2> TAKE m \in 1..Len(msg)
  <2>1. msg'[m] = msg[m]
    BY <1>3
  <2>2. msg[m].parent \in 0..Len(msg)
    BY <1>1
  <2>3. msg[m].parent # a
    BY <1>1, <1>3, <2>2
  <2> QED BY <2>1, <2>3
<1>12. ASSUME NEW s \in 1..Len(run'), s # r
       PROVE  /\ s \in 1..Len(run) /\ run'[s] = run[s]
              /\ run[s].status = "ended" /\ run[s].assistant # a
  <2>1. s \in 1..Len(run) /\ run'[s] = run[s]
    BY <1>1, <1>4, <1>12
  <2>2. run[s].status = "ended"
    BY <1>1, <2>1 DEF ActiveRuns
  <2> QED BY <1>1, <1>3, <2>1, <2>2
<1> HIDE DEF Inv, Begun, Start
<1> QED BY <1>5, <1>7, <1>8, <1>9, <1>10, <1>11, <1>12, TextStep

\* The active run r and its answer a.
LEMMA Writing ==
  ASSUME Inv, NEW r \in ActiveRuns
  PROVE  /\ r \in 1..Len(run) /\ run[r].assistant \in 1..Len(msg)
         /\ msg[run[r].assistant].parent \in 0..Len(msg)
         /\ \A m \in 1..Len(msg) : msg[m].parent # run[r].assistant
         /\ \A s \in 1..Len(run) : s # r => run[s].status = "ended"
<1>1. /\ DOMAIN msg = 1..Len(msg) /\ DOMAIN run = 1..Len(run)
      /\ \A s \in 1..Len(run) : run[s].assistant \in 1..Len(msg)
      /\ \A m \in 1..Len(msg) : msg[m].parent \in 0..Len(msg)
  BY Domains DEF Inv, TreeInv
<1>2. r \in 1..Len(run)
  BY <1>1 DEF ActiveRuns
<1>3. \A m \in 1..Len(msg) : msg[m].parent # run[r].assistant
  BY <1>1 DEF Inv, TreeInv, Children
<1>4. \A s \in 1..Len(run) : s # r => run[s].status = "ended"
  BY <1>1 DEF Inv, TreeInv, ActiveRuns
<1> QED BY <1>1, <1>2, <1>3, <1>4

\* A run that is claimed sends the lineage of its question.
LEMMA ClaimText ==
  ASSUME Inv, Inv', TextInv, ClaimRun
  PROVE  TextInv'
<1>0. PICK r \in DOMAIN run :
        /\ run[r].status = "pending"
        /\ run' = [run EXCEPT ![r].status = "running", ![r].context = Lineage(run[r].user)]
        /\ UNCHANGED <<msg, clock, leaf, call, gone>>
  BY DEF ClaimRun
<1> PICK a : a = run[r].assistant
  OBVIOUS
<1> PICK u : u = run[r].user
  OBVIOUS
<1> PICK context : context = Lineage(u)
  OBVIOUS
<1> DEFINE begun == [run[r] EXCEPT !.status = "running"]
           next == [begun EXCEPT !.context = context]
<1>1. r \in ActiveRuns /\ IsSequence(run) /\ \A s \in 1..Len(run) : IsRun(run[s])
  BY <1>0 DEF ActiveRuns, Inv, TypeInv
<1>2. /\ r \in 1..Len(run) /\ a \in 1..Len(msg) /\ msg[a].parent \in 0..Len(msg)
      /\ \A m \in 1..Len(msg) : msg[m].parent # a
      /\ \A s \in 1..Len(run) : s # r => run[s].status = "ended"
  BY <1>1, Writing
<1>3. RunText(r) /\ msg[a].parent = u /\ msg[a].provider = <<>> /\ msg[a].role = "assistant"
  BY <1>0, <1>2 DEF TextInv, RunText
<1>4. context \in Seq(1..Len(msg)) /\ Carried(Users, context, Branch(u))
  BY <1>2, <1>3, LineageCarries DEF TextInv
<1>5. run' = [run EXCEPT ![r] = next]
  BY <1>0
<1>6. next.assistant = a /\ next.status = "running" /\ next.context = context
  <2>1. IsRun(begun) /\ begun.assistant = a /\ begun.status = "running"
    BY <1>1, <1>2, RunWithStatus
  <2> HIDE DEF begun
  <2> QED BY <2>1, RunWithContext
<1> HIDE DEF next
<1>7. Len(run') = Len(run) /\ run'[r] = next /\ \A s \in 1..Len(run) : s # r => run'[s] = run[s]
  BY <1>1, <1>2, <1>5, ReplacedElement
<1>8. msg' = msg /\ Users' = Users
  BY <1>0 DEF Users
<1>9. Branch(u)' = Branch(u) /\ Branch(a)' = Branch(a)
  <2> DEFINE A == 1..Len(msg)
  <2>1. \A x \in A : msg[x].parent \in A \cup {0} /\ msg'[x].parent = msg[x].parent
    BY <1>8, Domains DEF Inv, TreeInv
  <2>2. A \subseteq 1..Len(msg) /\ A \subseteq 1..Len(msg')
    BY <1>8
  <2>3. \A x \in A \cup {0} : Branch(x)' = Branch(x)
    <3> HIDE DEF A, Inv
    <3> QED BY <2>1, <2>2, SameBranch
  <2>4. u \in A \cup {0} /\ a \in A
    BY <1>2, <1>3
  <2> QED BY <2>3, <2>4
<1>10. RunText(r)'
  <2>1. Carried(Users', context, Branch(u)')
    BY <1>4, <1>8, <1>9
  <2> QED BY <1>3, <1>4, <1>6, <1>7, <1>8, <2>1 DEF RunText
<1>11. MessageText(a)'
  <2>1. msg'[a].provider = <<>>
    BY <1>3, <1>8
  <2> QED BY <2>1 DEF MessageText
<1>12. \A s \in 1..Len(run') : s # r => /\ s \in 1..Len(run) /\ run'[s] = run[s]
                                        /\ run[s].status = "ended" /\ run[s].assistant # a
  BY <1>2, <1>7 DEF TextInv
<1>13. \A m \in (Len(msg) + 1)..Len(msg') : FALSE
  BY <1>8, Domains DEF Inv
<1>14. Len(msg) <= Len(msg') /\ a = run'[r].assistant /\ r \in 1..Len(run') /\ a \in 1..Len(msg')
  BY <1>2, <1>6, <1>7, <1>8, Domains DEF Inv
<1> HIDE DEF Inv
<1> QED BY <1>2, <1>8, <1>10, <1>11, <1>12, <1>13, <1>14, TextStep

\* Appending the numbers after size one by one.
LEMMA Numbered ==
  ASSUME NEW S, NEW s \in Seq(S), NEW size \in Nat
  PROVE  /\ s \o [i \in 1..1 |-> size + i] = Append(s, size + 1)
         /\ s \o [i \in 1..2 |-> size + i] = Append(Append(s, size + 1), size + 2)
<1> DEFINE T == S \cup Nat
<1>1. s \in Seq(T) /\ Len(s) \in Nat
  OBVIOUS
<1> HIDE DEF T
<1>2. [i \in 1..1 |-> size + i] = <<size + 1>> /\ [i \in 1..2 |-> size + i] = <<size + 1, size + 2>>
  OBVIOUS
<1>3. size + 1 \in T /\ size + 2 \in T
  BY DEF T
<1>4. s \o <<size + 1>> = Append(s, size + 1)
  BY <1>1, <1>3
<1>5. s \o <<size + 1, size + 2>> = Append(Append(s, size + 1), size + 2)
  BY <1>1, <1>3
<1> QED BY <1>2, <1>4, <1>5

\* Steering adds the same messages to the context and to the branch above the answer.
LEMMA ConsumeText ==
  ASSUME Inv, Inv', TextInv, NEW r \in DOMAIN run, NEW n \in 1..2, Consume(r, n)
  PROVE  TextInv'
<1> PICK a : a = run[r].assistant
  OBVIOUS
<1> PICK p : p = msg[a].parent
  OBVIOUS
<1> PICK size : size = Len(msg)
  OBVIOUS
<1> PICK context : context = run[r].context
  OBVIOUS
<1>1. run[r].status = "running" /\ r \in ActiveRuns
  BY DEF Consume, ActiveRuns
<1>2. /\ r \in 1..Len(run) /\ a \in 1..size /\ p \in 0..size /\ size \in Nat
      /\ \A m \in 1..size : msg[m].parent # a
      /\ \A s \in 1..Len(run) : s # r => run[s].status = "ended"
  BY <1>1, Writing, Domains DEF Inv
<1>3. /\ msg[a].role = "assistant" /\ msg[a].provider = <<>>
      /\ context \in Seq(1..size) /\ Carried(Users, context, Branch(p))
  BY <1>1, <1>2 DEF TextInv, RunText
<1>4. Steered(r, n, p)
  <2> HIDE DEF Inv, Consume, Steered
  <2> QED BY ConsumeTables
<1>5. /\ Len(msg') = size + n /\ \A m \in 1..size : m # a => msg'[m] = msg[m]
      /\ msg'[a].parent = size + n /\ msg'[a].role = "assistant" /\ msg'[a].provider = <<>>
      /\ \A m \in (size + 1)..(size + n) :
           msg'[m].parent = (IF m = size + 1 THEN p ELSE m - 1) /\ msg'[m].provider = <<>>
  BY <1>3, <1>4 DEF Steered
<1>6. /\ Len(run') = Len(run) /\ \A s \in 1..Len(run) : s # r => run'[s] = run[s]
      /\ run'[r].assistant = a /\ run'[r].status = "running"
      /\ run'[r].context = context \o [i \in 1..n |-> size + i]
  BY <1>1, <1>4 DEF Steered
<1>7. \A m \in 1..size : msg'[m].role = msg[m].role
  BY <1>3, <1>5
<1>8. Branch(p)' = Branch(p)
  <2> DEFINE A == {m \in 1..Len(msg) : m # a}
  <2>1. A \subseteq 1..Len(msg) /\ A \subseteq 1..Len(msg')
    BY <1>2, <1>5
  <2>2. \A x \in A : msg[x].parent \in A \cup {0} /\ msg'[x].parent = msg[x].parent
    <3>1. \A x \in 1..Len(msg) : msg[x].parent \in 0..Len(msg)
      BY Domains DEF Inv, TreeInv
    <3>2. \A x \in A : x \in 1..Len(msg) /\ x # a
      OBVIOUS
    <3>3. \A x \in A : msg[x].parent \in 0..Len(msg) /\ msg[x].parent # a
      BY <1>2, <3>1, <3>2
    <3>4. \A x \in A : msg'[x].parent = msg[x].parent
      BY <1>5, <3>2
    <3>5. \A x \in 0..Len(msg) : x = 0 \/ x \in 1..Len(msg)
      BY <1>2
    <3> QED BY <3>3, <3>4, <3>5
  <2>3. p \in A \cup {0}
    BY <1>2
  <2> HIDE DEF A, Inv
  <2> QED BY <2>1, <2>2, <2>3, SameBranch
<1>9. Carried(Users', context, Branch(p)')
  <2>1. Len(msg) <= Len(msg') /\ p \in 0..Len(msg) /\ \A m \in 1..Len(msg) : msg'[m].role = msg[m].role
    BY <1>2, <1>5, <1>7
  <2> HIDE DEF Inv
  <2> QED BY <1>3, <1>8, <2>1, CarriedStill
<1>10. /\ Branch(p)' \in Seq(1..(size + n))
       /\ \A m \in (size + 1)..(size + n) :
            Branch(m)' = Append(Branch(IF m = size + 1 THEN p ELSE m - 1)', m)
  <2>1. (Inv => BranchRule)'
    BY BranchRec, PTL
  <2>2. BranchRule'
    BY <2>1
  <2>3. /\ \A m \in 0..(size + n) : Branch(m)' \in Seq(1..(size + n))
        /\ p \in 0..(size + n)
    <3>1. \A m \in 0..Len(msg') : Branch(m)' \in Seq(1..Len(msg'))
      BY <2>2 DEF BranchRule
    <3>2. Len(msg') = size + n /\ p \in 0..(size + n)
      BY <1>2, <1>5
    <3> QED BY <3>1, <3>2
  <2>4. ASSUME NEW m \in (size + 1)..(size + n)
        PROVE  Branch(m)' = Append(Branch(IF m = size + 1 THEN p ELSE m - 1)', m)
    <3> PICK q : q = IF m = size + 1 THEN p ELSE m - 1
      OBVIOUS
    <3>1. m \in 1..Len(msg') /\ msg'[m].parent = q
      BY <1>2, <1>5
    <3>2. Branch(m)' = Append(Branch(q)', m)
      BY <2>2, <3>1 DEF BranchRule
    <3> QED BY <3>2
  <2> QED BY <2>3, <2>4
<1>11. Carried(Users', context \o [i \in 1..n |-> size + i], Branch(size + n)')
  <2>1. context \in Seq(1..(size + n))
    BY <1>2, <1>3, StillMessages
  <2> PICK b : b = Branch(p)'
    OBVIOUS
  <2>2. b \in Seq(1..(size + n)) /\ Carried(Users', context, b)
    BY <1>9, <1>10
  <2>3. Carried(Users', Append(context, size + 1), Append(b, size + 1))
    BY <2>1, <2>2, CarriedOn
  <2>4. Branch(size + 1)' = Append(b, size + 1)
    <3>1. size + 1 \in (size + 1)..(size + n)
      BY <1>2
    <3>2. Branch(size + 1)' = Append(Branch(p)', size + 1)
      BY <1>10, <3>1
    <3> QED BY <3>2
  <2>5. CASE n = 1
    <3>1. context \o [i \in 1..1 |-> size + i] = Append(context, size + 1)
      BY <1>2, <1>3, Numbered
    <3> QED BY <2>3, <2>4, <2>5, <3>1
  <2>6. CASE n = 2
    <3>1. Append(context, size + 1) \in Seq(1..(size + n)) /\ Append(b, size + 1) \in Seq(1..(size + n))
      BY <1>2, <2>1, <2>2, <2>6
    <3>2. Carried(Users', Append(Append(context, size + 1), size + 2), Append(Append(b, size + 1), size + 2))
      BY <2>3, <3>1, CarriedOn
    <3>3. Branch(size + 2)' = Append(Append(b, size + 1), size + 2)
      <4>1. size + 2 \in (size + 1)..(size + n) /\ size + 2 # size + 1 /\ (size + 2) - 1 = size + 1
        BY <1>2, <2>6
      <4>2. Branch(size + 2)' = Append(Branch(size + 1)', size + 2)
        BY <1>10, <4>1
      <4> QED BY <2>4, <4>2
    <3>4. context \o [i \in 1..2 |-> size + i] = Append(Append(context, size + 1), size + 2)
      BY <1>2, <1>3, Numbered
    <3> QED BY <2>6, <3>2, <3>3, <3>4
  <2> QED BY <2>5, <2>6
<1>12. context \o [i \in 1..n |-> size + i] \in Seq(1..(size + n))
  <2>1. context \in Seq(1..(size + n))
    BY <1>2, <1>3, StillMessages
  <2>2. [i \in 1..n |-> size + i] \in Seq(1..(size + n))
    <3>1. [i \in 1..n |-> size + i] \in [1..n -> 1..(size + n)] /\ n \in Nat
      BY <1>2
    <3> QED BY <3>1, SeqDef
  <2> QED BY <2>1, <2>2
<1>13. RunText(r)'
  BY <1>5, <1>6, <1>11, <1>12 DEF RunText
<1>14. MessageText(a)'
  <2>1. msg'[a].provider = <<>>
    BY <1>5
  <2> QED BY <2>1 DEF MessageText
<1>15. \A s \in 1..Len(run') : s # r => /\ s \in 1..Len(run) /\ run'[s] = run[s]
                                        /\ run[s].status = "ended" /\ run[s].assistant # a
  BY <1>2, <1>6 DEF TextInv
<1>16. /\ Len(msg) <= Len(msg') /\ a = run'[r].assistant /\ r \in 1..Len(run') /\ a \in 1..Len(msg')
       /\ \A m \in (Len(msg) + 1)..Len(msg') : m # a => msg'[m].provider = <<>>
  BY <1>2, <1>5, <1>6
<1>17. \A m \in 1..Len(msg) :
         /\ msg'[m].role = msg[m].role
         /\ m # a => /\ msg[m].parent # a /\ msg'[m].parent = msg[m].parent
                     /\ msg'[m].provider = msg[m].provider
  BY <1>2, <1>5, <1>7
<1> HIDE DEF Inv
<1> QED BY <1>13, <1>14, <1>15, <1>16, <1>17, TextStep

\* The answer of a run that ends keeps the run's context, and itself when it is complete.
LEMMA FinishText ==
  ASSUME Inv, Inv', TextInv, NEW r \in ActiveRuns, NEW context, Finish(r, context),
         context = run[r].context
           \/ (run[r].status = "running" /\ context = Append(run[r].context, run[r].assistant))
  PROVE  TextInv'
<1> PICK a : a = run[r].assistant
  OBVIOUS
<1> PICK p : p = msg[a].parent
  OBVIOUS
<1> PICK sent : sent = run[r].context
  OBVIOUS
<1>1. /\ IsSequence(msg) /\ \A m \in 1..Len(msg) : IsMessage(msg[m])
      /\ IsSequence(run) /\ \A s \in 1..Len(run) : IsRun(run[s])
      /\ Len(msg) \in Nat /\ DOMAIN msg = 1..Len(msg)
  BY Domains DEF Inv, TypeInv
<1>2. /\ r \in 1..Len(run) /\ a \in 1..Len(msg) /\ p \in 0..Len(msg)
      /\ \A m \in 1..Len(msg) : msg[m].parent # a
      /\ \A s \in 1..Len(run) : s # r => run[s].status = "ended"
  BY Writing
<1>3. /\ msg[a].role = "assistant" /\ sent \in Seq(1..Len(msg))
      /\ run[r].status = "running" \/ sent # <<>> => Carried(Users, sent, Branch(p))
  BY <1>2 DEF TextInv, RunText
<1>4. Finished(r, context)
  <2> HIDE DEF Inv, Finish, Finished
  <2> QED BY <1>2, <1>1, FinishTables DEF ActiveRuns
<1>5. /\ Len(run') = Len(run) /\ \A s \in 1..Len(run) : s # r => run'[s] = run[s]
      /\ run'[r].assistant = a /\ run'[r].status = "ended" /\ run'[r].context = sent
  BY <1>4 DEF Finished
<1>6. /\ Len(msg') = Len(msg) /\ DOMAIN msg' = 1..Len(msg)
      /\ \A m \in 1..Len(msg) : m # a => msg'[m] = msg[m]
      /\ msg'[a].parent = p /\ msg'[a].role = msg[a].role /\ msg'[a].provider = context
  BY <1>4 DEF Finished
<1>7. \A m \in 1..Len(msg) : msg'[m].role = msg[m].role /\ msg'[m].parent = msg[m].parent
  BY <1>6
<1>8. \A x \in 0..Len(msg) : Branch(x)' = Branch(x)
  <2> DEFINE A == 1..Len(msg)
  <2>1. \A x \in A : msg[x].parent \in A \cup {0} /\ msg'[x].parent = msg[x].parent
    BY <1>7, Domains DEF Inv, TreeInv
  <2>2. A \subseteq 1..Len(msg) /\ A \subseteq 1..Len(msg')
    BY <1>6
  <2>3. \A x \in A \cup {0} : Branch(x)' = Branch(x)
    <3> HIDE DEF A, Inv
    <3> QED BY <2>1, <2>2, SameBranch
  <2> QED BY <1>1, <2>3
<1>9. Users' = Users
  BY <1>1, <1>6, <1>7 DEF Users
<1>10. a \notin Users
  BY <1>3 DEF Users
<1>11. /\ Branch(a) = Append(Branch(p), a)
       /\ Branch(p) \in Seq(1..Len(msg))
  BY <1>2, BranchRec DEF BranchRule
<1>12. context \in Seq(1..Len(msg))
  <2>1. Append(sent, a) \in Seq(1..Len(msg))
    BY <1>2, <1>3
  <2>2. context = sent \/ context = Append(sent, a)
    OBVIOUS
  <2> QED BY <1>3, <2>1, <2>2
<1>13. context # <<>> => Carried(Users, context, Branch(a))
  <2>1. CASE context = sent
    <3>1. ASSUME sent # <<>> PROVE Carried(Users, sent, Append(Branch(p), a))
      BY <1>3, <1>10, <1>11, <3>1, CarriedBelow
    <3> QED BY <1>11, <2>1, <3>1
  <2>2. CASE run[r].status = "running" /\ context = Append(sent, a)
    <3>1. Carried(Users, Append(sent, a), Append(Branch(p), a))
      BY <1>3, <1>11, <2>2, CarriedOn
    <3> QED BY <1>11, <2>2, <3>1
  <2> QED BY <2>1, <2>2
<1>14. MessageText(a)'
  <2>1. msg'[a].provider = context /\ Branch(a)' = Branch(a)
    BY <1>2, <1>6, <1>8
  <2> QED BY <1>6, <1>9, <1>12, <1>13, <2>1 DEF MessageText
<1>15. RunText(r)'
  <2>1. /\ run'[r].assistant = a /\ run'[r].status = "ended" /\ run'[r].context = sent
        /\ msg'[a].parent = p /\ msg'[a].role = "assistant"
    BY <1>3, <1>5, <1>6
  <2>2. Branch(p)' = Branch(p)
    BY <1>2, <1>8
  <2>3. sent # <<>> => Carried(Users', sent, Branch(p)')
    BY <1>3, <1>9, <2>2
  <2> QED BY <1>3, <1>6, <2>1, <2>3 DEF RunText
<1>16. \A s \in 1..Len(run') : s # r => /\ s \in 1..Len(run) /\ run'[s] = run[s]
                                        /\ run[s].status = "ended" /\ run[s].assistant # a
  BY <1>2, <1>5 DEF TextInv
<1>17. /\ Len(msg) <= Len(msg') /\ a = run'[r].assistant /\ r \in 1..Len(run') /\ a \in 1..Len(msg')
       /\ \A m \in (Len(msg) + 1)..Len(msg') : FALSE
  BY <1>1, <1>2, <1>5, <1>6
<1>18. \A m \in 1..Len(msg) :
         /\ msg'[m].role = msg[m].role
         /\ m # a => /\ msg[m].parent # a /\ msg'[m].parent = msg[m].parent
                     /\ msg'[m].provider = msg[m].provider
  BY <1>2, <1>6, <1>7
<1> HIDE DEF Inv
<1> QED BY <1>14, <1>15, <1>16, <1>17, <1>18, TextStep

\* The empty session.
LEMMA InitText ==
  ASSUME Init
  PROVE  TextInv
BY DEF Init, TextInv

\* Every step keeps what is carried.
LEMMA StepText ==
  ASSUME Inv, Inv', TextInv, [Next]_vars
  PROVE  TextInv'
<1>1. ASSUME UNCHANGED <<msg, run>> PROVE TextInv'
  BY <1>1, AsideText
<1>2. ASSUME NEW c \in Caller, AskOpen(c) \/ AskCreate(c) \/ AskVersion(c) \/ Refuse(c) PROVE TextInv'
  BY <1>1, <1>2 DEF AskOpen, AskCreate, AskVersion, Ask, Refuse
<1>3. ASSUME SwitchVersion \/ DeleteSession \/ UNCHANGED vars PROVE TextInv'
  BY <1>1, <1>3 DEF SwitchVersion, DeleteSession, vars
<1>4. ASSUME NEW c \in Caller,
             CreateSessionRun(c) \/ CreateRun(c) \/ Regenerate(c) \/ EditUserMessage(c)
      PROVE  TextInv'
  <2>1. ActiveRuns = {} /\ Replayed(call[c].key) = {}
    BY <1>4 DEF CreateSessionRun, CreateRun, Regenerate, EditUserMessage, Begins
  <2>2. CASE CreateSessionRun(c) \/ CreateRun(c)
    <3>1. AppendCreate(Request(c), call[c].key)
      BY <2>2 DEF CreateSessionRun, CreateRun
    <3> HIDE DEF Inv, AppendCreate, StartsRun, TextInv
    <3> QED BY <2>1, <3>1, CreateStarts, StartText
  <2> HIDE DEF Inv, StartsRun, TextInv
  <2> QED BY <1>4, <2>1, <2>2, RegenerateStarts, EditStarts, StartText
<1>5. ASSUME Dispatch PROVE TextInv'
  <2>1. ActiveRuns = {} /\ AppendCreate([op |-> "create", target |-> NoMessage], "none")
    BY <1>5 DEF Dispatch
  <2> HIDE DEF Inv, AppendCreate, StartsRun, TextInv
  <2> QED BY <2>1, CreateStarts, StartText
<1>6. ASSUME ClaimRun PROVE TextInv'
  BY <1>6, ClaimText
<1>7. ASSUME ConsumeSteers PROVE TextInv'
  <2> PICK r \in DOMAIN run, n \in 1..2 : Consume(r, n)
    BY <1>7 DEF ConsumeSteers
  <2> HIDE DEF Inv, Consume, TextInv
  <2> QED BY ConsumeText
<1>8. ASSUME CompleteRun PROVE TextInv'
  <2> PICK r \in DOMAIN run :
        run[r].status = "running" /\ Finish(r, Append(run[r].context, run[r].assistant))
    BY <1>8 DEF CompleteRun
  <2>1. r \in ActiveRuns
    BY DEF ActiveRuns
  <2> HIDE DEF Inv, Finish, TextInv
  <2> QED BY <2>1, FinishText
<1>9. ASSUME StopRun PROVE TextInv'
  <2> PICK r \in ActiveRuns : Finish(r, run[r].context)
    BY <1>9 DEF StopRun
  <2> HIDE DEF Inv, Finish, TextInv
  <2> QED BY FinishText
<1> HIDE DEF Inv, TextInv
<1> QED BY <1>2, <1>3, <1>4, <1>5, <1>6, <1>7, <1>8, <1>9 DEF Next

\* What is carried is invariant.
LEMMA TextInvariant == Spec => []TextInv
<1>1. Init => TextInv
  BY InitText
<1>2. TextInv /\ Inv /\ Inv' /\ [Next]_vars => TextInv'
  BY StepText
<1> QED BY <1>1, <1>2, Invariant, PTL DEF Spec

\* What a run sends to the model is the path to its answer: every user message on
\* it, in order, and nothing of another branch.
THEOREM ContextCorrect == Spec => []ContextIsBranch
<1>1. Inv /\ TextInv => ContextIsBranch
  <2> SUFFICES ASSUME Inv, TextInv, NEW r \in DOMAIN run, run[r].context # <<>>
               PROVE  Carried(Users, run[r].context, Branch(msg[run[r].assistant].parent))
    BY DEF ContextIsBranch, Carried, Users
  <2>1. r \in 1..Len(run)
    BY Domains DEF Inv
  <2> QED BY <2>1 DEF TextInv, RunText
<1> QED BY <1>1, Invariant, TextInvariant, PTL

-----------------------------------------------------------------------------
(* The history of a run after compaction, module ContextWindow, whose state is its own. *)

Halved(unit) == {unit} \X {1, 2}

\* Unit i of the units h may be missing from ms: it was summarised.
Summarised(h, ms, i) ==
  /\ \E n \in DOMAIN ms : ms[n].kind = "summary" /\ Halved(i) \subseteq ms[n].of
  /\ h[i] \notin {"file", "open"}
  /\ h[i] = "private" => \E n \in DOMAIN ms : i \in ms[n].reads
  /\ h[i] = "call" => \E n \in DOMAIN ms : i \in ms[n].receipts
  /\ h[i] = "user" => \E j \in DOMAIN h : j > i /\ h[j] \in {"user", "file"}

InFull(h, ms, n, i) == ms[n] = Unit(h[i], i)

\* ms is a history of the units h: units in full, in the order in which they were made, and
\* summaries, and every unit in one or the other.
IsHistory(h, ms) ==
  /\ IsSequence(ms)
  /\ \A n \in DOMAIN ms : ms[n].kind = "summary" \/ \E i \in DOMAIN h : InFull(h, ms, n, i)
  /\ \A n, m \in DOMAIN ms, i, j \in DOMAIN h :
       n < m /\ InFull(h, ms, n, i) /\ InFull(h, ms, m, j) => i < j
  /\ \A i \in DOMAIN h : (\E n \in DOMAIN ms : InFull(h, ms, n, i)) \/ Summarised(h, ms, i)

IsMade(h) == IsSequence(h) /\ \A i \in 1..Len(h) : h[i] \in UnitKind

\* The calls under way need c summaries to end with one: need[k] is how many are there when
\* the innermost of the first k begins.
Needs(calls, c) ==
  \E need \in [0..Len(calls) -> Nat] :
    /\ need[0] = 1 /\ need[Len(calls)] = c
    /\ \A k \in 1..Len(calls) :
         /\ need[k - 1] >= 1
         /\ need[k] = IF calls[k].task = "merge" THEN need[k - 1] + 1 ELSE need[k - 1] - 1

Holds(pieces, f) == \E n \in 1..Len(pieces) : f \in pieces[n].of

\* Fragment f is in a summary or in what is still to be summarised.
Shown(calls, done, f) ==
  \/ \E k \in 1..Len(done) : f \in done[k]
  \/ \E k \in 1..Len(calls) : calls[k].task = "summarise" /\ Holds(calls[k].pieces, f)

IsStack(calls) ==
  /\ IsSequence(calls)
  /\ \A k \in 1..Len(calls) : calls[k].task = "summarise" => IsSequence(calls[k].pieces)

Balanced(calls, done) == IsStack(calls) /\ IsSequence(done) /\ Needs(calls, Len(done))

Compacting ==
  /\ fit.selected # {}
  /\ fit.selected \subseteq Selectable(fit.candidate, fit.private)
  /\ Balanced(work, parts)
  /\ \A n \in fit.selected : \A f \in fit.candidate[n].of : Shown(work, parts, f)

IsFit(f) ==
  f = [phase |-> f.phase, candidate |-> f.candidate, private |-> f.private,
       passes |-> f.passes, previous |-> f.previous, selected |-> f.selected]

WindowInv ==
  /\ IsMade(made)
  /\ IsHistory(made, messages)
  /\ IsFit(fit)
  /\ fit.phase # "idle" => IsHistory(made, fit.candidate)
  /\ fit.phase # "compact" => parts = <<>>
  /\ fit.phase = "compact" => Compacting

-----------------------------------------------------------------------------
(* Lemmas about the calls under way. *)

\* Part of a sequence.
LEMMA SomeElements ==
  ASSUME NEW s, IsSequence(s), NEW m \in Nat \ {0}, NEW n \in Nat, n <= Len(s), m <= n + 1
  PROVE  LET t == SubSeq(s, m, n)
         IN  /\ IsSequence(t) /\ Len(t) = n - m + 1 /\ DOMAIN t = 1..(n - m + 1)
             /\ \A i \in 1..(n - m + 1) : t[i] = s[m + i - 1]
<1> DEFINE S == {s[i] : i \in 1..Len(s)}
           t == SubSeq(s, m, n)
<1>1. Len(s) \in Nat /\ \A i \in m..n : s[i] \in S
  BY DEF IsSequence
<1>2. m \in Int /\ n \in Int
  OBVIOUS
<1> HIDE DEF S
<1>3. /\ t \in Seq(S) /\ Len(t) = IF m <= n THEN n - m + 1 ELSE 0
      /\ \A i \in 1..(n - m + 1) : t[i] = s[m + i - 1]
  BY <1>1, <1>2, SubSeqProperties
<1> HIDE DEF t
<1>4. Len(t) = n - m + 1
  BY <1>3
<1>5. t \in [1..Len(t) -> S] /\ Len(t) \in Nat
  BY <1>3, LenProperties
<1>6. IsSequence(t) /\ DOMAIN t = 1..Len(t)
  BY <1>5 DEF IsSequence
<1> QED BY <1>3, <1>4, <1>6 DEF t

\* All but the last element.
LEMMA FrontOf ==
  ASSUME NEW s, IsSequence(s), s # <<>>
  PROVE  LET t == Front(s)
         IN  /\ IsSequence(t) /\ Len(s) >= 1 /\ Len(t) = Len(s) - 1
             /\ \A i \in 1..(Len(s) - 1) : t[i] = s[i]
             /\ Last(s) = s[Len(s)]
<1>1. Len(s) \in Nat /\ Len(s) # 0
  BY DEF IsSequence
<1> DEFINE n == Len(s) - 1
<1>2. n \in Nat /\ n <= Len(s) /\ 1 <= n + 1 /\ n - 1 + 1 = n
  BY <1>1
<1>3. /\ IsSequence(SubSeq(s, 1, n)) /\ Len(SubSeq(s, 1, n)) = n
      /\ \A i \in 1..n : SubSeq(s, 1, n)[i] = s[1 + i - 1]
  BY <1>2, SomeElements
<1>4. \A i \in 1..n : 1 + i - 1 = i
  BY <1>2
<1> QED BY <1>1, <1>2, <1>3, <1>4 DEF Front, Last

\* Without calls there is one summary.
LEMMA NeedsNothing ==
  ASSUME NEW c, Needs(<<>>, c)
  PROVE  c = 1
BY DEF Needs

\* The last of the calls turns what the others need into what it needs.
LEMMA NeedsLess ==
  ASSUME NEW calls, IsSequence(calls), calls # <<>>, NEW c, Needs(calls, c)
  PROVE  \E n \in Nat \ {0} :
           /\ Needs(Front(calls), n)
           /\ c = IF Last(calls).task = "merge" THEN n + 1 ELSE n - 1
<1> DEFINE l == Len(calls)
           rest == Front(calls)
<1>1. /\ l \in Nat /\ l >= 1 /\ IsSequence(rest) /\ Len(rest) = l - 1
      /\ \A k \in 1..(l - 1) : rest[k] = calls[k]
      /\ Last(calls) = calls[l]
  BY FrontOf DEF IsSequence
<1>2. PICK need \in [0..l -> Nat] :
        /\ need[0] = 1 /\ need[l] = c
        /\ \A k \in 1..l :
             /\ need[k - 1] >= 1
             /\ need[k] = IF calls[k].task = "merge" THEN need[k - 1] + 1 ELSE need[k - 1] - 1
  BY DEF Needs
<1> HIDE DEF rest, l
<1> DEFINE before == [k \in 0..(l - 1) |-> need[k]]
<1>3. before \in [0..(l - 1) -> Nat] /\ \A k \in 0..(l - 1) : before[k] = need[k]
  BY <1>1, <1>2
<1> HIDE DEF before
<1>4. Needs(rest, need[l - 1])
  <2>1. before[0] = 1 /\ before[l - 1] = need[l - 1]
    BY <1>1, <1>2, <1>3
  <2>2. ASSUME NEW k \in 1..(l - 1)
        PROVE  /\ before[k - 1] >= 1
               /\ before[k] = IF rest[k].task = "merge" THEN before[k - 1] + 1 ELSE before[k - 1] - 1
    <3>1. k \in 1..l /\ k - 1 \in 0..(l - 1) /\ k \in 0..(l - 1) /\ rest[k] = calls[k]
      BY <1>1
    <3>2. before[k - 1] = need[k - 1] /\ before[k] = need[k]
      BY <1>3, <3>1
    <3>3. /\ need[k - 1] >= 1
          /\ need[k] = IF calls[k].task = "merge" THEN need[k - 1] + 1 ELSE need[k - 1] - 1
      BY <1>2, <3>1
    <3> QED BY <3>1, <3>2, <3>3
  <2>3. /\ before \in [0..Len(rest) -> Nat] /\ before[0] = 1 /\ before[Len(rest)] = need[l - 1]
        /\ \A k \in 1..Len(rest) :
             /\ before[k - 1] >= 1
             /\ before[k] = IF rest[k].task = "merge" THEN before[k - 1] + 1 ELSE before[k - 1] - 1
    <3> HIDE DEF IsSequence
    <3> QED BY <1>1, <1>3, <2>1, <2>2
  <2> QED BY <2>3 DEF Needs
<1>5. l \in 1..l /\ need[l - 1] \in Nat /\ need[l - 1] >= 1
  <2>1. l \in 1..l /\ l - 1 \in 0..l
    BY <1>1
  <2> QED BY <1>2, <2>1
<1>6. c = IF calls[l].task = "merge" THEN need[l - 1] + 1 ELSE need[l - 1] - 1
  BY <1>2, <1>5
<1> QED BY <1>1, <1>4, <1>5, <1>6 DEF rest

\* One more call.
LEMMA NeedsMore ==
  ASSUME NEW calls, IsSequence(calls), NEW c \in Nat \ {0}, Needs(calls, c), NEW next
  PROVE  Needs(Append(calls, next), IF next.task = "merge" THEN c + 1 ELSE c - 1)
<1> DEFINE l == Len(calls)
           longer == Append(calls, next)
           d == IF next.task = "merge" THEN c + 1 ELSE c - 1
<1>1. /\ l \in Nat /\ Len(longer) = l + 1 /\ longer[l + 1] = next
      /\ \A k \in 1..l : longer[k] = calls[k]
  BY LongerSequence DEF IsSequence
<1>2. PICK need \in [0..l -> Nat] :
        /\ need[0] = 1 /\ need[l] = c
        /\ \A k \in 1..l :
             /\ need[k - 1] >= 1
             /\ need[k] = IF calls[k].task = "merge" THEN need[k - 1] + 1 ELSE need[k - 1] - 1
  BY DEF Needs
<1>3. d \in Nat
  OBVIOUS
<1> HIDE DEF l, longer, d
<1> DEFINE after == [k \in 0..(l + 1) |-> IF k = l + 1 THEN d ELSE need[k]]
<1>4. /\ after \in [0..(l + 1) -> Nat] /\ after[l + 1] = d
      /\ \A k \in 0..l : after[k] = need[k]
  <2>1. \A k \in 0..(l + 1) : k = l + 1 \/ k \in 0..l
    BY <1>1
  <2>2. \A k \in 0..l : k # l + 1 /\ k \in 0..(l + 1)
    BY <1>1
  <2>3. l + 1 \in 0..(l + 1)
    BY <1>1
  <2> QED BY <1>2, <1>3, <2>1, <2>2, <2>3
<1> HIDE DEF after
<1>5. after[0] = 1
  BY <1>1, <1>2, <1>4
<1>6. ASSUME NEW k \in 1..(l + 1)
      PROVE  /\ after[k - 1] >= 1
             /\ after[k] = IF longer[k].task = "merge" THEN after[k - 1] + 1 ELSE after[k - 1] - 1
  <2>1. CASE k = l + 1
    <3>1. k - 1 = l /\ after[k - 1] = c /\ after[k] = d /\ longer[k] = next
      BY <1>1, <1>2, <1>4, <2>1
    <3> QED BY <3>1 DEF d
  <2>2. CASE k # l + 1
    <3>1. k \in 1..l /\ k - 1 \in 0..l /\ k \in 0..l /\ longer[k] = calls[k]
      BY <1>1, <2>2
    <3>2. after[k - 1] = need[k - 1] /\ after[k] = need[k]
      BY <1>4, <3>1
    <3>3. /\ need[k - 1] >= 1
          /\ need[k] = IF calls[k].task = "merge" THEN need[k - 1] + 1 ELSE need[k - 1] - 1
      BY <1>2, <3>1
    <3> QED BY <3>1, <3>2, <3>3
  <2> QED BY <2>1, <2>2
<1>7. Needs(longer, d)
  BY <1>1, <1>4, <1>5, <1>6 DEF Needs
<1> QED BY <1>7 DEF longer, d

\* The last of the calls shows what the others do not.
LEMMA ShownLess ==
  ASSUME NEW calls, IsSequence(calls), calls # <<>>, NEW done, NEW f, Shown(calls, done, f)
  PROVE  \/ Shown(Front(calls), done, f)
         \/ Last(calls).task = "summarise" /\ Holds(Last(calls).pieces, f)
<1> DEFINE l == Len(calls)
           rest == Front(calls)
<1>1. /\ l \in Nat /\ l >= 1 /\ Len(rest) = l - 1
      /\ \A k \in 1..(l - 1) : rest[k] = calls[k]
      /\ Last(calls) = calls[l]
  BY FrontOf DEF IsSequence
<1> HIDE DEF rest, Holds
<1>2. CASE \E k \in 1..Len(done) : f \in done[k]
  BY <1>2 DEF Shown, rest
<1>3. ASSUME NEW k \in 1..l, calls[k].task = "summarise", Holds(calls[k].pieces, f), k # l
      PROVE  Shown(rest, done, f)
  <2>1. k \in 1..(l - 1)
    BY <1>1, <1>3
  <2>2. k \in 1..Len(rest) /\ rest[k] = calls[k]
    BY <1>1, <2>1
  <2> QED BY <1>3, <2>2 DEF Shown
<1> QED BY <1>1, <1>2, <1>3 DEF Shown, rest

\* One more call hides nothing.
LEMMA ShownMore ==
  ASSUME NEW calls, IsSequence(calls), NEW done, NEW f, NEW next,
         Shown(calls, done, f) \/ (next.task = "summarise" /\ Holds(next.pieces, f))
  PROVE  Shown(Append(calls, next), done, f)
<1> DEFINE longer == Append(calls, next)
<1>1. /\ Len(calls) \in Nat /\ Len(longer) = Len(calls) + 1 /\ longer[Len(calls) + 1] = next
      /\ \A k \in 1..Len(calls) : longer[k] = calls[k]
  BY LongerSequence DEF IsSequence
<1>2. Len(calls) + 1 \in 1..Len(longer) /\ \A k \in 1..Len(calls) : k \in 1..Len(longer)
  BY <1>1
<1> HIDE DEF longer, Holds
<1>3. Shown(longer, done, f)
  BY <1>1, <1>2 DEF Shown
<1> QED BY <1>3 DEF longer

\* One more call on the stack.
LEMMA StackMore ==
  ASSUME NEW calls, IsStack(calls), NEW next,
         next.task = "summarise" => IsSequence(next.pieces)
  PROVE  IsStack(Append(calls, next))
<1> DEFINE longer == Append(calls, next)
<1>1. /\ Len(calls) \in Nat /\ IsSequence(longer) /\ Len(longer) = Len(calls) + 1
      /\ longer[Len(calls) + 1] = next /\ \A k \in 1..Len(calls) : longer[k] = calls[k]
  BY LongerSequence DEF IsStack, IsSequence
<1>2. \A k \in 1..Len(longer) : k = Len(calls) + 1 \/ k \in 1..Len(calls)
  BY <1>1
<1> HIDE DEF longer, IsSequence
<1>3. IsStack(longer)
  BY <1>1, <1>2 DEF IsStack
<1> QED BY <1>3 DEF longer

\* All calls but the last.
LEMMA StackLess ==
  ASSUME NEW calls, IsStack(calls), calls # <<>>
  PROVE  /\ IsStack(Front(calls))
         /\ Last(calls).task = "summarise" => IsSequence(Last(calls).pieces)
<1> DEFINE rest == Front(calls)
<1>1. /\ Len(calls) \in Nat /\ Len(calls) >= 1 /\ IsSequence(rest) /\ Len(rest) = Len(calls) - 1
      /\ \A k \in 1..(Len(calls) - 1) : rest[k] = calls[k]
      /\ Last(calls) = calls[Len(calls)]
  BY FrontOf DEF IsStack, IsSequence
<1>2. Len(calls) \in 1..Len(calls) /\ \A k \in 1..Len(rest) : k \in 1..Len(calls) /\ k \in 1..(Len(calls) - 1)
  BY <1>1
<1> HIDE DEF rest, IsSequence
<1>3. IsStack(rest)
  BY <1>1, <1>2 DEF IsStack
<1> QED BY <1>1, <1>2, <1>3 DEF rest, IsStack

\* Three more calls.
LEMMA ThreeMore ==
  ASSUME NEW s, IsSequence(s), NEW a, NEW b, NEW c
  PROVE  s \o <<a, b, c>> = Append(Append(Append(s, a), b), c)
<1> DEFINE t == Append(s, a)
           u == Append(t, b)
           v == Append(u, c)
           l == Len(s)
<1>1. l \in Nat
  BY DEF IsSequence
<1>2. IsSequence(t) /\ Len(t) = l + 1 /\ t[l + 1] = a /\ \A i \in 1..l : t[i] = s[i]
  BY LongerSequence
<1> HIDE DEF t
<1>3. IsSequence(u) /\ Len(u) = l + 1 + 1 /\ u[l + 1 + 1] = b /\ \A i \in 1..(l + 1) : u[i] = t[i]
  BY <1>2, LongerSequence
<1> HIDE DEF u
<1>4. /\ IsSequence(v) /\ Len(v) = l + 1 + 1 + 1 /\ v[l + 1 + 1 + 1] = c
      /\ \A i \in 1..(l + 1 + 1) : v[i] = u[i]
  BY <1>3, LongerSequence
<1> HIDE DEF v
<1>5. PICK w : w = <<a, b, c>> /\ IsSequence(w) /\ Len(w) = 3 /\ w[1] = a /\ w[2] = b /\ w[3] = c
  <2> DEFINE three == <<a, b, c>>
  <2>1. three = [i \in 1..3 |-> three[i]] /\ three[1] = a /\ three[2] = b /\ three[3] = c
    OBVIOUS
  <2> HIDE DEF three
  <2>2. IsSequence(three) /\ Len(three) = 3
    BY <2>1, FunctionSequence
  <2> QED BY <2>1, <2>2 DEF three
<1> DEFINE x == s \o w
<1>6. /\ IsSequence(x) /\ Len(x) = l + 3
      /\ \A i \in 1..l : x[i] = s[i]
      /\ \A i \in 1..3 : x[l + i] = w[i]
  <2>1. /\ IsSequence(s \o w) /\ Len(s \o w) = Len(s) + Len(w)
        /\ \A i \in 1..Len(s) : (s \o w)[i] = s[i]
        /\ \A i \in 1..Len(w) : (s \o w)[Len(s) + i] = w[i]
    BY <1>5, JoinedSequences
  <2> QED BY <1>5, <2>1
<1> HIDE DEF x, l
<1>7. Len(x) = Len(v)
  BY <1>1, <1>4, <1>6
<1>8. ASSUME NEW i \in 1..(l + 3) PROVE x[i] = v[i]
  <2>1. CASE i \in 1..l
    <3>1. i \in 1..(l + 1) /\ i \in 1..(l + 1 + 1)
      BY <1>1, <2>1
    <3> QED BY <1>2, <1>3, <1>4, <1>6, <2>1, <3>1
  <2>2. CASE i = l + 1
    <3>1. l + 1 \in 1..(l + 1) /\ l + 1 \in 1..(l + 1 + 1) /\ 1 \in 1..3
      BY <1>1
    <3> QED BY <1>2, <1>3, <1>4, <1>5, <1>6, <2>2, <3>1
  <2>3. CASE i = l + 2
    <3>1. l + 2 = l + 1 + 1 /\ l + 2 \in 1..(l + 1 + 1) /\ 2 \in 1..3
      BY <1>1
    <3> QED BY <1>3, <1>4, <1>5, <1>6, <2>3, <3>1
  <2>4. CASE i = l + 3
    <3>1. l + 3 = l + 1 + 1 + 1 /\ 3 \in 1..3
      BY <1>1
    <3> QED BY <1>4, <1>5, <1>6, <2>4, <3>1
  <2>5. i \in 1..l \/ i = l + 1 \/ i = l + 2 \/ i = l + 3
    BY <1>1
  <2> QED BY <2>1, <2>2, <2>3, <2>4, <2>5
<1>9. x = [i \in 1..(l + 3) |-> x[i]] /\ v = [i \in 1..(l + 3) |-> v[i]]
  BY <1>4, <1>6, <1>7 DEF IsSequence
<1>10. x = v
  BY <1>8, <1>9
<1> QED BY <1>5, <1>10 DEF x, v, u, t

\* The halves hold what the whole holds.
LEMMA HalvesHold ==
  ASSUME NEW pieces, IsSequence(pieces), NEW halves \in Halves(pieces)
  PROVE  /\ IsSequence(halves[1]) /\ IsSequence(halves[2])
         /\ \A f : Holds(pieces, f) => Holds(halves[1], f) \/ Holds(halves[2], f)
<1> DEFINE l == Len(pieces)
           half == l \div 2
<1>1. l \in Nat /\ half \in Nat /\ half <= l /\ (half > 0 => half + 1 <= l)
      /\ (half = 0 => l <= 1)
  BY DEF IsSequence
<1>2. CASE half > 0
  <2> DEFINE a == SubSeq(pieces, 1, half)
             b == SubSeq(pieces, half + 1, l)
  <2>1. halves = <<a, b>>
    BY <1>2 DEF Halves
  <2>2. half = half - 1 + 1 /\ l - (half + 1) + 1 = l - half /\ half + 1 \in Nat \ {0} /\ 1 \in Nat \ {0}
    BY <1>1
  <2>3. /\ IsSequence(a) /\ Len(a) = half - 1 + 1
        /\ \A i \in 1..(half - 1 + 1) : a[i] = pieces[1 + i - 1]
    BY <1>1, <1>2, SomeElements
  <2>4. /\ IsSequence(b) /\ Len(b) = l - (half + 1) + 1
        /\ \A i \in 1..(l - (half + 1) + 1) : b[i] = pieces[half + 1 + i - 1]
    <3>1. half + 1 <= l + 1 /\ l <= l /\ half + 1 \in Nat \ {0}
      BY <1>1
    <3> HIDE DEF half
    <3> QED BY <1>1, <3>1, SomeElements
  <2> HIDE DEF a, b, half
  <2>5. ASSUME NEW f, NEW n \in 1..l, f \in pieces[n].of PROVE Holds(a, f) \/ Holds(b, f)
    <3>1. CASE n <= half
      <4>1. n \in 1..(half - 1 + 1) /\ 1 + n - 1 = n
        BY <1>1, <3>1
      <4> QED BY <2>3, <2>5, <4>1 DEF Holds
    <3>2. CASE n > half
      <4>1. n - half \in 1..(l - (half + 1) + 1) /\ half + 1 + (n - half) - 1 = n
        BY <1>1, <3>2
      <4>2. b[n - half] = pieces[n]
        BY <2>4, <4>1
      <4> QED BY <2>4, <2>5, <4>1, <4>2 DEF Holds
    <3> QED BY <1>1, <3>1, <3>2
  <2> QED BY <2>1, <2>3, <2>4, <2>5 DEF Holds
<1>3. CASE ~(half > 0)
  <2> DEFINE of1 == pieces[1].of
  <2>1. PICK of : halves = << <<[of |-> of, size |-> 1]>>, <<[of |-> of1 \ of, size |-> 1]>> >>
    BY <1>3 DEF Halves
  <2> DEFINE a == <<[of |-> of, size |-> 1]>>
             b == <<[of |-> of1 \ of, size |-> 1]>>
  <2>2. /\ a = [i \in 1..1 |-> a[i]] /\ b = [i \in 1..1 |-> b[i]]
        /\ a[1].of = of /\ b[1].of = of1 \ of
    OBVIOUS
  <2>3. halves[1] = a /\ halves[2] = b
    BY <2>1
  <2> HIDE DEF a, b
  <2>4. IsSequence(a) /\ Len(a) = 1 /\ IsSequence(b) /\ Len(b) = 1
    BY <2>2, FunctionSequence
  <2>5. ASSUME NEW f, NEW n \in 1..l, f \in pieces[n].of PROVE Holds(a, f) \/ Holds(b, f)
    <3>1. n = 1
      BY <1>1, <1>3
    <3>2. f \in a[1].of \/ f \in b[1].of
      BY <2>2, <2>5, <3>1
    <3>3. 1 \in 1..1
      OBVIOUS
    <3> QED BY <2>4, <3>2, <3>3 DEF Holds
  <2> QED BY <2>3, <2>4, <2>5 DEF Holds
<1> QED BY <1>2, <1>3

-----------------------------------------------------------------------------
(* The calls of one compaction. *)

\* What has been shown stays shown.
StaysShown == \A f : Shown(work, parts, f) => Shown(work', parts', f)

\* A summary that is returned takes the place of its call.
LEMMA SummariseCalls ==
  ASSUME Balanced(work, parts), Summarise
  PROVE  Balanced(work', parts') /\ StaysShown
<1> DEFINE rest == Front(work)
           pieces == Last(work).pieces
           part == UNION {pieces[n].of : n \in DOMAIN pieces}
<1>1. work # <<>> /\ Last(work).task = "summarise"
  BY DEF Summarise, Calling, Top
<1>2. work' = rest /\ parts' = Append(parts, part)
  BY DEF Summarise, Top
<1>3. IsStack(work) /\ IsSequence(work) /\ IsSequence(parts) /\ Needs(work, Len(parts))
  BY DEF Balanced, IsStack
<1>4. IsStack(rest) /\ IsSequence(pieces)
  BY <1>1, <1>3, StackLess
<1>5. PICK n \in Nat \ {0} : Needs(rest, n) /\ Len(parts) = n - 1
  <2> HIDE DEF Needs
  <2> QED BY <1>1, <1>3, NeedsLess
<1>6. /\ Len(parts) \in Nat /\ IsSequence(parts') /\ Len(parts') = Len(parts) + 1
      /\ parts'[Len(parts) + 1] = part /\ \A k \in 1..Len(parts) : parts'[k] = parts[k]
  BY <1>2, <1>3, LongerSequence DEF IsSequence
<1>7. Balanced(work', parts')
  <2>1. Len(parts') = n
    BY <1>5, <1>6
  <2> HIDE DEF rest, part, IsStack, IsSequence, Needs
  <2> QED BY <1>2, <1>4, <1>5, <1>6, <2>1 DEF Balanced
<1>8. ASSUME NEW f, Shown(work, parts, f) PROVE Shown(work', parts', f)
  <2>1. Shown(rest, parts, f) \/ Holds(pieces, f)
    <3> HIDE DEF Shown, Holds
    <3> QED BY <1>1, <1>3, <1>8, ShownLess
  <2>2. CASE Shown(rest, parts, f)
    <3>1. \A k \in 1..Len(parts) : k \in 1..Len(parts')
      BY <1>6
    <3> HIDE DEF rest, Holds
    <3> QED BY <1>2, <1>6, <2>2, <3>1 DEF Shown
  <2>3. CASE Holds(pieces, f)
    <3>1. DOMAIN pieces = 1..Len(pieces)
      BY <1>4 DEF IsSequence
    <3>2. f \in part
      BY <2>3, <3>1 DEF Holds
    <3>3. Len(parts) + 1 \in 1..Len(parts')
      BY <1>6
    <3> HIDE DEF part
    <3>4. \E k \in 1..Len(parts') : f \in parts'[k]
      BY <1>6, <3>2, <3>3
    <3> QED BY <3>4 DEF Shown
  <2> QED BY <2>1, <2>2, <2>3
<1> QED BY <1>7, <1>8 DEF StaysShown

\* The halves of a call take its place, below them the call that merges them.
LEMMA SplitCalls ==
  ASSUME Balanced(work, parts), Split
  PROVE  Balanced(work', parts') /\ StaysShown
<1> DEFINE rest == Front(work)
           pieces == Last(work).pieces
           depth == Last(work).depth + 1
<1>1. work # <<>> /\ Last(work).task = "summarise" /\ parts' = parts
  BY DEF Split, Calling, Top
<1>2. PICK halves \in Halves(pieces) :
        work' = rest \o <<[task |-> "merge", depth |-> depth],
                          Frame(halves[2], depth), Frame(halves[1], depth)>>
  BY DEF Split, Top
<1>3. IsStack(work) /\ IsSequence(work) /\ IsSequence(parts) /\ Needs(work, Len(parts))
  BY DEF Balanced, IsStack
<1>4. IsStack(rest) /\ IsSequence(rest) /\ IsSequence(pieces)
  BY <1>1, <1>3, StackLess DEF IsStack
<1>5. PICK n \in Nat \ {0} : Needs(rest, n) /\ Len(parts) = n - 1
  <2> HIDE DEF Needs
  <2> QED BY <1>1, <1>3, NeedsLess
<1>6. /\ IsSequence(halves[1]) /\ IsSequence(halves[2])
      /\ \A f : Holds(pieces, f) => Holds(halves[1], f) \/ Holds(halves[2], f)
  BY <1>4, HalvesHold
<1>7. ASSUME NEW f, Shown(work, parts, f) PROVE Shown(rest, parts, f) \/ Holds(pieces, f)
  <2> HIDE DEF Shown, Holds
  <2> QED BY <1>1, <1>3, <1>7, ShownLess
<1> HIDE DEF rest, pieces, depth
<1> DEFINE a == [task |-> "merge", depth |-> depth]
           b == Frame(halves[2], depth)
           c == Frame(halves[1], depth)
           s == Append(rest, a)
           t == Append(s, b)
           u == Append(t, c)
<1>8. /\ a.task = "merge" /\ b.task = "summarise" /\ c.task = "summarise"
      /\ b.pieces = halves[2] /\ c.pieces = halves[1]
  BY DEF Frame
<1>9. work' = u
  BY <1>2, <1>4, ThreeMore
<1> HIDE DEF a, b, c
<1>10. IsStack(s) /\ IsSequence(s) /\ IsStack(t) /\ IsSequence(t) /\ IsStack(u)
  <2>1. IsStack(s)
    BY <1>4, <1>8, StackMore
  <2> HIDE DEF s
  <2>2. IsStack(t)
    BY <1>6, <1>8, <2>1, StackMore
  <2> HIDE DEF t
  <2>3. IsStack(u)
    BY <1>6, <1>8, <2>2, StackMore
  <2> QED BY <2>1, <2>2, <2>3 DEF IsStack
<1>11. Needs(u, n - 1)
  <2> HIDE DEF Needs
  <2>1. Needs(s, n + 1) /\ n + 1 \in Nat \ {0} /\ n + 1 - 1 = n
    BY <1>4, <1>5, <1>8, NeedsMore
  <2> HIDE DEF s
  <2>2. Needs(t, n)
    <3>1. Needs(t, n + 1 - 1)
      BY <1>8, <1>10, <2>1, NeedsMore
    <3> QED BY <2>1, <3>1
  <2> HIDE DEF t
  <2> QED BY <1>8, <1>10, <2>2, NeedsMore
<1>12. Balanced(work', parts')
  <2> HIDE DEF u, IsStack, IsSequence, Needs
  <2> QED BY <1>1, <1>3, <1>5, <1>9, <1>10, <1>11 DEF Balanced
<1>13. ASSUME NEW f, Shown(work, parts, f) PROVE Shown(work', parts', f)
  <2> HIDE DEF Shown, Holds
  <2>1. Shown(s, parts, f) \/ Holds(halves[2], f) \/ Holds(halves[1], f)
    BY <1>4, <1>6, <1>7, <1>13, ShownMore
  <2> HIDE DEF s
  <2>2. Shown(t, parts, f) \/ Holds(halves[1], f)
    BY <1>8, <1>10, <2>1, ShownMore
  <2> HIDE DEF t
  <2>3. Shown(u, parts, f)
    BY <1>8, <1>10, <2>2, ShownMore
  <2> QED BY <1>1, <1>9, <2>3
<1> QED BY <1>12, <1>13 DEF StaysShown

\* A call that merges becomes one that summarises the last two summaries.
LEMMA MergeCalls ==
  ASSUME Balanced(work, parts), Merge
  PROVE  Balanced(work', parts') /\ StaysShown
<1> DEFINE rest == Front(work)
           p == Len(parts)
           pieces == [n \in 1..2 |-> [of |-> parts[p - 2 + n], size |-> 1]]
           next == Frame(pieces, Last(work).depth)
<1>1. work # <<>> /\ Last(work).task = "merge"
  BY DEF Merge, Top
<1>2. work' = Append(rest, next) /\ parts' = SubSeq(parts, 1, p - 2)
  BY DEF Merge, Top
<1>3. IsStack(work) /\ IsSequence(work) /\ IsSequence(parts) /\ Needs(work, p)
  BY DEF Balanced, IsStack
<1>4. IsStack(rest) /\ IsSequence(rest)
  BY <1>1, <1>3, StackLess DEF IsStack
<1>5. PICK n \in Nat \ {0} : Needs(rest, n) /\ p = n + 1
  <2> HIDE DEF Needs, p
  <2> QED BY <1>1, <1>3, NeedsLess
<1>6. /\ IsSequence(parts') /\ Len(parts') = p - 2
      /\ \A k \in 1..(p - 2) : parts'[k] = parts[k]
  <2> DEFINE q == p - 2
  <2>1. p \in Nat /\ q \in Nat /\ q <= p /\ 1 <= q + 1 /\ q - 1 + 1 = q /\ 1 \in Nat \ {0}
    BY <1>5
  <2>2. \A k \in 1..q : 1 + k - 1 = k
    BY <2>1
  <2> HIDE DEF q
  <2>3. /\ IsSequence(SubSeq(parts, 1, q)) /\ Len(SubSeq(parts, 1, q)) = q - 1 + 1
        /\ \A k \in 1..(q - 1 + 1) : SubSeq(parts, 1, q)[k] = parts[1 + k - 1]
    BY <1>3, <2>1, SomeElements
  <2>4. /\ IsSequence(SubSeq(parts, 1, q)) /\ Len(SubSeq(parts, 1, q)) = q
        /\ \A k \in 1..q : SubSeq(parts, 1, q)[k] = parts[k]
    BY <2>1, <2>2, <2>3
  <2> QED BY <1>2, <2>4 DEF q
<1>7. /\ next.task = "summarise" /\ next.pieces = pieces
      /\ IsSequence(pieces) /\ Len(pieces) = 2
      /\ pieces[1].of = parts[p - 1] /\ pieces[2].of = parts[p]
  <2>1. pieces = [i \in 1..2 |-> pieces[i]] /\ 2 \in Nat
    OBVIOUS
  <2>2. pieces[1].of = parts[p - 1] /\ pieces[2].of = parts[p]
    <3>1. p - 2 + 1 = p - 1 /\ p - 2 + 2 = p
      BY <1>5
    <3> QED BY <3>1
  <2>3. next.task = "summarise" /\ next.pieces = pieces
    BY DEF Frame
  <2> HIDE DEF pieces
  <2>4. IsSequence(pieces) /\ Len(pieces) = 2
    BY <2>1, FunctionSequence
  <2> QED BY <2>2, <2>3, <2>4
<1> HIDE DEF next, pieces
<1>8. Balanced(work', parts')
  <2>1. IsStack(work')
    BY <1>2, <1>4, <1>7, StackMore
  <2>2. Needs(work', n - 1) /\ Len(parts') = n - 1
    <3> HIDE DEF Needs, rest
    <3> QED BY <1>2, <1>4, <1>5, <1>6, <1>7, NeedsMore
  <2> HIDE DEF IsStack, IsSequence, Needs
  <2> QED BY <1>6, <2>1, <2>2 DEF Balanced
<1>9. ASSUME NEW f, Shown(work, parts, f) PROVE Shown(work', parts', f)
  <2>1. Shown(rest, parts, f)
    <3> HIDE DEF Shown, Holds
    <3> QED BY <1>1, <1>3, <1>9, ShownLess
  <2>2. CASE \E k \in 1..p : f \in parts[k]
    <3> PICK k \in 1..p : f \in parts[k]
      BY <2>2
    <3>1. k \in 1..(p - 2) \/ k = p - 1 \/ k = p
      BY <1>5
    <3>2. CASE k \in 1..(p - 2)
      <4>1. k \in 1..Len(parts') /\ f \in parts'[k]
        BY <1>6, <3>2
      <4> QED BY <4>1 DEF Shown
    <3>3. CASE k = p - 1 \/ k = p
      <4>1. Holds(next.pieces, f)
        <5>1. 1 \in 1..2 /\ 2 \in 1..2
          OBVIOUS
        <5> QED BY <1>7, <3>3, <5>1 DEF Holds
      <4> HIDE DEF Shown, Holds
      <4> QED BY <1>2, <1>4, <1>7, <4>1, ShownMore
    <3> QED BY <3>1, <3>2, <3>3
  <2>3. CASE ~ \E k \in 1..p : f \in parts[k]
    <3>1. Shown(rest, parts', f)
      BY <2>1, <2>3 DEF Shown
    <3> HIDE DEF Shown, Holds
    <3> QED BY <1>2, <1>4, <3>1, ShownMore
  <2> QED BY <2>2, <2>3
<1> QED BY <1>8, <1>9 DEF StaysShown

-----------------------------------------------------------------------------
(* What is selected, and what takes its place. *)

\* The order of some positions is a sequence of them, each in its place.
LEMMA AscendingOrder ==
  ASSUME NEW indexes, NEW ms, NEW order \in Ascending(indexes, ms)
  PROVE  /\ Len(order) \in Nat /\ order = [n \in 1..Len(order) |-> order[n]]
         /\ DOMAIN order = 1..Len(order)
         /\ \A n \in 1..Len(order) : order[n] \in indexes
         /\ \A i \in indexes : \E n \in 1..Len(order) : order[n] = i
         /\ \A m, n \in 1..Len(order) : m < n => order[m] < order[n]
<1>1. /\ order \in SeqOf(indexes, Len(ms)) /\ Range(order) = indexes
      /\ \A m, n \in DOMAIN order : m < n => order[m] < order[n]
  BY DEF Ascending
<1>2. PICK l \in 0..Len(ms) : order \in [1..l -> indexes]
  BY <1>1 DEF SeqOf
<1>3. l \in Nat /\ order = [n \in 1..l |-> order[n]] /\ DOMAIN order = 1..l
  BY <1>2
<1>4. Len(order) = l
  BY <1>3, FunctionSequence
<1>5. \A i \in indexes : \E n \in DOMAIN order : order[n] = i
  BY <1>1 DEF Range
<1> QED BY <1>1, <1>2, <1>3, <1>4, <1>5

\* What is selected may be.
LEMMA SelectedMaybe ==
  ASSUME NEW ms, NEW private
  PROVE  Selected(ms, private) \subseteq Selectable(ms, private)
BY DEF Selected, Older

\* One call has all that is selected.
LEMMA SelectCalls ==
  ASSUME Select, parts = <<>>
  PROVE  LET selected == Selected(fit.candidate, fit.private)
         IN  /\ fit' = [fit EXCEPT !.phase = "compact", !.selected = selected]
             /\ selected # {} /\ selected \subseteq Selectable(fit.candidate, fit.private)
             /\ Balanced(work', parts')
             /\ \A n \in selected : \A f \in fit.candidate[n].of : Shown(work', parts', f)
<1> DEFINE ms == fit.candidate
           selected == Selected(ms, fit.private)
<1>1. /\ fit' = [fit EXCEPT !.phase = "compact", !.selected = selected]
      /\ selected # {} /\ parts' = <<>>
  BY DEF Select
<1>2. selected \subseteq Selectable(ms, fit.private)
  BY SelectedMaybe
<1>3. PICK order \in Ascending(selected, ms) :
        work' = <<Frame([n \in DOMAIN order |-> Piece(ms[order[n]])], 0)>>
  BY DEF Select
<1>4. /\ Len(order) \in Nat /\ DOMAIN order = 1..Len(order)
      /\ \A i \in selected : \E n \in 1..Len(order) : order[n] = i
  <2> HIDE DEF selected
  <2> QED BY AscendingOrder
<1> DEFINE pieces == [n \in 1..Len(order) |-> Piece(ms[order[n]])]
           frame == Frame(pieces, 0)
<1>5. work' = <<frame>>
  BY <1>3, <1>4
<1>6. IsSequence(pieces) /\ Len(pieces) = Len(order)
  <2>1. pieces = [n \in 1..Len(order) |-> pieces[n]]
    OBVIOUS
  <2> HIDE DEF pieces
  <2> QED BY <1>4, <2>1, FunctionSequence
<1>7. \A n \in 1..Len(order) : pieces[n].of = ms[order[n]].of
  BY DEF Piece
<1>8. frame.task = "summarise" /\ frame.pieces = pieces
  BY DEF Frame
<1> HIDE DEF ms, selected, pieces, frame
<1> DEFINE calls == <<frame>>
<1>9. IsSequence(calls) /\ Len(calls) = 1 /\ calls[1] = frame
  <2>1. calls = [k \in 1..1 |-> calls[k]] /\ calls[1] = frame
    OBVIOUS
  <2> HIDE DEF calls
  <2> QED BY <2>1, FunctionSequence
<1> HIDE DEF calls
<1>10. IsStack(calls)
  <2>1. \A k \in 1..Len(calls) : calls[k] = frame
    BY <1>9
  <2> QED BY <1>6, <1>8, <1>9, <2>1 DEF IsStack
<1>11. Needs(calls, 0)
  <2> DEFINE need == [k \in 0..1 |-> 1 - k]
  <2>1. need \in [0..1 -> Nat] /\ need[0] = 1 /\ need[1] = 0
    OBVIOUS
  <2> HIDE DEF need
  <2>2. \A k \in 1..1 : /\ need[k - 1] >= 1
                        /\ need[k] = IF calls[k].task = "merge" THEN need[k - 1] + 1 ELSE need[k - 1] - 1
    <3>1. \A k \in 1..1 : k = 1 /\ k - 1 = 0
      OBVIOUS
    <3> QED BY <1>8, <1>9, <2>1, <3>1
  <2> QED BY <1>9, <2>1, <2>2 DEF Needs
<1>12. IsSequence(<<>>) /\ Len(<<>>) = 0
  BY DEF IsSequence
<1>13. Balanced(work', parts')
  <2> HIDE DEF IsStack, IsSequence, Needs
  <2> QED BY <1>1, <1>5, <1>10, <1>11, <1>12 DEF Balanced, calls
<1>14. ASSUME NEW n \in selected, NEW f \in ms[n].of PROVE Shown(work', parts', f)
  <2> PICK k \in 1..Len(order) : order[k] = n
    BY <1>4
  <2>1. Holds(frame.pieces, f)
    BY <1>6, <1>7, <1>8 DEF Holds
  <2>2. 1 \in 1..Len(calls)
    BY <1>9
  <2> HIDE DEF Holds
  <2> QED BY <1>5, <1>8, <1>9, <2>1, <2>2 DEF Shown, calls
<1> QED BY <1>1, <1>2, <1>13, <1>14 DEF ms, selected

\* The least of some positions.
LEMMA FirstOf ==
  ASSUME NEW S \in SUBSET Nat, S # {}
  PROVE  Min(S) \in S
<1>1. \E n \in S : \A m \in S : n <= m
  BY LeastNumber
<1> QED BY <1>1 DEF Min

\* In next the summary stands for the units S of ms, and the others are there in order.
StandsFor(summary, S, ms, next) ==
  /\ IsSequence(next)
  /\ \E n \in DOMAIN next : next[n] = summary
  /\ \A k \in DOMAIN ms \ S : \E n \in DOMAIN next : next[n] = ms[k]
  /\ \E order :
       /\ \A n \in DOMAIN next :
            next[n] = summary \/ (order[n] \in DOMAIN ms /\ next[n] = ms[order[n]])
       /\ \A m, n \in DOMAIN next : m < n => order[m] < order[n]

\* The summary is there, and every unit that is not selected, in order.
LEMMA ReplacedUnits ==
  ASSUME NEW ms, IsSequence(ms), NEW S \in SUBSET (DOMAIN ms), S # {}, NEW summary,
         NEW next \in Replaced(ms, S, summary)
  PROVE  StandsFor(summary, S, ms, next)
<1> DEFINE first == Min(S)
           left == (DOMAIN ms \ S) \cup {first}
<1>1. first \in S
  <2>1. S \subseteq Nat
    BY DEF IsSequence
  <2> QED BY <2>1, FirstOf
<1>2. PICK order \in Ascending(left, ms) :
        next = [n \in DOMAIN order |-> IF order[n] = first THEN summary ELSE ms[order[n]]]
  BY DEF Replaced
<1> HIDE DEF first
<1>3. /\ Len(order) \in Nat /\ DOMAIN order = 1..Len(order)
      /\ \A n \in 1..Len(order) : order[n] \in left
      /\ \A i \in left : \E n \in 1..Len(order) : order[n] = i
      /\ \A m, n \in 1..Len(order) : m < n => order[m] < order[n]
  <2> HIDE DEF left
  <2> QED BY AscendingOrder
<1>4. /\ IsSequence(next) /\ DOMAIN next = 1..Len(order)
      /\ \A n \in 1..Len(order) : next[n] = IF order[n] = first THEN summary ELSE ms[order[n]]
  <2>1. next = [n \in 1..Len(order) |-> next[n]]
    BY <1>2, <1>3
  <2>2. IsSequence(next) /\ DOMAIN next = 1..Len(order)
    BY <1>3, <2>1, FunctionSequence
  <2> QED BY <1>2, <1>3, <2>2
<1>5. \E n \in DOMAIN next : next[n] = summary
  BY <1>3, <1>4
<1>6. ASSUME NEW k \in DOMAIN ms \ S PROVE \E n \in DOMAIN next : next[n] = ms[k]
  <2> PICK n \in 1..Len(order) : order[n] = k
    BY <1>3
  <2>1. k # first
    BY <1>1
  <2> QED BY <1>4, <2>1
<1>7. ASSUME NEW n \in DOMAIN next
      PROVE  next[n] = summary \/ (order[n] \in DOMAIN ms /\ next[n] = ms[order[n]])
  BY <1>3, <1>4
<1>8. \A m, n \in DOMAIN next : m < n => order[m] < order[n]
  BY <1>3, <1>4
<1> QED BY <1>4, <1>5, <1>6, <1>7, <1>8 DEF StandsFor

-----------------------------------------------------------------------------
(* The history. *)

\* What a unit in full holds.
LEMMA UnitOf ==
  ASSUME NEW h, NEW ms, NEW n, NEW i, InFull(h, ms, n, i)
  PROVE  /\ ms[n].kind = h[i] /\ ms[n].of = Halved(i)
         /\ h[i] = "private" => i \in ms[n].reads
         /\ h[i] = "call" => i \in ms[n].receipts
BY DEF InFull, Unit, Halved

\* No unit is made a summary.
LEMMA NoSummary ==
  ASSUME NEW h, IsMade(h), NEW i \in DOMAIN h
  PROVE  h[i] # "summary" /\ h[i] \in UnitKind
<1>1. DOMAIN h = 1..Len(h)
  BY DEF IsMade, IsSequence
<1> QED BY <1>1 DEF IsMade, UnitKind

\* The halves of a unit are its own.
LEMMA SameHalves ==
  ASSUME NEW i, NEW j, Halved(i) = Halved(j)
  PROVE  i = j
<1>1. <<i, 1>> \in Halved(j)
  BY DEF Halved
<1> QED BY <1>1 DEF Halved

\* A unit is made and added to the history.
LEMMA AddHistory ==
  ASSUME IsMade(made), IsHistory(made, messages), NEW kind \in UnitKind, Add(kind)
  PROVE  IsMade(made') /\ IsHistory(made', messages')
<1> DEFINE l == Len(made) + 1
           k == Len(messages) + 1
           unit == Unit(kind, l)
<1>1. made' = Append(made, kind) /\ messages' = Append(messages, unit)
  BY DEF Add
<1>2. /\ DOMAIN made = 1..Len(made) /\ Len(made) \in Nat /\ DOMAIN made' = 1..l
      /\ made'[l] = kind /\ IsSequence(made') /\ Len(made') = l
      /\ \A i \in DOMAIN made : made'[i] = made[i] /\ i \in DOMAIN made'
  <2>1. IsSequence(made) /\ DOMAIN made = 1..Len(made) /\ Len(made) \in Nat
    BY DEF IsMade, IsSequence
  <2>2. /\ IsSequence(made') /\ Len(made') = Len(made) + 1
        /\ DOMAIN made' = 1..(Len(made) + 1)
        /\ \A i \in 1..Len(made) : made'[i] = made[i]
        /\ made'[Len(made) + 1] = kind
    BY <1>1, <2>1, LongerSequence
  <2> QED BY <2>1, <2>2
<1>3. /\ IsSequence(messages) /\ DOMAIN messages = 1..Len(messages) /\ Len(messages) \in Nat
  BY DEF IsHistory, IsSequence
<1>4. /\ IsSequence(messages') /\ DOMAIN messages' = 1..k /\ messages'[k] = unit
      /\ \A n \in 1..Len(messages) : messages'[n] = messages[n]
  BY <1>1, <1>3, LongerSequence
<1>5. \A i \in DOMAIN made' : i = l \/ (i \in DOMAIN made /\ i < l)
  BY <1>2
<1>6. l \in DOMAIN made' /\ l \notin DOMAIN made
  BY <1>2
<1>7. \A n \in DOMAIN messages' : n = k \/ (n \in DOMAIN messages /\ n < k)
  BY <1>3, <1>4
<1>8. k \in DOMAIN messages' /\ \A n \in DOMAIN messages : n \in DOMAIN messages' /\ messages'[n] = messages[n]
  BY <1>3, <1>4
<1>9. IsMade(made')
  <2>1. \A i \in DOMAIN made : made[i] \in UnitKind
    BY <1>2 DEF IsMade
  <2> QED BY <1>2, <1>5, <2>1 DEF IsMade
<1>10. unit.kind = kind /\ unit.of = Halved(l) /\ kind # "summary"
  BY DEF Unit, UnitKind, Halved
<1> HIDE DEF l, k, unit
<1>11. \A n \in DOMAIN messages, i \in DOMAIN made : InFull(made', messages', n, i) <=> InFull(made, messages, n, i)
  BY <1>2, <1>8 DEF InFull
<1>12. InFull(made', messages', k, l)
  BY <1>2, <1>4 DEF InFull, unit
<1>13. ASSUME NEW i \in DOMAIN made', InFull(made', messages', k, i) PROVE i = l
  <2>1. unit.of = Halved(i)
    BY <1>4, <1>13 DEF InFull, Unit, Halved
  <2> QED BY <1>10, <2>1, SameHalves
<1>14. ASSUME NEW n \in DOMAIN messages, InFull(made', messages', n, l) PROVE FALSE
  <2>1. messages[n].kind = kind /\ messages[n].of = Halved(l)
    BY <1>2, <1>8, <1>14 DEF InFull, Unit, Halved
  <2>2. PICK i \in DOMAIN made : InFull(made, messages, n, i)
    BY <1>10, <2>1 DEF IsHistory
  <2>3. messages[n].of = Halved(i)
    BY <2>2, UnitOf
  <2>4. i = l
    BY <2>1, <2>3, SameHalves
  <2> QED BY <1>6, <2>4
<1>15. \A n \in DOMAIN messages' :
         messages'[n].kind = "summary" \/ \E i \in DOMAIN made' : InFull(made', messages', n, i)
  <2> TAKE n \in DOMAIN messages'
  <2>1. CASE n = k
    BY <1>6, <1>12, <2>1
  <2>2. CASE n \in DOMAIN messages
    <3>1. messages[n].kind = "summary" \/ \E i \in DOMAIN made : InFull(made, messages, n, i)
      BY <2>2 DEF IsHistory
    <3> HIDE DEF InFull
    <3> QED BY <1>2, <1>8, <1>11, <2>2, <3>1
  <2> QED BY <1>7, <2>1, <2>2
<1>16. \A n, m \in DOMAIN messages', i, j \in DOMAIN made' :
         n < m /\ InFull(made', messages', n, i) /\ InFull(made', messages', m, j) => i < j
  <2> SUFFICES ASSUME NEW n \in DOMAIN messages', NEW m \in DOMAIN messages',
                      NEW i \in DOMAIN made', NEW j \in DOMAIN made',
                      n < m, InFull(made', messages', n, i), InFull(made', messages', m, j)
               PROVE  i < j
    OBVIOUS
  <2>1. n \in DOMAIN messages
    <3>1. n # k
      <4>1. m <= k /\ n \in Nat /\ m \in Nat /\ k \in Nat
        BY <1>3, <1>4 DEF k
      <4> QED BY <4>1
    <3> QED BY <1>7, <3>1
  <2>2. i \in DOMAIN made /\ i < l
    <3>1. i # l
      BY <1>14, <2>1
    <3> QED BY <1>5, <3>1
  <2>3. CASE m = k
    <3>1. j = l
      BY <1>13, <2>3
    <3> QED BY <2>2, <3>1
  <2>4. CASE m \in DOMAIN messages
    <3>1. j \in DOMAIN made
      BY <1>5, <1>14, <2>4
    <3>2. InFull(made, messages, n, i) /\ InFull(made, messages, m, j)
      BY <1>11, <2>1, <2>2, <2>4, <3>1
    <3> HIDE DEF InFull
    <3> QED BY <2>1, <2>2, <2>4, <3>1, <3>2 DEF IsHistory
  <2> QED BY <1>7, <2>3, <2>4
<1>17. \A i \in DOMAIN made' :
         (\E n \in DOMAIN messages' : InFull(made', messages', n, i)) \/ Summarised(made', messages', i)
  <2> TAKE i \in DOMAIN made'
  <2>1. CASE i = l
    BY <1>8, <1>12, <2>1
  <2>2. ASSUME i \in DOMAIN made, NEW n \in DOMAIN messages, InFull(made, messages, n, i)
        PROVE  \E m \in DOMAIN messages' : InFull(made', messages', m, i)
    BY <1>8, <1>11, <2>2
  <2>3. CASE i \in DOMAIN made /\ Summarised(made, messages, i)
    <3>1. Summarised(made', messages', i)
      <4>1. /\ \E n \in DOMAIN messages' : messages'[n].kind = "summary" /\ Halved(i) \subseteq messages'[n].of
            /\ made'[i] \notin {"file", "open"}
        BY <1>2, <1>8, <2>3 DEF Summarised
      <4>2. /\ made'[i] = "private" => \E n \in DOMAIN messages' : i \in messages'[n].reads
            /\ made'[i] = "call" => \E n \in DOMAIN messages' : i \in messages'[n].receipts
        BY <1>2, <1>8, <2>3 DEF Summarised
      <4>3. made'[i] = "user" => \E j \in DOMAIN made' : j > i /\ made'[j] \in {"user", "file"}
        BY <1>2, <2>3 DEF Summarised
      <4> QED BY <4>1, <4>2, <4>3 DEF Summarised, Halved
    <3> QED BY <3>1
  <2>4. CASE i \in DOMAIN made
    <3> HIDE DEF InFull, Summarised
    <3>1. (\E n \in DOMAIN messages : InFull(made, messages, n, i)) \/ Summarised(made, messages, i)
      BY <2>4 DEF IsHistory
    <3> QED BY <2>2, <2>3, <2>4, <3>1
  <2> QED BY <1>5, <2>1, <2>4
<1>18. IsHistory(made', messages')
  <2> HIDE DEF InFull, Summarised, IsSequence
  <2> QED BY <1>4, <1>15, <1>16, <1>17 DEF IsHistory
<1> QED BY <1>9, <1>18

\* The kinds of what may be summarised, and that of a question a later one.
LEMMA SelectableUnit ==
  ASSUME IsMade(made), NEW ms, IsHistory(made, ms), NEW private,
         NEW k \in Selectable(ms, private), NEW i \in DOMAIN made, InFull(made, ms, k, i)
  PROVE  /\ k \in DOMAIN ms /\ made[i] \notin {"file", "open"}
         /\ made[i] = "user" => \E j \in DOMAIN made : j > i /\ made[j] \in {"user", "file"}
<1>1. /\ k \in DOMAIN ms
      /\ ms[k].kind \in {"text", "call", "summary", "user", "private"}
      /\ ms[k].kind = "user" => \E m \in UserUnits(ms) : m > k
  BY DEF Selectable
<1>2. ms[k].kind = made[i]
  BY UnitOf
<1>3. ASSUME made[i] = "user" PROVE \E j \in DOMAIN made : j > i /\ made[j] \in {"user", "file"}
  <2>1. PICK m \in DOMAIN ms : m > k /\ ms[m].kind \in {"user", "file"}
    BY <1>1, <1>2, <1>3 DEF UserUnits
  <2>2. PICK j \in DOMAIN made : InFull(made, ms, m, j)
    <3> HIDE DEF InFull
    <3> QED BY <2>1 DEF IsHistory
  <2>3. ms[m].kind = made[j]
    BY <2>2, UnitOf
  <2>4. i < j
    <3>1. k < m /\ k \in Nat /\ m \in Nat
      BY <1>1, <2>1 DEF IsHistory, IsSequence
    <3> HIDE DEF InFull
    <3> QED BY <1>1, <2>2, <3>1 DEF IsHistory
  <2>5. j > i
    BY <2>4
  <2> QED BY <2>1, <2>3, <2>5
<1> QED BY <1>1, <1>2, <1>3

\* A summary of everything selected, in its place, and the history is one of the same units.
LEMMA ReplaceHistory ==
  ASSUME IsMade(made), NEW ms, IsHistory(made, ms), NEW private,
         NEW S \in SUBSET Selectable(ms, private), S # {},
         NEW of, \A n \in S : \A f \in ms[n].of : f \in of,
         NEW text,
         NEW next \in Replaced(ms, S, Summary(of, {ms[i] : i \in S}, text))
  PROVE  IsHistory(made, next)
<1> DEFINE summary == Summary(of, {ms[i] : i \in S}, text)
<1>1. /\ summary.kind = "summary" /\ summary.of = of
      /\ \A n \in S : ms[n].reads \subseteq summary.reads /\ ms[n].receipts \subseteq summary.receipts
  BY DEF Summary
<1>2. S \in SUBSET (DOMAIN ms) /\ IsSequence(ms) /\ next \in Replaced(ms, S, summary)
  BY DEF Selectable, IsHistory
<1> HIDE DEF summary
<1>3. StandsFor(summary, S, ms, next)
  <2> HIDE DEF IsSequence
  <2> QED BY <1>2, ReplacedUnits
<1>4. PICK order :
        /\ \A n \in DOMAIN next :
             next[n] = summary \/ (order[n] \in DOMAIN ms /\ next[n] = ms[order[n]])
        /\ \A m, n \in DOMAIN next : m < n => order[m] < order[n]
  BY <1>3 DEF StandsFor
<1>5. PICK s \in DOMAIN next : next[s] = summary
  BY <1>3 DEF StandsFor
<1>6. ASSUME NEW n \in DOMAIN next
      PROVE  next[n].kind = "summary" \/ \E i \in DOMAIN made : InFull(made, next, n, i)
  <2>1. CASE next[n] = summary
    BY <1>1, <2>1
  <2>2. CASE order[n] \in DOMAIN ms /\ next[n] = ms[order[n]]
    BY <2>2 DEF IsHistory, InFull
  <2> QED BY <1>4, <2>1, <2>2
<1>7. ASSUME NEW n \in DOMAIN next, NEW i \in DOMAIN made, InFull(made, next, n, i)
      PROVE  order[n] \in DOMAIN ms /\ InFull(made, ms, order[n], i)
  <2>1. next[n].kind # "summary"
    BY <1>7, NoSummary, UnitOf
  <2>2. order[n] \in DOMAIN ms /\ next[n] = ms[order[n]]
    BY <1>1, <1>4, <2>1
  <2> QED BY <1>7, <2>2 DEF InFull
<1>8. ASSUME NEW n \in DOMAIN next, NEW m \in DOMAIN next, NEW i \in DOMAIN made, NEW j \in DOMAIN made,
             n < m, InFull(made, next, n, i), InFull(made, next, m, j)
      PROVE  i < j
  <2>1. order[n] < order[m]
    BY <1>4, <1>8
  <2> HIDE DEF InFull
  <2>2. /\ order[n] \in DOMAIN ms /\ InFull(made, ms, order[n], i)
        /\ order[m] \in DOMAIN ms /\ InFull(made, ms, order[m], j)
    BY <1>7, <1>8
  <2> QED BY <2>1, <2>2 DEF IsHistory
<1>9. ASSUME NEW k \in DOMAIN ms
      PROVE  \E n \in DOMAIN next :
               /\ ms[k].reads \subseteq next[n].reads
               /\ ms[k].receipts \subseteq next[n].receipts
               /\ ms[k].of \subseteq next[n].of /\ (ms[k].kind = "summary" => next[n].kind = "summary")
  <2>1. CASE k \in S
    BY <1>1, <1>5, <2>1
  <2>2. CASE k \notin S
    BY <1>3, <2>2 DEF StandsFor
  <2> QED BY <2>1, <2>2
<1>10. ASSUME NEW i \in DOMAIN made, Summarised(made, ms, i) PROVE Summarised(made, next, i)
  <2>1. PICK k \in DOMAIN ms : ms[k].kind = "summary" /\ Halved(i) \subseteq ms[k].of
    BY <1>10 DEF Summarised
  <2>2. \E n \in DOMAIN next : next[n].kind = "summary" /\ Halved(i) \subseteq next[n].of
    BY <1>9, <2>1
  <2>3. made[i] = "private" => \E n \in DOMAIN next : i \in next[n].reads
    BY <1>9, <1>10 DEF Summarised
  <2>4. made[i] = "call" => \E n \in DOMAIN next : i \in next[n].receipts
    BY <1>9, <1>10 DEF Summarised
  <2> QED BY <1>10, <2>2, <2>3, <2>4 DEF Summarised
<1>11. ASSUME NEW i \in DOMAIN made, NEW k \in S, InFull(made, ms, k, i)
       PROVE  Summarised(made, next, i)
  <2>1. /\ ms[k].of = Halved(i)
        /\ made[i] = "private" => i \in ms[k].reads
        /\ made[i] = "call" => i \in ms[k].receipts
    BY <1>11, UnitOf
  <2>2. /\ made[i] \notin {"file", "open"}
        /\ made[i] = "user" => \E j \in DOMAIN made : j > i /\ made[j] \in {"user", "file"}
    <3> HIDE DEF InFull, IsMade, IsHistory
    <3> QED BY <1>11, SelectableUnit
  <2>3. Halved(i) \subseteq next[s].of /\ next[s].kind = "summary"
    BY <1>1, <1>5, <2>1
  <2>4. /\ made[i] = "private" => i \in next[s].reads
        /\ made[i] = "call" => i \in next[s].receipts
    BY <1>1, <1>5, <2>1
  <2> QED BY <2>2, <2>3, <2>4 DEF Summarised
<1>12. ASSUME NEW i \in DOMAIN made
       PROVE  (\E n \in DOMAIN next : InFull(made, next, n, i)) \/ Summarised(made, next, i)
  <2>1. (\E k \in DOMAIN ms : InFull(made, ms, k, i)) \/ Summarised(made, ms, i)
    <3> HIDE DEF InFull, Summarised
    <3> QED BY DEF IsHistory
  <2>2. ASSUME NEW k \in DOMAIN ms \ S, InFull(made, ms, k, i)
        PROVE  \E n \in DOMAIN next : InFull(made, next, n, i)
    BY <1>3, <2>2 DEF InFull, StandsFor
  <2> HIDE DEF InFull, Summarised
  <2> QED BY <1>10, <1>11, <2>1, <2>2
<1> HIDE DEF InFull, Summarised, IsSequence
<1> QED BY <1>3, <1>6, <1>8, <1>12 DEF IsHistory, StandsFor

-----------------------------------------------------------------------------
(* The steps. *)

\* The empty history.
LEMMA InitWindow ==
  ASSUME WindowInit
  PROVE  WindowInv
<1>1. messages = <<>> /\ made = <<>> /\ parts = <<>> /\ fit = Idle
  BY DEF WindowInit
<1>2. IsSequence(<<>>) /\ Len(<<>>) = 0 /\ DOMAIN <<>> = {}
  BY DEF IsSequence
<1>3. IsMade(made) /\ IsHistory(made, messages)
  <2> HIDE DEF IsSequence
  <2> QED BY <1>1, <1>2 DEF IsMade, IsHistory
<1>4. IsFit(fit) /\ fit.phase = "idle"
  BY <1>1 DEF Idle, IsFit
<1> HIDE DEF IsMade, IsHistory, IsFit
<1> QED BY <1>1, <1>3, <1>4 DEF WindowInv

\* Nothing under way, and the history in order.
LEMMA IdleWindow ==
  ASSUME IsMade(made'), IsHistory(made', messages'), fit' = Idle, parts' = <<>>
  PROVE  WindowInv'
<1>1. IsFit(fit') /\ fit'.phase = "idle"
  BY DEF Idle, IsFit
<1> QED BY <1>1 DEF WindowInv

\* The run fails.
LEMMA GiveUpWindow ==
  ASSUME WindowInv, GiveUp
  PROVE  WindowInv'
<1>1. IsMade(made') /\ IsHistory(made', messages')
  BY DEF WindowInv, GiveUp
<1>2. fit' = Idle /\ parts' = <<>>
  BY DEF GiveUp
<1> HIDE DEF IsMade, IsHistory, WindowInv
<1> QED BY <1>1, <1>2, IdleWindow

\* A step of one compaction.
LEMMA CallsWindow ==
  ASSUME WindowInv, fit.phase = "compact", UNCHANGED <<messages, made, fit>>,
         Balanced(work', parts'), StaysShown
  PROVE  WindowInv'
<1>1. IsMade(made) /\ IsHistory(made, messages) /\ IsFit(fit) /\ IsHistory(made, fit.candidate)
  BY DEF WindowInv
<1>2. /\ fit.selected # {}
      /\ fit.selected \subseteq Selectable(fit.candidate, fit.private)
      /\ \A n \in fit.selected : \A f \in fit.candidate[n].of : Shown(work, parts, f)
  BY DEF WindowInv, Compacting
<1>3. \A n \in fit.selected : \A f \in fit.candidate[n].of : Shown(work', parts', f)
  <2> HIDE DEF Shown
  <2> QED BY <1>2 DEF StaysShown
<1>4. Compacting'
  <2> HIDE DEF Shown, Balanced
  <2> QED BY <1>2, <1>3 DEF Compacting, Selectable, UserUnits
<1> HIDE DEF IsMade, IsHistory, IsFit, Compacting
<1> QED BY <1>1, <1>4 DEF WindowInv

\* The summary takes the place of what was selected.
LEMMA ReplaceWindow ==
  ASSUME WindowInv, Replace
  PROVE  WindowInv'
<1> DEFINE ms == fit.candidate
           S == fit.selected
<1>1. /\ fit.phase = "compact" /\ work = <<>> /\ parts' = <<>> /\ made' = made
  BY DEF Replace
<1>2. PICK text \in {1, 2} :
      \E next \in Replaced(ms, S, Summary(parts[1], {ms[i] : i \in S}, text)) :
        \/ messages' = ms /\ fit' = Idle
        \/ messages' = messages /\ fit' = Idle
        \/ messages' = next /\ fit' = Idle
        \/ /\ messages' = messages
           /\ fit' = [fit EXCEPT !.phase = "select", !.candidate = next, !.selected = {},
                                 !.passes = @ + 1, !.previous = SizeOf(next)]
  BY DEF Replace, Return
<1>3. PICK next \in Replaced(ms, S, Summary(parts[1], {ms[i] : i \in S}, text)) :
        \/ messages' = ms /\ fit' = Idle
        \/ messages' = messages /\ fit' = Idle
        \/ messages' = next /\ fit' = Idle
        \/ /\ messages' = messages
           /\ fit' = [fit EXCEPT !.phase = "select", !.candidate = next, !.selected = {},
                                 !.passes = @ + 1, !.previous = SizeOf(next)]
  BY <1>2
<1>4. /\ IsMade(made) /\ IsHistory(made, messages) /\ IsHistory(made, ms) /\ IsFit(fit)
      /\ S # {} /\ S \in SUBSET Selectable(ms, fit.private)
      /\ Balanced(work, parts)
      /\ \A n \in S : \A f \in ms[n].of : Shown(work, parts, f)
  BY <1>1 DEF WindowInv, Compacting
<1>5. Len(parts) = 1
  <2>1. Needs(<<>>, Len(parts))
    BY <1>1, <1>4 DEF Balanced
  <2> HIDE DEF Needs
  <2> QED BY <2>1, NeedsNothing
<1>6. \A n \in S : \A f \in ms[n].of : f \in parts[1]
  <2>1. ASSUME NEW f, Shown(work, parts, f) PROVE f \in parts[1]
    <3>1. Len(work) = 0
      BY <1>1
    <3>2. \A k \in 1..Len(work) : FALSE
      BY <3>1
    <3>3. PICK k \in 1..Len(parts) : f \in parts[k]
      BY <2>1, <3>2 DEF Shown
    <3>4. k = 1
      BY <1>5
    <3> QED BY <3>3, <3>4
  <2> HIDE DEF Shown
  <2> QED BY <1>4, <2>1
<1>7. IsHistory(made, next)
  <2> HIDE DEF IsMade, IsHistory, ms, S
  <2> QED BY <1>4, <1>6, ReplaceHistory
<1> HIDE DEF IsMade, IsHistory
<1>8. CASE fit' = Idle
  <2>1. IsHistory(made', messages')
    BY <1>1, <1>3, <1>4, <1>7, <1>8 DEF ms
  <2> QED BY <1>1, <1>4, <1>8, <2>1, IdleWindow
<1>9. CASE /\ messages' = messages
           /\ fit' = [fit EXCEPT !.phase = "select", !.candidate = next, !.selected = {},
                                 !.passes = @ + 1, !.previous = SizeOf(next)]
  <2> DEFINE size == SizeOf(next)
  <2> HIDE DEF size
  <2>1. fit' = [fit EXCEPT !.phase = "select", !.candidate = next, !.selected = {},
                           !.passes = @ + 1, !.previous = size]
    BY <1>9 DEF size
  <2>2. IsFit(fit') /\ fit'.phase = "select" /\ fit'.candidate = next
    BY <1>4, <2>1 DEF IsFit
  <2> HIDE DEF IsFit
  <2> QED BY <1>1, <1>4, <1>7, <1>9, <2>2 DEF WindowInv
<1> QED BY <1>3, <1>8, <1>9

\* Every step keeps the history.
LEMMA StepWindow ==
  ASSUME WindowInv, [WindowNext]_(windowVars)
  PROVE  WindowInv'
<1>1. ASSUME NEW kind \in UnitKind, Add(kind) PROVE WindowInv'
  <2>1. /\ fit.phase = "idle" /\ fit' = fit /\ parts' = parts
        /\ IsMade(made) /\ IsHistory(made, messages) /\ IsFit(fit) /\ parts = <<>>
    BY <1>1 DEF Add, WindowInv
  <2> HIDE DEF IsMade, IsHistory, IsFit
  <2>2. IsMade(made') /\ IsHistory(made', messages')
    BY <1>1, <2>1, AddHistory
  <2> QED BY <2>1, <2>2 DEF WindowInv
<1>2. ASSUME NEW force \in BOOLEAN, NEW private \in BOOLEAN, FitBegins(force, private)
      PROVE  WindowInv'
  <2> DEFINE size == SizeOf(messages)
  <2>1. /\ fit.phase = "idle" /\ parts' = parts /\ messages' = messages /\ made' = made
        /\ fit' = [phase |-> "select", candidate |-> messages, private |-> private, passes |-> 0,
                   previous |-> size, selected |-> {}]
    BY <1>2 DEF FitBegins
  <2> HIDE DEF size
  <2>2. IsMade(made) /\ IsHistory(made, messages) /\ parts = <<>>
    BY <2>1 DEF WindowInv
  <2>3. IsFit(fit') /\ fit'.phase = "select" /\ fit'.candidate = messages
    BY <2>1 DEF IsFit
  <2> HIDE DEF IsMade, IsHistory, IsFit
  <2> QED BY <2>1, <2>2, <2>3 DEF WindowInv
<1>3. ASSUME Select PROVE WindowInv'
  <2> DEFINE selected == Selected(fit.candidate, fit.private)
  <2>1. /\ fit.phase = "select" /\ messages' = messages /\ made' = made
    BY <1>3 DEF Select
  <2>2. /\ IsMade(made) /\ IsHistory(made, messages) /\ IsHistory(made, fit.candidate)
        /\ IsFit(fit) /\ parts = <<>>
    BY <2>1 DEF WindowInv
  <2> HIDE DEF IsMade, IsHistory
  <2>3. /\ fit' = [fit EXCEPT !.phase = "compact", !.selected = selected]
        /\ selected # {} /\ selected \subseteq Selectable(fit.candidate, fit.private)
        /\ Balanced(work', parts')
        /\ \A n \in selected : \A f \in fit.candidate[n].of : Shown(work', parts', f)
    BY <1>3, <2>2, SelectCalls
  <2> HIDE DEF selected
  <2>4. /\ IsFit(fit') /\ fit'.phase = "compact" /\ fit'.candidate = fit.candidate
        /\ fit'.private = fit.private /\ fit'.selected = selected
    BY <2>2, <2>3 DEF IsFit
  <2>5. Compacting'
    <3> HIDE DEF Balanced, Shown
    <3> QED BY <2>3, <2>4 DEF Compacting, Selectable, UserUnits
  <2> HIDE DEF IsFit, Compacting
  <2> QED BY <2>1, <2>2, <2>4, <2>5 DEF WindowInv
<1>4. ASSUME NothingToSelect \/ CompactFails PROVE WindowInv'
  BY <1>4, GiveUpWindow DEF NothingToSelect, CompactFails
<1>5. ASSUME LastPass PROVE WindowInv'
  <2>1. CASE GiveUp
    BY <2>1, GiveUpWindow
  <2>2. CASE Return(fit.candidate) /\ UNCHANGED <<made, work, parts>>
    <3>1. fit.phase = "select"
      BY <1>5 DEF LastPass
    <3>2. IsMade(made) /\ IsHistory(made, fit.candidate) /\ parts = <<>>
      BY <3>1 DEF WindowInv
    <3>3. messages' = fit.candidate /\ fit' = Idle /\ made' = made /\ parts' = parts
      BY <2>2 DEF Return
    <3> HIDE DEF IsMade, IsHistory, WindowInv
    <3> QED BY <3>2, <3>3, IdleWindow
  <2> QED BY <1>5, <2>1, <2>2 DEF LastPass
<1>6. ASSUME Summarise \/ Split \/ Merge PROVE WindowInv'
  <2>1. fit.phase = "compact" /\ UNCHANGED <<messages, made, fit>>
    BY <1>6 DEF Summarise, Split, Merge, Calling
  <2>2. Balanced(work, parts)
    BY <2>1 DEF WindowInv, Compacting
  <2> HIDE DEF WindowInv, Balanced, StaysShown
  <2>3. Balanced(work', parts') /\ StaysShown
    BY <1>6, <2>2, SummariseCalls, SplitCalls, MergeCalls
  <2> QED BY <2>1, <2>3, CallsWindow
<1>7. ASSUME UNCHANGED windowVars PROVE WindowInv'
  BY <1>7 DEF windowVars, WindowInv, Compacting
<1> HIDE DEF WindowInv
<1> QED BY <1>1, <1>2, <1>3, <1>4, <1>5, <1>6, <1>7, ReplaceWindow DEF WindowNext, Compaction

\* The history is invariant.
LEMMA WindowInvariant == WindowSpec => []WindowInv
<1>1. WindowInit => WindowInv
  BY InitWindow
<1>2. WindowInv /\ [WindowNext]_(windowVars) => WindowInv'
  BY StepWindow
<1> QED BY <1>1, <1>2, PTL DEF WindowSpec

\* A unit that is not in the history in full was summarised.
LEMMA NotVerbatim ==
  ASSUME WindowInv, NEW i \in DOMAIN made \ Verbatim
  PROVE  Summarised(made, messages, i)
<1>1. ~ \E n \in DOMAIN messages : InFull(made, messages, n, i)
  BY DEF Verbatim, InFull
<1> HIDE DEF InFull, Summarised
<1> QED BY <1>1 DEF WindowInv, IsHistory

\* Whatever the history ever held is still there word for word, or the model that
\* summarised it was shown all of it.
THEOREM UnreadCorrect == WindowSpec => []NothingUnread
<1>1. WindowInv => NothingUnread
  <2> SUFFICES ASSUME WindowInv, NEW i \in DOMAIN made \ Verbatim
               PROVE  \E n \in DOMAIN messages :
                        messages[n].kind = "summary" /\ {i} \X {1, 2} \subseteq messages[n].of
    BY DEF NothingUnread
  <2>1. Summarised(made, messages, i)
    BY NotVerbatim
  <2> QED BY <2>1 DEF Summarised, Halved
<1> QED BY <1>1, WindowInvariant, PTL

\* What the run must be able to return to survives every compaction.
THEOREM ReferencesCorrect == WindowSpec => []ReferencesSurvive
<1>1. WindowInv => ReferencesSurvive
  <2>1. ASSUME WindowInv, NEW i \in DOMAIN made \ Verbatim
        PROVE  Summarised(made, messages, i)
    BY <2>1, NotVerbatim
  <2> HIDE DEF WindowInv
  <2> QED BY <2>1 DEF Summarised, ReferencesSurvive
<1> QED BY <1>1, WindowInvariant, PTL

=============================================================================
