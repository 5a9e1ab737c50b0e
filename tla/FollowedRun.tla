----------------------------- MODULE FollowedRun -----------------------------
(***************************************************************************)
(* What following a run promises to whoever watches it, without the stream *)
(* of events, the connections and the endpoint: a view that is always one  *)
(* of the states the run was in, that may skip states but never goes back, *)
(* and that says that the run is over only with its last state, which it   *)
(* then keeps.                                                             *)
(***************************************************************************)
EXTENDS Integers

CONSTANT First  \* the state of a run that was created

VARIABLES
  now,    \* the state of the run: <<cursor, content>>
  over,   \* whether it has ended
  known,  \* every state it was in
  view,   \* the state the watcher sees
  ended   \* whether the watcher knows that the run is over

vars == <<now, over, known, view, ended>>

\* State w belongs to an earlier cursor than v.
Earlier(w, v) ==
  LET c == w[1]
      d == v[1]
  IN  c[1] < d[1] \/ (c[1] = d[1] /\ c[2] < d[2])

Init ==
  /\ now = First /\ view = First
  /\ known = {First}
  /\ ~over /\ ~ended

\* The run goes on, perhaps to its end.
Advance ==
  /\ ~over
  /\ ~Earlier(now', now)
  /\ known' = known \cup {now'}
  /\ over' \in BOOLEAN
  /\ UNCHANGED <<view, ended>>

\* The watcher sees one state more.
Show ==
  /\ ~ended
  /\ view' \in known
  /\ ~Earlier(view', view)
  /\ ended' \in BOOLEAN
  /\ ended' => over /\ view' = now
  /\ UNCHANGED <<now, over, known>>

Next == Advance \/ Show

Spec == Init /\ [][Next]_vars
=============================================================================
