------------------------------- MODULE Workspace -------------------------------
(***************************************************************************)
(* Which session the browser shows: useAgentWorkspace keeps the session    *)
(* the user selected (sessionIdRef), the detail on the screen, and         *)
(* generations that tell an answer whether it is still wanted.             *)
(*                                                                         *)
(* refreshSession takes a new generation with every request, so only the   *)
(* newest request is ever heard: `loading' is that request, and the ones   *)
(* before it need not be remembered.  In the same way `starting' and       *)
(* `acting' remember of a start and of a version action only whether their *)
(* generation is still the current one.                                    *)
(*                                                                         *)
(* Abstractions: a detail is its session and whether it has queued inputs  *)
(* or an active run (the server's answer is any of the two); the snapshot, *)
(* the session list and older pages never change which session is shown;   *)
(* a change of the principal starts from the initial state; requests are   *)
(* answered, none fails.                                                   *)
(***************************************************************************)
EXTENDS Naturals

CONSTANTS
  Session, \* the user's sessions
  None     \* null

VARIABLES
  selected, \* sessionIdRef: the session the user is in
  shown,    \* session: the detail on the screen
  loading,  \* the session of the newest unanswered refreshSession
  routing,  \* the session a route effect will load once status() has answered
  starting, \* the session startRun was sent to, if no refresh came in between
  acting,   \* the session of the newest version action that is still wanted
  deleting  \* the session deleteSession was sent for, if still wanted

vars == <<selected, shown, loading, routing, starting, acting, deleting>>

Blank == [id |-> None, active |-> FALSE]
Details(s) == [id: {s}, active: BOOLEAN]

Init ==
  /\ selected = None
  /\ shown = Blank
  /\ loading = None
  /\ routing = None
  /\ starting = None
  /\ acting = None
  /\ deleting = None

-----------------------------------------------------------------------------
\* refreshSession: the request takes the newest generation, for better or worse.
Refresh(s) ==
  /\ loading' = s
  /\ starting' = None

\* Its answer: shown only under the newest generation and for the selected session.
Answer ==
  /\ loading # None
  /\ loading' = None
  /\ IF selected = loading THEN shown' \in Details(loading) ELSE UNCHANGED shown
  /\ UNCHANGED <<selected, routing, starting, acting, deleting>>

\* The timer of a session with inputs or an active run, and the events of its stream.
\* Both refresh the session on the screen.
Background ==
  /\ shown.active
  /\ Refresh(shown.id)
  /\ UNCHANGED <<selected, shown, routing, acting, deleting>>

\* The history picker of the panel: the old detail stays until the new one is there.
SelectSession(s) ==
  /\ selected' = s
  /\ Refresh(s)
  /\ acting' = None
  /\ deleting' = None
  /\ UNCHANGED <<shown, routing>>

\* The route names another session: everything of the old one goes at once.
Navigate(s) ==
  /\ s # selected
  /\ selected' = s
  /\ shown' = Blank
  /\ loading' = None
  /\ routing' = s
  /\ starting' = None
  /\ acting' = None
  /\ deleting' = None

\* The route effect goes on after status() and the session list.
Routed ==
  /\ routing # None
  /\ routing' = None
  /\ IF shown.id # routing
     THEN selected' = routing /\ shown' = Blank /\ Refresh(routing)
     ELSE UNCHANGED <<selected, shown, loading, starting>>
  /\ UNCHANGED <<acting, deleting>>

NewSession ==
  /\ selected' = None
  /\ shown' = Blank
  /\ loading' = None
  /\ starting' = None
  /\ acting' = None
  /\ deleting' = None
  /\ UNCHANGED routing

\* start: a message is sent to the session on the screen, or to one it creates.
Start(s) ==
  /\ starting = None
  /\ starting' = s
  /\ UNCHANGED <<selected, shown, loading, routing, acting, deleting>>

\* The run exists; its session is loaded if no other load began since.
Started ==
  /\ starting # None
  /\ selected' = starting
  /\ Refresh(starting)
  /\ UNCHANGED <<shown, routing, acting, deleting>>

\* regenerate, edit and switchVersion take a generation of their own.
Act ==
  /\ shown.id # None /\ selected = shown.id
  /\ acting' = shown.id
  /\ UNCHANGED <<selected, shown, loading, routing, starting, deleting>>

Acted ==
  /\ acting # None
  /\ acting' = None
  /\ IF selected = acting /\ shown.id = acting
     THEN shown' \in Details(acting) ELSE UNCHANGED shown
  /\ UNCHANGED <<selected, loading, routing, starting, deleting>>

DeleteSession(s) ==
  /\ deleting' = s
  /\ UNCHANGED <<selected, shown, loading, routing, starting, acting>>

Deleted ==
  /\ deleting # None
  /\ deleting' = None
  /\ IF selected = deleting
     THEN /\ selected' = None
          /\ shown' = Blank
          /\ loading' = None
          /\ starting' = None
          /\ acting' = None
     ELSE UNCHANGED <<selected, shown, loading, starting, acting>>
  /\ UNCHANGED routing

-----------------------------------------------------------------------------
Next ==
  \/ Answer \/ Background \/ Routed \/ NewSession \/ Started
  \/ Act \/ Acted \/ Deleted
  \/ \E s \in Session : SelectSession(s) \/ Navigate(s) \/ Start(s) \/ DeleteSession(s)

\* Requests are answered.
Fairness == WF_vars(Answer) /\ WF_vars(Routed) /\ WF_vars(Started) /\ WF_vars(Acted)

FairSpec == Init /\ [][Next]_vars /\ Fairness

\* A session that stays selected comes on the screen: "old responses and errors are
\* checked by request generation and session id" (frontend/README.md), so no request for
\* another session should cost the selected one its answer.
SelectionSettles ==
  \A s \in Session : selected = s ~> (shown.id = s \/ selected # s)
=============================================================================
