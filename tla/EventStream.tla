----------------------------- MODULE EventStream -----------------------------
(***************************************************************************)
(* How one browser follows one run.  Every fact is committed to PostgreSQL *)
(* under a cursor <<epoch, sequence>> and published to a bounded Redis     *)
(* stream afterwards, by whichever process committed it; the SSE endpoint  *)
(* merges that stream with snapshots of the database, and the browser      *)
(* applies what it receives and reconnects when the connection ends.       *)
(*                                                                         *)
(* Abstractions: what a run shows (draft, reasoning, content parts) is the *)
(* sequence of the marks of the events that made it; an event is a         *)
(* "delta", which a lost round takes back, a "part", which it does not, or *)
(* the "end".  `past' is a history variable: every <<cursor, content>> the *)
(* database ever had.                                                      *)
(***************************************************************************)
EXTENDS Integers, Sequences

CONSTANTS
  MaxEpoch,   \* bound: stream_epoch
  MaxSeq      \* bound: events of an epoch

ASSUME StreamConstants == {MaxEpoch, MaxSeq} \subseteq Nat \ {0}

VARIABLES
  run,      \* the AgentRun row: cursor, status, what it shows, what is safe
  limbo,    \* events that are committed but not published
  stream,   \* the entries Redis still has, oldest first
  conn,     \* the SSE generator: its cursor, the entries it has read, the batch it works on
  client,   \* what the browser shows
  past

vars == <<run, limbo, stream, conn, client, past>>

-----------------------------------------------------------------------------
Cursor == (1..MaxEpoch) \X (0..MaxSeq)
Content == Seq(Cursor \X {"delta", "part", "unknown"})

Before(c, d) == c[1] < d[1] \/ (c[1] = d[1] /\ c[2] < d[2])

Init ==
  /\ run = [cursor |-> <<1, 0>>, status |-> "active", content |-> <<>>, safe |-> <<>>]
  /\ limbo = {}
  /\ stream = <<>>
  /\ conn = [open |-> FALSE, visible |-> <<1, 0>>, redis |-> 0, batch |-> <<>>]
  /\ client = [cursor |-> <<1, 0>>, content |-> <<>>, ended |-> FALSE]
  /\ past = {<< <<1, 0>>, <<>> >>}

-----------------------------------------------------------------------------
(* The database: workers and request handlers commit facts of the run. *)

Store(row) ==
  /\ run' = row
  /\ past' = past \cup {<<row.cursor, row.content>>}
  /\ UNCHANGED <<stream, conn, client>>

\* What showing an event does to the content, in the database and in the browser.
Applied(content, event) ==
  IF event.kind = "end" THEN content ELSE Append(content, <<event.cursor, event.kind>>)

\* _event in a transaction: the next sequence number of the epoch.
Commit(kind) ==
  LET event == [cursor |-> <<run.cursor[1], run.cursor[2] + 1>>, kind |-> kind]
      content == Applied(run.content, event)
  IN  /\ run.status = "active"
      /\ run.cursor[2] < MaxSeq
      /\ Store([cursor |-> event.cursor,
                status |-> IF kind = "end" THEN "done" ELSE "active",
                content |-> content,
                safe |-> IF kind = "part" THEN content ELSE run.safe])
      /\ limbo' = limbo \cup {event}

\* A lost run is taken back, or a question is answered: a new epoch from the safe draft.
NewEpoch ==
  /\ run.status = "active"
  /\ run.cursor[1] < MaxEpoch
  /\ Store([run EXCEPT !.cursor = <<run.cursor[1] + 1, 0>>, !.content = run.safe])
  /\ UNCHANGED limbo

\* recover finds a batch of unknown outcome: the run fails and no event says so.
FailSilently ==
  /\ run.status = "active"
  /\ Store([run EXCEPT !.status = "done",
                       !.content = Append(@, <<run.cursor, "unknown">>)])
  /\ UNCHANGED limbo

-----------------------------------------------------------------------------
(* Redis: publication follows the commit, in any order, or fails for good. *)

Publish(event) ==
  /\ limbo' = limbo \ {event}
  /\ stream' = Append(stream, event)
  /\ UNCHANGED <<run, conn, client, past>>

PublishFails(event) ==
  /\ limbo' = limbo \ {event}
  /\ UNCHANGED <<run, stream, conn, client, past>>

\* MAXLEN drops the oldest entries, the TTL or a restart drops them all.
Trim ==
  \E dropped \in {1, Len(stream)} :
    /\ stream # <<>>
    /\ stream' = SubSeq(stream, dropped + 1, Len(stream))
    /\ conn' = [conn EXCEPT !.redis = IF @ > dropped THEN @ - dropped ELSE 0]
    /\ UNCHANGED <<run, limbo, client, past>>

-----------------------------------------------------------------------------
(* The SSE endpoint and the browser at its other end. *)

\* The snapshot replaces everything the browser shows.
ShowSnapshot(batch) ==
  /\ client' = [cursor |-> run.cursor, content |-> run.content,
                ended |-> run.status = "done"]
  /\ conn' = [conn EXCEPT !.open = run.status # "done", !.visible = run.cursor,
                          !.batch = batch]

\* stream_agent_run: every connection starts with a snapshot and reads Redis from 0-0.
Connect ==
  /\ ~conn.open
  /\ ~client.ended
  /\ client' = [cursor |-> run.cursor, content |-> run.content,
                ended |-> run.status = "done"]
  /\ conn' = [open |-> run.status # "done", visible |-> run.cursor, redis |-> 0,
              batch |-> <<>>]
  /\ UNCHANGED <<run, limbo, stream, past>>

Disconnect ==
  /\ conn.open
  /\ conn' = [conn EXCEPT !.open = FALSE, !.redis = 0, !.batch = <<>>]
  /\ UNCHANGED <<run, limbo, stream, client, past>>

\* read: the entries after the Redis cursor that are still there.
Fetch ==
  /\ conn.open
  /\ conn.batch = <<>>
  /\ conn.redis < Len(stream)
  /\ conn' = [conn EXCEPT !.redis = Len(stream),
                          !.batch = SubSeq(stream, conn.redis + 1, Len(stream))]
  /\ UNCHANGED <<run, limbo, stream, client, past>>

Deliver(event, batch) ==
  /\ conn' = [conn EXCEPT !.visible = event.cursor, !.batch = batch]
  /\ client' = [cursor |-> event.cursor, content |-> Applied(client.content, event),
                ended |-> FALSE]

IsOld(event) == ~Before(conn.visible, event.cursor)

\* Mutant: whatever is new is delivered.
IsGapNever(event) == event.kind = "end"

IsGap(event) ==
  \/ event.cursor # <<conn.visible[1], conn.visible[2] + 1>>
  \/ event.kind = "end"

\* One event of the batch.  The snapshot that closes a gap covers the event: it was
\* committed before it was published.
Handle ==
  /\ conn.open
  /\ conn.batch # <<>>
  /\ LET event == Head(conn.batch)
         batch == Tail(conn.batch)
     IN  \/ /\ IsOld(event)
            /\ conn' = [conn EXCEPT !.batch = batch]
            /\ UNCHANGED client
         \/ /\ ~IsOld(event)
            /\ IsGap(event)
            /\ ShowSnapshot(IF run.status = "done" THEN <<>> ELSE batch)
         \/ /\ ~IsOld(event)
            /\ ~IsGap(event)
            /\ Deliver(event, batch)
  /\ UNCHANGED <<run, limbo, stream, past>>

\* Mutant: the heartbeat keeps the connection open and asks nothing.
HeartbeatOnly ==
  /\ conn.open
  /\ conn.batch = <<>>
  /\ UNCHANGED vars

\* Now and then the endpoint compares its cursor with the database.
Heartbeat ==
  /\ conn.open
  /\ conn.batch = <<>>
  /\ IF Before(conn.visible, run.cursor) THEN ShowSnapshot(<<>>)
     ELSE /\ conn' = [conn EXCEPT !.open = run.status # "done"]
          /\ UNCHANGED client
  /\ UNCHANGED <<run, limbo, stream, past>>

-----------------------------------------------------------------------------
Next ==
  \/ \E kind \in {"delta", "part", "end"} : Commit(kind)
  \/ NewEpoch \/ FailSilently
  \/ \E event \in limbo : Publish(event) \/ PublishFails(event)
  \/ Trim
  \/ Connect \/ Disconnect \/ Fetch \/ Handle \/ Heartbeat

Spec == Init /\ [][Next]_vars

\* The endpoint's loop runs while the connection is open, and the browser reconnects.
Fairness ==
  WF_vars(Connect) /\ WF_vars(Fetch) /\ WF_vars(Handle) /\ WF_vars(Heartbeat)

FairSpec == Spec /\ Fairness

-----------------------------------------------------------------------------
(* What the browser may rely on. *)

\* The browser never shows a state the run was not in at that cursor: no event is
\* skipped, doubled or applied to the wrong draft, whatever order Redis has them in.
ShowsDatabaseState == <<client.cursor, client.content>> \in past

\* The watcher of the abstract run sees what the browser shows.
Followed == INSTANCE FollowedRun WITH
  First <- << <<1, 0>>, <<>> >>,
  now   <- <<run.cursor, run.content>>,
  over  <- (run.status = "done"),
  known <- past,
  view  <- <<client.cursor, client.content>>,
  ended <- client.ended

\* More than that, step by step: what the browser shows never goes back, also where a
\* connection starts over from the oldest entry of Redis, and once it shows the end it
\* shows the last state of the run for good.
ImplementsFollowedRun == Followed!Spec

\* A browser that stays learns how the run ended.
EndIsSeen == (run.status = "done") ~> client.ended
=============================================================================
