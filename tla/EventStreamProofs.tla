-------------------------- MODULE EventStreamProofs --------------------------
(***************************************************************************)
(* Proof that a browser only ever shows what the database held, for every  *)
(* number of epochs and events.                                            *)
(*                                                                         *)
(* The endpoint compares cursors and never contents, so the invariant says *)
(* what a cursor is worth: no event has a cursor the database has not      *)
(* reached, and one that is still somewhere on its way leads from every    *)
(* content the database had under the cursor before to one it had under    *)
(* the event's own (Faithful).  A cursor is given to one content only,     *)
(* except the last, where a run may fail without an event (CursorInv).     *)
(*                                                                         *)
(* From there every step is a step of FollowedRun: the database advances,  *)
(* or the browser shows the present state or the next one.                 *)
(***************************************************************************)
EXTENDS EventStream, SequenceTheorems, TLAPS

Event == [cursor: Cursor, kind: {"delta", "part", "end"}]

Prev(c) == <<c[1], c[2] - 1>>

\* The events that may be delivered to whoever shows the state before them.
Faithful ==
  {e \in Event :
     /\ ~Before(run.cursor, e.cursor)
     /\ e.kind # "end" =>
          \A v \in past : v[1] = Prev(e.cursor) =>
            <<e.cursor, Append(v[2], <<e.cursor, e.kind>>)>> \in past}

RowInv ==
  /\ run \in [cursor: Cursor, status: {"active", "done"}, content: Content, safe: Content]
  /\ past \subseteq Cursor \X Content
  /\ <<run.cursor, run.content>> \in past

\* The database never had a cursor beyond its own, and one content for that of an active run.
CursorInv ==
  /\ \A v \in past : ~Before(run.cursor, v[1])
  /\ run.status = "active" => \A v \in past : v[1] = run.cursor => v[2] = run.content

\* Every event on its way is faithful.
EventInv ==
  /\ limbo \subseteq Faithful
  /\ stream \in Seq(Faithful)
  /\ conn \in [open: BOOLEAN, visible: Cursor, redis: Nat, batch: Seq(Faithful)]

\* The endpoint knows what its browser shows.
ClientInv ==
  /\ client \in [cursor: Cursor, content: Content, ended: BOOLEAN]
  /\ conn.open => conn.visible = client.cursor
  /\ ShowsDatabaseState

StreamInv == RowInv /\ CursorInv /\ EventInv /\ ClientInv

-----------------------------------------------------------------------------
(* Lemmas about cursors and contents. *)

\* The parts of a cursor.
LEMMA CursorParts ==
  ASSUME NEW c \in Cursor
  PROVE  /\ c[1] \in 1..MaxEpoch /\ c[2] \in 0..MaxSeq /\ c = <<c[1], c[2]>>
         /\ c[1] \in Int /\ c[2] \in Int
BY StreamConstants DEF Cursor, StreamConstants

\* The next cursor, in this epoch or at the start of the next, is one nobody has, and
\* nothing that has a cursor follows it.
LEMMA LaterCursor ==
  ASSUME NEW c \in Cursor, NEW n \in Cursor,
         \/ n[1] = c[1] /\ n[2] = c[2] + 1
         \/ n[1] = c[1] + 1 /\ n[2] = 0,
         NEW d \in Cursor, ~Before(c, d)
  PROVE  ~Before(n, d) /\ d # n /\ Prev(d) # n
<1>1. /\ c[1] \in Int /\ c[2] \in Int /\ n[1] \in Int /\ n[2] \in Int
      /\ d[1] \in Int /\ d[2] \in Int /\ c[2] >= 0
  BY CursorParts, StreamConstants DEF StreamConstants
<1>2. Prev(d)[1] = d[1] /\ Prev(d)[2] = d[2] - 1
  BY DEF Prev
<1> HIDE DEF Prev
<1> QED BY <1>1, <1>2 DEF Before

\* Nothing that has a cursor follows the present one.
LEMMA LastCursor ==
  ASSUME NEW c \in Cursor, NEW d \in Cursor, ~Before(c, d)
  PROVE  Prev(d) # c
<1>1. c[1] \in Int /\ c[2] \in Int /\ d[1] \in Int /\ d[2] \in Int
  BY CursorParts
<1>2. Prev(d)[1] = d[1] /\ Prev(d)[2] = d[2] - 1
  BY DEF Prev
<1> HIDE DEF Prev
<1> QED BY <1>1, <1>2 DEF Before

\* Showing an event adds its mark.
LEMMA AppliedContent ==
  ASSUME NEW content \in Content, NEW c \in Cursor, NEW kind \in {"delta", "part", "unknown"}
  PROVE  Append(content, <<c, kind>>) \in Content
BY DEF Content

\* Part of a sequence is made of what the sequence is made of.
LEMMA SomeEntries ==
  ASSUME NEW S, NEW s \in Seq(S), NEW m \in Nat, m <= Len(s)
  PROVE  SubSeq(s, m + 1, Len(s)) \in Seq(S)
<1>1. Len(s) \in Nat
  BY LenProperties
<1>2. m + 1 \in 1..(Len(s) + 1) /\ Len(s) \in 0..Len(s)
  BY <1>1
<1> QED BY <1>2, SubSeqProperties

-----------------------------------------------------------------------------
(* The database. *)

\* A new state of the row leaves every event faithful, if no event leads from it.
LEMMA StillFaithful ==
  ASSUME RowInv, past' = past \cup {<<run'.cursor, run'.content>>},
         \A d \in Cursor : ~Before(run.cursor, d) => /\ ~Before(run'.cursor, d)
                                                     /\ Prev(d) # run'.cursor
  PROVE  Faithful \subseteq Faithful'
<1> SUFFICES ASSUME NEW e \in Faithful PROVE e \in Faithful'
  OBVIOUS
<1>1. e \in Event /\ e.cursor \in Cursor /\ ~Before(run.cursor, e.cursor)
  BY DEF Faithful, Event
<1>2. ~Before(run'.cursor, e.cursor) /\ Prev(e.cursor) # run'.cursor
  BY <1>1
<1>3. ASSUME e.kind # "end", NEW v \in past', v[1] = Prev(e.cursor)
      PROVE  <<e.cursor, Append(v[2], <<e.cursor, e.kind>>)>> \in past'
  <2>1. v \in past
    BY <1>2, <1>3
  <2> QED BY <1>3, <2>1 DEF Faithful
<1> HIDE DEF Before, Prev
<1> QED BY <1>1, <1>2, <1>3 DEF Faithful

\* What is on its way stays faithful.
LEMMA StillOnTheWay ==
  ASSUME EventInv, Faithful \subseteq Faithful', UNCHANGED <<stream, conn>>
  PROVE  /\ limbo \subseteq Faithful' /\ stream' \in Seq(Faithful')
         /\ conn' \in [open: BOOLEAN, visible: Cursor, redis: Nat, batch: Seq(Faithful')]
<1>1. ASSUME NEW s \in Seq(Faithful) PROVE s \in Seq(Faithful')
  BY SeqDef
<1> HIDE DEF Faithful
<1> QED BY <1>1 DEF EventInv

\* The browser is not touched by what the database does.
LEMMA StillShown ==
  ASSUME ClientInv, past \subseteq past', UNCHANGED <<conn, client>>
  PROVE  ClientInv'
BY DEF ClientInv, ShowsDatabaseState

\* A fact of the run is committed: its event is faithful.
LEMMA CommitStep ==
  ASSUME StreamInv, NEW kind \in {"delta", "part", "end"}, Commit(kind)
  PROVE  StreamInv'
<1> DEFINE next == <<run.cursor[1], run.cursor[2] + 1>>
           event == [cursor |-> next, kind |-> kind]
           content == Applied(run.content, event)
           row == [cursor |-> next, status |-> IF kind = "end" THEN "done" ELSE "active",
                   content |-> content, safe |-> IF kind = "part" THEN content ELSE run.safe]
<1>1. /\ run.status = "active" /\ run.cursor[2] < MaxSeq
      /\ run' = row /\ past' = past \cup {<<row.cursor, row.content>>}
      /\ UNCHANGED <<stream, conn, client>>
      /\ limbo' = limbo \cup {event}
  BY DEF Commit, Store
<1>2. /\ run.cursor \in Cursor /\ run.content \in Content /\ run.safe \in Content
      /\ <<run.cursor, run.content>> \in past /\ past \subseteq Cursor \X Content
  BY DEF StreamInv, RowInv
<1>3. next \in Cursor /\ next[1] = run.cursor[1] /\ next[2] = run.cursor[2] + 1
  BY <1>1, <1>2, CursorParts, StreamConstants DEF Cursor, StreamConstants
<1>4. Prev(next) = run.cursor
  BY <1>2, CursorParts DEF Prev
<1> HIDE DEF next
<1>5. content \in Content /\ (kind # "end" => content = Append(run.content, <<next, kind>>))
  BY <1>2, <1>3, AppliedContent DEF Applied
<1>6. event \in Event /\ event.cursor = next /\ event.kind = kind
  BY <1>3 DEF Event
<1> HIDE DEF content, event
<1>7. run'.cursor = next /\ run'.content = content
      /\ run' \in [cursor: Cursor, status: {"active", "done"}, content: Content, safe: Content]
  BY <1>1, <1>2, <1>3, <1>5
<1>8. past' = past \cup {<<next, content>>}
  BY <1>1
<1>9. \A d \in Cursor : ~Before(run.cursor, d) => /\ ~Before(next, d) /\ d # next
                                                  /\ Prev(d) # next
  BY <1>2, <1>3, LaterCursor
<1>10. ~Before(next, next)
  BY <1>3, CursorParts DEF Before
<1>11. \A v \in past : v[1] \in Cursor /\ ~Before(run.cursor, v[1])
  BY <1>2 DEF StreamInv, CursorInv
<1> HIDE DEF Before, Prev
<1>12. RowInv'
  BY <1>2, <1>3, <1>5, <1>7, <1>8 DEF RowInv
<1>13. CursorInv'
  <2>1. \A v \in past' : ~Before(next, v[1])
    BY <1>8, <1>9, <1>10, <1>11
  <2>2. \A v \in past' : v[1] = next => v[2] = content
    BY <1>8, <1>9, <1>11
  <2> QED BY <1>7, <2>1, <2>2 DEF CursorInv
<1>14. Faithful \subseteq Faithful'
  BY <1>7, <1>8, <1>9, StillFaithful DEF StreamInv
<1>15. event \in Faithful'
  <2>1. ASSUME kind # "end", NEW v \in past', v[1] = run.cursor
        PROVE  <<next, Append(v[2], <<next, kind>>)>> \in past'
    <3>1. v \in past
      <4>1. run.cursor # next
        BY <1>2, <1>3, CursorParts
      <4> QED BY <1>8, <2>1, <4>1
    <3>2. v[2] = run.content
      BY <1>1, <2>1, <3>1 DEF StreamInv, CursorInv
    <3> QED BY <1>5, <1>8, <2>1, <3>2
  <2> QED BY <1>4, <1>6, <1>7, <1>10, <2>1 DEF Faithful
<1>16. EventInv'
  <2>1. /\ limbo \subseteq Faithful' /\ stream' \in Seq(Faithful')
        /\ conn' \in [open: BOOLEAN, visible: Cursor, redis: Nat, batch: Seq(Faithful')]
    BY <1>1, <1>14, StillOnTheWay DEF StreamInv
  <2> QED BY <1>1, <1>15, <2>1 DEF EventInv
<1>17. ClientInv'
  BY <1>1, <1>8, StillShown DEF StreamInv
<1> QED BY <1>12, <1>13, <1>16, <1>17 DEF StreamInv

\* A new epoch starts at a cursor nobody had.
LEMMA NewEpochStep ==
  ASSUME StreamInv, NewEpoch
  PROVE  StreamInv'
<1> DEFINE next == <<run.cursor[1] + 1, 0>>
<1>1. /\ run.status = "active" /\ run.cursor[1] < MaxEpoch
      /\ run' = [run EXCEPT !.cursor = next, !.content = run.safe]
      /\ past' = past \cup {<<run'.cursor, run'.content>>}
      /\ UNCHANGED <<limbo, stream, conn, client>>
  BY DEF NewEpoch, Store
<1>2. /\ run.cursor \in Cursor /\ run.content \in Content /\ run.safe \in Content
      /\ past \subseteq Cursor \X Content
      /\ run \in [cursor: Cursor, status: {"active", "done"}, content: Content, safe: Content]
  BY DEF StreamInv, RowInv
<1>3. next \in Cursor /\ next[1] = run.cursor[1] + 1 /\ next[2] = 0
  BY <1>1, <1>2, CursorParts, StreamConstants DEF Cursor, StreamConstants
<1> HIDE DEF next
<1>4. run'.cursor = next /\ run'.content = run.safe
      /\ run' \in [cursor: Cursor, status: {"active", "done"}, content: Content, safe: Content]
  BY <1>1, <1>2, <1>3
<1>5. \A d \in Cursor : ~Before(run.cursor, d) => /\ ~Before(next, d) /\ d # next
                                                  /\ Prev(d) # next
  BY <1>2, <1>3, LaterCursor
<1>6. ~Before(next, next)
  BY <1>3, CursorParts DEF Before
<1>7. \A v \in past : v[1] \in Cursor /\ ~Before(run.cursor, v[1])
  BY <1>2 DEF StreamInv, CursorInv
<1>8. past' = past \cup {<<next, run.safe>>}
  BY <1>1, <1>4
<1> HIDE DEF Before, Prev
<1>9. RowInv'
  BY <1>2, <1>3, <1>4, <1>8 DEF RowInv
<1>10. CursorInv'
  <2>1. \A v \in past' : ~Before(next, v[1])
    BY <1>5, <1>6, <1>7, <1>8
  <2>2. \A v \in past' : v[1] = next => v[2] = run.safe
    BY <1>5, <1>7, <1>8
  <2> QED BY <1>4, <2>1, <2>2 DEF CursorInv
<1>11. Faithful \subseteq Faithful'
  BY <1>1, <1>4, <1>5, StillFaithful DEF StreamInv
<1>12. EventInv'
  BY <1>1, <1>11, StillOnTheWay DEF StreamInv, EventInv
<1>13. ClientInv'
  BY <1>1, <1>8, StillShown DEF StreamInv
<1> QED BY <1>9, <1>10, <1>12, <1>13 DEF StreamInv

\* A run that fails without an event has a second content under its last cursor, and
\* no event leads on from there.
LEMMA FailSilentlyStep ==
  ASSUME StreamInv, FailSilently
  PROVE  StreamInv'
<1> DEFINE content == Append(run.content, <<run.cursor, "unknown">>)
<1>1. /\ run.status = "active"
      /\ run' = [run EXCEPT !.status = "done", !.content = content]
      /\ past' = past \cup {<<run'.cursor, run'.content>>}
      /\ UNCHANGED <<limbo, stream, conn, client>>
  BY DEF FailSilently, Store
<1>2. /\ run.cursor \in Cursor /\ run.content \in Content
      /\ past \subseteq Cursor \X Content
      /\ run \in [cursor: Cursor, status: {"active", "done"}, content: Content, safe: Content]
  BY DEF StreamInv, RowInv
<1>3. content \in Content
  BY <1>2, AppliedContent
<1> HIDE DEF content
<1>4. run'.cursor = run.cursor /\ run'.content = content /\ run'.status = "done"
      /\ run' \in [cursor: Cursor, status: {"active", "done"}, content: Content, safe: Content]
  BY <1>1, <1>2, <1>3
<1>5. past' = past \cup {<<run.cursor, content>>}
  BY <1>1, <1>4
<1>6. \A d \in Cursor : ~Before(run.cursor, d) => Prev(d) # run.cursor
  BY <1>2, LastCursor
<1>7. ~Before(run.cursor, run.cursor)
  BY <1>2, CursorParts DEF Before
<1> HIDE DEF Before, Prev
<1>8. RowInv'
  BY <1>2, <1>3, <1>4, <1>5 DEF RowInv
<1>9. CursorInv'
  BY <1>4, <1>5, <1>7 DEF StreamInv, CursorInv
<1>10. Faithful \subseteq Faithful'
  BY <1>1, <1>4, <1>6, StillFaithful DEF StreamInv
<1>11. EventInv'
  BY <1>1, <1>10, StillOnTheWay DEF StreamInv, EventInv
<1>12. ClientInv'
  BY <1>1, <1>5, StillShown DEF StreamInv
<1> QED BY <1>8, <1>9, <1>11, <1>12 DEF StreamInv

-----------------------------------------------------------------------------
(* Redis, the endpoint and the browser. *)

\* While the database does not change, what is faithful does not.
LEMMA SameDatabase ==
  ASSUME StreamInv, UNCHANGED <<run, past>>
  PROVE  RowInv' /\ CursorInv' /\ Faithful' = Faithful
BY DEF StreamInv, RowInv, CursorInv, Faithful

\* An event is published or lost, or Redis drops old entries.
LEMMA RedisStep ==
  ASSUME StreamInv, (\E event \in limbo : Publish(event) \/ PublishFails(event)) \/ Trim
  PROVE  StreamInv'
<1>0. /\ limbo \subseteq Faithful /\ stream \in Seq(Faithful)
      /\ conn \in [open: BOOLEAN, visible: Cursor, redis: Nat, batch: Seq(Faithful)]
  BY DEF StreamInv, EventInv
<1> HIDE DEF Faithful
<1>1. ASSUME NEW event \in limbo, Publish(event) \/ PublishFails(event) PROVE StreamInv'
  <2>1. /\ UNCHANGED <<run, conn, client, past>> /\ limbo' = limbo \ {event}
        /\ stream' = stream \/ stream' = Append(stream, event)
    BY <1>1 DEF Publish, PublishFails
  <2>2. stream' \in Seq(Faithful)
    BY <1>0, <2>1, AppendProperties
  <2>3. RowInv' /\ CursorInv' /\ Faithful' = Faithful
    BY <2>1, SameDatabase
  <2>4. EventInv'
    BY <1>0, <2>1, <2>2, <2>3 DEF EventInv
  <2>5. ClientInv'
    BY <2>1, StillShown DEF StreamInv
  <2> QED BY <2>3, <2>4, <2>5 DEF StreamInv
<1>2. ASSUME Trim PROVE StreamInv'
  <2>1. PICK dropped \in {1, Len(stream)} :
          /\ stream # <<>>
          /\ stream' = SubSeq(stream, dropped + 1, Len(stream))
          /\ conn' = [conn EXCEPT !.redis = IF @ > dropped THEN @ - dropped ELSE 0]
          /\ UNCHANGED <<run, limbo, client, past>>
    BY <1>2 DEF Trim
  <2>2. dropped \in Nat /\ dropped <= Len(stream)
    BY <1>0, <2>1, LenProperties, EmptySeq
  <2>3. stream' \in Seq(Faithful)
    BY <1>0, <2>1, <2>2, SomeEntries
  <2> DEFINE left == IF conn.redis > dropped THEN conn.redis - dropped ELSE 0
  <2>4. left \in Nat /\ conn' = [conn EXCEPT !.redis = left]
    BY <1>0, <2>1, <2>2
  <2> HIDE DEF left
  <2>5. /\ conn' \in [open: BOOLEAN, visible: Cursor, redis: Nat, batch: Seq(Faithful)]
        /\ conn'.open = conn.open /\ conn'.visible = conn.visible
    BY <1>0, <2>4
  <2>6. RowInv' /\ CursorInv' /\ Faithful' = Faithful
    BY <2>1, SameDatabase
  <2>7. EventInv'
    BY <1>0, <2>1, <2>3, <2>5, <2>6 DEF EventInv
  <2>8. ClientInv'
    BY <2>1, <2>5 DEF StreamInv, ClientInv, ShowsDatabaseState
  <2> QED BY <2>6, <2>7, <2>8 DEF StreamInv
<1> QED BY <1>1, <1>2

\* The snapshot is the database.
LEMMA Snapshot ==
  ASSUME StreamInv, NEW b \in Seq(Faithful), ShowSnapshot(b),
         UNCHANGED <<run, limbo, stream, past>>
  PROVE  StreamInv'
<1>0. /\ limbo \subseteq Faithful /\ stream \in Seq(Faithful)
      /\ conn \in [open: BOOLEAN, visible: Cursor, redis: Nat, batch: Seq(Faithful)]
      /\ run.cursor \in Cursor /\ run.content \in Content /\ <<run.cursor, run.content>> \in past
  BY DEF StreamInv, EventInv, RowInv
<1> HIDE DEF Faithful
<1> DEFINE live == run.status # "done"
           over == run.status = "done"
<1>1. /\ conn' = [conn EXCEPT !.open = live, !.visible = run.cursor, !.batch = b]
      /\ client' = [cursor |-> run.cursor, content |-> run.content, ended |-> over]
  BY DEF ShowSnapshot
<1>2. live \in BOOLEAN /\ over \in BOOLEAN
  OBVIOUS
<1> HIDE DEF live, over
<1>3. /\ conn' \in [open: BOOLEAN, visible: Cursor, redis: Nat, batch: Seq(Faithful)]
      /\ conn'.visible = run.cursor
  BY <1>0, <1>1, <1>2
<1>4. RowInv' /\ CursorInv' /\ Faithful' = Faithful
  BY SameDatabase
<1>5. EventInv'
  BY <1>0, <1>3, <1>4 DEF EventInv
<1>6. ClientInv'
  BY <1>0, <1>1, <1>2, <1>3 DEF ClientInv, ShowsDatabaseState
<1> QED BY <1>4, <1>5, <1>6 DEF StreamInv

\* The endpoint's connection opens and closes, and it reads Redis.
LEMMA ConnectionStep ==
  ASSUME StreamInv, Connect \/ Disconnect \/ Fetch \/ Heartbeat
  PROVE  StreamInv'
<1>0. /\ limbo \subseteq Faithful /\ stream \in Seq(Faithful)
      /\ conn \in [open: BOOLEAN, visible: Cursor, redis: Nat, batch: Seq(Faithful)]
      /\ run.cursor \in Cursor /\ run.content \in Content /\ <<run.cursor, run.content>> \in past
      /\ <<>> \in Seq(Faithful)
  BY EmptySeq DEF StreamInv, EventInv, RowInv
<1> HIDE DEF Faithful
<1>1. ASSUME UNCHANGED <<run, limbo, stream, past, client>>,
             conn' \in [open: BOOLEAN, visible: Cursor, redis: Nat, batch: Seq(Faithful)],
             conn'.open => conn.open, conn'.visible = conn.visible
      PROVE  StreamInv'
  <2>1. RowInv' /\ CursorInv' /\ Faithful' = Faithful
    BY <1>1, SameDatabase
  <2>2. EventInv'
    BY <1>0, <1>1, <2>1 DEF EventInv
  <2>3. ClientInv'
    BY <1>1 DEF StreamInv, ClientInv, ShowsDatabaseState
  <2> QED BY <2>1, <2>2, <2>3 DEF StreamInv
<1>2. CASE Connect
  <2> DEFINE live == run.status # "done"
             over == run.status = "done"
  <2>1. /\ client' = [cursor |-> run.cursor, content |-> run.content, ended |-> over]
        /\ conn' = [open |-> live, visible |-> run.cursor, redis |-> 0, batch |-> <<>>]
        /\ UNCHANGED <<run, limbo, stream, past>>
    BY <1>2 DEF Connect
  <2>2. live \in BOOLEAN /\ over \in BOOLEAN
    OBVIOUS
  <2> HIDE DEF live, over
  <2>3. RowInv' /\ CursorInv' /\ Faithful' = Faithful
    BY <2>1, SameDatabase
  <2>4. EventInv'
    BY <1>0, <2>1, <2>2, <2>3 DEF EventInv
  <2>5. ClientInv'
    BY <1>0, <2>1, <2>2 DEF ClientInv, ShowsDatabaseState
  <2> QED BY <2>3, <2>4, <2>5 DEF StreamInv
<1>3. CASE Disconnect
  <2>1. /\ conn' = [conn EXCEPT !.open = FALSE, !.redis = 0, !.batch = <<>>]
        /\ UNCHANGED <<run, limbo, stream, client, past>>
    BY <1>3 DEF Disconnect
  <2>2. /\ conn' \in [open: BOOLEAN, visible: Cursor, redis: Nat, batch: Seq(Faithful)]
        /\ ~conn'.open /\ conn'.visible = conn.visible
    BY <1>0, <2>1
  <2> QED BY <1>1, <2>1, <2>2
<1>4. CASE Fetch
  <2> DEFINE size == Len(stream)
             entries == SubSeq(stream, conn.redis + 1, size)
  <2>1. /\ conn' = [conn EXCEPT !.redis = size, !.batch = entries]
        /\ conn.redis < size
        /\ UNCHANGED <<run, limbo, stream, client, past>>
    BY <1>4 DEF Fetch
  <2>2. size \in Nat /\ conn.redis \in Nat
    BY <1>0, LenProperties
  <2>3. entries \in Seq(Faithful)
    BY <1>0, <2>1, <2>2, SomeEntries
  <2> HIDE DEF entries, size
  <2>4. /\ conn' \in [open: BOOLEAN, visible: Cursor, redis: Nat, batch: Seq(Faithful)]
        /\ conn'.open = conn.open /\ conn'.visible = conn.visible
    BY <1>0, <2>1, <2>2, <2>3
  <2> QED BY <1>1, <2>1, <2>4
<1>5. CASE Heartbeat
  <2>1. conn.open /\ UNCHANGED <<run, limbo, stream, past>>
    BY <1>5 DEF Heartbeat
  <2>2. CASE Before(conn.visible, run.cursor)
    BY <1>0, <1>5, <2>1, <2>2, Snapshot DEF Heartbeat
  <2>3. CASE ~Before(conn.visible, run.cursor)
    <3> DEFINE live == run.status # "done"
    <3>1. conn' = [conn EXCEPT !.open = live] /\ UNCHANGED client /\ live \in BOOLEAN
      BY <1>5, <2>3 DEF Heartbeat
    <3> HIDE DEF live
    <3>2. /\ conn' \in [open: BOOLEAN, visible: Cursor, redis: Nat, batch: Seq(Faithful)]
          /\ conn'.visible = conn.visible
      BY <1>0, <3>1
    <3> QED BY <1>1, <2>1, <3>1, <3>2
  <2> QED BY <2>2, <2>3
<1> QED BY <1>2, <1>3, <1>4, <1>5

\* An event is skipped, answered with a snapshot, or shown: then it is the next one.
LEMMA HandleStep ==
  ASSUME StreamInv, Handle
  PROVE  StreamInv'
<1> DEFINE e == Head(conn.batch)
           rest == Tail(conn.batch)
<1>0. /\ limbo \subseteq Faithful /\ stream \in Seq(Faithful)
      /\ conn \in [open: BOOLEAN, visible: Cursor, redis: Nat, batch: Seq(Faithful)]
      /\ <<>> \in Seq(Faithful)
  BY EmptySeq DEF StreamInv, EventInv
<1>1. /\ conn.open /\ conn.batch # <<>> /\ UNCHANGED <<run, limbo, stream, past>>
      /\ \/ conn' = [conn EXCEPT !.batch = rest] /\ UNCHANGED client
         \/ ShowSnapshot(IF run.status = "done" THEN <<>> ELSE rest)
         \/ ~IsGap(e) /\ Deliver(e, rest)
  BY DEF Handle
<1> HIDE DEF Faithful
<1>2. e \in Faithful /\ rest \in Seq(Faithful)
  BY <1>0, <1>1, HeadTailProperties
<1> HIDE DEF e, rest
<1>3. RowInv' /\ CursorInv' /\ Faithful' = Faithful
  BY <1>1, SameDatabase
<1>4. CASE conn' = [conn EXCEPT !.batch = rest] /\ UNCHANGED client
  <2>1. /\ conn' \in [open: BOOLEAN, visible: Cursor, redis: Nat, batch: Seq(Faithful)]
        /\ conn'.open = conn.open /\ conn'.visible = conn.visible
    BY <1>0, <1>2, <1>4
  <2>2. EventInv'
    BY <1>0, <1>1, <1>3, <2>1 DEF EventInv
  <2>3. ClientInv'
    BY <1>1, <1>4, <2>1 DEF StreamInv, ClientInv, ShowsDatabaseState
  <2> QED BY <1>3, <2>2, <2>3 DEF StreamInv
<1>5. CASE ShowSnapshot(IF run.status = "done" THEN <<>> ELSE rest)
  <2>1. (IF run.status = "done" THEN <<>> ELSE rest) \in Seq(Faithful)
    BY <1>0, <1>2
  <2> QED BY <1>1, <1>5, <2>1, Snapshot
<1>6. CASE ~IsGap(e) /\ Deliver(e, rest)
  <2>1. /\ e.kind # "end" /\ e.cursor = <<conn.visible[1], conn.visible[2] + 1>>
        /\ conn' = [conn EXCEPT !.visible = e.cursor, !.batch = rest]
        /\ client' = [cursor |-> e.cursor, ended |-> FALSE,
                      content |-> Append(client.content, <<e.cursor, e.kind>>)]
    BY <1>6 DEF IsGap, Deliver, Applied
  <2>2. /\ e.cursor \in Cursor /\ e.kind \in {"delta", "part", "unknown"}
        /\ client.cursor \in Cursor /\ client.content \in Content
        /\ conn.visible = client.cursor
        /\ <<client.cursor, client.content>> \in past
    BY <1>1, <1>2, <2>1 DEF Faithful, Event, StreamInv, ClientInv, ShowsDatabaseState
  <2>3. Prev(e.cursor) = client.cursor
    <3>1. client.cursor = <<client.cursor[1], client.cursor[2]>> /\ client.cursor[2] \in Int
      BY <2>2, CursorParts
    <3>2. e.cursor[1] = client.cursor[1] /\ e.cursor[2] = client.cursor[2] + 1
      BY <2>1, <2>2
    <3>3. (client.cursor[2] + 1) - 1 = client.cursor[2]
      BY <3>1
    <3> QED BY <3>1, <3>2, <3>3, Zenon DEF Prev
  <2> HIDE DEF Prev
  <2> DEFINE content == Append(client.content, <<e.cursor, e.kind>>)
  <2>4. <<e.cursor, content>> \in past
    <3>1. \A v \in past : v[1] = Prev(e.cursor) =>
            <<e.cursor, Append(v[2], <<e.cursor, e.kind>>)>> \in past
      BY <1>2, <2>1 DEF Faithful
    <3> QED BY <2>2, <2>3, <3>1
  <2>5. content \in Content
    BY <2>2, AppliedContent
  <2> HIDE DEF content
  <2>6. client' = [cursor |-> e.cursor, ended |-> FALSE, content |-> content]
    BY <2>1 DEF content
  <2>7. /\ conn' \in [open: BOOLEAN, visible: Cursor, redis: Nat, batch: Seq(Faithful)]
        /\ conn'.visible = e.cursor
    BY <1>0, <1>2, <2>1, <2>2
  <2>8. EventInv'
    BY <1>0, <1>1, <1>3, <2>7 DEF EventInv
  <2>9. ClientInv'
    BY <1>1, <2>2, <2>4, <2>5, <2>6, <2>7 DEF ClientInv, ShowsDatabaseState
  <2> QED BY <1>3, <2>8, <2>9 DEF StreamInv
<1> QED BY <1>1, <1>4, <1>5, <1>6

-----------------------------------------------------------------------------
(* The properties. *)

\* A run starts with one content, and its browser shows it.
LEMMA StreamInit == Init => StreamInv
<1> SUFFICES ASSUME Init PROVE StreamInv
  OBVIOUS
<1>1. <<1, 0>> \in Cursor /\ <<>> \in Content /\ <<>> \in Seq(Faithful)
  BY StreamConstants, EmptySeq DEF Cursor, Content, StreamConstants
<1>2. ~Before(<<1, 0>>, <<1, 0>>)
  BY DEF Before
<1> HIDE DEF Cursor, Content, Faithful, Before
<1>3. /\ run = [cursor |-> <<1, 0>>, status |-> "active", content |-> <<>>, safe |-> <<>>]
      /\ limbo = {} /\ stream = <<>>
      /\ conn = [open |-> FALSE, visible |-> <<1, 0>>, redis |-> 0, batch |-> <<>>]
      /\ client = [cursor |-> <<1, 0>>, content |-> <<>>, ended |-> FALSE]
      /\ past = {<< <<1, 0>>, <<>> >>}
  BY DEF Init
<1>4. RowInv
  BY <1>1, <1>3 DEF RowInv
<1>5. CursorInv
  BY <1>2, <1>3 DEF CursorInv
<1>6. EventInv
  BY <1>1, <1>3 DEF EventInv
<1>7. ClientInv
  BY <1>1, <1>3 DEF ClientInv, ShowsDatabaseState
<1> QED BY <1>4, <1>5, <1>6, <1>7 DEF StreamInv

\* Every step keeps the invariant.
LEMMA StreamNext == StreamInv /\ [Next]_vars => StreamInv'
<1>1. StreamInv /\ Next => StreamInv'
  BY CommitStep, NewEpochStep, FailSilentlyStep, RedisStep, ConnectionStep, HandleStep DEF Next
<1>2. StreamInv /\ UNCHANGED vars => StreamInv'
  BY DEF vars, StreamInv, RowInv, CursorInv, EventInv, ClientInv, ShowsDatabaseState, Faithful
<1> QED BY <1>1, <1>2

\* A browser never shows a state the run was not in at that cursor, whatever Redis
\* loses, repeats or reorders and however often the connection breaks.
THEOREM ShownCorrect == Spec => []ShowsDatabaseState
<1>1. StreamInv => ShowsDatabaseState
  BY DEF StreamInv, ClientInv
<1> QED BY <1>1, StreamInit, StreamNext, PTL DEF Spec

-----------------------------------------------------------------------------
(* The abstract run. *)

\* A browser that shows the end shows the last state, and asks for nothing more.
EndInv ==
  client.ended => /\ ~conn.open /\ run.status = "done"
                  /\ client.cursor = run.cursor /\ client.content = run.content

\* The abstract run compares the cursors of its states.
LEMMA EarlierStates ==
  ASSUME NEW c, NEW d, NEW x, NEW y
  PROVE  Followed!Earlier(<<c, x>>, <<d, y>>) <=> Before(c, d)
BY DEF Followed!Earlier, Before

\* What a step does to the run and to what the browser shows: the run goes on, nothing
\* happens, the browser shows the present state, or it shows the next one.
Commits ==
  /\ run.status = "active"
  /\ past' = past \cup {<<run'.cursor, run'.content>>}
  /\ UNCHANGED <<conn, client>>

Idles ==
  /\ UNCHANGED <<run, past, client>>
  /\ conn'.open => conn.open

Refreshes ==
  /\ ~client.ended
  /\ UNCHANGED <<run, past>>
  /\ client'.cursor = run.cursor /\ client'.content = run.content
  /\ client'.ended <=> run.status = "done"
  /\ conn'.open => run.status # "done"

Follows ==
  /\ ~client.ended
  /\ UNCHANGED <<run, past>>
  /\ ~Before(client'.cursor, client.cursor)
  /\ ~client'.ended

\* A snapshot shows the present state.
LEMMA SnapshotRefreshes ==
  ASSUME StreamInv, ~client.ended, NEW b, ShowSnapshot(b), UNCHANGED <<run, past>>
  PROVE  Refreshes
<1> DEFINE live == run.status # "done"
           over == run.status = "done"
<1>1. /\ conn' = [conn EXCEPT !.open = live, !.visible = run.cursor, !.batch = b]
      /\ client' = [cursor |-> run.cursor, content |-> run.content, ended |-> over]
  BY DEF ShowSnapshot
<1>2. conn \in [open: BOOLEAN, visible: Cursor, redis: Nat, batch: Seq(Faithful)]
  BY DEF StreamInv, EventInv
<1> HIDE DEF live, over, Faithful
<1>3. /\ conn'.open = live /\ client'.ended = over
      /\ client'.cursor = run.cursor /\ client'.content = run.content
  BY <1>1, <1>2
<1> QED BY <1>3 DEF Refreshes, live, over

\* Every step is one of the four.
LEMMA StepFollows ==
  ASSUME StreamInv, EndInv, Next
  PROVE  Commits \/ Idles \/ Refreshes \/ Follows
<1>0. conn \in [open: BOOLEAN, visible: Cursor, redis: Nat, batch: Seq(Faithful)]
  BY DEF StreamInv, EventInv
<1> HIDE DEF Faithful
<1>1. CASE (\E kind \in {"delta", "part", "end"} : Commit(kind)) \/ NewEpoch \/ FailSilently
  <2>1. ASSUME NEW row, Store(row), run.status = "active" PROVE Commits
    BY <2>1 DEF Store, Commits
  <2> QED BY <1>1, <2>1 DEF Commit, NewEpoch, FailSilently
<1>2. CASE \E event \in limbo : Publish(event) \/ PublishFails(event)
  BY <1>2 DEF Publish, PublishFails, Idles
<1>3. CASE Trim
  BY <1>0, <1>3 DEF Trim, Idles
<1>4. CASE Connect
  BY <1>4 DEF Connect, Refreshes
<1>5. CASE Disconnect \/ Fetch
  BY <1>0, <1>5 DEF Disconnect, Fetch, Idles
<1>6. ASSUME conn.open PROVE ~client.ended
  BY <1>6 DEF EndInv
<1>7. CASE Heartbeat
  <2>1. conn.open /\ ~client.ended /\ UNCHANGED <<run, past>>
    BY <1>6, <1>7 DEF Heartbeat
  <2>2. CASE Before(conn.visible, run.cursor)
    <3>1. ShowSnapshot(<<>>)
      BY <1>7, <2>2 DEF Heartbeat
    <3> QED BY <2>1, <3>1, SnapshotRefreshes
  <2>3. CASE ~Before(conn.visible, run.cursor)
    BY <1>0, <1>7, <2>1, <2>3 DEF Heartbeat, Idles
  <2> QED BY <2>2, <2>3
<1>8. CASE Handle
  <2> DEFINE e == Head(conn.batch)
             rest == Tail(conn.batch)
  <2>1. /\ conn.open /\ ~client.ended /\ UNCHANGED <<run, past>>
        /\ \/ conn' = [conn EXCEPT !.batch = rest] /\ UNCHANGED client
           \/ ShowSnapshot(IF run.status = "done" THEN <<>> ELSE rest)
           \/ ~IsGap(e) /\ Deliver(e, rest)
    BY <1>6, <1>8 DEF Handle
  <2> HIDE DEF e, rest
  <2>2. CASE conn' = [conn EXCEPT !.batch = rest] /\ UNCHANGED client
    BY <1>0, <2>1, <2>2 DEF Idles
  <2>3. CASE ShowSnapshot(IF run.status = "done" THEN <<>> ELSE rest)
    BY <2>1, <2>3, SnapshotRefreshes
  <2>4. CASE ~IsGap(e) /\ Deliver(e, rest)
    <3>1. e.cursor = <<client.cursor[1], client.cursor[2] + 1>> /\ client.cursor \in Cursor
      BY <2>1, <2>4 DEF IsGap, StreamInv, ClientInv
    <3>2. client'.cursor = e.cursor /\ ~client'.ended
      BY <2>4 DEF Deliver
    <3>3. ~Before(e.cursor, client.cursor)
      BY <3>1, CursorParts DEF Before
    <3> QED BY <2>1, <3>2, <3>3 DEF Follows
  <2> QED BY <2>1, <2>2, <2>3, <2>4
<1> QED BY <1>1, <1>2, <1>3, <1>4, <1>5, <1>7, <1>8 DEF Next

\* The end that is shown stays the end.
LEMMA EndStep ==
  ASSUME StreamInv, EndInv, Next
  PROVE  EndInv'
<1>1. CASE Commits
  BY <1>1 DEF Commits, EndInv
<1>2. CASE Idles
  BY <1>2 DEF Idles, EndInv
<1>3. CASE Refreshes
  BY <1>3 DEF Refreshes, EndInv
<1>4. CASE Follows
  BY <1>4 DEF Follows, EndInv
<1> QED BY <1>1, <1>2, <1>3, <1>4, StepFollows

\* Each of the four is a step of the abstract run or leaves it alone.
LEMMA FollowStep ==
  ASSUME StreamInv, StreamInv', EndInv, Next
  PROVE  [Followed!Next]_(Followed!vars)
<1>0. /\ \A v \in past : ~Before(run.cursor, v[1])
      /\ \A v \in past' : ~Before(run'.cursor, v[1])
      /\ <<run.cursor, run.content>> \in past
      /\ <<client.cursor, client.content>> \in past
      /\ <<client'.cursor, client'.content>> \in past'
      /\ client'.ended \in BOOLEAN
  BY DEF StreamInv, RowInv, CursorInv, ClientInv, ShowsDatabaseState
<1> HIDE DEF Before
<1>1. CASE Commits
  <2>1. <<run.cursor, run.content>> \in past'
    BY <1>0, <1>1 DEF Commits
  <2>2. ~Before(run'.cursor, run.cursor)
    BY <1>0, <2>1
  <2>3. Followed!Advance
    BY <1>1, <2>2, EarlierStates DEF Commits, Followed!Advance
  <2> QED BY <2>3 DEF Followed!Next
<1>2. CASE Idles
  BY <1>2 DEF Idles, Followed!vars
<1>3. CASE Refreshes
  <2>1. ~Before(run.cursor, client.cursor)
    BY <1>0
  <2>2. Followed!Show
    BY <1>0, <1>3, <2>1, EarlierStates DEF Refreshes, Followed!Show
  <2> QED BY <2>2 DEF Followed!Next
<1>4. CASE Follows
  <2>1. Followed!Show
    BY <1>0, <1>4, EarlierStates DEF Follows, Followed!Show
  <2> QED BY <2>1 DEF Followed!Next
<1> QED BY <1>1, <1>2, <1>3, <1>4, StepFollows

\* Over reordered, lost and repeated events and new connections a browser sees states of
\* the run in the order it was in them, and the end only with the last of them.
THEOREM FollowedCorrect == Spec => ImplementsFollowedRun
<1> DEFINE Inv == StreamInv /\ EndInv
<1>1. Init => Inv
  BY StreamInit DEF Init, EndInv
<1>2. Inv /\ [Next]_vars => Inv'
  <2>1. EndInv /\ UNCHANGED vars => EndInv'
    BY DEF EndInv, vars
  <2> QED BY <2>1, StreamNext, EndStep
<1>3. Init => Followed!Init
  BY DEF Init, Followed!Init
<1>4. Inv /\ [Next]_vars => [Followed!Next]_(Followed!vars)
  <2>1. UNCHANGED vars => UNCHANGED Followed!vars
    BY DEF vars, Followed!vars
  <2> QED BY <1>2, <2>1, FollowStep
<1> QED BY <1>1, <1>2, <1>3, <1>4, PTL DEF Spec, ImplementsFollowedRun, Followed!Spec
============================================================================
