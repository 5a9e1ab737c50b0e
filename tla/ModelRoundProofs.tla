-------------------------- MODULE ModelRoundProofs --------------------------
(***************************************************************************)
(* Theorems about ModelRound, for every set of tools, batches and children *)
(* and for every bound.                                                    *)
(*                                                                         *)
(* The first half is about what the loop knows when it accepts an answer   *)
(* (Informed).  The second follows the text of an answer: what is written  *)
(* and what waits in the batcher is the beginning of what was sent, and    *)
(* the channel holds the rest in order (ChannelInv); the draft, or behind  *)
(* the guard the buffer, is what is written (DraftInv).                    *)
(***************************************************************************)
EXTENDS ModelRound, SequenceTheorems, TLAPS

\* Where an answer is being asked for, written or has been accepted.
Answering == {"send", "stream", "overflow", "decide", "completed"}

\* An answer that is not withheld is written while no required child is uncollected.  Only
\* the boundary decides whether to withhold, only a tool round starts or collects children,
\* and it leads back to the boundary; a child that ends was running before.
Informed ==
  /\ "deferred" \in DOMAIN round
  /\ child \in [Child -> {"none", "running", "terminal", "collected"}]
  /\ (phase \in Answering /\ ~round.deferred) => Blocked = {}
  /\ phase = "completed" => ~round.deferred

-----------------------------------------------------------------------------
\* Nothing has been asked for in the initial states.
LEMMA InformedInit == Init => Informed
BY DEF Init, Informed, Answering, FreshRound

\* A step that leaves the children alone and the decision of the round as it was, and asks
\* for an answer only if one was being asked for.
LEMMA SameRound ==
  ASSUME Informed, UNCHANGED child,
         "deferred" \in DOMAIN round', round'.deferred = round.deferred,
         phase' \in Answering => phase \in Answering,
         phase' = "completed" => phase = "completed"
  PROVE  Informed'
BY DEF Informed, Blocked

\* A step to the boundary, to a wait or to a failure.
LEMMA StopsAnswering ==
  ASSUME Informed, "deferred" \in DOMAIN round',
         child' \in [Child -> {"none", "running", "terminal", "collected"}],
         phase' \in {"boundary", "waiting", "failed"}
  PROVE  Informed'
BY DEF Informed, Answering

\* Collecting keeps the table of children a table of children.
LEMMA CollectedType ==
  ASSUME child \in [Child -> {"none", "running", "terminal", "collected"}]
  PROVE  Collected \in [Child -> {"none", "running", "terminal", "collected"}]
BY DEF Collected

-----------------------------------------------------------------------------
LEMMA ChildEndsInformed ==
  ASSUME Informed, NEW c \in Child, ChildEnds(c)
  PROVE  Informed'
<1>1. child' \in [Child -> {"none", "running", "terminal", "collected"}]
  BY DEF Informed, ChildEnds
<1>2. c \in Blocked
  BY DEF ChildEnds, Blocked
<1>3. ~(phase \in Answering /\ ~round.deferred)
  BY <1>2 DEF Informed
<1>4. UNCHANGED <<round, phase>> /\ phase # "completed"
  BY DEF ChildEnds, Ended
<1> QED BY <1>1, <1>3, <1>4 DEF Informed

LEMMA SteerInformed ==
  ASSUME Informed, Steer
  PROVE  Informed'
BY SameRound DEF Steer, Informed

LEMMA ProviderInformed ==
  ASSUME Informed, Provider
  PROVE  Informed'
<1>1. UNCHANGED <<round, child, phase>>
  BY DEF Provider, ProviderError, Chunk, ChunkCalls, Finish, Raise, Retry, FallBack, Emit
<1> QED BY <1>1, SameRound DEF Informed

\* Publishing keeps the decision of the round.
LEMMA PublishKeepsRound ==
  ASSUME Informed, NEW text, Publish(text)
  PROVE  "deferred" \in DOMAIN round' /\ round'.deferred = round.deferred
BY DEF Informed, Publish

LEMMA BatcherInformed ==
  ASSUME Informed, Batcher
  PROVE  Informed'
<1>1. CASE TakeRaw
  BY <1>1, SameRound DEF TakeRaw, Receive, Informed
<1>2. CASE TakeText
  <2>1. "deferred" \in DOMAIN round' /\ round'.deferred = round.deferred
    BY <1>2, PublishKeepsRound DEF TakeText
  <2>2. UNCHANGED <<child, phase>>
    BY <1>2 DEF TakeText, Receive
  <2> QED BY <2>1, <2>2, SameRound
<1>3. CASE FlushPending
  <2>1. "deferred" \in DOMAIN round' /\ round'.deferred = round.deferred
    BY <1>3, PublishKeepsRound DEF FlushPending
  <2>2. UNCHANGED <<child, phase>>
    BY <1>3 DEF FlushPending
  <2> QED BY <2>1, <2>2, SameRound
<1>4. CASE TakeCalls
  BY <1>4, SameRound DEF TakeCalls, Receive, Informed
<1>5. CASE TooLarge
  BY <1>5, StopsAnswering DEF TooLarge, Fail, Informed
<1>6. CASE TakeDone
  BY <1>6, SameRound DEF TakeDone, Receive, Informed, Answering
<1>7. CASE TakeError
  <2>1. UNCHANGED <<round, child>> /\ phase = "stream"
    BY <1>7 DEF TakeError, Fail
  <2>2. phase' \in {"overflow", "failed"}
    BY <1>7 DEF TakeError, Fail
  <2> QED BY <2>1, <2>2, SameRound DEF Informed, Answering
<1> QED BY <1>1, <1>2, <1>3, <1>4, <1>5, <1>6, <1>7 DEF Batcher

-----------------------------------------------------------------------------
\* The boundary looks at the children in the step that begins the round.
LEMMA StartInformed ==
  ASSUME Informed, Start
  PROVE  Informed'
<1>1. "deferred" \in DOMAIN round' /\ round'.deferred = (Blocked # {})
  BY DEF Start, FreshRound
<1>2. UNCHANGED child /\ phase' = "send"
  BY DEF Start
<1> QED BY <1>1, <1>2 DEF Informed, Blocked

\* An answer is accepted only if it was not withheld.
LEMMA CompleteInformed ==
  ASSUME Informed, Complete
  PROVE  Informed'
<1>1. UNCHANGED <<round, child>> /\ ~round.deferred
  BY DEF Complete
<1>2. Blocked = {} /\ phase' \in {"boundary", "completed"}
  BY DEF Complete, Informed, Answering
<1> QED BY <1>1, <1>2 DEF Informed, Blocked

\* A batch of tools goes back to the boundary, waits or fails.
LEMMA ToolRoundInformed ==
  ASSUME Informed, Correct \/ RejectBatch \/ CallRuntime \/ CallOrdinary
  PROVE  Informed'
<1>1. "deferred" \in DOMAIN round'
  BY DEF Informed, Correct, RejectBatch, CallRuntime, CallOrdinary, ToolRound
<1>2. phase' \in {"boundary", "waiting", "failed"}
  BY DEF Correct, RejectBatch, CallRuntime, CallOrdinary
<1>3. child' \in [Child -> {"none", "running", "terminal", "collected"}]
  <2>1. CASE CallRuntime
    <3>1. \/ child' = child
          \/ child' = Collected
          \/ child' = [c \in Child |-> IF child[c] = "none" THEN "running" ELSE child[c]]
      BY <2>1 DEF CallRuntime
    <3> QED BY <3>1, CollectedType DEF Informed
  <2>2. CASE Correct \/ RejectBatch \/ CallOrdinary
    BY <2>2 DEF Informed, Correct, RejectBatch, CallOrdinary
  <2> QED BY <2>1, <2>2
<1> QED BY <1>1, <1>2, <1>3, StopsAnswering

LEMMA WorkerInformed ==
  ASSUME Informed, Worker
  PROVE  Informed'
<1>1. CASE Start
  BY <1>1, StartInformed
<1>2. CASE CannotFit
  BY <1>2, StopsAnswering DEF CannotFit, Fail, Informed
<1>3. CASE Recover
  BY <1>3, SameRound DEF Recover, Informed, Answering
<1>4. CASE Send
  BY <1>4, SameRound DEF Send, Informed, Answering
<1>5. CASE Withhold
  BY <1>5, StopsAnswering, CollectedType DEF Withhold, Informed
<1>6. CASE Complete
  BY <1>6, CompleteInformed
<1>7. CASE Correct \/ RejectBatch \/ CallRuntime \/ CallOrdinary
  BY <1>7, ToolRoundInformed
<1> QED BY <1>1, <1>2, <1>3, <1>4, <1>5, <1>6, <1>7 DEF Worker

LEMMA InformedNext ==
  ASSUME Informed, [Next]_vars
  PROVE  Informed'
<1>1. CASE UNCHANGED vars
  BY <1>1 DEF vars, Informed, Blocked
<1>2. CASE Next
  BY <1>2, ChildEndsInformed, SteerInformed, ProviderInformed, BatcherInformed,
     WorkerInformed DEF Next
<1> QED BY <1>1, <1>2

-----------------------------------------------------------------------------
\* However children end while an answer is written, however often the provider is retried,
\* replaced or recovered from, and whatever tools are called in between: an answer that may
\* complete the run was asked for after every required child had been collected.
THEOREM InformedCorrect == Spec => []CompletesInformed
<1>1. Informed => CompletesInformed
  BY DEF Informed, CompletesInformed, Answering
<1> QED BY <1>1, InformedInit, InformedNext, PTL DEF Spec

-----------------------------------------------------------------------------
(* The text of an answer, from the provider to the draft. *)

Tools == Resident \cup Loadable \cup {Unknown}
Piece == Kind \X Nat
Events ==
  {[event |-> "raw"], [event |-> "done"]}
    \cup [event: {"text"}, piece: Piece]
    \cup [event: {"tool_calls"}, calls: SUBSET Tools]
    \cup [event: {"error"}, error: {"overflow", "provider"}]
RoundRow ==
  [deferred: BOOLEAN, raw: BOOLEAN, answer: Seq(Piece), buffered: Seq(Piece),
   calls: SUBSET Tools, recovered: BOOLEAN]

TypeInv ==
  /\ provider \in [on: BOOLEAN, fallback: BOOLEAN, attempt: Nat, raw: BOOLEAN, calls: SUBSET Tools]
  /\ sent \in Seq(Piece)
  /\ channel \in Seq(Events)
  /\ batcher \in [pending: Seq(Piece), first: BOOLEAN]
  /\ round \in RoundRow
  /\ draft \in Seq(Piece)

Prefix(s, t) == Len(s) <= Len(t) /\ \A i \in 1..Len(s) : s[i] = t[i]

\* What has left the channel, and where in the channel there is text, of which place.
Written == round.answer \o batcher.pending
Text == {i \in 1..Len(channel) : channel[i].event = "text"}
Place(i) == channel[i].piece[2]

\* The channel holds the rest of the text in order, behind a raw event, before the end.
ChannelInv ==
  /\ Prefix(Written, sent)
  /\ \A i \in Text : Place(i) \in (Len(Written) + 1)..Len(sent) /\ channel[i].piece = sent[Place(i)]
  /\ \A i, j \in Text : i < j => Place(i) < Place(j)
  /\ \A k \in (Len(Written) + 1)..Len(sent) : \E i \in Text : Place(i) = k
  /\ Written # <<>> => round.raw
  /\ \A i \in Text : round.raw \/ \E j \in 1..(i - 1) : channel[j].event = "raw"
  /\ \A i \in 1..Len(channel) :
       channel[i].event \in {"done", "error"} => i = Len(channel) /\ ~provider.on
  /\ ~batcher.first => batcher.pending = <<>>

\* The draft, or behind the guard the buffer, is what the round has taken of the answer.
DraftInv ==
  /\ provider.on => phase = "stream"
  /\ \A k \in 1..Len(sent) : sent[k][2] = k
  /\ Prefix(draft, sent)
  /\ phase \in {"send", "overflow"} =>
       round.answer = <<>> /\ round.buffered = <<>> /\ draft = <<>>
  /\ phase \in {"stream", "decide"} =>
       IF round.deferred THEN draft = <<>> /\ round.buffered = round.answer
                         ELSE draft = round.answer /\ round.buffered = <<>>
  /\ phase = "decide" => round.answer = sent
  /\ phase = "stream" => ChannelInv

-----------------------------------------------------------------------------
(* Lemmas about prefixes and events. *)

\* The prefixes of this module are those of the property.
LEMMA PrefixIsPrefix ==
  ASSUME NEW S, NEW s \in Seq(S), NEW t \in Seq(S), Prefix(s, t)
  PROVE  IsPrefix(s, t)
<1>1. Len(s) \in Nat /\ Len(t) \in Nat /\ Len(s) <= Len(t)
  BY LenProperties DEF Prefix
<1>2. (\A i \in 1..Len(s) : s[i] \in S) /\ (\A i \in 1..Len(s) : t[i] \in S)
  BY <1>1, ElementOfSeq
<1> DEFINE a == SubSeq(s, 1, Len(s))
           b == SubSeq(t, 1, Len(s))
<1>3. /\ a \in Seq(S) /\ Len(a) = Len(s) /\ \A i \in 1..Len(s) : a[i] = s[i]
      /\ b \in Seq(S) /\ Len(b) = Len(s) /\ \A i \in 1..Len(s) : b[i] = t[i]
  BY <1>1, <1>2, SubSeqProperties
<1> HIDE DEF a, b
<1>4. \A i \in 1..Len(s) : a[i] = b[i]
  BY <1>3 DEF Prefix
<1>5. a = b
  BY <1>3, <1>4, SeqEqual
<1> QED BY <1>1, <1>5 DEF IsPrefix, a, b

\* The empty text is a prefix.
LEMMA EmptyPrefix ==
  ASSUME NEW S, NEW t \in Seq(S)
  PROVE  Prefix(<<>>, t)
BY LenProperties, EmptySeq DEF Prefix

\* A prefix of a text is one of what the text becomes.
LEMMA PrefixOfLonger ==
  ASSUME NEW S, NEW s \in Seq(S), NEW t \in Seq(S), NEW e \in S, Prefix(s, t)
  PROVE  Prefix(s, Append(t, e))
<1>1. Len(s) \in Nat /\ Len(t) \in Nat /\ Len(s) <= Len(t)
  BY LenProperties DEF Prefix
<1> QED BY <1>1, AppendProperties DEF Prefix

\* A prefix with the piece that comes next.
LEMMA LongerPrefix ==
  ASSUME NEW S, NEW s \in Seq(S), NEW t \in Seq(S), Prefix(s, t), Len(s) < Len(t)
  PROVE  Prefix(Append(s, t[Len(s) + 1]), t)
<1>1. Len(s) \in Nat /\ Len(t) \in Nat /\ t[Len(s) + 1] \in S
  BY LenProperties, ElementOfSeq
<1> DEFINE e == t[Len(s) + 1]
<1> HIDE DEF e
<1>2. /\ Len(Append(s, e)) = Len(s) + 1 /\ Append(s, e)[Len(s) + 1] = e
      /\ \A i \in 1..Len(s) : Append(s, e)[i] = s[i]
  BY <1>1, AppendProperties DEF e
<1>3. \A i \in 1..(Len(s) + 1) : i \in 1..Len(s) \/ i = Len(s) + 1
  BY <1>1
<1>4. \A i \in 1..Len(s) : s[i] = t[i]
  BY DEF Prefix
<1>5. \A i \in 1..(Len(s) + 1) : Append(s, e)[i] = t[i]
  BY <1>2, <1>3, <1>4 DEF e
<1>6. Prefix(Append(s, e), t)
  BY <1>1, <1>2, <1>5 DEF Prefix
<1> QED BY <1>6 DEF e

\* The first part of a prefix.
LEMMA FirstPrefix ==
  ASSUME NEW S, NEW s \in Seq(S), NEW t \in Seq(S), NEW u \in Seq(S), Prefix(s \o t, u)
  PROVE  Prefix(s, u)
<1>1. Len(s) \in Nat /\ Len(t) \in Nat /\ Len(u) \in Nat
  BY LenProperties
<1>2. /\ Len(s \o t) = Len(s) + Len(t)
      /\ \A i \in 1..(Len(s) + Len(t)) : (s \o t)[i] = IF i <= Len(s) THEN s[i] ELSE t[i - Len(s)]
  BY ConcatProperties
<1>3. \A i \in 1..Len(s) : i \in 1..(Len(s) + Len(t)) /\ i <= Len(s)
  BY <1>1
<1> QED BY <1>1, <1>2, <1>3 DEF Prefix

\* A prefix as long as the text is the text.
LEMMA WholePrefix ==
  ASSUME NEW S, NEW s \in Seq(S), NEW t \in Seq(S), Prefix(s, t), Len(s) = Len(t)
  PROVE  s = t
BY SeqEqual DEF Prefix

\* The events.
LEMMA EventTypes ==
  /\ [event |-> "raw"] \in Events /\ [event |-> "done"] \in Events
  /\ \A piece \in Piece : [event |-> "text", piece |-> piece] \in Events
  /\ \A calls \in SUBSET Tools : [event |-> "tool_calls", calls |-> calls] \in Events
  /\ \A error \in {"overflow", "provider"} : [event |-> "error", error |-> error] \in Events
  /\ \A e \in Events : /\ e.event = "text" => e.piece \in Piece
                       /\ e.event = "tool_calls" => e.calls \in SUBSET Tools
BY DEF Events

\* A text event and what is in it.
LEMMA OneEvent ==
  ASSUME NEW e \in Events
  PROVE  <<e>> \in Seq(Events) /\ Len(<<e>>) = 1 /\ <<e>>[1] = e
OBVIOUS

\* What is behind the head of the channel.
LEMMA TailOfChannel ==
  ASSUME TypeInv, channel # <<>>
  PROVE  /\ Head(channel) = channel[1] /\ channel[1] \in Events /\ Tail(channel) \in Seq(Events)
         /\ Len(channel) \in Nat \ {0} /\ Len(Tail(channel)) = Len(channel) - 1
         /\ \A i \in 1..(Len(channel) - 1) : Tail(channel)[i] = channel[i + 1]
<1>1. channel \in Seq(Events) /\ Len(channel) \in Nat \ {0}
  BY EmptySeq DEF TypeInv
<1>2. Head(channel) = channel[1]
  OBVIOUS
<1> QED BY <1>1, <1>2, HeadTailProperties

-----------------------------------------------------------------------------
(* The provider. *)

\* Events without text are put into the channel, perhaps the last of them.
LEMMA EventsEmitted ==
  ASSUME TypeInv, ChannelInv, provider.on, UNCHANGED <<sent, batcher, round>>,
         NEW events \in Seq(Events), channel' = channel \o events,
         \A i \in 1..Len(events) :
           /\ events[i].event # "text"
           /\ events[i].event \in {"done", "error"} => i = Len(events) /\ ~provider'.on
  PROVE  ChannelInv'
<1> DEFINE n == Len(channel)
           m == Len(events)
<1>1. n \in Nat /\ m \in Nat /\ channel \in Seq(Events)
  BY LenProperties DEF TypeInv
<1>2. /\ Len(channel') = n + m /\ \A i \in 1..n : channel'[i] = channel[i]
      /\ \A i \in 1..m : channel'[n + i] = events[i]
  <2>1. /\ Len(channel') = n + m
        /\ \A i \in 1..(n + m) : channel'[i] = IF i <= n THEN channel[i] ELSE events[i - n]
    BY <1>1, ConcatProperties
  <2>2. \A i \in 1..n : i \in 1..(n + m) /\ i <= n
    BY <1>1
  <2>3. \A i \in 1..m : n + i \in 1..(n + m) /\ ~(n + i <= n) /\ (n + i) - n = i
    BY <1>1
  <2> HIDE DEF n, m
  <2> QED BY <2>1, <2>2, <2>3
<1>3. \A i \in 1..(n + m) : i \in 1..n \/ \E k \in 1..m : i = n + k
  <2> SUFFICES ASSUME NEW i \in 1..(n + m), i \notin 1..n PROVE \E k \in 1..m : i = n + k
    OBVIOUS
  <2>1. i - n \in 1..m /\ i = n + (i - n)
    BY <1>1
  <2> QED BY <2>1
<1>4. \A i \in 1..n : channel[i].event \notin {"done", "error"}
  BY DEF ChannelInv
<1>5. Text' = Text
  <2>1. \A i \in 1..(n + m) : channel'[i].event = "text" => i \in 1..n
    <3> SUFFICES ASSUME NEW k \in 1..m PROVE channel'[n + k].event # "text"
      BY <1>3
    <3> QED BY <1>2
  <2>2. \A i \in 1..n : i \in 1..(n + m) /\ channel'[i].event = channel[i].event
    BY <1>1, <1>2
  <2> QED BY <1>2, <2>1, <2>2 DEF Text
<1>6. \A i \in Text : i \in 1..n /\ Place(i)' = Place(i) /\ channel'[i] = channel[i]
  BY <1>2 DEF Text, Place
<1>7. Written' = Written
  BY DEF Written
<1>8. \A i \in 1..(n + m) : channel'[i].event \in {"done", "error"} => i = n + m /\ ~provider'.on
  BY <1>1, <1>2, <1>3, <1>4
<1>9. \A i \in Text : round'.raw \/ \E j \in 1..(i - 1) : channel'[j].event = "raw"
  <2> SUFFICES ASSUME NEW i \in Text, NEW j \in 1..(i - 1), channel[j].event = "raw"
               PROVE  channel'[j].event = "raw"
    BY DEF ChannelInv
  <2>1. i \in 1..n
    BY <1>6
  <2>2. j \in 1..n
    BY <1>1, <2>1
  <2> QED BY <1>2, <2>2
<1> HIDE DEF n, m
<1> QED BY <1>2, <1>5, <1>6, <1>7, <1>8, <1>9 DEF ChannelInv, n, m

\* A piece of text is put into the channel behind a raw event.
LEMMA TextEmitted ==
  ASSUME TypeInv, ChannelInv, provider.on, \A k \in 1..Len(sent) : sent[k][2] = k,
         UNCHANGED <<batcher, round>>,
         NEW piece \in Piece, piece[2] = Len(sent) + 1, sent' = Append(sent, piece),
         channel' = channel \o <<[event |-> "raw"], [event |-> "text", piece |-> piece]>>
  PROVE  ChannelInv' /\ \A k \in 1..Len(sent') : sent'[k][2] = k
<1> PICK n : n = Len(channel)
  OBVIOUS
<1> PICK l : l = Len(sent)
  OBVIOUS
<1> PICK w : w = Len(Written)
  OBVIOUS
<1> DEFINE text == [event |-> "text", piece |-> piece]
           events == <<[event |-> "raw"], text>>
<1>1. n \in Nat /\ l \in Nat /\ channel \in Seq(Events) /\ sent \in Seq(Piece)
      /\ Written \in Seq(Piece) /\ w \in Nat /\ w <= l
  <2>1. round.answer \in Seq(Piece) /\ batcher.pending \in Seq(Piece)
    BY DEF TypeInv, RoundRow
  <2>2. Written \in Seq(Piece)
    BY <2>1, ConcatProperties DEF Written
  <2> QED BY <2>2, LenProperties DEF TypeInv, ChannelInv, Prefix
<1>2. events \in Seq(Events) /\ Len(events) = 2 /\ events[1].event = "raw" /\ events[2] = text
  BY EventTypes
<1>3. text.event = "text" /\ text.piece = piece
  OBVIOUS
<1> HIDE DEF events, text
<1>4. /\ Len(channel') = n + 2 /\ \A i \in 1..n : channel'[i] = channel[i]
      /\ channel'[n + 1].event = "raw" /\ channel'[n + 2] = text
  <2>1. /\ channel' = channel \o events
    BY DEF events, text
  <2>2. /\ Len(channel') = n + 2
        /\ \A i \in 1..(n + 2) : channel'[i] = IF i <= n THEN channel[i] ELSE events[i - n]
    BY <1>1, <1>2, <2>1, ConcatProperties
  <2>3. \A i \in 1..n : i \in 1..(n + 2) /\ i <= n
    BY <1>1
  <2>4. /\ n + 1 \in 1..(n + 2) /\ ~(n + 1 <= n) /\ (n + 1) - n = 1
        /\ n + 2 \in 1..(n + 2) /\ ~(n + 2 <= n) /\ (n + 2) - n = 2
    BY <1>1
  <2> QED BY <1>2, <2>2, <2>3, <2>4
<1>5. /\ sent' \in Seq(Piece) /\ Len(sent') = l + 1 /\ sent'[l + 1] = piece
      /\ \A k \in 1..l : sent'[k] = sent[k]
  BY <1>1, AppendProperties
<1>6. \A i \in 1..(n + 2) : i \in 1..n \/ i = n + 1 \/ i = n + 2
  BY <1>1
<1>7. \A k \in 1..(l + 1) : k \in 1..l \/ k = l + 1
  BY <1>1
<1>0. \A k \in (w + 1)..l : k \in 1..l /\ k \in (w + 1)..(l + 1) /\ k < l + 1
  BY <1>1
<1>8. Text' = Text \cup {n + 2}
  <2>1. \A i \in 1..n : i \in 1..(n + 2)
    BY <1>1
  <2>2. n + 2 \in 1..(n + 2)
    BY <1>1
  <2> QED BY <1>3, <1>4, <1>6, <2>1, <2>2 DEF Text
<1>9. /\ \A i \in Text : i \in 1..n /\ channel'[i].piece[2] = Place(i) /\ channel'[i] = channel[i]
      /\ channel'[n + 2].piece[2] = l + 1 /\ channel'[n + 2].piece = piece
  BY <1>3, <1>4 DEF Text, Place
<1>10. Written' = Written
  BY DEF Written
<1>11. Prefix(Written', sent')
  BY <1>1, <1>10, PrefixOfLonger DEF ChannelInv
<1>12. \A i \in Text : Place(i) \in (w + 1)..l /\ channel[i].piece = sent[Place(i)]
  BY DEF ChannelInv
<1>13. \A i \in Text' : channel'[i].piece[2] \in (w + 1)..(l + 1) /\ channel'[i].piece = sent'[channel'[i].piece[2]]
  <2>1. ASSUME NEW i \in Text
        PROVE  channel'[i].piece[2] \in (w + 1)..(l + 1) /\ channel'[i].piece = sent'[channel'[i].piece[2]]
    <3>1. channel'[i].piece[2] \in (w + 1)..l /\ channel'[i].piece = sent[channel'[i].piece[2]]
      BY <1>9, <1>12
    <3>2. channel'[i].piece[2] \in 1..l /\ channel'[i].piece[2] \in (w + 1)..(l + 1)
      BY <1>0, <3>1, Zenon
    <3>3. sent'[channel'[i].piece[2]] = sent[channel'[i].piece[2]]
      BY <1>5, <3>2, Zenon
    <3> QED BY <3>1, <3>2, <3>3, Zenon
  <2>2. channel'[n + 2].piece[2] \in (w + 1)..(l + 1) /\ channel'[n + 2].piece = sent'[channel'[n + 2].piece[2]]
    BY <1>1, <1>5, <1>9
  <2> QED BY <1>8, <2>1, <2>2
<1>14. \A i, j \in Text' : i < j => channel'[i].piece[2] < channel'[j].piece[2]
  <2> SUFFICES ASSUME NEW i \in Text', NEW j \in Text', i < j PROVE channel'[i].piece[2] < channel'[j].piece[2]
    OBVIOUS
  <2>1. i \in Text
    BY <1>1, <1>8, <1>9
  <2>2. CASE j \in Text
    <3>1. Place(i) < Place(j)
      BY <2>1, <2>2 DEF ChannelInv
    <3>2. channel'[i].piece[2] = Place(i) /\ channel'[j].piece[2] = Place(j)
      BY <1>9, <2>1, <2>2, Zenon
    <3> QED BY <3>1, <3>2
  <2>3. CASE j = n + 2
    <3>1. channel'[i].piece[2] \in (w + 1)..l
      BY <1>9, <1>12, <2>1
    <3>2. channel'[j].piece[2] = l + 1
      BY <1>9, <2>3
    <3> QED BY <1>0, <3>1, <3>2, Zenon
  <2> QED BY <1>8, <2>2, <2>3
<1>15. \A k \in (w + 1)..(l + 1) : \E i \in Text' : channel'[i].piece[2] = k
  <2> SUFFICES ASSUME NEW k \in (w + 1)..(l + 1) PROVE \E i \in Text' : channel'[i].piece[2] = k
    OBVIOUS
  <2>1. CASE k = l + 1
    BY <1>8, <1>9, <2>1
  <2>2. CASE k # l + 1
    <3>1. k \in (w + 1)..l
      BY <1>1, <2>2
    <3>2. PICK i \in Text : Place(i) = k
      BY <3>1 DEF ChannelInv
    <3> QED BY <1>8, <1>9, <3>2
  <2> QED BY <2>1, <2>2
<1>16. \A i \in Text' : round'.raw \/ \E j \in 1..(i - 1) : channel'[j].event = "raw"
  <2>1. ASSUME NEW i \in Text PROVE round'.raw \/ \E j \in 1..(i - 1) : channel'[j].event = "raw"
    <3> SUFFICES ASSUME NEW j \in 1..(i - 1), channel[j].event = "raw"
                 PROVE  channel'[j].event = "raw"
      BY DEF ChannelInv
    <3>1. i \in 1..n
      BY <1>9
    <3>2. j \in 1..n
      BY <1>1, <3>1
    <3> QED BY <1>4, <3>2
  <2>2. \E j \in 1..((n + 2) - 1) : channel'[j].event = "raw"
    <3>1. n + 1 \in 1..((n + 2) - 1)
      BY <1>1
    <3> QED BY <1>4, <3>1
  <2> QED BY <1>8, <2>1, <2>2
<1>17. \A i \in 1..(n + 2) : channel'[i].event \notin {"done", "error"}
  <2>1. \A i \in 1..n : channel[i].event \notin {"done", "error"}
    BY DEF ChannelInv
  <2> QED BY <1>3, <1>4, <1>6, <2>1
<1>18. \A k \in 1..(l + 1) : sent'[k][2] = k
  BY <1>5, <1>7
<1>19. /\ Written' # <<>> => round'.raw
       /\ ~batcher'.first => batcher'.pending = <<>>
  BY <1>10 DEF ChannelInv
<1> HIDE DEF text
<1>20. Len(Written') = w /\ Len(sent') = l + 1 /\ Len(channel') = n + 2
  BY <1>4, <1>5, <1>10
<1> QED BY <1>11, <1>13, <1>14, <1>15, <1>16, <1>17, <1>18, <1>19, <1>20 DEF ChannelInv, Place

-----------------------------------------------------------------------------
(* The batcher. *)

\* An event that carries no text leaves the channel.
LEMMA EventTaken ==
  ASSUME TypeInv, ChannelInv, channel # <<>>, channel' = Tail(channel),
         Head(channel).event # "text", UNCHANGED <<sent, provider>>,
         Written' = Written, batcher'.first = batcher.first, batcher'.pending = batcher.pending,
         round'.raw = (round.raw \/ Head(channel).event = "raw")
  PROVE  ChannelInv'
<1> PICK n : n = Len(channel) - 1
  OBVIOUS
<1>1. /\ n \in Nat /\ Len(channel) = n + 1 /\ Len(channel') = n /\ Head(channel) = channel[1]
      /\ \A i \in 1..n : channel'[i] = channel[i + 1]
  BY TailOfChannel
<1>2. \A i \in 1..n : i + 1 \in 1..(n + 1)
  BY <1>1
<1>3. \A i \in 1..(n + 1) : i = 1 \/ (i - 1 \in 1..n /\ (i - 1) + 1 = i)
  BY <1>1
<1>4. \A i \in 1..n : i \in Text' <=> i + 1 \in Text
  BY <1>1, <1>2 DEF Text
<1>5. Text' \subseteq 1..n /\ Text \subseteq 1..(n + 1) /\ 1 \notin Text
  BY <1>1 DEF Text
<1>6. \A i \in Text' : /\ i \in 1..n /\ i + 1 \in Text
                       /\ channel'[i] = channel[i + 1] /\ channel'[i].piece[2] = Place(i + 1)
  BY <1>1, <1>4, <1>5 DEF Place
<1>7. \A i \in Text' : /\ channel'[i].piece[2] \in (Len(Written) + 1)..Len(sent)
                       /\ channel'[i].piece = sent[channel'[i].piece[2]]
  BY <1>6 DEF ChannelInv
<1>8. \A i, j \in Text' : i < j => channel'[i].piece[2] < channel'[j].piece[2]
  <2> SUFFICES ASSUME NEW i \in Text', NEW j \in Text', i < j
               PROVE  channel'[i].piece[2] < channel'[j].piece[2]
    OBVIOUS
  <2>1. i + 1 < j + 1
    BY <1>1, <1>5
  <2> QED BY <1>6, <2>1 DEF ChannelInv
<1>9. \A k \in (Len(Written) + 1)..Len(sent) : \E i \in Text' : channel'[i].piece[2] = k
  <2> SUFFICES ASSUME NEW k \in (Len(Written) + 1)..Len(sent)
               PROVE  \E i \in Text' : channel'[i].piece[2] = k
    OBVIOUS
  <2> PICK i \in Text : Place(i) = k
    BY DEF ChannelInv
  <2>1. i - 1 \in 1..n /\ (i - 1) + 1 = i
    BY <1>3, <1>5
  <2>2. i - 1 \in Text'
    BY <1>4, <2>1
  <2> QED BY <1>6, <2>1, <2>2
<1>10. \A i \in Text' : round'.raw \/ \E j \in 1..(i - 1) : channel'[j].event = "raw"
  <2> SUFFICES ASSUME NEW i \in Text', ~round'.raw
               PROVE  \E j \in 1..(i - 1) : channel'[j].event = "raw"
    OBVIOUS
  <2>1. i + 1 \in Text /\ i \in 1..n /\ (i + 1) - 1 = i
    BY <1>1, <1>6
  <2>2. PICK j \in 1..i : channel[j].event = "raw"
    BY <2>1 DEF ChannelInv
  <2>3. j # 1
    BY <1>1, <2>2
  <2>4. j - 1 \in 1..n /\ (j - 1) + 1 = j /\ j - 1 \in 1..(i - 1)
    BY <1>1, <2>1, <2>3
  <2>5. channel'[j - 1].event = "raw"
    BY <1>1, <2>2, <2>4
  <2> QED BY <2>4, <2>5
<1>11. \A i \in 1..n : channel'[i].event \in {"done", "error"} => i = n /\ ~provider'.on
  <2> SUFFICES ASSUME NEW i \in 1..n, channel'[i].event \in {"done", "error"}
               PROVE  i = n /\ ~provider'.on
    OBVIOUS
  <2>1. i + 1 \in 1..Len(channel) /\ channel[i + 1].event \in {"done", "error"}
    BY <1>1, <1>2
  <2>2. i + 1 = n + 1 /\ ~provider.on
    BY <1>1, <2>1 DEF ChannelInv
  <2> QED BY <1>1, <2>2
<1>12. Prefix(Written', sent') /\ (Written' # <<>> => round'.raw)
       /\ (~batcher'.first => batcher'.pending = <<>>)
  BY DEF ChannelInv
<1>13. Written' = Written /\ sent' = sent /\ Len(channel') = n
  BY <1>1
<1> QED BY <1>7, <1>8, <1>9, <1>10, <1>11, <1>12, <1>13 DEF ChannelInv, Place

\* The text at the head of the channel is what comes next in the answer.
LEMMA NextPiece ==
  ASSUME TypeInv, ChannelInv, channel # <<>>, Head(channel).event = "text"
  PROVE  /\ Head(channel).piece \in Piece /\ Written \in Seq(Piece) /\ Len(Written) < Len(sent)
         /\ Head(channel).piece = sent[Len(Written) + 1] /\ Place(1) = Len(Written) + 1
         /\ 1 \in Text /\ round.raw
<1>1. /\ Len(channel) \in Nat \ {0} /\ Head(channel) = channel[1] /\ channel[1] \in Events
  BY TailOfChannel
<1>2. 1 \in Text
  BY <1>1 DEF Text
<1>3. Written \in Seq(Piece) /\ Len(Written) \in Nat /\ Len(sent) \in Nat
  <2>1. round.answer \in Seq(Piece) /\ batcher.pending \in Seq(Piece) /\ sent \in Seq(Piece)
    BY DEF TypeInv, RoundRow
  <2>2. Written \in Seq(Piece)
    BY <2>1, ConcatProperties DEF Written
  <2> QED BY <2>1, <2>2, LenProperties
<1>4. Place(1) \in (Len(Written) + 1)..Len(sent)
  BY <1>2 DEF ChannelInv
<1>5. Len(Written) + 1 \in (Len(Written) + 1)..Len(sent) /\ Len(Written) < Len(sent)
  BY <1>3, <1>4
<1>6. PICK i \in Text : Place(i) = Len(Written) + 1
  BY <1>5 DEF ChannelInv
<1>7. i = 1
  <2> SUFFICES ASSUME i # 1 PROVE FALSE
    OBVIOUS
  <2>1. 1 < i
    BY <1>1 DEF Text
  <2>2. Place(1) < Place(i)
    BY <1>2, <2>1 DEF ChannelInv
  <2> QED BY <1>3, <1>4, <1>6, <2>2
<1>8. channel[1].piece = sent[Place(1)] /\ channel[1].piece \in Piece
  BY <1>1, <1>2, EventTypes DEF ChannelInv
<1>9. round.raw
  BY <1>2 DEF ChannelInv
<1> QED BY <1>1, <1>2, <1>3, <1>5, <1>6, <1>7, <1>8, <1>9

\* A piece of text leaves the channel.
LEMMA TextTaken ==
  ASSUME TypeInv, ChannelInv, channel # <<>>, channel' = Tail(channel),
         Head(channel).event = "text", UNCHANGED <<sent, provider>>,
         Written' = Append(Written, Head(channel).piece), batcher'.first, round'.raw = round.raw
  PROVE  ChannelInv'
<1> PICK n : n = Len(channel) - 1
  OBVIOUS
<1> PICK w : w = Len(Written)
  OBVIOUS
<1> PICK l : l = Len(sent)
  OBVIOUS
<1>1. /\ n \in Nat /\ Len(channel) = n + 1 /\ Len(channel') = n /\ Head(channel) = channel[1]
      /\ \A i \in 1..n : channel'[i] = channel[i + 1]
  BY TailOfChannel
<1>0. /\ Written \in Seq(Piece) /\ w \in Nat /\ l \in Nat /\ w < l /\ sent \in Seq(Piece)
      /\ Head(channel).piece = sent[w + 1] /\ Place(1) = w + 1 /\ 1 \in Text /\ round.raw
  BY NextPiece, LenProperties DEF TypeInv
<1>2. \A i \in 1..n : i + 1 \in 1..(n + 1)
  BY <1>1
<1>3. \A i \in 1..(n + 1) : i = 1 \/ (i - 1 \in 1..n /\ (i - 1) + 1 = i)
  BY <1>1
<1>4. \A i \in 1..n : i \in Text' <=> i + 1 \in Text
  BY <1>1, <1>2 DEF Text
<1>5. Text' \subseteq 1..n /\ Text \subseteq 1..(n + 1)
  BY <1>1 DEF Text
<1>6. \A i \in Text' : /\ i \in 1..n /\ i + 1 \in Text
                       /\ channel'[i] = channel[i + 1] /\ channel'[i].piece[2] = Place(i + 1)
  BY <1>1, <1>4, <1>5 DEF Place
<1>7. /\ Len(Written') = w + 1 /\ Prefix(Written', sent)
  <2> DEFINE e == Head(channel).piece
  <2>1. e = sent[w + 1] /\ e \in Piece
    BY NextPiece
  <2>2. Len(Append(Written, e)) = w + 1
    BY <1>0, <2>1, AppendProperties
  <2>3. Prefix(Append(Written, sent[Len(Written) + 1]), sent)
    BY <1>0, LongerPrefix DEF ChannelInv
  <2> QED BY <2>1, <2>2, <2>3
<1>8. \A i \in Text' : /\ channel'[i].piece[2] \in (w + 2)..l
                       /\ channel'[i].piece = sent[channel'[i].piece[2]]
  <2> SUFFICES ASSUME NEW i \in Text'
               PROVE  /\ Place(i + 1) \in (w + 2)..l
                      /\ channel[i + 1].piece = sent[Place(i + 1)]
    BY <1>6
  <2>1. i + 1 \in Text /\ 1 < i + 1
    BY <1>6
  <2>2. Place(1) < Place(i + 1) /\ Place(i + 1) \in (w + 1)..l
    BY <1>0, <2>1 DEF ChannelInv
  <2>3. Place(i + 1) \in (w + 2)..l
    BY <1>0, <2>2
  <2> QED BY <2>1, <2>3 DEF ChannelInv
<1>9. \A i, j \in Text' : i < j => channel'[i].piece[2] < channel'[j].piece[2]
  <2> SUFFICES ASSUME NEW i \in Text', NEW j \in Text', i < j
               PROVE  channel'[i].piece[2] < channel'[j].piece[2]
    OBVIOUS
  <2>1. i + 1 < j + 1
    BY <1>1, <1>5
  <2> QED BY <1>6, <2>1 DEF ChannelInv
<1>10. \A k \in (w + 2)..l : \E i \in Text' : channel'[i].piece[2] = k
  <2> SUFFICES ASSUME NEW k \in (w + 2)..l PROVE \E i \in Text' : channel'[i].piece[2] = k
    OBVIOUS
  <2>1. k \in (w + 1)..l /\ k # w + 1
    BY <1>0
  <2>2. PICK i \in Text : Place(i) = k
    BY <2>1 DEF ChannelInv
  <2>3. i # 1
    BY <1>0, <2>1, <2>2
  <2>4. i - 1 \in 1..n /\ (i - 1) + 1 = i
    BY <1>3, <1>5, <2>3
  <2>5. i - 1 \in Text'
    BY <1>4, <2>4
  <2> QED BY <1>6, <2>2, <2>4, <2>5
<1>11. \A i \in 1..n : channel'[i].event \in {"done", "error"} => i = n /\ ~provider'.on
  <2> SUFFICES ASSUME NEW i \in 1..n, channel'[i].event \in {"done", "error"}
               PROVE  i = n /\ ~provider'.on
    OBVIOUS
  <2>1. i + 1 \in 1..Len(channel) /\ channel[i + 1].event \in {"done", "error"}
    BY <1>1, <1>2
  <2>2. i + 1 = n + 1 /\ ~provider.on
    BY <1>1, <2>1 DEF ChannelInv
  <2> QED BY <1>1, <2>2
<1>12. Len(Written') + 1 = w + 2 /\ Len(sent') = l /\ Len(channel') = n /\ sent' = sent
       /\ round'.raw /\ batcher'.first
  BY <1>0, <1>1, <1>7
<1> QED BY <1>7, <1>8, <1>9, <1>10, <1>11, <1>12 DEF ChannelInv, Place

\* When the end of the answer is at the head of the channel all text has been taken.
LEMMA AllTaken ==
  ASSUME TypeInv, ChannelInv, channel # <<>>, Head(channel).event = "done", batcher.pending = <<>>
  PROVE  round.answer = sent /\ ~provider.on
<1>1. /\ Len(channel) \in Nat \ {0} /\ Head(channel) = channel[1]
  BY TailOfChannel
<1>2. 1 = Len(channel) /\ ~provider.on
  <2>1. 1 \in 1..Len(channel) /\ channel[1].event \in {"done", "error"}
    BY <1>1
  <2>2. \A i \in 1..Len(channel) :
          channel[i].event \in {"done", "error"} => i = Len(channel) /\ ~provider.on
    BY DEF ChannelInv
  <2> QED BY <2>1, <2>2
<1>3. Text = {}
  BY <1>1, <1>2 DEF Text
<1>4. round.answer \in Seq(Piece) /\ sent \in Seq(Piece)
  BY DEF TypeInv, RoundRow
<1>5. Written = round.answer
  BY <1>4, ConcatEmptySeq DEF Written
<1>6. Len(Written) \in Nat /\ Len(sent) \in Nat /\ Len(Written) <= Len(sent)
  BY <1>4, <1>5, LenProperties DEF ChannelInv, Prefix
<1>7. Len(Written) = Len(sent)
  <2> SUFFICES ASSUME Len(Written) # Len(sent) PROVE FALSE
    OBVIOUS
  <2>1. Len(Written) + 1 \in (Len(Written) + 1)..Len(sent)
    BY <1>6
  <2> QED BY <1>3, <2>1 DEF ChannelInv
<1>8. Written = sent
  BY <1>4, <1>5, <1>7, WholePrefix DEF ChannelInv
<1> QED BY <1>2, <1>5, <1>8

-----------------------------------------------------------------------------
(* What the steps do to the tables. *)

\* Text is taken from what waits in the batcher and what arrives, in order.
LEMMA Batched ==
  ASSUME TypeInv, NEW piece \in Piece, ~batcher.first => batcher.pending = <<>>
  PROVE  /\ Yields(piece) \in Seq(Piece) /\ Keeps(piece) \in Seq(Piece)
         /\ Yields(piece) \o Keeps(piece) = Append(batcher.pending, piece)
<1> DEFINE pending == batcher.pending
<1>1. pending \in Seq(Piece) /\ <<piece>> \in Seq(Piece) /\ <<>> \in Seq(Piece)
      /\ Append(pending, piece) \in Seq(Piece)
  BY DEF TypeInv
<1>2. /\ Append(pending, piece) = pending \o <<piece>>
      /\ Append(pending, piece) \o <<>> = Append(pending, piece)
      /\ <<>> \o Append(pending, piece) = Append(pending, piece)
      /\ <<piece>> \o <<>> = <<piece>> /\ Append(<<>>, piece) = <<piece>>
  BY <1>1, AppendIsConcat, ConcatEmptySeq
<1>3. \/ /\ Yields(piece) = <<piece>> /\ Keeps(piece) = <<>> /\ pending = <<>>
      \/ /\ Yields(piece) = pending /\ Keeps(piece) = <<piece>>
      \/ /\ Yields(piece) = Append(pending, piece) /\ Keeps(piece) = <<>>
      \/ /\ Yields(piece) = <<>> /\ Keeps(piece) = Append(pending, piece)
  BY DEF Yields, Keeps
<1> HIDE DEF pending
<1>4. /\ Yields(piece) \in Seq(Piece) /\ Keeps(piece) \in Seq(Piece)
      /\ Yields(piece) \o Keeps(piece) = Append(pending, piece)
  BY <1>1, <1>2, <1>3
<1> QED BY <1>4 DEF pending

\* What the batcher yields goes into the round and into the buffer or the draft.
LEMMA Published ==
  ASSUME TypeInv, NEW text \in Seq(Piece), Publish(text)
  PROVE  /\ round' \in RoundRow /\ round'.deferred = round.deferred /\ round'.raw = round.raw
         /\ round'.answer = round.answer \o text
         /\ round'.buffered = IF round.deferred THEN round.buffered \o text ELSE round.buffered
         /\ draft' = IF round.deferred THEN draft ELSE draft \o text
         /\ draft' \in Seq(Piece)
<1> DEFINE answer == round.answer \o text
           buffered == round.buffered \o text
<1>1. round \in RoundRow /\ draft \in Seq(Piece)
  BY DEF TypeInv
<1>2. answer \in Seq(Piece) /\ buffered \in Seq(Piece) /\ draft \o text \in Seq(Piece)
  <2>1. round.answer \in Seq(Piece) /\ round.buffered \in Seq(Piece)
    BY <1>1 DEF RoundRow
  <2> QED BY <1>1, <2>1, ConcatProperties
<1>3. CASE round.deferred
  <2>1. round' = [round EXCEPT !.answer = answer, !.buffered = buffered] /\ draft' = draft
    BY <1>3 DEF Publish
  <2> HIDE DEF answer, buffered
  <2>2. /\ round' \in RoundRow /\ round'.deferred = round.deferred /\ round'.raw = round.raw
        /\ round'.answer = answer /\ round'.buffered = buffered
    BY <1>1, <1>2, <2>1 DEF RoundRow
  <2> QED BY <1>1, <1>3, <2>1, <2>2 DEF answer, buffered
<1>4. CASE ~round.deferred
  <2>1. round' = [round EXCEPT !.answer = answer] /\ draft' = draft \o text
    BY <1>4 DEF Publish
  <2> HIDE DEF answer, buffered
  <2>2. /\ round' \in RoundRow /\ round'.deferred = round.deferred /\ round'.raw = round.raw
        /\ round'.answer = answer /\ round'.buffered = round.buffered
    BY <1>1, <1>2, <2>1 DEF RoundRow
  <2> QED BY <1>2, <1>4, <2>1, <2>2 DEF answer
<1> QED BY <1>3, <1>4

\* A fresh round and a fresh batcher.
LEMMA FreshTypes ==
  /\ \A deferred \in BOOLEAN :
       /\ FreshRound(deferred) \in RoundRow /\ FreshRound(deferred).answer = <<>>
       /\ FreshRound(deferred).buffered = <<>> /\ FreshRound(deferred).raw = FALSE
  /\ FreshBatcher \in [pending: Seq(Piece), first: BOOLEAN] /\ FreshBatcher.pending = <<>>
  /\ Off \in [on: BOOLEAN, fallback: BOOLEAN, attempt: Nat, raw: BOOLEAN, calls: SUBSET Tools]
  /\ Off.on = FALSE /\ [Off EXCEPT !.on = TRUE].on
  /\ [Off EXCEPT !.on = TRUE]
       \in [on: BOOLEAN, fallback: BOOLEAN, attempt: Nat, raw: BOOLEAN, calls: SUBSET Tools]
  /\ <<>> \in Seq(Piece) /\ <<>> \in Seq(Events)
<1>1. <<>> \in Seq(Piece) /\ <<>> \in Seq(Events)
  BY EmptySeq
<1>2. FreshBatcher \in [pending: Seq(Piece), first: BOOLEAN] /\ FreshBatcher.pending = <<>>
  BY <1>1 DEF FreshBatcher
<1>3. /\ Off \in [on: BOOLEAN, fallback: BOOLEAN, attempt: Nat, raw: BOOLEAN, calls: SUBSET Tools]
      /\ Off.on = FALSE /\ [Off EXCEPT !.on = TRUE].on
      /\ [Off EXCEPT !.on = TRUE]
           \in [on: BOOLEAN, fallback: BOOLEAN, attempt: Nat, raw: BOOLEAN, calls: SUBSET Tools]
  BY DEF Off
<1>4. ASSUME NEW deferred \in BOOLEAN
      PROVE  /\ FreshRound(deferred) \in RoundRow /\ FreshRound(deferred).answer = <<>>
             /\ FreshRound(deferred).buffered = <<>> /\ FreshRound(deferred).raw = FALSE
  BY <1>1 DEF FreshRound, RoundRow
<1> QED BY <1>1, <1>2, <1>3, <1>4

-----------------------------------------------------------------------------
(* The steps. *)

TextInv == TypeInv /\ DraftInv

\* A step of somebody else.
LEMMA SameText ==
  ASSUME TextInv, UNCHANGED <<provider, sent, channel, batcher, round, draft, phase>>
  PROVE  TextInv'
<1>1. TypeInv'
  BY DEF TextInv, TypeInv
<1>2. Written' = Written /\ Text' = Text /\ \A i \in Text : Place(i)' = Place(i)
  BY DEF Written, Text, Place
<1>3. ASSUME ChannelInv PROVE ChannelInv'
  BY <1>2, <1>3 DEF ChannelInv
<1>4. DraftInv'
  BY <1>3 DEF TextInv, DraftInv
<1> QED BY <1>1, <1>4 DEF TextInv

\* A step of the stream that goes on.
LEMMA StreamGoesOn ==
  ASSUME TypeInv', phase' = "stream", ChannelInv', Prefix(draft', sent'),
         \A k \in 1..Len(sent') : sent'[k][2] = k,
         IF round'.deferred THEN draft' = <<>> /\ round'.buffered = round'.answer
                            ELSE draft' = round'.answer /\ round'.buffered = <<>>
  PROVE  TextInv'
BY DEF TextInv, DraftInv

\* A step that ends the round.
LEMMA RoundEnds ==
  ASSUME TextInv, TypeInv', ~provider'.on, sent' = sent, Prefix(draft', sent),
         phase' \in {"boundary", "waiting", "failed", "completed"}
  PROVE  TextInv'
BY DEF TextInv, DraftInv

\* The provider sends events without text.
LEMMA SilentStep ==
  ASSUME TextInv, NEW events \in Seq(Events), Emit(events), UNCHANGED sent,
         provider' \in [on: BOOLEAN, fallback: BOOLEAN, attempt: Nat, raw: BOOLEAN,
                        calls: SUBSET Tools],
         \A i \in 1..Len(events) :
           /\ events[i].event # "text"
           /\ events[i].event \in {"done", "error"} => i = Len(events) /\ ~provider'.on
  PROVE  TextInv'
<1>1. /\ provider.on /\ channel' = channel \o events
      /\ UNCHANGED <<batcher, round, draft, phase>>
  BY DEF Emit
<1>2. phase = "stream" /\ TypeInv /\ ChannelInv
  BY <1>1 DEF TextInv, DraftInv
<1>3. TypeInv'
  BY <1>1, <1>2, ConcatProperties DEF TypeInv
<1>4. ChannelInv'
  BY <1>1, <1>2, EventsEmitted
<1> QED BY <1>1, <1>2, <1>3, <1>4, StreamGoesOn DEF TextInv, DraftInv

\* The provider sends a piece of text.
LEMMA ChunkStep ==
  ASSUME TextInv, NEW kind \in Kind, Chunk(kind)
  PROVE  TextInv'
<1> DEFINE piece == <<kind, Len(sent) + 1>>
           events == <<[event |-> "raw"], [event |-> "text", piece |-> piece]>>
<1>1. /\ provider.on /\ channel' = channel \o events /\ sent' = Append(sent, piece)
      /\ UNCHANGED <<batcher, round, draft, phase>>
  BY DEF Chunk, Emit
<1>2. phase = "stream" /\ TypeInv /\ ChannelInv
  BY <1>1 DEF TextInv, DraftInv
<1>3. piece \in Piece /\ piece[2] = Len(sent) + 1
  BY <1>2, LenProperties DEF TypeInv, Piece
<1>4. provider' \in [on: BOOLEAN, fallback: BOOLEAN, attempt: Nat, raw: BOOLEAN, calls: SUBSET Tools]
  BY <1>2 DEF Chunk, TypeInv
<1> HIDE DEF piece
<1>5. events \in Seq(Events)
  BY <1>3, EventTypes
<1>6. ChannelInv' /\ \A k \in 1..Len(sent') : sent'[k][2] = k
  <2>1. \A k \in 1..Len(sent) : sent[k][2] = k
    BY DEF TextInv, DraftInv
  <2> HIDE DEF ChannelInv, TypeInv
  <2> QED BY <1>1, <1>2, <1>3, <2>1, TextEmitted
<1> HIDE DEF events
<1>7. TypeInv'
  BY <1>1, <1>2, <1>3, <1>4, <1>5, ConcatProperties, AppendProperties DEF TypeInv
<1>8. Prefix(draft', sent')
  BY <1>1, <1>2, <1>3, PrefixOfLonger DEF TypeInv, TextInv, DraftInv
<1>9. IF round'.deferred THEN draft' = <<>> /\ round'.buffered = round'.answer
                         ELSE draft' = round'.answer /\ round'.buffered = <<>>
  BY <1>1, <1>2 DEF TextInv, DraftInv
<1> QED BY <1>1, <1>2, <1>6, <1>7, <1>8, <1>9, StreamGoesOn

LEMMA ProviderStep ==
  ASSUME TextInv, Provider
  PROVE  TextInv'
<1> DEFINE Providers == [on: BOOLEAN, fallback: BOOLEAN, attempt: Nat, raw: BOOLEAN,
                         calls: SUBSET Tools]
<1>1. provider \in Providers /\ Off \in Providers /\ ~Off.on
  BY FreshTypes DEF TextInv, TypeInv
<1>2. ASSUME NEW kind \in Kind, Chunk(kind) PROVE TextInv'
  BY <1>2, ChunkStep
<1>3. ASSUME NEW calls \in Batches, ChunkCalls(calls) PROVE TextInv'
  <2> DEFINE events == <<[event |-> "raw"]>>
  <2>1. events \in Seq(Events) /\ Len(events) = 1 /\ events[1].event = "raw"
    BY OneEvent, EventTypes
  <2>2. calls \in SUBSET Tools
    BY RoundConstants DEF Tools
  <2>3. provider' \in Providers
    BY <1>1, <1>3, <2>2 DEF ChunkCalls
  <2>4. Emit(events) /\ UNCHANGED sent
    BY <1>3 DEF ChunkCalls
  <2> HIDE DEF events
  <2> QED BY <2>1, <2>3, <2>4, SilentStep
<1>4. CASE Finish
  <2> DEFINE raw == [event |-> "raw"]
             done == [event |-> "done"]
             called == [event |-> "tool_calls", calls |-> provider.calls]
             events == <<raw>> \o (IF provider.calls = {} THEN <<>> ELSE <<called>>) \o <<done>>
  <2>1. raw \in Events /\ done \in Events /\ called \in Events
    BY <1>1, EventTypes
  <2>2. raw.event = "raw" /\ done.event = "done" /\ called.event = "tool_calls"
    OBVIOUS
  <2>3. Emit(events) /\ provider' = Off /\ UNCHANGED sent
    BY <1>4 DEF Finish
  <2> HIDE DEF raw, done, called
  <2> DEFINE calls == IF provider.calls = {} THEN <<raw>> ELSE Append(<<raw>>, called)
  <2>4. <<raw>> \in Seq(Events) /\ Len(<<raw>>) = 1 /\ <<raw>>[1] = raw
    BY <2>1, OneEvent
  <2>5. events = Append(calls, done) /\ calls \in Seq(Events)
    <3>1. <<raw>> \o <<>> = <<raw>>
      BY <2>4, ConcatEmptySeq, Zenon
    <3>2. <<raw>> \o <<called>> = Append(<<raw>>, called) /\ Append(<<raw>>, called) \in Seq(Events)
      BY <2>1, <2>4, AppendIsConcat, AppendProperties, Zenon
    <3>3. <<raw>> \o (IF provider.calls = {} THEN <<>> ELSE <<called>>) = calls /\ calls \in Seq(Events)
      BY <2>4, <3>1, <3>2
    <3> HIDE DEF calls
    <3>4. calls \o <<done>> = Append(calls, done)
      BY <2>1, <3>3, AppendIsConcat, Zenon
    <3> QED BY <3>3, <3>4
  <2>6. /\ Len(calls) \in Nat
        /\ \A i \in 1..Len(calls) : calls[i].event \in {"raw", "tool_calls"}
    <3>1. CASE provider.calls = {}
      <4>1. calls = <<raw>>
        BY <3>1
      <4> QED BY <2>2, <2>4, <4>1
    <3>2. CASE provider.calls # {}
      <4>1. calls = Append(<<raw>>, called)
        BY <3>2
      <4>2. Len(calls) = 2 /\ calls[1] = raw /\ calls[2] = called
        BY <2>1, <2>4, <4>1, AppendProperties
      <4>3. \A i \in 1..2 : i = 1 \/ i = 2
        OBVIOUS
      <4> QED BY <2>2, <4>2, <4>3
    <3> QED BY <3>1, <3>2
  <2> HIDE DEF events, calls
  <2>7. /\ events \in Seq(Events) /\ Len(events) = Len(calls) + 1
        /\ \A i \in 1..Len(calls) : events[i] = calls[i]
        /\ events[Len(calls) + 1] = done
    BY <2>1, <2>5, AppendProperties
  <2>8. \A i \in 1..Len(events) : i \in 1..Len(calls) \/ i = Len(events)
    BY <2>6, <2>7
  <2>9. \A i \in 1..Len(events) :
          /\ events[i].event # "text"
          /\ events[i].event \in {"done", "error"} => i = Len(events) /\ ~provider'.on
    BY <1>1, <2>2, <2>3, <2>6, <2>7, <2>8
  <2>10. provider' \in Providers
    BY <1>1, <2>3
  <2> HIDE DEF TextInv
  <2> QED BY <2>3, <2>7, <2>9, <2>10, SilentStep
<1>5. ASSUME NEW error \in {"overflow", "provider"}, Raise(error) PROVE TextInv'
  <2> DEFINE e == [event |-> "error", error |-> error]
  <2>1. e \in Events /\ e.event = "error"
    BY EventTypes
  <2>2. Emit(<<e>>) /\ provider' = Off /\ UNCHANGED sent
    BY <1>5 DEF Raise
  <2> HIDE DEF e
  <2>3. <<e>> \in Seq(Events) /\ Len(<<e>>) = 1 /\ <<e>>[1] = e
    BY <2>1, OneEvent
  <2>4. \A i \in 1..Len(<<e>>) :
          /\ <<e>>[i].event # "text"
          /\ <<e>>[i].event \in {"done", "error"} => i = Len(<<e>>) /\ ~provider'.on
    BY <1>1, <2>1, <2>2, <2>3
  <2>5. provider' \in Providers
    BY <1>1, <2>2
  <2> HIDE DEF TextInv
  <2> QED BY <2>2, <2>3, <2>4, <2>5, SilentStep
<1>6. ASSUME NEW error, Retry(error) \/ FallBack(error) PROVE TextInv'
  <2>1. Emit(<<>>) /\ UNCHANGED sent
    BY <1>6 DEF Retry, FallBack
  <2>2. provider' \in Providers
    <3>1. CASE Retry(error)
      BY <1>1, <3>1 DEF Retry
    <3>2. CASE FallBack(error)
      BY <1>1, <3>2 DEF FallBack
    <3> QED BY <1>6, <3>1, <3>2
  <2>3. <<>> \in Seq(Events) /\ Len(<<>>) = 0
    BY EmptySeq
  <2>4. \A i \in 1..Len(<<>>) :
          /\ <<>>[i].event # "text"
          /\ <<>>[i].event \in {"done", "error"} => i = Len(<<>>) /\ ~provider'.on
    BY <2>3
  <2> HIDE DEF TextInv
  <2> QED BY <2>1, <2>2, <2>3, <2>4, SilentStep
<1> QED BY <1>2, <1>3, <1>4, <1>5, <1>6 DEF Provider, ProviderError

\* A stream that is stopped leaves its tables typed.
LEMMA Stopped ==
  ASSUME TypeInv, StopStream, UNCHANGED <<sent, round, draft>>
  PROVE  TypeInv' /\ ~provider'.on
BY FreshTypes DEF TypeInv, StopStream

\* A failure.
LEMMA FailStep ==
  ASSUME TextInv, Fail, UNCHANGED <<round, draft>>
  PROVE  TextInv'
<1>1. TypeInv' /\ ~provider'.on /\ sent' = sent /\ phase' = "failed" /\ Prefix(draft', sent)
  BY Stopped DEF TextInv, DraftInv, Fail
<1> HIDE DEF TypeInv
<1> QED BY <1>1, RoundEnds

\* What the batcher has taken and what it has written.
LEMMA Texts ==
  ASSUME TypeInv, ChannelInv
  PROVE  /\ round.answer \in Seq(Piece) /\ batcher.pending \in Seq(Piece)
         /\ round.buffered \in Seq(Piece) /\ draft \in Seq(Piece) /\ sent \in Seq(Piece)
         /\ Written \in Seq(Piece) /\ Prefix(Written, sent) /\ Prefix(round.answer, sent)
<1>1. /\ round.answer \in Seq(Piece) /\ batcher.pending \in Seq(Piece)
      /\ round.buffered \in Seq(Piece) /\ draft \in Seq(Piece) /\ sent \in Seq(Piece)
  BY DEF TypeInv, RoundRow
<1>2. Written \in Seq(Piece) /\ Prefix(Written, sent)
  BY <1>1, ConcatProperties DEF Written, ChannelInv
<1> QED BY <1>1, <1>2, FirstPrefix DEF Written

\* The batcher yields a text: what it yields and keeps is what it had with what arrived.
LEMMA TextYielded ==
  ASSUME TextInv, phase = "stream", NEW text \in Seq(Piece), Publish(text),
         TypeInv', ChannelInv', UNCHANGED <<sent, phase>>
  PROVE  TextInv'
<1>1. TypeInv /\ ChannelInv /\ \A k \in 1..Len(sent) : sent[k][2] = k
  BY DEF TextInv, DraftInv
<1>2. IF round.deferred THEN draft = <<>> /\ round.buffered = round.answer
                        ELSE draft = round.answer /\ round.buffered = <<>>
  BY DEF TextInv, DraftInv
<1>3. /\ round'.deferred = round.deferred /\ round'.answer = round.answer \o text
      /\ round'.buffered = IF round.deferred THEN round.buffered \o text ELSE round.buffered
      /\ draft' = IF round.deferred THEN draft ELSE draft \o text
  BY <1>1, Published
<1>4. IF round'.deferred THEN draft' = <<>> /\ round'.buffered = round'.answer
                         ELSE draft' = round'.answer /\ round'.buffered = <<>>
  BY <1>2, <1>3
<1>5. Prefix(round'.answer, sent')
  <2>1. round'.answer \in Seq(Piece) /\ batcher'.pending \in Seq(Piece) /\ sent' \in Seq(Piece)
        /\ Prefix(round'.answer \o batcher'.pending, sent')
    BY DEF TypeInv, RoundRow, ChannelInv, Written
  <2> QED BY <2>1, FirstPrefix
<1>6. Prefix(draft', sent')
  <2>1. round'.deferred \in BOOLEAN /\ sent' \in Seq(Piece)
    BY DEF TypeInv, RoundRow
  <2> QED BY <1>4, <1>5, <2>1, EmptyPrefix
<1>7. \A k \in 1..Len(sent') : sent'[k][2] = k
  BY <1>1
<1> HIDE DEF TextInv, TypeInv, ChannelInv
<1> QED BY <1>4, <1>6, <1>7, StreamGoesOn

\* Texts are joined in any order.
LEMMA JoinedTexts ==
  ASSUME NEW s \in Seq(Piece), NEW t \in Seq(Piece), NEW u \in Seq(Piece)
  PROVE  (s \o t) \o u = s \o (t \o u)
<1> DEFINE st == s \o t
           tu == t \o u
           l == st \o u
           r == s \o tu
<1>1. Len(s) \in Nat /\ Len(t) \in Nat /\ Len(u) \in Nat
  BY LenProperties
<1>2. /\ st \in Seq(Piece) /\ Len(st) = Len(s) + Len(t)
      /\ \A i \in 1..(Len(s) + Len(t)) : st[i] = IF i <= Len(s) THEN s[i] ELSE t[i - Len(s)]
      /\ tu \in Seq(Piece) /\ Len(tu) = Len(t) + Len(u)
      /\ \A i \in 1..(Len(t) + Len(u)) : tu[i] = IF i <= Len(t) THEN t[i] ELSE u[i - Len(t)]
  BY ConcatProperties
<1> HIDE DEF st, tu
<1>3. st \in Seq(Piece) /\ tu \in Seq(Piece)
  BY <1>2
<1>4. /\ l \in Seq(Piece) /\ Len(l) = Len(s) + Len(t) + Len(u)
      /\ \A i \in 1..(Len(s) + Len(t) + Len(u)) :
           l[i] = IF i <= Len(s) + Len(t) THEN st[i] ELSE u[i - (Len(s) + Len(t))]
  <2>1. /\ l \in Seq(Piece) /\ Len(l) = Len(st) + Len(u)
        /\ \A i \in 1..(Len(st) + Len(u)) : l[i] = IF i <= Len(st) THEN st[i] ELSE u[i - Len(st)]
    BY <1>3, ConcatProperties
  <2> HIDE DEF l
  <2> QED BY <1>2, <2>1
<1>5. /\ r \in Seq(Piece) /\ Len(r) = Len(s) + (Len(t) + Len(u))
      /\ \A i \in 1..(Len(s) + (Len(t) + Len(u))) : r[i] = IF i <= Len(s) THEN s[i] ELSE tu[i - Len(s)]
  <2>1. /\ r \in Seq(Piece) /\ Len(r) = Len(s) + Len(tu)
        /\ \A i \in 1..(Len(s) + Len(tu)) : r[i] = IF i <= Len(s) THEN s[i] ELSE tu[i - Len(s)]
    BY <1>3, ConcatProperties
  <2> HIDE DEF r
  <2> QED BY <1>2, <2>1
<1> HIDE DEF l, r
<1>6. Len(l) = Len(r) /\ Len(l) = Len(s) + Len(t) + Len(u) /\ Len(r) = Len(l)
  BY <1>1, <1>4, <1>5
<1>7. ASSUME NEW i \in 1..Len(l) PROVE l[i] = r[i]
  <2>0. i \in Nat /\ 1 <= i /\ i <= Len(s) + Len(t) + Len(u)
        /\ i \in 1..(Len(s) + Len(t) + Len(u)) /\ i \in 1..(Len(s) + (Len(t) + Len(u)))
    BY <1>1, <1>6
  <2>1. CASE i <= Len(s)
    <3>1. i \in 1..(Len(s) + Len(t)) /\ i <= Len(s) + Len(t)
      BY <1>1, <2>0, <2>1
    <3>2. l[i] = st[i] /\ st[i] = s[i] /\ r[i] = s[i]
      BY <1>2, <1>4, <1>5, <2>0, <2>1, <3>1
    <3> QED BY <3>2
  <2>2. CASE Len(s) < i /\ i <= Len(s) + Len(t)
    <3>1. i \in 1..(Len(s) + Len(t)) /\ ~(i <= Len(s))
          /\ i - Len(s) \in 1..(Len(t) + Len(u)) /\ i - Len(s) <= Len(t)
      BY <1>1, <2>0, <2>2
    <3>2. l[i] = st[i] /\ st[i] = t[i - Len(s)] /\ r[i] = tu[i - Len(s)]
      BY <1>2, <1>4, <1>5, <2>0, <2>2, <3>1
    <3> QED BY <1>2, <3>1, <3>2
  <2>3. CASE Len(s) + Len(t) < i
    <3>1. /\ ~(i <= Len(s) + Len(t)) /\ ~(i <= Len(s))
          /\ i - Len(s) \in 1..(Len(t) + Len(u)) /\ ~(i - Len(s) <= Len(t))
          /\ (i - Len(s)) - Len(t) = i - (Len(s) + Len(t))
      BY <1>1, <2>0, <2>3
    <3>2. l[i] = u[i - (Len(s) + Len(t))] /\ r[i] = tu[i - Len(s)]
      BY <1>4, <1>5, <2>0, <3>1
    <3>3. tu[i - Len(s)] = u[(i - Len(s)) - Len(t)]
      BY <1>2, <3>1
    <3> QED BY <3>1, <3>2, <3>3
  <2> QED BY <1>1, <2>0, <2>1, <2>2, <2>3
<1>8. l = r
  BY <1>4, <1>5, <1>6, <1>7, SeqEqual
<1> QED BY <1>8 DEF l, r, st, tu

LEMMA TakeTextStep ==
  ASSUME TextInv, TakeText
  PROVE  TextInv'
<1> DEFINE piece == Head(channel).piece
           yields == Yields(piece)
           keeps == Keeps(piece)
<1>1. /\ phase = "stream" /\ channel # <<>> /\ Head(channel).event = "text"
      /\ channel' = Tail(channel) /\ UNCHANGED <<provider, sent, phase>>
      /\ Publish(yields) /\ batcher' = [pending |-> keeps, first |-> TRUE]
  BY DEF TakeText, Receive, Event
<1>2. TypeInv /\ ChannelInv /\ piece \in Piece /\ (~batcher.first => batcher.pending = <<>>)
  BY <1>1, NextPiece DEF TextInv, DraftInv, ChannelInv
<1> HIDE DEF piece
<1>3. /\ yields \in Seq(Piece) /\ keeps \in Seq(Piece)
      /\ yields \o keeps = Append(batcher.pending, piece)
  BY <1>2, Batched
<1> HIDE DEF yields, keeps
<1>4. /\ round' \in RoundRow /\ round'.raw = round.raw /\ draft' \in Seq(Piece)
      /\ round'.answer = round.answer \o yields
  BY <1>1, <1>2, <1>3, Published
<1>5. TypeInv'
  <2>1. Tail(channel) \in Seq(Events)
    BY <1>1, <1>2, TailOfChannel
  <2>2. batcher' \in [pending: Seq(Piece), first: BOOLEAN]
    BY <1>1, <1>3
  <2> QED BY <1>1, <1>2, <1>4, <2>1, <2>2 DEF TypeInv
<1>6. Written' = Append(Written, piece)
  <2>1. round.answer \in Seq(Piece) /\ batcher.pending \in Seq(Piece) /\ Written \in Seq(Piece)
    BY <1>2, Texts
  <2>2. Written' = (round.answer \o yields) \o keeps
    BY <1>1, <1>4 DEF Written
  <2>3. (round.answer \o yields) \o keeps = round.answer \o (yields \o keeps)
    BY <1>3, <2>1, JoinedTexts
  <2>4. Append(batcher.pending, piece) = batcher.pending \o <<piece>> /\ <<piece>> \in Seq(Piece)
    BY <1>2, <2>1, AppendIsConcat
  <2>5. round.answer \o (batcher.pending \o <<piece>>) = (round.answer \o batcher.pending) \o <<piece>>
    BY <2>1, <2>4, JoinedTexts
  <2>6. Append(Written, piece) = Written \o <<piece>>
    BY <1>2, <2>1, AppendIsConcat
  <2> QED BY <1>3, <2>2, <2>3, <2>4, <2>5, <2>6 DEF Written
<1>7. ChannelInv'
  <2>1. batcher'.first
    BY <1>1
  <2> HIDE DEF ChannelInv, TypeInv
  <2> QED BY <1>1, <1>2, <1>4, <1>6, <2>1, TextTaken DEF piece
<1> HIDE DEF TextInv, TypeInv, ChannelInv
<1> QED BY <1>1, <1>3, <1>5, <1>7, TextYielded

LEMMA FlushPendingStep ==
  ASSUME TextInv, FlushPending
  PROVE  TextInv'
<1> DEFINE text == batcher.pending
<1>1. /\ phase = "stream" /\ UNCHANGED <<provider, sent, channel, phase>>
      /\ Publish(text) /\ batcher' = [batcher EXCEPT !.pending = <<>>]
  BY DEF FlushPending
<1>2. TypeInv /\ ChannelInv
  BY <1>1 DEF TextInv, DraftInv
<1>3. text \in Seq(Piece) /\ round.answer \in Seq(Piece)
  BY <1>2, Texts
<1>4. /\ round' \in RoundRow /\ round'.raw = round.raw /\ draft' \in Seq(Piece)
      /\ round'.answer = round.answer \o text
  BY <1>1, <1>2, <1>3, Published
<1>5. /\ batcher' \in [pending: Seq(Piece), first: BOOLEAN] /\ batcher'.pending = <<>>
  BY <1>1, <1>2, FreshTypes DEF TypeInv
<1>6. TypeInv'
  BY <1>1, <1>2, <1>4, <1>5 DEF TypeInv
<1>7. Written' = Written
  <2>1. (round.answer \o text) \o <<>> = round.answer \o text
    BY <1>3, ConcatProperties, ConcatEmptySeq
  <2> QED BY <1>4, <1>5, <2>1 DEF Written
<1>8. ChannelInv'
  BY <1>1, <1>2, <1>4, <1>5, <1>7 DEF ChannelInv, Text, Place
<1> HIDE DEF TextInv, TypeInv, ChannelInv
<1> QED BY <1>1, <1>3, <1>6, <1>8, TextYielded

\* An event that carries no text is taken while the batcher waits.
LEMMA SilentTaken ==
  ASSUME TextInv, phase = "stream", phase' = "stream", channel # <<>>, channel' = Tail(channel),
         Head(channel).event # "text", UNCHANGED <<provider, sent, batcher, draft>>,
         round' \in RoundRow, round'.deferred = round.deferred, round'.answer = round.answer,
         round'.buffered = round.buffered,
         round'.raw = (round.raw \/ Head(channel).event = "raw")
  PROVE  TextInv'
<1>1. TypeInv /\ ChannelInv /\ Written' = Written
  BY DEF TextInv, DraftInv, Written
<1>2. ChannelInv'
  <2> HIDE DEF TextInv, TypeInv, ChannelInv
  <2> QED BY <1>1, EventTaken
<1>3. TypeInv'
  <2>1. Tail(channel) \in Seq(Events)
    BY <1>1, TailOfChannel
  <2> QED BY <1>1, <2>1 DEF TypeInv
<1> QED BY <1>2, <1>3, StreamGoesOn DEF TextInv, DraftInv

LEMMA TakeDoneStep ==
  ASSUME TextInv, TakeDone
  PROVE  TextInv'
<1>1. /\ phase = "stream" /\ channel # <<>> /\ Head(channel).event = "done"
      /\ channel' = Tail(channel) /\ batcher.pending = <<>> /\ phase' = "decide"
      /\ UNCHANGED <<provider, sent, batcher, round, draft>>
  BY DEF TakeDone, Receive, Event
<1>2. TypeInv /\ ChannelInv
  BY <1>1 DEF TextInv, DraftInv
<1>3. round.answer = sent /\ ~provider.on
  BY <1>1, <1>2, AllTaken
<1>4. TypeInv'
  <2>1. Tail(channel) \in Seq(Events)
    BY <1>1, <1>2, TailOfChannel
  <2> QED BY <1>1, <1>2, <2>1 DEF TypeInv
<1>5. DraftInv'
  BY <1>1, <1>3 DEF TextInv, DraftInv
<1> QED BY <1>4, <1>5 DEF TextInv

LEMMA TakeErrorStep ==
  ASSUME TextInv, TakeError
  PROVE  TextInv'
<1>1. CASE Fail
  BY <1>1, FailStep DEF TakeError
<1>2. CASE ~Fail
  <2>1. /\ phase = "stream" /\ batcher.pending = <<>> /\ ~round.raw /\ phase' = "overflow"
        /\ StopStream /\ UNCHANGED <<sent, round, draft>>
    BY <1>2 DEF TakeError
  <2>2. TypeInv /\ ChannelInv
    BY <2>1 DEF TextInv, DraftInv
  <2>3. TypeInv' /\ ~provider'.on
    BY <2>1, <2>2, Stopped
  <2>4. round.answer = <<>>
    <3>1. Written = <<>>
      BY <2>1, <2>2 DEF ChannelInv
    <3>2. Written = round.answer
      BY <2>1, <2>2, Texts, ConcatEmptySeq DEF Written
    <3> QED BY <3>1, <3>2
  <2>5. round.buffered = <<>> /\ draft = <<>> /\ Prefix(draft, sent)
    BY <2>1, <2>4 DEF TextInv, DraftInv
  <2>6. DraftInv'
    BY <2>1, <2>3, <2>4, <2>5 DEF TextInv, DraftInv
  <2> QED BY <2>3, <2>6 DEF TextInv
<1> QED BY <1>1, <1>2

LEMMA BatcherStep ==
  ASSUME TextInv, Batcher
  PROVE  TextInv'
<1>0. round \in RoundRow
  BY DEF TextInv, TypeInv
<1>1. CASE TakeRaw
  <2>1. round' = [round EXCEPT !.raw = TRUE]
    BY <1>1 DEF TakeRaw
  <2>2. /\ round' \in RoundRow /\ round'.deferred = round.deferred /\ round'.raw
        /\ round'.answer = round.answer /\ round'.buffered = round.buffered
    BY <1>0, <2>1 DEF RoundRow
  <2>3. /\ phase = "stream" /\ phase' = "stream" /\ channel # <<>> /\ channel' = Tail(channel)
        /\ Head(channel).event = "raw" /\ UNCHANGED <<provider, sent, batcher, draft>>
    BY <1>1 DEF TakeRaw, Receive, Event
  <2>4. round'.raw = (round.raw \/ Head(channel).event = "raw")
    BY <1>0, <2>1, <2>3 DEF RoundRow
  <2> HIDE DEF TextInv
  <2> QED BY <2>2, <2>3, <2>4, SilentTaken
<1>2. CASE TakeCalls
  <2>1. /\ phase = "stream" /\ phase' = "stream" /\ channel # <<>> /\ channel' = Tail(channel)
        /\ Head(channel).event = "tool_calls" /\ UNCHANGED <<provider, sent, batcher, draft>>
        /\ round' = [round EXCEPT !.calls = Head(channel).calls]
    BY <1>2 DEF TakeCalls, Receive, Event
  <2>2. Head(channel).calls \in SUBSET Tools
    <3>1. Head(channel) \in Events
      BY <2>1, TailOfChannel DEF TextInv
    <3> QED BY <2>1, <3>1, EventTypes
  <2>3. /\ round' \in RoundRow /\ round'.deferred = round.deferred /\ round'.raw = round.raw
        /\ round'.answer = round.answer /\ round'.buffered = round.buffered
    BY <1>0, <2>1, <2>2 DEF RoundRow
  <2>4. round'.raw = (round.raw \/ Head(channel).event = "raw")
    BY <1>0, <2>1, <2>3 DEF RoundRow
  <2> HIDE DEF TextInv
  <2> QED BY <2>1, <2>3, <2>4, SilentTaken
<1>3. CASE TooLarge
  BY <1>3, FailStep DEF TooLarge
<1> QED BY <1>1, <1>2, <1>3, TakeTextStep, FlushPendingStep, TakeDoneStep, TakeErrorStep DEF Batcher

\* The round begins with an empty draft.
LEMMA StartStep ==
  ASSUME TextInv, Start
  PROVE  TextInv'
<1>1. /\ phase = "boundary" /\ phase' = "send" /\ draft' = <<>> /\ sent' = <<>>
      /\ round' = FreshRound(Blocked # {}) /\ UNCHANGED <<provider, channel, batcher>>
  BY DEF Start
<1>2. /\ round' \in RoundRow /\ round'.answer = <<>> /\ round'.buffered = <<>>
  BY <1>1, FreshTypes
<1>3. <<>> \in Seq(Piece) /\ Len(<<>>) = 0 /\ Prefix(<<>>, <<>>)
  BY EmptySeq, EmptyPrefix
<1>4. TypeInv' /\ ~provider'.on
  BY <1>1, <1>2, <1>3 DEF TextInv, TypeInv, DraftInv
<1>5. DraftInv'
  BY <1>1, <1>2, <1>3, <1>4 DEF DraftInv
<1> QED BY <1>4, <1>5 DEF TextInv

LEMMA RecoverStep ==
  ASSUME TextInv, Recover
  PROVE  TextInv'
<1>1. /\ phase \in {"send", "overflow"} /\ phase' = "send"
      /\ round' = [round EXCEPT !.recovered = TRUE]
      /\ UNCHANGED <<provider, sent, channel, batcher, draft>>
  BY DEF Recover, stream
<1>2. /\ round' \in RoundRow /\ round'.answer = round.answer /\ round'.buffered = round.buffered
  BY <1>1 DEF TextInv, TypeInv, RoundRow
<1>3. TypeInv' /\ ~provider'.on
  BY <1>1, <1>2 DEF TextInv, TypeInv, DraftInv
<1>4. DraftInv'
  BY <1>1, <1>2, <1>3 DEF TextInv, DraftInv
<1> QED BY <1>3, <1>4 DEF TextInv

\* Whatever was asked for before, the request begins with nothing sent and nothing written.
LEMMA SendStep ==
  ASSUME TextInv, Send
  PROVE  TextInv'
<1>1. /\ phase = "send" /\ phase' = "stream" /\ sent' = <<>> /\ channel' = <<>>
      /\ provider' = [Off EXCEPT !.on = TRUE] /\ batcher' = FreshBatcher
      /\ round' = [round EXCEPT !.raw = FALSE] /\ UNCHANGED draft
  BY DEF Send
<1>2. /\ round.answer = <<>> /\ round.buffered = <<>> /\ draft = <<>> /\ round \in RoundRow
  BY <1>1 DEF TextInv, TypeInv, DraftInv
<1>3. /\ round' \in RoundRow /\ round'.answer = <<>> /\ round'.buffered = <<>>
  BY <1>1, <1>2 DEF RoundRow
<1>4. /\ <<>> \in Seq(Piece) /\ <<>> \in Seq(Events) /\ Len(<<>>) = 0 /\ Prefix(<<>>, <<>>)
      /\ <<>> \o <<>> = <<>>
  BY EmptySeq, EmptyPrefix, ConcatEmptySeq
<1>5. /\ FreshBatcher \in [pending: Seq(Piece), first: BOOLEAN] /\ FreshBatcher.pending = <<>>
      /\ [Off EXCEPT !.on = TRUE] \in [on: BOOLEAN, fallback: BOOLEAN, attempt: Nat, raw: BOOLEAN,
                                       calls: SUBSET Tools]
  BY FreshTypes
<1>6. TypeInv'
  BY <1>1, <1>2, <1>3, <1>4, <1>5 DEF TypeInv
<1>7. Written' = <<>>
  BY <1>1, <1>3, <1>4, <1>5 DEF Written
<1>8. ChannelInv'
  <2>1. Text' = {}
    BY <1>1, <1>4 DEF Text
  <2>2. (Len(Written') + 1)..Len(sent') = {} /\ 1..Len(channel') = {}
    BY <1>1, <1>4, <1>7
  <2> QED BY <1>1, <1>4, <1>5, <1>7, <2>1, <2>2 DEF ChannelInv
<1>9. /\ Prefix(draft', sent') /\ \A k \in 1..Len(sent') : sent'[k][2] = k
      /\ draft' = <<>>
  BY <1>1, <1>2, <1>4
<1> HIDE DEF TypeInv, ChannelInv
<1> QED BY <1>1, <1>3, <1>6, <1>8, <1>9, StreamGoesOn

\* Before its tools run a withheld text is shown: the buffer is the whole answer.
LEMMA ToolRoundStep ==
  ASSUME TextInv, ToolRound, phase' \in {"boundary", "waiting", "failed"}
  PROVE  TextInv'
<1>1. /\ phase = "decide" /\ draft' = Flushed(round.calls)
      /\ UNCHANGED <<provider, sent, channel, batcher, round>>
  BY DEF ToolRound, stream
<1>2. /\ TypeInv /\ Prefix(draft, sent) /\ ~provider.on /\ round.answer = sent
      /\ IF round.deferred THEN draft = <<>> /\ round.buffered = round.answer
                           ELSE draft = round.answer /\ round.buffered = <<>>
  BY <1>1 DEF TextInv, DraftInv
<1>3. round.buffered \in Seq(Piece) /\ draft \in Seq(Piece) /\ sent \in Seq(Piece)
      /\ round.deferred \in BOOLEAN
  BY <1>2 DEF TypeInv, RoundRow
<1>4. draft \o round.buffered = sent
  BY <1>2, <1>3, ConcatEmptySeq
<1>5. Prefix(sent, sent)
  BY <1>3, LenProperties DEF Prefix
<1>6. Prefix(draft', sent) /\ draft' \in Seq(Piece)
  BY <1>1, <1>2, <1>3, <1>4, <1>5 DEF Flushed
<1>7. TypeInv' /\ ~provider'.on
  BY <1>1, <1>2, <1>6 DEF TypeInv
<1> HIDE DEF TypeInv
<1> QED BY <1>1, <1>6, <1>7, RoundEnds

\* The answer is withheld, accepted, or taken into the history.
LEMMA DecideStep ==
  ASSUME TextInv, Withhold \/ Complete
  PROVE  TextInv'
<1>1. /\ phase = "decide" /\ phase' \in {"boundary", "waiting", "failed", "completed"}
      /\ UNCHANGED <<provider, sent, channel, batcher, round, draft>>
  BY DEF Withhold, Complete, stream
<1>2. TypeInv' /\ ~provider'.on /\ Prefix(draft', sent)
  BY <1>1 DEF TextInv, TypeInv, DraftInv
<1> HIDE DEF TypeInv
<1> QED BY <1>1, <1>2, RoundEnds

LEMMA WorkerStep ==
  ASSUME TextInv, Worker
  PROVE  TextInv'
<1>1. CASE CannotFit
  BY <1>1, FailStep DEF CannotFit
<1>2. CASE Correct \/ RejectBatch \/ CallRuntime \/ CallOrdinary
  <2>1. ToolRound /\ phase' \in {"boundary", "waiting", "failed"}
    BY <1>2 DEF Correct, RejectBatch, CallRuntime, CallOrdinary
  <2> HIDE DEF TextInv
  <2> QED BY <2>1, ToolRoundStep
<1> QED BY <1>1, <1>2, StartStep, RecoverStep, SendStep, DecideStep DEF Worker

LEMMA TextNext ==
  ASSUME TextInv, [Next]_vars
  PROVE  TextInv'
<1>1. ASSUME NEW c \in Child, ChildEnds(c) PROVE TextInv'
  BY <1>1, SameText DEF ChildEnds, stream
<1>2. CASE Steer \/ UNCHANGED vars
  BY <1>2, SameText DEF Steer, stream, vars
<1> QED BY <1>1, <1>2, ProviderStep, BatcherStep, WorkerStep DEF Next

LEMMA TextInit ==
  ASSUME Init
  PROVE  TextInv
<1>1. /\ <<>> \in Seq(Piece) /\ <<>> \in Seq(Events) /\ Len(<<>>) = 0 /\ Prefix(<<>>, <<>>)
  BY EmptySeq, EmptyPrefix
<1>2. TypeInv
  BY <1>1, FreshTypes DEF TypeInv, Init
<1>3. DraftInv
  BY <1>1, FreshTypes DEF DraftInv, Init
<1> QED BY <1>2, <1>3 DEF TextInv

\* The text of a round is what the provider sends, in its order, and nothing twice.
LEMMA TextInvariant == Spec => []TextInv
BY TextInit, TextNext, PTL DEF Spec

-----------------------------------------------------------------------------
\* The draft a user watches is the beginning of one answer of the provider, whatever is
\* retried, batched, withheld or recovered from and however long answers and batches are.
THEOREM DraftCorrect == Spec => []DraftIsOneAnswer
<1>1. TextInv => DraftIsOneAnswer
  BY PrefixIsPrefix DEF TextInv, TypeInv, DraftInv, DraftIsOneAnswer
<1> QED BY <1>1, TextInvariant, PTL

\* What the loop decides on is the whole answer, in the draft or in the buffer.
THEOREM NothingLostCorrect == Spec => []NothingLost
<1>1. TextInv => NothingLost
  <2> SUFFICES ASSUME TextInv, phase = "decide"
               PROVE  /\ round.answer = sent
                      /\ round.deferred => draft = <<>> /\ round.buffered = sent
                      /\ ~round.deferred => draft = sent
    BY DEF NothingLost
  <2> QED BY DEF TextInv, DraftInv
<1> QED BY <1>1, TextInvariant, PTL
============================================================================
