------------------------------ MODULE ModelRound ------------------------------
(***************************************************************************)
(* The rounds of one claimed run, AgentRuntime._execute_claimed from its   *)
(* first round to its end: the request to the model with its retries and   *)
(* its fallback (LiteLLMAgentModel), the batcher between the provider and  *)
(* the database (batch_model_stream_events), the draft the user watches,   *)
(* the guard that withholds an answer while required children are not      *)
(* collected, tool batches, tool loading, and recovery from an overflow.   *)
(*                                                                         *)
(* Abstractions: a piece of text is its kind and its place in the answer;  *)
(* a batch of tool calls is the set of tools it names; usage, profiles and *)
(* metrics are left out.  A window of 0 (no batcher) is not modelled.  The *)
(* lease, cancellation and what a commit stores are RunLifecycle's, the    *)
(* children are SubagentTasks', how a context is compacted ContextWindow's.*)
(***************************************************************************)
EXTENDS Integers, FiniteSets, Sequences, SequencesExt

CONSTANTS
  Resident,     \* tools every request offers
  Loadable,     \* registered tools a request offers once they are loaded
  Exclusive,    \* tools that must be alone in their batch
  Unknown,      \* a name no tool has
  Batches,      \* the batches of tool calls the model may ask for
  Child,        \* required children the run may spawn
  CanFallBack,  \* primary is deepseek, a fallback is configured and takes the input
  MaxRetries,   \* model_max_retries
  MaxBatch,     \* stream_batch_max_bytes, in pieces of text
  MaxBuffer,    \* final_candidate_max_bytes, in pieces of text
  MaxChunks,    \* bound: pieces of text in one answer
  MaxToolRounds,\* bound: rounds in which the model calls tools
  MaxSteers     \* bound: steer inputs

ASSUME RoundConstants ==
  /\ "search_tools" \in Resident \ Exclusive
  /\ {"spawn_subagents", "collect_subagent_results", "ask_user"} \subseteq Exclusive
  /\ Unknown \notin Resident \cup Loadable \cup Exclusive
  /\ Batches \subseteq SUBSET (Resident \cup Loadable \cup {Unknown}) \ {{}}
  /\ CanFallBack \in BOOLEAN
  /\ {MaxBatch, MaxBuffer} \subseteq Nat \ {0}
  /\ {MaxRetries, MaxChunks, MaxToolRounds, MaxSteers} \subseteq Nat

VARIABLES
  provider,  \* stream_with_tools: endpoint, attempt, raw_chunk_seen, tool_fragments
  sent,      \* history: the text the provider sent in answer to the newest request
  channel,   \* events between the provider and the batcher
  batcher,   \* batch_model_stream_events: pending text, was the first text yielded
  round,     \* _ModelRoundState and recovered_overflow
  draft,     \* the parts of this round in the database
  tools,     \* loaded (checkpoint), offered by this round's request, run by its batch
  corrected, \* does the history hold an ExclusiveToolBatch correction
  child,     \* what the database says of each required child
  steers,    \* steer inputs: waiting, and how many were ever sent
  phase,     \* where _execute_claimed is, or how it ended
  batches    \* rounds in which the model called tools

vars == <<provider, sent, channel, batcher, round, draft, tools, corrected, child, steers,
          phase, batches>>
stream == <<provider, sent, channel, batcher>>

-----------------------------------------------------------------------------
Kind == {"content", "reasoning"}
Ended == {"completed", "failed", "waiting"}
Blocked == {c \in Child : child[c] \in {"running", "terminal"}}

Off == [on |-> FALSE, fallback |-> FALSE, attempt |-> 0, raw |-> FALSE, calls |-> {}]
FreshBatcher == [pending |-> <<>>, first |-> FALSE]
FreshRound(deferred) ==
  [deferred |-> deferred, raw |-> FALSE, answer |-> <<>>, buffered |-> <<>>, calls |-> {},
   recovered |-> FALSE]

\* The checkpoint may hold loaded tools and children of earlier claims.
Init ==
  /\ provider = Off
  /\ sent = <<>>
  /\ channel = <<>>
  /\ batcher = FreshBatcher
  /\ round = FreshRound(FALSE)
  /\ draft = <<>>
  /\ tools \in [loaded : SUBSET Loadable, offered : {{}}, ran : {{}}]
  /\ corrected = FALSE
  /\ child \in [Child -> {"none", "running", "terminal", "collected"}]
  /\ steers = [waiting |-> FALSE, sent |-> 0]
  /\ phase = "boundary"
  /\ batches = 0

-----------------------------------------------------------------------------
(* Environment. *)

ChildEnds(c) ==
  /\ child[c] = "running"
  /\ phase \notin Ended
  /\ child' = [child EXCEPT ![c] = "terminal"]
  /\ UNCHANGED <<stream, round, draft, tools, corrected, steers, phase, batches>>

Steer ==
  /\ steers.sent < MaxSteers
  /\ phase \notin Ended
  /\ steers' = [waiting |-> TRUE, sent |-> steers.sent + 1]
  /\ UNCHANGED <<stream, round, draft, tools, corrected, child, phase, batches>>

-----------------------------------------------------------------------------
(* The provider.  Its queue holds one event, and one more waits to enter. *)

Emit(events) ==
  /\ provider.on
  /\ Len(channel) <= 1
  /\ channel' = channel \o events
  /\ UNCHANGED <<batcher, round, draft, tools, corrected, child, steers, phase, batches>>

\* A chunk with text: first the raw event that says a retry is no longer safe.
Chunk(kind) ==
  LET piece == <<kind, Len(sent) + 1>> IN
  /\ Len(sent) < MaxChunks
  /\ Emit(<<[event |-> "raw"], [event |-> "text", piece |-> piece]>>)
  /\ sent' = Append(sent, piece)
  /\ provider' = [provider EXCEPT !.raw = TRUE]

\* Chunks with the fragments of a batch of tool calls.
ChunkCalls(calls) ==
  /\ provider.calls = {}
  /\ batches < MaxToolRounds
  /\ Emit(<<[event |-> "raw"]>>)
  /\ provider' = [provider EXCEPT !.raw = TRUE, !.calls = calls]
  /\ UNCHANGED sent

\* The stream ends with the finish reason that belongs to what it sent.
Finish ==
  /\ Emit(<<[event |-> "raw"]>>
          \o (IF provider.calls = {} THEN <<>>
              ELSE <<[event |-> "tool_calls", calls |-> provider.calls]>>)
          \o <<[event |-> "done"]>>)
  /\ provider' = Off
  /\ UNCHANGED sent

Raise(error) ==
  /\ Emit(<<[event |-> "error", error |-> error]>>)
  /\ provider' = Off
  /\ UNCHANGED sent

Retry(error) ==
  /\ error \in {"unavailable", "transient"}
  /\ ~provider.raw
  /\ ~(error = "unavailable" /\ CanFallBack /\ ~provider.fallback)
  /\ provider.attempt < MaxRetries
  /\ Emit(<<>>)
  /\ provider' = [provider EXCEPT !.attempt = @ + 1]
  /\ UNCHANGED sent

\* Mutant: the fallback is not remembered.
FallBackAgain(error) ==
  /\ error = "unavailable"
  /\ ~provider.raw
  /\ CanFallBack
  /\ Emit(<<>>)
  /\ provider' = [provider EXCEPT !.attempt = 0]
  /\ UNCHANGED sent

FallBack(error) ==
  /\ error = "unavailable"
  /\ ~provider.raw
  /\ CanFallBack
  /\ ~provider.fallback
  /\ Emit(<<>>)
  /\ provider' = [provider EXCEPT !.fallback = TRUE, !.attempt = 0]
  /\ UNCHANGED sent

\* A 503, another error worth a retry, an error that is not (or a wrong finish reason), a
\* context that is too large.
ProviderError ==
  \/ Raise("overflow")
  \/ \E error \in {"unavailable", "transient", "refused"} :
       \/ Retry(error)
       \/ FallBack(error)
       \/ /\ \/ provider.raw
             \/ error = "refused"
             \/ provider.attempt >= MaxRetries
                  /\ ~(error = "unavailable" /\ CanFallBack /\ ~provider.fallback)
          /\ Raise("provider")

Provider ==
  \/ \E kind \in Kind : Chunk(kind)
  \/ \E calls \in Batches : ChunkCalls(calls)
  \/ Finish
  \/ ProviderError

-----------------------------------------------------------------------------
(* The batcher and the consumer of its events, _stream_model_round. *)

StopStream ==
  /\ provider' = Off
  /\ channel' = <<>>
  /\ batcher' = FreshBatcher

\* A DomainError, or any other: fail_run.
Fail ==
  /\ phase' = "failed"
  /\ StopStream
  /\ UNCHANGED <<sent, tools, corrected, child, steers, batches>>

\* Text the batcher yields is committed to the draft or, behind the guard, kept back.
Fits(text) == ~round.deferred \/ Len(round.buffered) + Len(text) <= MaxBuffer

Publish(text) ==
  IF round.deferred
  THEN /\ round' = [round EXCEPT !.answer = @ \o text, !.buffered = @ \o text]
       /\ UNCHANGED draft
  ELSE /\ round' = [round EXCEPT !.answer = @ \o text]
       /\ draft' = draft \o text

Event == Head(channel)
Receive(event) ==
  /\ phase = "stream"
  /\ channel # <<>>
  /\ Event.event = event
  /\ channel' = Tail(channel)
  /\ UNCHANGED <<provider, sent, tools, corrected, child, steers, batches>>

TakeRaw ==
  /\ Receive("raw")
  /\ round' = [round EXCEPT !.raw = TRUE]
  /\ UNCHANGED <<batcher, draft, phase>>

\* Text of the same kind is merged until the batch is full; the first is not held back.
Merges(piece) == batcher.pending = <<>> \/ batcher.pending[1][1] = piece[1]
\* Mutant: text of another kind overtakes the text that is pending.
YieldsOvertaking(piece) ==
  IF ~batcher.first \/ ~Merges(piece) THEN <<piece>>
  ELSE IF Len(batcher.pending) + 1 >= MaxBatch THEN Append(batcher.pending, piece)
  ELSE <<>>

Yields(piece) ==
  IF ~batcher.first THEN <<piece>>
  ELSE IF ~Merges(piece) THEN batcher.pending
  ELSE IF Len(batcher.pending) + 1 >= MaxBatch THEN Append(batcher.pending, piece)
  ELSE <<>>
Keeps(piece) ==
  IF ~batcher.first THEN <<>>
  ELSE IF ~Merges(piece) THEN <<piece>>
  ELSE IF Len(batcher.pending) + 1 >= MaxBatch THEN <<>>
  ELSE Append(batcher.pending, piece)

TakeText ==
  /\ Receive("text")
  /\ Fits(Yields(Event.piece))
  /\ Publish(Yields(Event.piece))
  /\ batcher' = [pending |-> Keeps(Event.piece), first |-> TRUE]
  /\ UNCHANGED phase

\* The window elapses.
FlushPending ==
  /\ phase = "stream"
  /\ batcher.pending # <<>>
  /\ Fits(batcher.pending)
  /\ Publish(batcher.pending)
  /\ batcher' = [batcher EXCEPT !.pending = <<>>]
  /\ UNCHANGED <<provider, sent, channel, tools, corrected, child, steers, phase, batches>>

TakeCalls ==
  /\ Receive("tool_calls")
  /\ batcher.pending = <<>>
  /\ round' = [round EXCEPT !.calls = Event.calls]
  /\ UNCHANGED <<batcher, draft, phase>>

\* The buffer of a withheld answer is limited.
TooLarge ==
  /\ phase = "stream"
  /\ \/ batcher.pending # <<>> /\ ~Fits(batcher.pending)
     \/ /\ channel # <<>>
        /\ Event.event = "text"
        /\ ~Fits(Yields(Event.piece))
  /\ Fail
  /\ UNCHANGED <<round, draft>>

\* Mutant: the text that is pending when the stream ends is forgotten.
TakeDoneForgetful ==
  /\ Receive("done")
  /\ phase' = "decide"
  /\ batcher' = FreshBatcher
  /\ UNCHANGED <<round, draft>>

\* The end of the stream, or an error, comes after the text that was pending.
TakeDone ==
  /\ Receive("done")
  /\ batcher.pending = <<>>
  /\ phase' = "decide"
  /\ UNCHANGED <<batcher, round, draft>>

TakeError ==
  /\ phase = "stream"
  /\ channel # <<>>
  /\ Event.event = "error"
  /\ batcher.pending = <<>>
  /\ IF Event.error = "overflow" /\ ~round.raw /\ ~round.recovered
     THEN /\ phase' = "overflow"
          /\ StopStream
          /\ UNCHANGED <<sent, tools, corrected, child, steers, batches>>
     ELSE Fail
  /\ UNCHANGED <<round, draft>>

Batcher ==
  \/ TakeRaw \/ TakeText \/ FlushPending \/ TakeCalls \/ TooLarge \/ TakeDone \/ TakeError
-----------------------------------------------------------------------------
(* The loop of _execute_claimed. *)

Collected == [c \in Child |-> IF child[c] = "terminal" THEN "collected" ELSE child[c]]

\* A compaction may take the correction out of the history.
Compacted == corrected' \in {corrected, FALSE}

\* Mutant: only children that still run make an answer wait.
StartGuardingRunning ==
  /\ phase = "boundary"
  /\ round' = FreshRound(\E c \in Child : child[c] = "running")
  /\ tools' = [tools EXCEPT !.offered = Resident \cup tools.loaded, !.ran = {}]
  /\ steers' = [steers EXCEPT !.waiting = FALSE]
  /\ draft' = <<>>
  /\ sent' = <<>>
  /\ phase' = "send"
  /\ Compacted
  /\ UNCHANGED <<provider, channel, batcher, child, batches>>

\* A round begins: steers are taken in, the tools to offer are fixed, the context is fitted
\* and the guard is decided.
Start ==
  /\ phase = "boundary"
  /\ round' = FreshRound(Blocked # {})
  /\ tools' = [tools EXCEPT !.offered = Resident \cup tools.loaded, !.ran = {}]
  /\ steers' = [steers EXCEPT !.waiting = FALSE]
  /\ draft' = <<>>
  /\ sent' = <<>>
  /\ phase' = "send"
  /\ Compacted
  /\ UNCHANGED <<provider, channel, batcher, child, batches>>

\* The context does not fit and cannot be compacted.
CannotFit ==
  /\ \/ phase \in {"boundary", "overflow"}
     \/ phase = "send" /\ ~round.recovered
  /\ Fail
  /\ UNCHANGED <<round, draft>>

\* A request estimated to be too large, or refused by the provider as too large, is
\* compacted, once in a round.
Recover ==
  /\ phase = "overflow" \/ phase = "send"
  /\ ~round.recovered
  /\ round' = [round EXCEPT !.recovered = TRUE]
  /\ phase' = "send"
  /\ Compacted
  /\ UNCHANGED <<stream, draft, tools, child, steers, batches>>

Send ==
  /\ phase = "send"
  /\ provider' = [Off EXCEPT !.on = TRUE]
  /\ sent' = <<>>
  /\ channel' = <<>>
  /\ batcher' = FreshBatcher
  /\ round' = [round EXCEPT !.raw = FALSE]
  /\ phase' = "stream"
  /\ UNCHANGED <<draft, tools, corrected, child, steers, batches>>

-----------------------------------------------------------------------------
(* The model called tools. *)

Invalid(calls) == Unknown \in calls
Mixed(calls) == calls \cap Exclusive # {} /\ Cardinality(calls) > 1

\* _valid_buffered_tools, _flush_deferred.
Flushed(calls) ==
  IF Invalid(calls) \/ Mixed(calls) THEN draft ELSE draft \o round.buffered

ToolRound ==
  /\ phase = "decide"
  /\ round.calls # {}
  /\ draft' = Flushed(round.calls)
  /\ batches' = batches + 1
  /\ UNCHANGED <<stream, round, steers>>

\* The first batch that mixes an exclusive tool with others is answered with a correction.
Correct ==
  /\ ToolRound
  /\ Mixed(round.calls)
  /\ ~Invalid(round.calls)
  /\ ~corrected
  /\ corrected' = TRUE
  /\ phase' = "boundary"
  /\ UNCHANGED <<tools, child>>

RejectBatch ==
  /\ ToolRound
  /\ Invalid(round.calls) \/ (Mixed(round.calls) /\ corrected)
  /\ phase' = "failed"
  /\ UNCHANGED <<tools, corrected, child>>

\* The tools a batch runs; the others answer ToolNotLoaded.
Allowed(calls) == calls \cap tools.offered

\* An exclusive tool alone: the runtime's own handler, which ends the turn of the model
\* (ask_user, an approval) or answers at once (here spawn and collect).
CallRuntime ==
  /\ ToolRound
  /\ round.calls \subseteq Exclusive
  /\ ~Mixed(round.calls)
  /\ tools' = [tools EXCEPT !.ran = Allowed(round.calls)]
  /\ child' = CASE tools'.ran = {"spawn_subagents"} ->
                     [c \in Child |-> IF child[c] = "none" THEN "running" ELSE child[c]]
                [] tools'.ran = {"collect_subagent_results"} -> Collected
                [] OTHER -> child
  /\ phase' = IF tools'.ran \in {{}, {"spawn_subagents"}, {"collect_subagent_results"}}
              THEN "boundary" ELSE "waiting"
  /\ UNCHANGED corrected

\* Ordinary tools run together; search_tools and read_skill load what they found.
CallOrdinary ==
  /\ ToolRound
  /\ round.calls \cap Exclusive = {}
  /\ ~Invalid(round.calls)
  /\ \E found \in SUBSET Loadable :
       /\ found # {} => "search_tools" \in round.calls
       /\ tools' = [tools EXCEPT !.loaded = @ \cup found,
                                 !.ran = Allowed(round.calls)]
  /\ phase' = "boundary"
  /\ UNCHANGED <<corrected, child>>

-----------------------------------------------------------------------------
(* The model answered. *)

\* The withheld answer is dropped and the runtime itself collects what is ready, or waits.
Withhold ==
  /\ phase = "decide"
  /\ round.calls = {}
  /\ round.deferred
  /\ \/ /\ \E c \in Blocked : child[c] = "terminal"
        /\ child' = Collected
        /\ phase' = "boundary"
     \/ /\ \A c \in Blocked : child[c] = "running"
        /\ phase' = IF Blocked = {} THEN "boundary" ELSE "waiting"
        /\ UNCHANGED child
  /\ UNCHANGED <<stream, round, draft, tools, corrected, steers, batches>>

\* complete_run: a steer that arrived meanwhile takes the answer into the history and begins
\* another round; a required child that is not collected refuses (assert_finalizable).
Complete ==
  /\ phase = "decide"
  /\ round.calls = {}
  /\ ~round.deferred
  /\ phase' = IF steers.waiting THEN "boundary"
              ELSE IF Blocked # {} THEN "failed" ELSE "completed"
  /\ steers' = [steers EXCEPT !.waiting = FALSE]
  /\ UNCHANGED <<stream, round, draft, tools, corrected, child, batches>>

Worker ==
  \/ Start \/ CannotFit \/ Recover \/ Send
  \/ Correct \/ RejectBatch \/ CallRuntime \/ CallOrdinary
  \/ Withhold \/ Complete

Next ==
  \/ \E c \in Child : ChildEnds(c)
  \/ Steer
  \/ Provider \/ Batcher \/ Worker

Spec == Init /\ [][Next]_vars

\* A request ends by its timeout at the latest; the tasks of the process are scheduled.
FairSpec == Spec /\ WF_vars(Provider) /\ WF_vars(Batcher) /\ WF_vars(Worker)

-----------------------------------------------------------------------------
\* The draft of a round is the beginning of one answer of the provider: no retry, fallback
\* or recovery shows a text twice or mixes two answers, and batching keeps its order.
DraftIsOneAnswer == IsPrefix(draft, sent)

\* What the loop decides on is the whole answer, shown to the user unless it is withheld.
NothingLost ==
  phase = "decide" =>
    /\ round.answer = sent
    /\ round.deferred => draft = <<>> /\ round.buffered = sent
    /\ ~round.deferred => draft = sent

\* An answer that may complete the run was asked for after every required child's result had
\* been given to the model, so complete_run never has to refuse it; one that was withheld
\* completes nothing, even if the children ended while it was written.
CompletesInformed ==
  /\ (phase = "decide" /\ round.calls = {} /\ ~round.deferred) => Blocked = {}
  /\ phase = "completed" => Blocked = {} /\ ~round.deferred

\* The loop ends: retries, fallback and recoveries are bounded, and no stream, batcher or
\* guard waits for ever.
LoopEnds == <>(phase \in Ended)
=============================================================================
