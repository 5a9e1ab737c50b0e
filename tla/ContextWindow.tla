----------------------------- MODULE ContextWindow -----------------------------
(***************************************************************************)
(* The history a model is given and its compaction, AgentContextManager:   *)
(* fit selects units of the history that may be summarised, has the model  *)
(* summarise them (in fragments, when they are too large for one call),    *)
(* puts the summary in their place and repeats until the history is small  *)
(* enough; what must not be lost is carried along beside the summary.      *)
(*                                                                         *)
(* A unit is a message, or a batch of tool calls with its results          *)
(* (_message_units).  Abstractions: bytes and tokens, which the code       *)
(* bounds separately, are one size; the text of a unit is two fragments,   *)
(* and a summary is the set of fragments it was made from.                 *)
(***************************************************************************)
EXTENDS Integers, FiniteSets, FiniteSetsExt, Sequences, SequencesExt

CONSTANTS
  UnitSize,    \* size of a unit
  RefSize,     \* size of a reference kept beside a summary
  Budget,      \* input_budget and _trigger_bytes: what a history must stay below
  Goal,      \* six tenths of it: what compaction aims at
  Recent,      \* size of older units above which the two newest are kept
  CallLimit,   \* the largest input of one call that summarises
  MaxPasses,   \* _MAX_PASSES
  MaxSplit,    \* _MAX_SPLIT_DEPTH
  MaxUnits     \* bound: units ever added to the history

ASSUME WindowConstants ==
  /\ {UnitSize, Goal, CallLimit, MaxPasses} \subseteq Nat \ {0}
  /\ {RefSize, Budget, Recent, MaxSplit, MaxUnits} \subseteq Nat
  /\ Goal <= Budget

VARIABLES
  messages,  \* checkpoint.provider_messages, as units
  made,      \* history: made[i], the kind of unit i
  fit,       \* the locals of AgentContextManager.fit
  work,      \* the calls of _compact_prefix under way, innermost last
  parts      \* summaries they have returned that are not merged yet

windowVars == <<messages, made, fit, work, parts>>

-----------------------------------------------------------------------------
(* Units: a user message, one with a file, text of the model, a batch of tool calls whose    *)
(* results have receipts, one with a private reference as its result, one whose results are  *)
(* missing or, of write tools, have no receipt.                                              *)

UnitKind == {"user", "file", "text", "call", "private", "open"}

Unit(kind, i) ==
  [kind |-> kind, of |-> {i} \X {1, 2}, size |-> UnitSize,
   reads |-> IF kind = "private" THEN {i} ELSE {},
   receipts |-> IF kind = "call" THEN {i} ELSE {}]

SizeOf(ms) == FoldLeft(LAMBDA total, m : total + m.size, 0, ms)
Size(ms, indexes) == MapThenSumSet(LAMBDA i : ms[i].size, indexes)

Idle == [phase |-> "idle", candidate |-> <<>>, private |-> TRUE, passes |-> 0, previous |-> 0,
         selected |-> {}]

WindowInit ==
  /\ messages = <<>>
  /\ made = <<>>
  /\ fit = Idle
  /\ work = <<>>
  /\ parts = <<>>

\* The run goes on, or the user starts another one: a unit is added to the history.
Add(kind) ==
  /\ fit.phase = "idle"
  /\ Len(made) < MaxUnits
  /\ made' = Append(made, kind)
  /\ messages' = Append(messages, Unit(kind, Len(made) + 1))
  /\ UNCHANGED <<fit, work, parts>>

-----------------------------------------------------------------------------
(* What may be summarised, _select_units. *)

UserUnits(ms) == {i \in DOMAIN ms : ms[i].kind \in {"user", "file"}}

\* Mutant: the newest user message is like any other.
SelectableUser(ms, private) ==
  {i \in DOMAIN ms :
     \/ ms[i].kind \in {"text", "call", "summary", "user"}
     \/ ms[i].kind = "private" /\ private}

\* Private results only if the caller can read them again (prepare).
Selectable(ms, private) ==
  {i \in DOMAIN ms :
     \/ ms[i].kind \in {"text", "call", "summary"}
     \/ ms[i].kind = "user" /\ \E j \in UserUnits(ms) : j > i
     \/ ms[i].kind = "private" /\ private}

Older(indexes) == {i \in indexes : Cardinality({j \in indexes : j > i}) >= 2}

Selected(ms, private) ==
  LET all == Selectable(ms, private) IN
  IF Older(all) # {} /\ Size(ms, Older(all)) > Recent THEN Older(all) ELSE all

\* A history that is too large, or that a provider refused; results of children are
\* delivered without the means to read private results.
FitBegins(force, private) ==
  /\ fit.phase = "idle"
  /\ force \/ SizeOf(messages) >= Budget
  /\ messages # <<>>
  /\ fit' = [phase |-> "select", candidate |-> messages, private |-> private, passes |-> 0,
             previous |-> SizeOf(messages), selected |-> {}]
  /\ UNCHANGED <<messages, made, work, parts>>

Return(ms) ==
  /\ messages' = ms
  /\ fit' = Idle

\* The run fails; the history is as it was.
GiveUp ==
  /\ fit' = Idle
  /\ work' = <<>>
  /\ parts' = <<>>
  /\ UNCHANGED <<messages, made>>

\* The positions of some units of ms, in order.
Ascending(indexes, ms) ==
  {order \in SeqOf(indexes, Len(ms)) :
     /\ Range(order) = indexes
     /\ \A m, n \in DOMAIN order : m < n => order[m] < order[n]}

Frame(pieces, depth) == [task |-> "summarise", pieces |-> pieces, depth |-> depth]
Piece(unit) == [of |-> unit.of, size |-> unit.size]

Select ==
  LET selected == Selected(fit.candidate, fit.private)
  IN  /\ fit.phase = "select"
      /\ fit.passes < MaxPasses
      /\ selected # {}
      /\ fit' = [fit EXCEPT !.phase = "compact", !.selected = selected]
      /\ \E order \in Ascending(selected, fit.candidate) :
           work' = <<Frame([n \in DOMAIN order |-> Piece(fit.candidate[order[n]])], 0)>>
      /\ UNCHANGED <<messages, made, parts>>

NothingToSelect ==
  /\ fit.phase = "select"
  /\ fit.passes < MaxPasses
  /\ Selected(fit.candidate, fit.private) = {}
  /\ GiveUp

LastPass ==
  /\ fit.phase = "select"
  /\ fit.passes = MaxPasses
  /\ IF fit.previous < Budget
     THEN /\ Return(fit.candidate)
          /\ UNCHANGED <<made, work, parts>>
     ELSE GiveUp

-----------------------------------------------------------------------------
(* _compact_prefix. *)

Top == Last(work)
Calling == fit.phase = "compact" /\ work # <<>> /\ Top.task = "summarise"

\* The model returns a summary in the form that is asked for, short enough within 3 tries.
Summarise ==
  /\ Calling
  /\ SizeOf(Top.pieces) <= CallLimit
  /\ work' = Front(work)
  /\ parts' = Append(parts, UNION {Top.pieces[n].of : n \in DOMAIN Top.pieces})
  /\ UNCHANGED <<messages, made, fit>>

Halves(pieces) ==
  LET half == Len(pieces) \div 2
      fragment(of) == <<[of |-> of, size |-> 1]>>
  IN  IF half > 0
      THEN {<<SubSeq(pieces, 1, half), SubSeq(pieces, half + 1, Len(pieces))>>}
      ELSE {<<fragment(of), fragment(pieces[1].of \ of)>> :
              of \in {{CHOOSE f \in pieces[1].of : TRUE}} \ {pieces[1].of}}

\* Too large for one call: the units, or the text of the only one, are split in two.
Split ==
  /\ Calling
  /\ Top.depth < MaxSplit
  /\ \E halves \in Halves(Top.pieces) :
       work' = Front(work) \o <<[task |-> "merge", depth |-> Top.depth + 1],
                                Frame(halves[2], Top.depth + 1),
                                Frame(halves[1], Top.depth + 1)>>
  /\ UNCHANGED <<messages, made, fit, parts>>

\* Mutant: the summary of the first half stands for both.
MergeFirst ==
  /\ fit.phase = "compact"
  /\ work # <<>>
  /\ Top.task = "merge"
  /\ work' = Append(Front(work), Frame(<<[of |-> parts[Len(parts) - 1], size |-> 1]>>, Top.depth))
  /\ parts' = SubSeq(parts, 1, Len(parts) - 2)
  /\ UNCHANGED <<messages, made, fit>>

\* Mutant: merging does not count as a level.
MergeUncounted ==
  /\ fit.phase = "compact"
  /\ work # <<>>
  /\ Top.task = "merge"
  /\ work' = Append(Front(work),
       Frame([n \in 1..2 |-> [of |-> parts[Len(parts) - 2 + n], size |-> 1]], Top.depth - 1))
  /\ parts' = SubSeq(parts, 1, Len(parts) - 2)
  /\ UNCHANGED <<messages, made, fit>>

Merge ==
  /\ fit.phase = "compact"
  /\ work # <<>>
  /\ Top.task = "merge"
  /\ work' = Append(Front(work),
       Frame([n \in 1..2 |-> [of |-> parts[Len(parts) - 2 + n], size |-> 1]], Top.depth))
  /\ parts' = SubSeq(parts, 1, Len(parts) - 2)
  /\ UNCHANGED <<messages, made, fit>>

\* A wrong form, a provider error, a summary that does not shrink, or no way to split further.
CompactFails ==
  /\ Calling
  /\ GiveUp

-----------------------------------------------------------------------------
(* The summary takes the place of the first unit it stands for. *)

\* Mutant: what an earlier summary referred to is forgotten.
SummaryForgetful(of, units, text) ==
  LET reads == {f[1] : f \in UNION {u.of : u \in {v \in units : v.kind = "private"}}}
      receipts == {f[1] : f \in UNION {u.of : u \in {v \in units : v.kind = "call"}}}
  IN  [kind |-> "summary", of |-> of, reads |-> reads, receipts |-> receipts,
       size |-> text + RefSize * (Cardinality(reads) + Cardinality(receipts))]

Summary(of, units, text) ==
  LET reads == UNION {u.reads : u \in units}
      receipts == UNION {u.receipts : u \in units}
  IN  [kind |-> "summary", of |-> of, reads |-> reads, receipts |-> receipts,
       size |-> text + RefSize * (Cardinality(reads) + Cardinality(receipts))]

\* The summary goes where the first of its units was.
Replaced(ms, selected, summary) ==
  LET first == Min(selected)
      left == (DOMAIN ms \ selected) \cup {first}
  IN  {[n \in DOMAIN order |-> IF order[n] = first THEN summary ELSE ms[order[n]]] :
         order \in Ascending(left, ms)}

Replace ==
  /\ fit.phase = "compact"
  /\ work = <<>>
  /\ \E text \in {1, 2} :
     LET units == {fit.candidate[i] : i \in fit.selected}
         summary == Summary(parts[1], units, text)
     IN  \E next \in Replaced(fit.candidate, fit.selected, summary) :
       LET size == SizeOf(next)
       IN  \/ /\ size >= fit.previous
              /\ fit.passes > 0 /\ fit.previous < Budget
              /\ Return(fit.candidate)
           \/ /\ size >= fit.previous
              /\ fit.passes = 0 \/ fit.previous >= Budget
              /\ fit' = Idle
              /\ UNCHANGED messages
           \/ /\ size < fit.previous
              /\ size < Goal
              /\ Return(next)
           \/ /\ size < fit.previous
              /\ size >= Goal
              /\ fit' = [fit EXCEPT !.phase = "select", !.candidate = next, !.selected = {},
                                    !.passes = @ + 1, !.previous = size]
              /\ UNCHANGED messages
  /\ parts' = <<>>
  /\ UNCHANGED <<made, work>>

Compaction ==
  \/ Select \/ NothingToSelect \/ LastPass
  \/ Summarise \/ Split \/ Merge \/ CompactFails
  \/ Replace

WindowNext ==
  \/ \E kind \in UnitKind : Add(kind)
  \/ \E force, private \in BOOLEAN : FitBegins(force, private)
  \/ Compaction

WindowSpec == WindowInit /\ [][WindowNext]_windowVars

\* Every call of the model returns or times out.
FairWindowSpec == WindowSpec /\ WF_windowVars(Compaction)

-----------------------------------------------------------------------------
Verbatim == {i \in DOMAIN made : \E n \in DOMAIN messages : messages[n] = Unit(made[i], i)}

\* Whatever the history ever held is still there word for word, or the model that summarised
\* it was shown all of it, however often it was split, merged and summarised again.
NothingUnread ==
  \A i \in DOMAIN made \ Verbatim :
    \E n \in DOMAIN messages : messages[n].kind = "summary" /\ {i} \X {1, 2} \subseteq messages[n].of

\* What the run must be able to return to survives every compaction: the references of
\* private results, the receipts of tool calls, and word for word files, calls without
\* receipts or results, and what the user asked last.
ReferencesSurvive ==
  \A i \in DOMAIN made \ Verbatim :
    /\ made[i] \notin {"file", "open"}
    /\ made[i] = "private" => \E n \in DOMAIN messages : i \in messages[n].reads
    /\ made[i] = "call" => \E n \in DOMAIN messages : i \in messages[n].receipts
    /\ made[i] = "user" => \E j \in DOMAIN made : j > i /\ made[j] \in {"user", "file"}

\* Fitting ends, also when every call overflows.
FitEnds == fit.phase # "idle" ~> fit.phase = "idle"
=============================================================================
