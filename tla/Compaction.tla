----------------------------- MODULE Compaction ----------------------------
(***************************************************************************)
(* The retention policy of package plan (src/context/plan) and the way     *)
(* agentloop rebuilds a history with it (src/agentloop/compaction.go,      *)
(* shape.go).  A history is a sequence of messages; a message keeps its    *)
(* role, the calls an assistant turn makes, the call a tool message        *)
(* answers, and a tag for the content the loop tells apart.  Every message *)
(* weighs MessageTokens before the calibration factor.                     *)
(***************************************************************************)
EXTENDS Integers, SequencesExt

MessageTokens == 100

RecoveryTargetTokens == 16384

NoId == <<0, 0>>

Message(role, tag) == [role |-> role, tag |-> tag, calls |-> {}, id |-> NoId]

System == Message("system", "system")
User == Message("user", "text")
ConcludeNotice == Message("user", "conclude")
CompactionNotice == Message("user", "compacted")
SummaryMessage == Message("user", "summary")

Assistant(tag, calls) == [Message("assistant", tag) EXCEPT !.calls = calls]

Reply(id) == [Message("tool", "reply") EXCEPT !.id = id]

\* Blank content, no calls and no reasoning block: the tag "thinking" is
\* blank content with a reasoning block.
IsEmptyAssistantTurn(m) ==
  m.role = "assistant" /\ m.tag = "blank" /\ m.calls = {}

\* The messages of h at the indices in K, in their order: the n-th is the
\* one whose index has n indices of K up to it.
Pick(h, K) ==
  LET Nth(n) == CHOOSE i \in K : Cardinality({j \in K : j <= i}) = n
  IN [n \in 1..Cardinality(K) |-> h[Nth(n)]]

DropEmptyAssistantTurns(h) ==
  Pick(h, {i \in DOMAIN h : ~IsEmptyAssistantTurn(h[i])})

-----------------------------------------------------------------------------
(* The window.                                                             *)

Budget(w) == w.maxTokens - w.reserve

CompactTrigger(w) == (Budget(w) * w.triggerPercent) \div 100

CompactTarget(w) ==
  IF w.targetTokens > 0 THEN w.targetTokens
  ELSE (Budget(w) * w.targetPercent) \div 100

\* Window.Validate, for a window whose percents are set.
ValidWindow(w) ==
  /\ w.maxTokens > 0 /\ w.reserve \in 0..(w.maxTokens - 1)
  /\ w.targetTokens < Budget(w)
  /\ w.targetTokens = 0 => w.targetPercent < w.triggerPercent

RecoveryWindow(w) ==
  [w EXCEPT !.triggerPercent = 1,
            !.targetTokens = Max({1, Min({RecoveryTargetTokens,
                                          Budget(w) \div 4})})]

\* What the calibrated estimator says, its factor given in percent.
EstimateTokens(h, factor) == (MessageTokens * Len(h) * factor) \div 100

-----------------------------------------------------------------------------
(* plan.Compact.                                                           *)

\* Mutant of UnitStart: every message is a unit of its own.
UnitStartAlone(h, i) == i

\* buildUnits: the first message of i's unit.  An assistant turn with calls
\* takes the replies to them that follow it without a gap.
UnitStart(h, i) ==
  LET heads == {j \in 1..(i - 1) :
                  /\ h[j].role = "assistant"
                  /\ \A k \in (j + 1)..i :
                       h[k].role = "tool" /\ h[k].id \in h[j].calls}
  IN IF heads = {} THEN i ELSE CHOOSE j \in heads : TRUE

UnitStarts(h) == {i \in DOMAIN h : UnitStart(h, i) = i}

UnitOf(h, u) == {i \in DOMAIN h : UnitStart(h, i) = u}

IsComplete(h, u) ==
  /\ h[u].role = "assistant" /\ h[u].calls # {}
  /\ h[u].calls = {h[i].id : i \in UnitOf(h, u) \ {u}}

Latest(S) == IF S = {} THEN {} ELSE {Max(S)}

\* preserveSummaryName: the summary's name is always among PreserveNames.
Preserved(h) == {u \in UnitStarts(h) : h[u].tag = "summary"}

SelectMandatory(h) ==
  {i \in {1} : h[1].role = "system"}
    \cup Preserved(h)
    \cup Latest({u \in UnitStarts(h) : h[u].role = "user"})
    \cup Latest({u \in UnitStarts(h) : IsComplete(h, u)})

\* The messages of the units in S, in their order.
Collect(h, S) == Pick(h, {i \in DOMAIN h : UnitStart(h, i) \in S})

\* fillTail goes from the newest unit back to the first that breaks the tail
\* bound or the target.  Both only grow on the way, so a unit is taken when
\* the tail that ends with it breaks neither.
FillTail(h, mandatory, w, factor) ==
  LET From(u) == {v \in UnitStarts(h) \ mandatory : v >= u}
      TailFits(units) ==
        /\ Cardinality({i \in DOMAIN h : UnitStart(h, i) \in units})
             <= w.recentTail
        /\ EstimateTokens(Collect(h, mandatory \cup units), factor)
             <= CompactTarget(w)
  IN mandatory \cup {u \in UnitStarts(h) \ mandatory : TailFits(From(u))}

NotCompacted(h, err) ==
  [kept |-> h, dropped |-> <<>>, compacted |-> FALSE, err |-> err]

Compact(h, w, factor) ==
  CASE ~ValidWindow(w) \/ \A i \in DOMAIN h : h[i].role # "user" ->
         NotCompacted(h, TRUE)
    [] ValidWindow(w) /\ (\E i \in DOMAIN h : h[i].role = "user") ->
         LET mandatory == SelectMandatory(h)
             selected == FillTail(h, mandatory, w, factor)
         IN IF EstimateTokens(h, factor) < CompactTrigger(w)
            THEN NotCompacted(h, FALSE)
            ELSE IF EstimateTokens(Collect(h, mandatory), factor) > Budget(w)
                 THEN NotCompacted(h, TRUE)
                 ELSE [kept |-> Collect(h, selected),
                       dropped |-> Collect(h, UnitStarts(h) \ selected),
                       compacted |-> TRUE, err |-> FALSE]

-----------------------------------------------------------------------------
(* How the loop uses it.                                                   *)

\* injectAfterSystem; it reads the first message, so h must not be empty.
InjectAfterSystem(h, m) ==
  IF h[1].role = "system" THEN <<h[1], m>> \o Tail(h) ELSE <<m>> \o h

\* injectNotice: behind the summary, or where a summary would have gone.
InjectNotice(h, injected) ==
  LET at == Min({i \in DOMAIN h : h[i].tag = "summary"})
  IN IF injected THEN InsertAt(h, at + 1, CompactionNotice)
     ELSE InjectAfterSystem(h, CompactionNotice)

\* splitSummary: whether there was a summary, and the rest.
SplitSummary(h) ==
  [prior |-> Contains(h, SummaryMessage),
   rest |-> Pick(h, {i \in DOMAIN h : h[i].tag # "summary"})]

\* The history compactHistory builds from what Compact kept: the summary put
\* back, the notice of a recovery, and the budget check on what came out.
Rebuild(h, res, w, factor, notice, answer) ==
  LET prior == SplitSummary(res.kept).prior
      kept == SplitSummary(res.kept).rest
      asks == res.dropped # <<>>
      injected == \/ asks /\ answer = "summary"
                  \/ prior /\ (asks => answer = "skip")
      summarised == IF injected THEN InjectAfterSystem(kept, SummaryMessage)
                    ELSE kept
      rebuilt == IF notice THEN InjectNotice(summarised, injected)
                 ELSE summarised
      useless == \/ ~res.compacted
                 \/ asks /\ answer = "skip" /\ ~prior
  IN IF res.err \/ (asks /\ answer = "error") THEN NotCompacted(h, TRUE)
     ELSE IF notice /\ useless THEN NotCompacted(h, FALSE)
     ELSE IF EstimateTokens(rebuilt, factor) > Budget(w)
     THEN NotCompacted(h, TRUE)
     ELSE [res EXCEPT !.kept = rebuilt]

\* compactHistory: what it may come to.  The summarizer, asked once about
\* what was dropped, gives a summary, skips or fails.
CompactHistory(h, w, factor, notice) ==
  {Rebuild(h, res, w, factor, notice, answer) :
     res \in {Compact(h, w, factor)}, answer \in {"summary", "skip", "error"}}

-----------------------------------------------------------------------------
(* Histories a model can read.                                             *)

Roles == {"system", "user", "assistant", "tool"}

AnswerTags == {"text", "blank", "thinking"}

Tags == AnswerTags \cup {"system", "conclude", "compacted", "summary", "reply"}

Ids == Nat \X Nat

\* Only an assistant turn makes calls, only a tool message answers one.
Messages ==
  {m \in [role : Roles, tag : Tags, calls : SUBSET Ids, id : Ids] :
     /\ IsFiniteSet(m.calls) /\ NoId \notin m.calls
     /\ m.calls # {} => m.role = "assistant"
     /\ m.role # "tool" => m.id = NoId
     /\ m.tag = "summary" => m = SummaryMessage}

\* The calls of a turn are answered by the messages right behind it, once
\* each, and no reply stands anywhere else.
Paired(h) ==
  LET Behind(i) == (i + 1)..(i + Cardinality(h[i].calls))
  IN /\ \A i \in DOMAIN h :
          /\ Behind(i) \subseteq DOMAIN h
          /\ {h[k].id : k \in Behind(i)} = h[i].calls
     /\ \A k \in DOMAIN h : h[k].role = "tool" =>
          \E i \in 1..(k - 1) : k \in Behind(i)

\* Calls and replies in pairs, the system message first, at most one summary,
\* and a message of the user behind it.
Readable(h) ==
  /\ Paired(h)
  /\ \A i \in DOMAIN h : h[i].role = "system" <=> i = 1
  /\ Cardinality({i \in DOMAIN h : h[i].tag = "summary"}) <= 1
  /\ \E j \in DOMAIN h :
       /\ h[j].role = "user" /\ h[j].tag # "summary"
       /\ \A i \in DOMAIN h : h[i].tag = "summary" => i < j

=============================================================================
