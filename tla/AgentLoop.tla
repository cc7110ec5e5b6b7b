----------------------------- MODULE AgentLoop -----------------------------
(***************************************************************************)
(* The agent loop (src/agentloop/run.go, steer.go, stop.go, budget.go,     *)
(* conclude.go): RunSteerable sends the history to the model, runs the     *)
(* tool calls of the answer (module ToolBatch), keeps the history inside   *)
(* the window (module Compaction) and stops for one of its reasons.        *)
(*                                                                         *)
(* Three parties act: the loop, the caller who cancels ctx, and another    *)
(* goroutine that calls Steer.Trigger.  A step of the loop ends where one  *)
(* of the others can be noticed.  The Completer, the Summarizer and every  *)
(* hook may answer anything.                                               *)
(***************************************************************************)
EXTENDS ToolBatch, Compaction

CONSTANTS
  Loops,         \* the loops that are run, each with its surroundings
  Factors,       \* calibration factors, in percent
  MaxIterations  \* Bounds.MaxIterations

\* What a Completer may answer.
Answers == [calls : Seq(Call), tag : AnswerTags, usage : Nat]

\* What New binds.  window: maxTokens 0 is a nil Window; continues:
\* ContinueOnStop is set; margin, deadline: Conclude; maxEvents: the context
\* budget; a bound of 0 is no bound.  Beside the options, what surrounds the
\* loop.  starts: histories callers pass; offers: per iteration, the
\* responses the model may give; and the bounds on what may happen: triggers
\* (calls of Trigger in one run), injected (messages the injector hands
\* over) and runs (runs of the loop).  A caller passes a history that can be
\* read, its system message first; empty turns may be among it.
ASSUME LoopAssumption ==
  /\ MaxIterations \in Nat \ {0}
  /\ \A o \in Loops :
       /\ {o.triggers, o.injected, o.runs} \subseteq Nat
       /\ \A h \in o.starts : h \in Seq(Messages) /\ Readable(h)
       /\ Len(o.offers) = MaxIterations
       /\ \A i \in 1..MaxIterations : o.offers[i] \subseteq Answers
       /\ o.batch \in BatchOptions
       /\ o.window.maxTokens # 0 => ValidWindow(o.window)
       /\ o.continues \in BOOLEAN /\ o.deadline \in BOOLEAN
       /\ {o.margin, o.maxCalls, o.maxTokens, o.maxFailures, o.maxEvents}
            \subseteq Nat

VARIABLES
  opts,    \* the loop that is run
  runs,    \* runs begun
  pc,      \* where the run is
  st,      \* the state of the run: runState and the locals of an iteration
  result,  \* what the last run returned
  held,    \* reservations of WorkBudget neither refunded nor consumed
  ctxDone, \* the caller canceled ctx
  steer    \* the Steer

loopVars == <<opts, runs, pc, st, result, held, ctxDone, steer, batchVars>>

NoResponse == [calls |-> <<>>, tag |-> "none", usage |-> 0]

NewState(h) ==
  [history |-> h, iterations |-> 0, tokens |-> 0, failures |-> 0,
   noticeSent |-> FALSE,
   nudged |-> FALSE,      \* noticeInRequest
   request |-> <<>>,      \* what was sent last
   resp |-> NoResponse,   \* what came back
   injected |-> 0]

NewSteer == [triggered |-> FALSE, gen |-> 0, acked |-> 0,
             armed |-> FALSE,     \* cancel is bound
             canceled |-> FALSE]  \* the call's own ctx was canceled

-----------------------------------------------------------------------------
(* Control.                                                                *)

Goes(label, s) ==
  /\ pc' = label /\ st' = s
  /\ UNCHANGED <<opts, runs, result, ctxDone>>

Ends(stop, err, h, s) ==
  /\ pc' = "stopped" /\ st' = s
  /\ result' = [stop |-> stop, err |-> err, history |-> h]
  /\ UNCHANGED <<opts, runs, ctxDone>>

StopsWith(stop, s) == Ends(stop, "nil", s.history, s)

\* hardFail: before the first iteration no history travels with the error.
HardFail(err, s) ==
  Ends("", err, IF s.iterations = 0 THEN <<>> ELSE s.history, s)

\* An error of the recovery path always carries the history.
RecoveryFail(s) == Ends("", "recovery", s.history, s)

Continued(s) == [s EXCEPT !.history = Append(@, User)]

-----------------------------------------------------------------------------
(* The top of the loop and the plan of an iteration.                       *)

\* RunSteerable: steer.reset, then the locals of run.
RunStarts ==
  /\ pc = "stopped" /\ runs < opts.runs
  /\ runs' = runs + 1
  /\ \E h \in opts.starts : st' = NewState(DropEmptyAssistantTurns(h))
  /\ steer' = NewSteer
  /\ ctxDone' = FALSE /\ pc' = "top"
  /\ UNCHANGED <<opts, result, held, batchVars>>

\* drainInjected: the injector has nothing, or one message.
Drained ==
  {st} \cup {[Continued(st) EXCEPT !.injected = @ + 1] :
               n \in {n \in {1} : st.injected < opts.injected}}

\* The ctx check, the injector, MaxIterations and the Surface hook.
Top ==
  /\ pc = "top"
  /\ \/ ctxDone /\ HardFail("ctx", st)
     \/ /\ ~ctxDone
        /\ \E s \in Drained :
             \/ s.iterations >= MaxIterations /\ StopsWith("MaxIterations", s)
             \/ /\ s.iterations \in 1..(MaxIterations - 1)
                /\ HardFail("surface", s)
             \/ s.iterations < MaxIterations /\ Goes("plan", s)
  /\ UNCHANGED <<held, steer, batchVars>>

\* planHistory: what it may come to.
PlanHistory(h) ==
  UNION {IF \/ opts.window.maxTokens = 0
            \/ EstimateTokens(h, factor) < CompactTrigger(opts.window)
         THEN {NotCompacted(h, FALSE)}
         ELSE CompactHistory(h, opts.window, factor, FALSE) :
           factor \in Factors}

\* late: time.Until(deadlineAt) <= 0.
ShouldConclude(iters, late) ==
  \/ opts.margin > 0 /\ MaxIterations - (iters + 1) < opts.margin
  \/ opts.deadline /\ late

NoticeInRequest(sent, h) == sent /\ Contains(h, ConcludeNotice)

Nudged(s, late) ==
  LET fires == ~s.noticeSent /\ ShouldConclude(s.iterations, late)
      h == IF fires THEN Append(s.history, ConcludeNotice) ELSE s.history
      sent == s.noticeSent \/ fires
  IN [s EXCEPT !.history = h, !.noticeSent = sent,
               !.nudged = NoticeInRequest(sent, h)]

Fits(h) == opts.maxEvents = 0 \/ Len(h) <= opts.maxEvents

\* runIteration up to the call: shape repair, the window, the context
\* budget and the conclude notice.
Plan ==
  /\ pc = "plan"
  /\ LET h == DropEmptyAssistantTurns(st.history)
     IN \* The estimator fails.
        \/ /\ opts.window.maxTokens # 0
           /\ HardFail("plan", [st EXCEPT !.history = h])
        \/ \E planned \in PlanHistory(h), late \in BOOLEAN :
             LET s == [st EXCEPT !.history = planned.kept]
             IN \/ planned.err /\ HardFail("plan", s)
                \/ /\ ~planned.err /\ ~Fits(s.history)
                   /\ HardFail("overBudget", s)
                \/ /\ ~planned.err /\ Fits(s.history)
                   /\ Goes("reserve", Nudged(s, late))
  /\ UNCHANGED <<held, steer, batchVars>>

-----------------------------------------------------------------------------
(* The call of the model.                                                  *)

\* The attempt failed.  Whatever failed, an error that wraps
\* context.Canceled is looked at once more before it ends the run.
AttemptFails ==
  \/ Goes("canceled", st)
  \/ HardFail("chat", st)

ReserveFails ==
  /\ pc = "reserve"
  /\ AttemptFails
  /\ UNCHANGED <<held, steer, batchVars>>

\* Mutant of ObserveFails: the reservation is kept.
ObserveFailsHolding ==
  /\ pc = "reserve"
  /\ held' = held + 1
  /\ AttemptFails
  /\ UNCHANGED <<steer, batchVars>>

\* Reserve, the observer's error, Refund.
ObserveFails ==
  /\ pc = "reserve"
  /\ held' = (held + 1) - 1
  /\ AttemptFails
  /\ UNCHANGED <<steer, batchVars>>

\* arm: a Steer already triggered cancels the call before it begins.
Arms == steer' = [steer EXCEPT !.armed = TRUE, !.canceled = steer.triggered]

\* Reserve, ObserveRequest, arm.
ChatStarts ==
  /\ pc = "reserve"
  /\ held' = held + 1
  /\ Arms
  /\ Goes("chat", [st EXCEPT !.request = st.history])
  /\ UNCHANGED batchVars

Disarms == steer' = [steer EXCEPT !.armed = FALSE, !.canceled = FALSE]

Responses == opts.offers[st.iterations + 1]

\* settleWork: the reservation is settled with the Usage, or consumed.
ChatAnswers ==
  /\ pc = "chat"
  /\ held' = held - 1 /\ Disarms
  /\ \E r \in Responses : Goes("after", [st EXCEPT !.resp = r])
  /\ UNCHANGED batchVars

ChatFails ==
  /\ pc = "chat"
  /\ held' = held - 1 /\ Disarms
  /\ AttemptFails
  /\ UNCHANGED batchVars

ChatTooLong ==
  /\ pc = "chat"
  /\ held' = held - 1 /\ Disarms
  /\ \/ opts.window.maxTokens = 0 /\ HardFail("tooLong", st)
     \/ opts.window.maxTokens # 0 /\ Goes("recover", st)
  /\ UNCHANGED batchVars

\* recoverPromptTooLong up to the retry.  Its call is not armed.
Recover ==
  /\ pc = "recover"
  /\ \* Nothing is gained, the estimator or Reserve fails, or the observer
     \* does and Refund follows.
     \/ RecoveryFail(st) /\ UNCHANGED held
     \/ \E factor \in Factors :
          \E res \in CompactHistory(st.request, RecoveryWindow(opts.window),
                                   factor, TRUE) :
            /\ res.compacted
            /\ held' = held + 1
            /\ Goes("retry", [st EXCEPT !.request = res.kept])
  /\ UNCHANGED <<steer, batchVars>>

RetryAnswers ==
  /\ pc = "retry"
  /\ held' = held - 1
  /\ \E r \in Responses :
       Goes("after", [st EXCEPT !.history = st.request, !.resp = r])
  /\ UNCHANGED <<steer, batchVars>>

RetryFails ==
  /\ pc = "retry"
  /\ held' = held - 1
  /\ RecoveryFail(st)
  /\ UNCHANGED <<steer, batchVars>>

-----------------------------------------------------------------------------
(* A steered stop.                                                         *)

\* wasTriggered: the generation that was seen is kept for the ack.
WasTriggered == steer.triggered /\ steer' = [steer EXCEPT !.acked = steer.gen]

\* isSteerStop.
Canceled ==
  /\ pc = "canceled"
  /\ \/ /\ ctxDone \/ ~steer.triggered
        /\ HardFail("chat", st)
        /\ UNCHANGED steer
     \/ /\ ~ctxDone /\ WasTriggered
        /\ Goes("steered", st)
  /\ UNCHANGED <<held, batchVars>>

\* Mutant of AckTriggered: a newer Trigger is cleared as well.
AckAnyTrigger == [steer EXCEPT !.triggered = FALSE]

AckTriggered ==
  [steer EXCEPT !.triggered = steer.triggered /\ steer.gen # steer.acked]

\* gracefulSteeredStop: ContinueOnStop is nil or has nothing, panics, or
\* hands over a message.
Steered ==
  /\ pc = "steered"
  /\ \/ StopsWith("Steered", st) /\ UNCHANGED steer
     \/ opts.continues /\ HardFail("hook", st) /\ UNCHANGED steer
     \/ /\ opts.continues
        /\ steer' = AckTriggered
        /\ Goes("top", Continued(st))
  /\ UNCHANGED <<held, batchVars>>

-----------------------------------------------------------------------------
(* After the answer.                                                       *)

CallIds(s) == {<<s.iterations, i>> : i \in DOMAIN s.resp.calls}

\* afterChat: record, audit, check the billed tokens.
AfterChat ==
  /\ pc = "after"
  /\ LET n == [st EXCEPT !.iterations = @ + 1, !.tokens = @ + st.resp.usage]
         s == [n EXCEPT !.history =
                 Append(@, Assistant(st.resp.tag, CallIds(n)))]
         over == opts.maxTokens > 0 /\ s.tokens > opts.maxTokens
     IN \/ HardFail("audit", s)
        \/ over /\ HardFail("tokens", s)
        \/ ~over /\ Goes("stage", s)
  /\ UNCHANGED <<held, steer, batchVars>>

StopReason ==
  CASE st.resp.tag # "text" -> "EmptyResponse"
    [] st.resp.tag = "text" /\ st.nudged -> "Concluded"
    [] st.resp.tag = "text" /\ ~st.nudged -> "NoToolCalls"

\* The answer makes no call: gracefulStop.
NoToolCalls ==
  /\ pc = "stage" /\ st.resp.calls = <<>>
  /\ LET s == [st EXCEPT !.failures = 0]
     IN \/ StopsWith(StopReason, s)
        \/ opts.continues /\ HardFail("hook", s)
        \/ opts.continues /\ Goes("top", Continued(s))
  /\ UNCHANGED <<held, steer, batchVars>>

TooManyCalls == opts.maxCalls > 0 /\ Len(st.resp.calls) > opts.maxCalls

\* MaxCallsPerTurn, ToolBudget or a canceled ctx keeps the calls from running.
CallsRefused ==
  /\ pc = "stage" /\ st.resp.calls # <<>>
  /\ \/ TooManyCalls /\ HardFail("calls", st)
     \/ ~TooManyCalls /\ HardFail("toolBudget", st)
     \/ ~TooManyCalls /\ ctxDone /\ HardFail("ctx", st)
  /\ UNCHANGED <<held, steer, batchVars>>

CallsBegin ==
  /\ pc = "stage" /\ st.resp.calls # <<>>
  /\ ~TooManyCalls /\ ~ctxDone
  /\ BatchBegins(st.resp.calls)
  /\ Goes("tools", st)
  /\ UNCHANGED <<held, steer>>

\* The zero value of a message, which has no role.
ZeroMessage == Message("", "zero")

\* The message of call i.  A call that was dropped unrun before the stopping
\* one has the zero outcome, whose message is appended all the same.
MessageOf(i) ==
  IF i \in Dispatched /\ outcome[i] = "zero" THEN ZeroMessage
  ELSE Reply(<<st.iterations, i>>)

\* The history with the first n recorded calls.
WithReplies(n) ==
  [st EXCEPT !.history = @ \o [k \in 1..n |-> MessageOf(Nth(Recorded, k))]]

\* collectCalls and the rest of runToolStage.  The audit sink may fail at
\* any record, whose message is then the last.
CallsEnd ==
  /\ pc = "tools" /\ AllJoined
  /\ LET s == WithReplies(Cardinality(Recorded))
         failed == [s EXCEPT !.failures = IF AllFailed THEN @ + 1 ELSE 0]
         repeated == opts.maxFailures > 0 /\ failed.failures >= opts.maxFailures
     IN \/ \E n \in 1..Cardinality(Recorded) :
             HardFail("audit", WithReplies(n))
        \/ /\ Stopper # 0 /\ outcome[Stopper] = "err"
           /\ HardFail("tool", s)
        \/ /\ Stopper # 0 /\ outcome[Stopper] = "veto"
           /\ StopsWith("HookVeto", s)
        \/ /\ Stopper = 0 /\ repeated
           /\ StopsWith("RepeatedToolFailures", failed)
        \/ /\ Stopper = 0 /\ ~repeated
           /\ Goes("top", failed)
  /\ BatchClears
  /\ UNCHANGED <<held, steer>>

-----------------------------------------------------------------------------
(* The others.                                                             *)

Pool(w) ==
  /\ pc = "tools" /\ WorkerStep(w)
  /\ UNCHANGED <<opts, runs, pc, st, result, held, ctxDone, steer>>

Tool(i) ==
  /\ pc = "tools" /\ i \in Positions /\ ToolReturns(i)
  /\ UNCHANGED <<opts, runs, pc, st, result, held, ctxDone, steer>>

Cancel ==
  /\ pc # "stopped" /\ ~ctxDone
  /\ ctxDone' = TRUE
  /\ UNCHANGED <<opts, runs, pc, st, result, held, steer, batchVars>>

Trigger ==
  /\ steer.gen < opts.triggers
  /\ steer' = [steer EXCEPT !.triggered = TRUE, !.gen = @ + 1,
                            !.canceled = @ \/ steer.armed]
  /\ UNCHANGED <<opts, runs, pc, st, result, held, ctxDone, batchVars>>

-----------------------------------------------------------------------------

Init ==
  /\ opts \in Loops /\ batchOpts = opts.batch
  /\ runs = 0 /\ pc = "stopped" /\ st = NewState(<<>>)
  /\ result = [stop |-> "", err |-> "nil", history |-> <<>>]
  /\ held = 0 /\ ctxDone = FALSE /\ steer = NewSteer
  /\ NoBatch

\* The loop's own goroutine, once a run has begun.
Proceed ==
  \/ Top \/ Plan \/ ReserveFails \/ ObserveFails \/ ChatStarts
  \/ ChatAnswers \/ ChatFails \/ ChatTooLong
  \/ Recover \/ RetryAnswers \/ RetryFails
  \/ Canceled \/ Steered
  \/ AfterChat \/ NoToolCalls \/ CallsRefused \/ CallsBegin \/ CallsEnd

MaxBatch ==
  Max({0} \cup UNION {{Len(r.calls) : r \in o.offers[i]} :
                      o \in Loops, i \in 1..MaxIterations})

Next ==
  \/ RunStarts \/ Proceed \/ Cancel \/ Trigger
  \/ \E w \in Workers : Pool(w)
  \/ \E i \in 1..MaxBatch : Tool(i)

Spec == Init /\ [][Next]_loopVars

\* The goroutines of the loop, of its pool and of its tools are scheduled;
\* the Completer, the hooks and the tools return.
FairSpec ==
  /\ Spec
  /\ WF_loopVars(Proceed)
  /\ \A w \in Workers : WF_loopVars(Pool(w))
  /\ \A i \in 1..MaxBatch : WF_loopVars(Tool(i))

-----------------------------------------------------------------------------
(* Properties.                                                             *)

\* Whatever compaction dropped, an abort cut short, or a continued stop left
\* behind, the model is sent a history it can read: calls and replies in
\* pairs, no empty turn, the system message first, at most one summary, and
\* a message of the user behind it (injectAfterSystem relies on that one).
RequestsWellFormed ==
  LET h == st.request
  IN pc \in {"chat", "retry"} =>
       Readable(h) /\ \A i \in DOMAIN h : ~IsEmptyAssistantTurn(h[i])

\* WorkBudget: a reservation is open exactly while a call of the model is
\* under way, so no path of the loop keeps one or gives one back twice.
BudgetSettled == held = IF pc \in {"chat", "retry"} THEN 1 ELSE 0

\* No Trigger of a run is lost and none acts twice: until the loop has
\* observed it the flag stands, after that the flag is down, and the call in
\* flight while it stands has been canceled.
TriggersSeen ==
  /\ steer.gen # steer.acked => steer.triggered
  /\ steer.triggered /\ pc \notin {"steered", "stopped"} =>
       steer.gen # steer.acked
  /\ pc = "chat" /\ steer.triggered => steer.canceled

\* The history of the next state holds the replies of the calls that ran, in
\* the order of the calls.
TracesRan ==
  LET h == st'.history
      Ran == {i \in Positions : outcome[i] \in {"ok", "reported"}}
  IN \A i, j \in Ran : i <= j =>
       \E k, l \in DOMAIN h : /\ k <= l
                              /\ h[k] = Reply(<<st.iterations, i>>)
                              /\ h[l] = Reply(<<st.iterations, j>>)

\* When a batch ends, each call whose outcome the model may see has its
\* message in the history, in the order of the calls and whatever the order
\* they ran in, also one that ran behind the call that stopped the batch;
\* only a failing audit sink cuts the list short.
RanCallsTraced ==
  [][/\ pc = "tools" /\ pc' # "tools"
     /\ ~(pc' = "stopped" /\ result'.err = "audit")
     => TracesRan]_loopVars

\* A run ends, however its tools wait for each other, whichever of them
\* fails, and however often it is steered.
RunsEnd == pc # "stopped" ~> pc = "stopped"

=============================================================================
