-------------------------------- MODULE Flow --------------------------------
(***************************************************************************)
(* The workflow runner of package flow: Run and Resume (src/flow/runner.go,*)
(* resume.go) walk a step graph, skip, fire, retry, route and fan out its  *)
(* steps, catch failures that a fallback step declares, and hand the       *)
(* caller a checkpoint after each success.                                 *)
(*                                                                         *)
(* The walk is one goroutine; a panel of two or more members adds one      *)
(* goroutine per member.  The caller may cancel ctx at any time, and the   *)
(* process may die at any time: the next Resume starts from the last       *)
(* checkpoint the callback delivered.                                      *)
(*                                                                         *)
(* The guards and actions of package machine, the                          *)
(* Confirm gate, Route, Retryable, LoopPolicy.Guard and the child          *)
(* workflow are the caller's: each may answer anything.                    *)
(***************************************************************************)
EXTENDS FlowDefinition

CONSTANTS
  Definitions,  \* step graphs given to New
  Statuses,     \* machine statuses
  Initial,      \* the machine's initial status
  NoCheckpoint, \* no checkpoint has been delivered
  MaxRuns       \* bound: calls of Run and Resume

ASSUME FlowAssumption ==
  /\ Initial \in Statuses
  /\ MaxRuns \in Nat
  /\ \A d \in Definitions :
       /\ d.steps \in Seq(Step(Statuses))
       /\ d.panels \in Seq(SUBSET Nat)
       /\ d.rows \in [Statuses \X Statuses -> Nat]
       /\ NoCheckpoint \notin
            [status : Statuses,
             outcomes : [StepIds(d) -> {"none", "succeeded", "failed", "skipped"}]]

VARIABLES
  def,        \* the definition
  pc,         \* where the walk is
  outcomes,   \* the outcome of every step, "none" while it is unresolved
  pending,    \* per failed step, the handlers of its handledFailure entry
  cur,        \* the machine status
  local,      \* locals of the step under way
  ctxDone,    \* ctx is cancelled
  err,        \* what the call returned
  saved,      \* the last checkpoint delivered
  seed,       \* the outcomes the call started from
  runs        \* calls made so far

flowVars == <<def, pc, outcomes, pending, cur, local, ctxDone, err, saved,
              seed, runs>>

Labels == {"new", "loop", "fire", "sleep", "child", "confirm", "route",
           "wave", "stopped"}

Errors == {"none", "rejected", "nil", "paused", "stalled", "failed",
           "norow", "crashed"}

Ids == StepIds(def)

\* step: the step that runs; count: attempts or iterations made; failure:
\* the failed step its ctx carries; wave: what each panel member's
\* goroutine has answered.
Idle == [step |-> 0, count |-> 0, failure |-> 0, wave |-> <<>>]

NothingPending == [s \in Ids |-> {}]

Unresolved == {s \in Ids : outcomes[s] = "none"}

-----------------------------------------------------------------------------
(* Admission.                                                              *)

Admits(when, o) ==
  IF when = "OnSucceeded" THEN o = "succeeded" ELSE o \in {"succeeded", "skipped"}

AdmissionVerdict(s, oc) ==
  LET needs == Needs(def, s)
      step == def.steps[s]
  IN CASE \E n \in needs : oc[n] = "none" -> "wait"
       [] step.when = "OnFailed" /\ (\A n \in needs : oc[n] # "none") ->
            IF \E n \in needs : oc[n] = "failed" THEN "admit" ELSE "skip"
       [] step.when # "OnFailed" /\ (\A n \in needs : oc[n] # "none") ->
            IF \A n \in needs : Admits(step.when, oc[n]) THEN "admit"
            ELSE "skip"

\* One unadmitted member skips the whole panel.
PanelVerdict(p, oc) ==
  LET verdicts == {AdmissionVerdict(s, oc) : s \in p}
  IN CASE (\E s \in p : oc[s] # "none") \/ "wait" \in verdicts -> "wait"
       [] (\A s \in p : oc[s] = "none") /\ verdicts \subseteq {"admit"} ->
            "admit"
       [] OTHER -> "skip"

Verdict(s, oc) ==
  IF InPanel(def, s) THEN PanelVerdict(PanelFor(def, s), oc)
  ELSE AdmissionVerdict(s, oc)

\* nextReadyGroup: in declaration order, the steps that can be resolved.
Ready == {s \in Unresolved : Verdict(s, outcomes) # "wait"}

NextReady == CHOOSE s \in Ready : \A t \in Ready : s <= t

Group(s) == IF InPanel(def, s) THEN PanelFor(def, s) ELSE {s}

Mark(S, o) == [s \in Ids |-> IF s \in S THEN o ELSE outcomes[s]]

-----------------------------------------------------------------------------
(* Failures.                                                               *)

FailureHandlersFor(s, oc) ==
  {h \in Ids : /\ oc[h] = "none" /\ def.steps[h].when = "OnFailed"
               /\ s \in Needs(def, h)}

\* prunePendingHandler: a handler that ran ends every entry it was part of.
PrunePendingHandler(h) ==
  [s \in Ids |-> IF h \in pending[s] THEN {} ELSE pending[s]]

\* failureForStep: the first need with a pending entry.
FailureForStep(s) ==
  LET needs == def.steps[s].needs
      hits == {i \in DOMAIN needs : pending[needs[i]] # {}}
  IN IF hits = {} THEN 0
     ELSE needs[CHOOSE i \in hits : \A j \in hits : i <= j]

Stop(e) ==
  /\ pc' = "stopped"
  /\ err' = e
  /\ local' = Idle
  /\ pending' = NothingPending
  /\ UNCHANGED <<def, ctxDone, seed, runs>>

\* The walk goes on with its next group.
Continue ==
  /\ pc' = "loop"
  /\ local' = Idle
  /\ UNCHANGED <<def, ctxDone, err, seed, runs>>

\* The step under way goes on at label.
Goto(label, l) ==
  /\ pc' = label
  /\ local' = l
  /\ UNCHANGED <<def, outcomes, pending, ctxDone, err, saved, seed, runs>>

\* resolveCatchable, after step s failed and was marked: only a failure of
\* kind "fire" is caught, and only by an unresolved fallback.
ResolveCatchable(s, kind, entries) ==
  LET handlers == FailureHandlersFor(s, Mark({s}, "failed"))
  IN /\ outcomes' = Mark({s}, "failed")
     /\ IF kind = "fire" /\ handlers # {}
        THEN pending' = [entries EXCEPT ![s] = handlers] /\ Continue
        ELSE Stop(IF kind = "transition" THEN "norow" ELSE "failed")
     /\ UNCHANGED saved

\* The step under way fails.
StepFails(kind) ==
  ResolveCatchable(local.step, kind, PrunePendingHandler(local.step))

\* fireCheckpoint: Done, Skipped and Failed are the resolved outcomes.
FireCheckpoint(status, oc) == saved' = [status |-> status, outcomes |-> oc]

-----------------------------------------------------------------------------
(* The walk.                                                               *)

NewDefinition ==
  /\ pc = "new"
  /\ LET accepted == New(def) /\ ValidMachine(def, Initial)
     IN \/ accepted /\ pc' = "loop" /\ UNCHANGED err
        \/ ~accepted /\ pc' = "stopped" /\ err' = "rejected"
  /\ UNCHANGED <<def, outcomes, pending, cur, local, ctxDone, saved, seed,
                 runs>>

Finish ==
  /\ pc = "loop" /\ Unresolved = {}
  /\ Stop("nil")
  /\ UNCHANGED <<outcomes, cur, saved>>

Pause ==
  /\ pc = "loop" /\ Unresolved # {} /\ ctxDone
  /\ Stop("paused")
  /\ UNCHANGED <<outcomes, cur, saved>>

Scanning == pc = "loop" /\ Unresolved # {} /\ ~ctxDone

Stall ==
  /\ Scanning /\ Ready = {}
  /\ Stop("stalled")
  /\ UNCHANGED <<outcomes, cur, saved>>

\* A step, or a panel as one, that failed admission.
Skip ==
  /\ Scanning /\ Ready # {}
  /\ Verdict(NextReady, outcomes) = "skip"
  /\ outcomes' = Mark(Group(NextReady), "skipped")
  /\ Continue /\ UNCHANGED <<pending, cur, saved>>

\* runSingleton begins, for a step on its own or in a panel of one.
Begin ==
  LET s == NextReady
  IN /\ Scanning /\ Ready # {}
     /\ Verdict(s, outcomes) = "admit" /\ Cardinality(Group(s)) = 1
     /\ Goto(IF Sub(def.steps[s]) THEN "child" ELSE "fire",
             [Idle EXCEPT !.step = s, !.failure = FailureForStep(s)])
     /\ UNCHANGED cur

-----------------------------------------------------------------------------
(* A plain step: one row is picked, then fired up to MaxAttempts times.    *)

Current == def.steps[local.step]

\* No row, or more than one, leads to the step's status.  The pick comes
\* before the first attempt.
NoTransition ==
  /\ pc = "fire" /\ ~CanPick(def, cur, Current.to)
  /\ StepFails("transition") /\ UNCHANGED cur

Fires == pc = "fire" /\ CanPick(def, cur, Current.to)

FireSucceeds ==
  /\ Fires
  /\ cur' = Current.to
  /\ Goto("confirm", local)

\* The last attempt, or an error Retryable turns down.
FireFails ==
  /\ Fires
  /\ StepFails("fire") /\ UNCHANGED cur

\* Mutant of FireRetries: attempts are not counted.
FireRetriesForever ==
  /\ Fires /\ local.count + 1 < Current.retry
  /\ Goto("sleep", local)
  /\ UNCHANGED cur

FireRetries ==
  /\ Fires /\ local.count + 1 < Current.retry
  /\ Goto("sleep", [local EXCEPT !.count = @ + 1])
  /\ UNCHANGED cur

\* ctx is looked at when Sleep is over; its error has no kind.
SleepEnds ==
  /\ pc = "sleep"
  /\ IF ctxDone THEN StepFails("ctx") ELSE Goto("fire", local)
  /\ UNCHANGED cur

-----------------------------------------------------------------------------
(* A chained step: the child runs, once or in a loop, and its final status *)
(* is the one the step moves to.                                           *)

LoopCancelled ==
  /\ pc = "child" /\ Current.loop # 0 /\ ctxDone
  /\ StepFails("fire") /\ UNCHANGED cur

RunsChild == pc = "child" /\ ~(Current.loop # 0 /\ ctxDone)

\* The child's Run starts on the initial status; as its steps may route, it
\* may end on the status of any step no other one needs.
ChildFinals(step) ==
  LET needed == UNION {{step.child[i].needs[j] : j \in DOMAIN step.child[i].needs} :
                         i \in DOMAIN step.child}
  IN {step.child[i].to : i \in DOMAIN step.child \ needed}

\* fireFromChild: a child that ends on the current status needs no row.
Reenters(final) == final = cur \/ CanPick(def, cur, final)

\* The child returned an error: its tag is the child's and is stripped.
ChildFails ==
  /\ RunsChild
  /\ StepFails("child") /\ UNCHANGED cur

\* fireFromChild with no row to the child's status, or a failing one.
ChildMoveFails ==
  /\ RunsChild
  /\ \E final \in ChildFinals(Current) \ {cur} :
       StepFails(IF Reenters(final) THEN "fire" ELSE "transition")
  /\ UNCHANGED cur

\* The move is made and the loop, if any, ends: at Max or by its Guard.
ChildDone ==
  /\ RunsChild
  /\ cur' \in {final \in ChildFinals(Current) : Reenters(final)}
  /\ Goto("confirm", local)

\* The move is made and Guard answers with an error.
GuardFails ==
  /\ RunsChild /\ local.count + 1 < Current.loop
  /\ cur' \in {final \in ChildFinals(Current) : Reenters(final)}
  /\ StepFails("fire")

ChildAgain ==
  /\ RunsChild /\ local.count + 1 < Current.loop
  /\ cur' \in {final \in ChildFinals(Current) : Reenters(final)}
  /\ Goto("child", [local EXCEPT !.count = @ + 1])

-----------------------------------------------------------------------------
(* Confirm and Route.                                                      *)

ConfirmRejects ==
  /\ pc = "confirm"
  /\ StepFails("confirm") /\ UNCHANGED cur

\* Mutant of Confirms: the checkpoint comes before the route.
ConfirmsThenRoutes ==
  LET s == local.step
  IN /\ pc = "confirm"
     /\ outcomes' = Mark({s}, "succeeded")
     /\ pending' = PrunePendingHandler(s)
     /\ FireCheckpoint(cur, outcomes')
     /\ UNCHANGED cur
     /\ IF Current.route
        THEN /\ pc' = "route"
             /\ UNCHANGED <<def, local, ctxDone, err, seed, runs>>
        ELSE Continue

Confirms ==
  LET s == local.step
  IN /\ pc = "confirm"
     /\ outcomes' = Mark({s}, "succeeded")
     /\ pending' = PrunePendingHandler(s)
     /\ UNCHANGED cur
     /\ IF Current.route
        THEN /\ pc' = "route"
             /\ UNCHANGED <<def, local, ctxDone, err, saved, seed, runs>>
        ELSE Continue /\ FireCheckpoint(cur, outcomes')

\* Route failed, or named a step that is no direct dependent.
RouteFails ==
  /\ pc = "route"
  /\ ResolveCatchable(local.step, "fire", pending) /\ UNCHANGED cur

\* Mutant of Routes: a failure that loses its last handler is forgotten.
RoutesOn(kept) ==
  LET deps == DirectDependents(def, local.step)
      routed == Mark(deps \ kept, "skipped")
  IN /\ pc = "route" /\ kept \subseteq deps
     /\ outcomes' = routed
     /\ pending' = [s \in Ids |-> pending[s] \ {d \in deps : routed[d] = "skipped"}]
     /\ Continue /\ FireCheckpoint(cur, routed)
     /\ UNCHANGED cur

\* applyRoute skips the dependents that Route left out; prunePendingOnRoute
\* takes every skipped dependent out of the pending entries, and an entry
\* that loses its last handler ends the walk with its failure.
Routes(kept) ==
  LET deps == DirectDependents(def, local.step)
      routed == Mark(deps \ kept, "skipped")
      skipped == {d \in deps : routed[d] = "skipped"}
      left == [s \in Ids |-> pending[s] \ skipped]
  IN /\ pc = "route" /\ kept \subseteq deps
     /\ outcomes' = routed
     /\ UNCHANGED cur
     /\ IF \E s \in Ids : pending[s] # {} /\ left[s] = {}
        THEN Stop("failed") /\ UNCHANGED saved
        ELSE pending' = left /\ Continue /\ FireCheckpoint(cur, routed)

-----------------------------------------------------------------------------
(* A wave.                                                                 *)

\* The shared pick failed: no member is marked.
WaveNoTransition ==
  /\ Scanning /\ Ready # {}
  /\ Verdict(NextReady, outcomes) = "admit"
  /\ Cardinality(Group(NextReady)) > 1
  /\ ~CanPick(def, cur, def.steps[NextReady].to)
  /\ Stop("norow") /\ UNCHANGED <<outcomes, cur, saved>>

WaveStarts ==
  /\ Scanning /\ Ready # {}
  /\ Verdict(NextReady, outcomes) = "admit"
  /\ Cardinality(Group(NextReady)) > 1
  /\ CanPick(def, cur, def.steps[NextReady].to)
  /\ Goto("wave", [Idle EXCEPT !.step = NextReady,
                     !.wave = [s \in Group(NextReady) |-> "running"]])
  /\ UNCHANGED cur

\* A member's goroutine fires the shared row on its copy of the record.
MemberFires(s, answer) ==
  /\ pc = "wave" /\ s \in DOMAIN local.wave /\ local.wave[s] = "running"
  /\ Goto("wave", [local EXCEPT !.wave[s] = answer])
  /\ UNCHANGED cur

\* resolvePanelFailure: every member is failed, and caught only when every
\* member has a fallback.
PanelFails(group) ==
  LET oc == Mark(group, "failed")
  IN /\ outcomes' = oc
     /\ IF \A s \in group : FailureHandlersFor(s, oc) # {}
        THEN /\ pending' = [s \in Ids |-> IF s \in group
                              THEN FailureHandlersFor(s, oc) ELSE pending[s]]
             /\ Continue
        ELSE Stop("failed")
     /\ UNCHANGED <<cur, saved>>

\* wg.Wait returns and the answers are read.
WaveJoins ==
  LET group == DOMAIN local.wave
      answers == {local.wave[s] : s \in group}
  IN /\ pc = "wave" /\ "running" \notin answers
     /\ IF "err" \in answers
        THEN PanelFails(group)
        ELSE /\ outcomes' = Mark(group, "succeeded")
             /\ cur' = Current.to
             /\ Continue /\ FireCheckpoint(cur', outcomes')
             /\ UNCHANGED pending

-----------------------------------------------------------------------------
(* The caller.                                                             *)

Running == pc \notin {"new", "stopped"}

Cancel ==
  /\ Running /\ ~ctxDone
  /\ ctxDone' = TRUE
  /\ UNCHANGED <<def, pc, outcomes, pending, cur, local, err, saved, seed,
                 runs>>

Crash ==
  /\ Running
  /\ Stop("crashed") /\ UNCHANGED <<outcomes, cur, saved>>

\* Another call: Resume from the last checkpoint, or Run where there is
\* none.  Both start with no pending entry.
Resume ==
  LET start == IF saved = NoCheckpoint
               THEN [status |-> Initial, outcomes |-> [s \in Ids |-> "none"]]
               ELSE saved
  IN /\ pc = "stopped" /\ err \notin {"rejected", "nil"} /\ runs < MaxRuns
     /\ pc' = "loop"
     /\ cur' = start.status
     /\ outcomes' = start.outcomes
     /\ seed' = start.outcomes
     /\ pending' = NothingPending
     /\ err' = "none"
     /\ ctxDone' = FALSE
     /\ runs' = runs + 1
     /\ UNCHANGED <<def, local, saved>>

Init ==
  /\ def \in Definitions
  /\ pc = "new"
  /\ outcomes = [s \in Ids |-> "none"]
  /\ pending = NothingPending
  /\ cur = Initial
  /\ local = Idle
  /\ ctxDone = FALSE
  /\ err = "none"
  /\ saved = NoCheckpoint
  /\ seed = outcomes
  /\ runs = 1

\* What the runner does next.
Walk ==
  \/ NewDefinition \/ Finish \/ Pause \/ Stall \/ Skip \/ Begin
  \/ NoTransition \/ FireSucceeds \/ FireFails \/ FireRetries \/ SleepEnds
  \/ LoopCancelled \/ ChildFails \/ ChildMoveFails \/ ChildDone
  \/ GuardFails \/ ChildAgain
  \/ ConfirmRejects \/ Confirms \/ RouteFails
  \/ \E kept \in SUBSET Ids : Routes(kept)
  \/ WaveNoTransition \/ WaveStarts \/ WaveJoins
  \/ \E s \in Ids, answer \in {"ok", "err"} : MemberFires(s, answer)

Next == Walk \/ Cancel \/ Crash \/ Resume

Spec == Init /\ [][Next]_flowVars

\* The walk is a goroutine of the caller; closures are assumed to return.
FairSpec == Spec /\ WF_flowVars(Walk)

-----------------------------------------------------------------------------
(* Properties.                                                             *)

\* The comment on advanceGroup: "a checkpoint never captures a state a route
\* rejection later overwrites".  What the last checkpoint says of a step is
\* what every later call says of it.
CheckpointIsFinal ==
  saved # NoCheckpoint =>
    \A s \in Ids : saved.outcomes[s] # "none" => outcomes[s] = saved.outcomes[s]

Ran(s) == outcomes[s] \in {"succeeded", "failed"}

Handlers(f) == {h \in Ids : def.steps[h].when = "OnFailed" /\ f \in Needs(def, h)}

\* Failures this call has met, and not one it was resumed after.
FailedHere == {f \in Ids : outcomes[f] = "failed" /\ seed[f] = "none"}

\* A call that returns nil has swallowed no failure of its own: each was
\* seen by a fallback that ran, and never by one a Route left out.
NoFailureSwallowed ==
  err = "nil" => \A f \in FailedHere : \E h \in Handlers(f) : Ran(h)

\* New lets through one shape that cannot be walked, panels that wait for
\* each other; every other graph is walked without a stall, whatever
\* routes, failures and resumes do to it.
StallsOnlyOnPanels == err = "stalled" => ~PanelsSchedulable(def)

\* A call that started is never left hanging: it ends, with an error or
\* with every step resolved.
RunsEnd == pc # "stopped" ~> pc = "stopped"

=============================================================================
