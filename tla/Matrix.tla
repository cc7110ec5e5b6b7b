------------------------------- MODULE Matrix -------------------------------
(***************************************************************************)
(* The static check of package workflow/run: ValidateMatrix simulates the  *)
(* walk of module Flow on the path on which every step runs, and asks for  *)
(* one transition row per move it can make (src/workflow/run/matrix.go).   *)
(* The simulation is a pure function of the definition; the property below *)
(* compares it with every walk the runner can take.                        *)
(***************************************************************************)
EXTENDS Flow

\* nextUnit: a step alone or in a panel of one runs as a step.
Unit(d, s) == IF Cardinality(PanelFor(d, s)) >= 2 THEN PanelFor(d, s) ELSE {s}

UnitReady(d, s, resolved) == \A m \in Unit(d, s) : Needs(d, m) \subseteq resolved

\* Mutant of KeepsPriorSet: a failure leaves the walk where it would be.
KeepsNothing(d, s) == d.steps[s].when = "OnFailed"

\* keepsPriorSet: the failure, or for a fallback the skip, stays possible.
KeepsPriorSet(d, s) ==
  \/ d.steps[s].when = "OnFailed"
  \/ \E t \in DirectDependents(d, s) : d.steps[t].when = "OnFailed"

Targets(step) == IF Sub(step) THEN ChildFinals(step) ELSE {step.to}

\* standingFor: a fallback fires from where a need fired, or landed.
StandingFor(d, sim, s) ==
  IF d.steps[s].when # "OnFailed" THEN sim.curs
  ELSE UNION {sim.firedFrom[n] \cup sim.firedTo[n] : n \in Needs(d, s)}

\* checkLoopReentry.
LoopReentry(step) ==
  IF step.loop <= 1 THEN {}
  ELSE {p \in ChildFinals(step) \X ChildFinals(step) : p[1] # p[2]}

\* runStep and runPanel, with the rows each asks for.
RunUnit(d, sim, s) ==
  LET unit == Unit(d, s)
      preds == StandingFor(d, sim, s)
      targets == Targets(d.steps[s])
      keep == \E m \in unit : KeepsPriorSet(d, m)
      Fired(f, set) == [t \in StepIds(d) |-> IF t \in unit THEN set ELSE f[t]]
  IN [resolved |-> sim.resolved \cup unit,
      curs |-> targets \cup (IF keep THEN sim.curs ELSE {}),
      firedFrom |-> Fired(sim.firedFrom, preds),
      firedTo |-> Fired(sim.firedTo, targets),
      asked |-> sim.asked \cup (preds \X targets) \cup LoopReentry(d.steps[s])]

\* walkSim, before its first unit.
SimStart(d) ==
  [resolved |-> {}, curs |-> {Initial}, asked |-> {},
   firedFrom |-> [s \in StepIds(d) |-> {}], firedTo |-> [s \in StepIds(d) |-> {}]]

SimReady(d, sim) == {s \in StepIds(d) \ sim.resolved : UnitReady(d, s, sim.resolved)}

\* run: the next unit, in declaration order, until none is ready.
SimAfter(d, sim) ==
  LET ready == SimReady(d, sim)
  IN IF ready = {} THEN sim
     ELSE RunUnit(d, sim, CHOOSE s \in ready : \A t \in ready : s <= t)

\* walk: one unit after the other; there are no more units than steps.
Sims(d) ==
  LET sims[i \in 0..Len(d.steps)] ==
        IF i = 0 THEN SimStart(d) ELSE SimAfter(d, sims[i - 1])
  IN sims

WalkRows(d) == Sims(d)[Len(d.steps)].asked

\* The plan of a child, each step of which is plain.
ChildPlan(step) ==
  [steps |-> [i \in DOMAIN step.child |->
                [needs |-> step.child[i].needs, to |-> step.child[i].to,
                 when |-> "OnSucceeded", child |-> <<>>, loop |-> 0]],
   panels |-> <<>>]

Required(d) ==
  WalkRows(d) \cup
  UNION {WalkRows(ChildPlan(d.steps[s])) : s \in {t \in StepIds(d) : Sub(d.steps[t])}}

\* checkRow: exactly one row.
CheckRow(d, from, to) == d.rows[<<from, to>>] = 1

\* checkUnit: a row for each pair the walk asks for.
ValidateMatrix(d) == \A p \in Required(d) : CheckRow(d, p[1], p[2])

-----------------------------------------------------------------------------

\* What the comment on ValidateMatrix excepts: routes and skipped steps.
LeftTheAllRunPath ==
  \E s \in Ids : \/ def.steps[s].route
                 \/ outcomes[s] = "skipped" /\ def.steps[s].when # "OnFailed"

\* s has failed since the last checkpoint, so that no step has succeeded since.
FailedSince(s) ==
  /\ outcomes[s] = "failed"
  /\ saved # NoCheckpoint => saved.outcomes[s] = "none"

\* What it does not except, and does not cover either: a step that is not a
\* need of the fallback moves the machine between the failure and the
\* fallback, which then fires from a status its failure span lacks.  The step
\* succeeds, or it is a loop that fails after it has moved.
FallbackOvertaken ==
  \E h \in Ids :
    /\ def.steps[h].when = "OnFailed" /\ outcomes[h] = "failed"
    /\ \/ \A f \in Needs(def, h) : ~FailedSince(f)
       \/ \E g \in Ids \ (Needs(def, h) \cup {h}) :
            FailedSince(g) /\ def.steps[g].loop > 1

\* A plan that ValidateMatrix lets through never aborts for want of a row,
\* nor for one too many: whatever steps fail and are caught, fan out, loop
\* or are resumed after a crash, the walk stays on statuses the simulation
\* counted with.
MatrixCoversWalk ==
  err = "norow" /\ ValidateMatrix(def) => LeftTheAllRunPath \/ FallbackOvertaken

=============================================================================
