--------------------------- MODULE FlowDefinition ---------------------------
(***************************************************************************)
(* Workflow definitions of package flow: the step graph with its panels,   *)
(* and the rules New checks before it builds one (src/flow/definition.go,  *)
(* validate.go, and the validate functions of routing.go, failure.go,      *)
(* retry.go and loop.go).                                                  *)
(*                                                                         *)
(* A step is its position in the declaration order, so IDs are unique and  *)
(* not empty by construction; a panel is the set of its members.  A        *)
(* definition comes with the transition table of its machine, as the       *)
(* number of rows of each pair of statuses (src/machine/definition.go).    *)
(* Payloads and triggers are left out, and a child workflow is a list of   *)
(* plain steps.                                                            *)
(***************************************************************************)
EXTENDS Integers, Sequences, FiniteSets

Admissions == {"OnSucceeded", "OnFinished", "OnFailed"}

\* retry is RetryPolicy.MaxAttempts, 0 for no policy; child is the plan of
\* Sub, empty for none; loop is LoopPolicy.Max, 0 for no policy.
Step(Statuses) ==
  [needs : Seq(Nat), to : Statuses, when : Admissions, route : BOOLEAN,
   retry : Nat, child : Seq([needs : Seq(Nat), to : Statuses]), loop : Nat]

Sub(step) == step.child # <<>>

StepIds(d) == DOMAIN d.steps

Panels(d) == {d.panels[i] : i \in DOMAIN d.panels}

Needs(d, s) == {d.steps[s].needs[i] : i \in DOMAIN d.steps[s].needs}

DirectDependents(d, s) == {t \in StepIds(d) : s \in Needs(d, t)}

\* panelFor: the first panel that names s, or the empty set.
PanelFor(d, s) ==
  LET naming == {i \in DOMAIN d.panels : s \in d.panels[i]}
  IN IF naming = {} THEN {}
     ELSE d.panels[CHOOSE i \in naming : \A j \in naming : i <= j]

InPanel(d, s) == \E p \in Panels(d) : s \in p

-----------------------------------------------------------------------------
(* The machine.                                                            *)

\* AllowedTransitions and pickTransition: one row leads from one to the other.
CanPick(d, from, to) == d.rows[<<from, to>>] = 1

\* Definition.Validate: rows exist, none is a self loop and each starts at
\* a status that rows reach from the initial one.
ValidMachine(d, initial) ==
  LET used == {p \in DOMAIN d.rows : d.rows[p] > 0}
      Closed(S) == initial \in S /\ \A p \in used : p[1] \in S => p[2] \in S
      Reachable(s) ==
        \A S \in SUBSET ({p[1] : p \in used} \cup {p[2] : p \in used} \cup {initial}) :
          Closed(S) => s \in S
  IN /\ used # {}
     /\ \A p \in used : p[1] # p[2] /\ Reachable(p[1])

-----------------------------------------------------------------------------
(* What New checks.                                                        *)

ValidateSteps(d) == \A s \in StepIds(d) : Needs(d, s) \subseteq StepIds(d)

ValidatePanels(d) ==
  /\ \A p \in Panels(d) :
       /\ p \subseteq StepIds(d)
       /\ \A s, t \in p : d.steps[s].to = d.steps[t].to
  /\ \A i, j \in DOMAIN d.panels : i # j => d.panels[i] \cap d.panels[j] = {}

\* Mutant of ValidateRouting: panels and routes may meet.
ValidateRoutingAlone(d) ==
  \A s \in StepIds(d) : d.steps[s].route =>
    ~Sub(d.steps[s]) /\ DirectDependents(d, s) # {} /\ ~InPanel(d, s)

ValidateRouting(d) ==
  \A s \in StepIds(d) : d.steps[s].route =>
    /\ ~Sub(d.steps[s])
    /\ DirectDependents(d, s) # {}
    /\ ~InPanel(d, s)
    /\ \A t \in DirectDependents(d, s) : ~InPanel(d, t)

ValidateFailureAdmission(d) ==
  \A s \in StepIds(d) : d.steps[s].when = "OnFailed" =>
    d.steps[s].needs # <<>> /\ ~InPanel(d, s)

ValidateRetry(d) ==
  \A s \in StepIds(d) : d.steps[s].retry # 0 =>
    ~Sub(d.steps[s]) /\ ~InPanel(d, s)

ValidateLoop(d) ==
  \A s \in StepIds(d) : d.steps[s].loop # 0 =>
    Sub(d.steps[s]) /\ ~InPanel(d, s)

\* A chained step shares no panel.
ValidatePanelChains(d) ==
  \A p \in Panels(d) : Cardinality(p) > 1 => \A s \in p : ~Sub(d.steps[s])

\* findRoots: Kahn's algorithm, one round per step.  A step is processed
\* once all its needs are; a cycle leaves steps over.
Acyclic(d) ==
  LET n == Len(d.steps)
      processed[i \in 0..n] ==
        IF i = 0 THEN {}
        ELSE {s \in StepIds(d) : Needs(d, s) \subseteq processed[i - 1]}
  IN processed[n] = StepIds(d)

\* ancestorsOf: the transitive closure of Needs.
AncestorsOf(d, s) ==
  LET Closed(S) == /\ Needs(d, s) \subseteq S
                   /\ \A t \in S : Needs(d, t) \subseteq S
  IN {a \in StepIds(d) : \A S \in SUBSET StepIds(d) : Closed(S) => a \in S}

ValidatePanelIndependence(d) ==
  \A p \in Panels(d) : \A s \in p : AncestorsOf(d, s) \cap p \subseteq {s}

\* New accepts d.
New(d) ==
  /\ ValidateSteps(d)
  /\ ValidatePanels(d)
  /\ ValidateRouting(d)
  /\ ValidateFailureAdmission(d)
  /\ ValidateRetry(d)
  /\ ValidateLoop(d)
  /\ ValidatePanelChains(d)
  /\ Acyclic(d)
  /\ ValidatePanelIndependence(d)

-----------------------------------------------------------------------------

\* A step with the members of its panel.
Node(d, s) == IF InPanel(d, s) THEN PanelFor(d, s) ELSE {s}

\* What a walk that has been through S can go through next.
PanelsAfter(d, S) ==
  S \cup {t \in StepIds(d) : \A m \in Node(d, t) : Needs(d, m) \subseteq S}

PanelsReached(d) ==
  LET reached[i \in 0..Len(d.steps)] ==
        IF i = 0 THEN {} ELSE PanelsAfter(d, reached[i - 1])
  IN reached

\* What New does not check: whether the panels, each taken as one node, can
\* be put in an order.
PanelsSchedulable(d) == PanelsReached(d)[Len(d.steps)] = StepIds(d)

=============================================================================
