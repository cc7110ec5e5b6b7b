----------------------------- MODULE FlowProofs -----------------------------
(***************************************************************************)
(* Proofs about the workflow runner, modules Flow and Matrix: for every    *)
(* definition the caller may give to New, every number of steps and of     *)
(* resumed calls.                                                          *)
(*                                                                         *)
(* A step is resolved after the steps it needs, unless a Route leaves it   *)
(* out first (Closed), and a panel as one (Whole).  So a Route that is     *)
(* about to skip dependents meets none that has run, and what a checkpoint *)
(* says is never overwritten; a failure is remembered by fallbacks that    *)
(* are still to come, and a fallback is never skipped on its own account   *)
(* (Pend, Caught); and where panels can be put in an order, a step is      *)
(* ready as long as one is unresolved.                                     *)
(*                                                                         *)
(* The second half compares the walk with the simulation of module Matrix, *)
(* which knows no outcomes: while every step runs or is a fallback that is *)
(* skipped, both have resolved the same steps, find the same ones ready    *)
(* (ReadyInBoth) and stand on a status the simulation counts with          *)
(* (MatrixInv).  A failure that a fallback is yet to meet leaves the walk  *)
(* in the failure span of the step, or where a later loop took it (InSpan),*)
(* which is where the exception of MatrixCoversWalk comes from.            *)
(***************************************************************************)
EXTENDS Matrix, TLAPS, FiniteSetTheorems, NaturalsInduction, WellFoundedInduction

Outcomes == {"none", "succeeded", "failed", "skipped"}

OutcomeMaps(d) == [StepIds(d) -> Outcomes]

\* What ran did so after all it needs.
Closed(d, oc) ==
  \A s \in StepIds(d) : oc[s] \in {"succeeded", "failed"} =>
    \A n \in Needs(d, s) : oc[n] # "none"

\* The members of a panel are resolved together.
Whole(d, oc) ==
  \A p \in Panels(d) : \A s, t \in p \cap StepIds(d) : oc[s] = "none" => oc[t] = "none"

\* A checkpoint, with what has become of its outcomes.
Final(d, oc, sv) ==
  /\ sv.outcomes \in OutcomeMaps(d)
  /\ Closed(d, sv.outcomes) /\ Whole(d, sv.outcomes)
  /\ \A s \in StepIds(d) : sv.outcomes[s] # "none" => oc[s] = sv.outcomes[s]

\* s is about to be resolved: it can, and by itself.
Due(d, oc, s) ==
  /\ s \in StepIds(d) /\ oc[s] = "none"
  /\ \A n \in Needs(d, s) : oc[n] # "none"

Alone(d, s) == \A p \in Panels(d) : s \in p => p = {s}

\* Route looks at the dependents of s, none of which has run.
Routing(d, oc, sv, s) ==
  /\ s \in StepIds(d) /\ oc[s] = "succeeded" /\ d.steps[s].route
  /\ sv # NoCheckpoint => sv.outcomes[s] = "none"
  /\ \A t \in DirectDependents(d, s) : oc[t] \in {"none", "skipped"}

\* The entries of a failed step are fallbacks that are still to come.
Pend(d, oc, pe) ==
  /\ pe \in [StepIds(d) -> SUBSET StepIds(d)]
  /\ \A f \in StepIds(d) : \A h \in pe[f] :
       /\ d.steps[h].when = "OnFailed" /\ f \in Needs(d, h)
       /\ oc[h] = "none" /\ oc[f] = "failed"

\* Every failure of this call has such an entry or met a fallback that ran.
Caught(d, oc, pe, sd) ==
  \A f \in StepIds(d) : oc[f] = "failed" /\ sd[f] = "none" =>
    \/ pe[f] # {}
    \/ \E h \in StepIds(d) : /\ d.steps[h].when = "OnFailed" /\ f \in Needs(d, h)
                             /\ oc[h] \in {"succeeded", "failed"}

\* Where the walk is.
Place(d, oc, sv, p, l) ==
  /\ p \in {"fire", "sleep", "child", "confirm"} =>
       Due(d, oc, l.step) /\ Alone(d, l.step)
  /\ p = "route" => Routing(d, oc, sv, l.step)
  /\ p = "wave" => /\ DOMAIN l.wave \in Panels(d)
                   /\ \A s \in DOMAIN l.wave : Due(d, oc, s)
  /\ l = [field \in {"step", "count", "failure", "wave"} |-> l[field]]

\* The walk between and within calls.
Walked(d, oc, pe, sv, sd, p) ==
  /\ oc \in OutcomeMaps(d) /\ sd \in OutcomeMaps(d)
  /\ Closed(d, oc) /\ Whole(d, oc)
  /\ sv # NoCheckpoint => Final(d, oc, sv)
  /\ Pend(d, oc, pe)
  /\ p # "stopped" => Caught(d, oc, pe, sd)

FlowInv ==
  /\ def \in Definitions
  /\ pc # "new" /\ err # "rejected" => New(def)
  /\ pc \notin {"new", "stopped"} => err = "none"
  /\ pc = "new" => err = "none"
  /\ Walked(def, outcomes, pending, saved, seed, pc)
  /\ Place(def, outcomes, saved, pc, local)
  /\ NoFailureSwallowed /\ StallsOnlyOnPanels

-----------------------------------------------------------------------------
(* The definition.                                                         *)

\* A set of natural numbers has a least one: steps are taken in the order of
\* their declaration.
LEMMA Smallest ==
  ASSUME NEW T \in SUBSET Nat, T # {}
  PROVE  \E x \in T : \A y \in T : x <= y
<1> DEFINE R == OpToRel(<, Nat)
<1>1. IsWellFoundedOn(R, Nat)
  BY NatLessThanWellFounded
<1>2. ASSUME NEW x \in Nat, NEW y \in Nat, y < x
      PROVE  <<y, x>> \in R
  BY <1>2, Zenon DEF OpToRel
<1> HIDE DEF R
<1>3. PICK x \in T : \A y \in T : ~(<<y, x>> \in R)
  BY <1>1, WFMin
<1>4. ASSUME NEW y \in T
      PROVE  x <= y
  <2>1. x \in Nat /\ y \in Nat
    OBVIOUS
  <2>2. ~(y < x)
    BY <1>2, <1>3, <2>1
  <2> QED
    BY <2>1, <2>2
<1> QED
  BY <1>4

\* Steps and panels of a definition.
LEMMA DefinitionType ==
  ASSUME NEW d \in Definitions
  PROVE  /\ Len(d.steps) \in Nat /\ StepIds(d) = 1..Len(d.steps)
         /\ \A s \in StepIds(d) : d.steps[s].when \in Admissions
         /\ StepIds(d) \in SUBSET Nat /\ IsFiniteSet(StepIds(d))
<1>1. d.steps \in Seq(Step(Statuses))
  BY FlowAssumption
<1>2. Len(d.steps) \in Nat /\ StepIds(d) = 1..Len(d.steps)
  BY <1>1 DEF StepIds
<1>3. ASSUME NEW s \in StepIds(d)
      PROVE  d.steps[s].when \in Admissions
  <2>1. d.steps[s] \in Step(Statuses)
    BY <1>1 DEF StepIds
  <2> QED
    BY <2>1 DEF Step
<1>4. IsFiniteSet(1..Len(d.steps))
  BY <1>2, FS_Interval
<1> QED
  BY <1>2, <1>3, <1>4

\* Panels share no step, so that panelFor finds the one that names s.
LEMMA PanelOf ==
  ASSUME NEW d \in Definitions, New(d), NEW s, InPanel(d, s)
  PROVE  /\ PanelFor(d, s) \in Panels(d) /\ s \in PanelFor(d, s)
         /\ PanelFor(d, s) \subseteq StepIds(d)
         /\ \A p \in Panels(d) : s \in p => p = PanelFor(d, s)
<1> DEFINE naming == {i \in DOMAIN d.panels : s \in d.panels[i]}
<1>1. \A i, j \in naming : i = j
  BY DEF New, ValidatePanels
<1>2. PICK i \in naming : TRUE
  BY DEF InPanel, Panels
<1>3. naming = {i}
  BY <1>1, <1>2
<1>4. PanelFor(d, s) = d.panels[CHOOSE j \in naming : \A k \in naming : j <= k]
  BY <1>2 DEF PanelFor
<1>5. PICK j \in naming : PanelFor(d, s) = d.panels[j] /\ j = i
  <2>1. i \in Nat
    BY <1>2, FlowAssumption
  <2> HIDE DEF naming
  <2>2. i \in naming /\ \A k \in naming : i <= k
    BY <1>3, <2>1
  <2> QED
    BY <1>3, <1>4, <2>2
<1>6. PanelFor(d, s) \in Panels(d) /\ s \in PanelFor(d, s)
  BY <1>5 DEF Panels
<1>7. \A p \in Panels(d) : s \in p => p = PanelFor(d, s)
  BY <1>1, <1>5 DEF Panels
<1> QED
  BY <1>6, <1>7 DEF New, ValidatePanels

-----------------------------------------------------------------------------
(* Admission.                                                              *)

\* A step that can be resolved needs nothing that is unresolved.
LEMMA AdmissionDue ==
  ASSUME NEW s, NEW oc, AdmissionVerdict(s, oc) # "wait"
  PROVE  \A n \in Needs(def, s) : oc[n] # "none"
  BY DEF AdmissionVerdict

\* And one that needs nothing unresolved can be resolved.
LEMMA AdmissionGiven ==
  ASSUME NEW s, NEW oc, \A n \in Needs(def, s) : oc[n] # "none"
  PROVE  AdmissionVerdict(s, oc) \in {"admit", "skip"}
<1>1. CASE def.steps[s].when = "OnFailed"
  BY <1>1 DEF AdmissionVerdict
<1>2. CASE def.steps[s].when # "OnFailed"
  BY <1>2 DEF AdmissionVerdict
<1> QED
  BY <1>1, <1>2

\* A fallback one need of which failed is not skipped.
LEMMA FallbackAdmitted ==
  ASSUME NEW s, NEW oc, AdmissionVerdict(s, oc) # "wait",
         def.steps[s].when = "OnFailed", NEW n \in Needs(def, s), oc[n] = "failed"
  PROVE  AdmissionVerdict(s, oc) = "admit"
<1>1. \A m \in Needs(def, s) : oc[m] # "none"
  BY AdmissionDue
<1> QED
  BY <1>1 DEF AdmissionVerdict

\* A panel that can be resolved is unresolved as a whole.
LEMMA PanelDue ==
  ASSUME NEW p, NEW oc, PanelVerdict(p, oc) # "wait"
  PROVE  \A s \in p : oc[s] = "none" /\ AdmissionVerdict(s, oc) # "wait"
  BY DEF PanelVerdict

\* And one that is, and needs nothing unresolved, can be resolved.
LEMMA PanelGiven ==
  ASSUME NEW p, NEW oc,
         \A s \in p : oc[s] = "none" /\ AdmissionVerdict(s, oc) \in {"admit", "skip"}
  PROVE  PanelVerdict(p, oc) # "wait"
<1> DEFINE verdicts == {AdmissionVerdict(s, oc) : s \in p}
<1>1. verdicts \subseteq {"admit", "skip"} /\ ~(\E s \in p : oc[s] # "none")
  OBVIOUS
<1>2. PanelVerdict(p, oc) =
        CASE (\E s \in p : oc[s] # "none") \/ "wait" \in verdicts -> "wait"
          [] (\A s \in p : oc[s] = "none") /\ verdicts \subseteq {"admit"} -> "admit"
          [] OTHER -> "skip"
  BY DEF PanelVerdict
<1> HIDE DEF verdicts
<1>3. CASE verdicts \subseteq {"admit"}
  BY <1>1, <1>2, <1>3
<1>4. CASE ~(verdicts \subseteq {"admit"})
  BY <1>1, <1>2, <1>4
<1> QED
  BY <1>3, <1>4

\* nextReadyGroup: the group of a step that is ready can be resolved, member
\* by member, and belongs to no other panel.
LEMMA ReadyGroup ==
  ASSUME def \in Definitions, New(def), NEW s \in Ready
  PROVE  /\ Group(s) \subseteq Ids /\ s \in Group(s)
         /\ \A t \in Group(s) : /\ Due(def, outcomes, t)
                                /\ AdmissionVerdict(t, outcomes) # "wait"
         /\ \/ InPanel(def, s) /\ Group(s) \in Panels(def)
            \/ ~InPanel(def, s) /\ Group(s) = {s}
         /\ \A p \in Panels(def) : \A t \in Group(s) : t \in p => p = Group(s)
<1>1. s \in Ids /\ outcomes[s] = "none" /\ Verdict(s, outcomes) # "wait"
  BY DEF Ready, Unresolved
<1>2. CASE InPanel(def, s)
  <2> DEFINE p == PanelFor(def, s)
  <2>1. Group(s) = p /\ Verdict(s, outcomes) = PanelVerdict(p, outcomes)
    BY <1>2 DEF Group, Verdict
  <2>2. p \in Panels(def) /\ s \in p /\ p \subseteq StepIds(def)
    BY <1>2, PanelOf
  <2>3. \A q \in Panels(def) : \A t \in p : t \in q => q = p
    <3>1. SUFFICES ASSUME NEW q \in Panels(def), NEW t \in p, t \in q PROVE q = p
      OBVIOUS
    <3>2. InPanel(def, t)
      BY <3>1 DEF InPanel
    <3> QED
      BY <2>2, <3>1, <3>2, PanelOf
  <2> HIDE DEF p
  <2>4. \A t \in p : outcomes[t] = "none" /\ AdmissionVerdict(t, outcomes) # "wait"
    BY <1>1, <2>1, PanelDue
  <2>5. \A t \in p : \A n \in Needs(def, t) : outcomes[n] # "none"
    BY <2>4, AdmissionDue
  <2> QED
    BY <1>2, <2>1, <2>2, <2>3, <2>4, <2>5 DEF Due, Ids
<1>3. CASE ~InPanel(def, s)
  <2>1. Group(s) = {s} /\ Verdict(s, outcomes) = AdmissionVerdict(s, outcomes)
    BY <1>3 DEF Group, Verdict
  <2>2. \A n \in Needs(def, s) : outcomes[n] # "none"
    BY <1>1, <2>1, AdmissionDue
  <2> QED
    BY <1>1, <1>3, <2>1, <2>2 DEF Due, Ids, InPanel
<1> QED
  BY <1>2, <1>3

\* The step that comes next is ready.
LEMMA NextIsReady ==
  ASSUME def \in Definitions, Ready # {}
  PROVE  NextReady \in Ready
<1>1. Ready \in SUBSET Nat
  BY DefinitionType DEF Ready, Unresolved, Ids
<1>2. \E s \in Ready : \A t \in Ready : s <= t
  BY <1>1, Smallest
<1> QED
  BY <1>2 DEF NextReady

\* A group that is skipped holds no fallback of a failed step.
LEMMA SkipsNoFallback ==
  ASSUME def \in Definitions, New(def), NEW s \in Ready, Verdict(s, outcomes) = "skip",
         NEW h \in Group(s), def.steps[h].when = "OnFailed",
         NEW n \in Needs(def, h), outcomes[n] = "failed"
  PROVE  FALSE
<1>1. h \in Ids /\ AdmissionVerdict(h, outcomes) # "wait"
  BY ReadyGroup
<1>2. ~InPanel(def, h)
  BY <1>1 DEF New, ValidateFailureAdmission, Ids
<1>3. ~InPanel(def, s) /\ h = s
  BY <1>2, ReadyGroup DEF InPanel
<1>4. AdmissionVerdict(s, outcomes) = "skip"
  BY <1>3 DEF Verdict
<1>5. AdmissionVerdict(h, outcomes) = "admit"
  BY <1>1, FallbackAdmitted
<1> QED
  BY <1>3, <1>4, <1>5

-----------------------------------------------------------------------------
(* The order of panels.                                                    *)

\* Induction on the natural numbers, with the set of those that have the
\* property for the property.
LEMMA InductionInSet ==
  ASSUME NEW P, 0 \in P, \A n \in Nat : n \in P => n + 1 \in P
  PROVE  \A n \in Nat : n \in P
<1>1. SUFFICES ASSUME Nat \ P # {} PROVE FALSE
  OBVIOUS
<1>2. PICK x \in Nat \ P : \A y \in Nat \ P : x <= y
  BY <1>1, Smallest
<1>3. x - 1 \in Nat /\ x - 1 \notin P
  BY <1>2
<1>4. x - 1 \in Nat \ P
  BY <1>3
<1>5. x <= x - 1
  BY <1>2, <1>4
<1> QED
  BY <1>2, <1>5

\* The recursion behind PanelsSchedulable has a solution.
LEMMA ReachedUnfolds ==
  ASSUME NEW d, Len(d.steps) \in Nat
  PROVE  LET reached == PanelsReached(d)
         IN /\ reached[0] = {}
            /\ \A n \in 1..Len(d.steps) : reached[n] = PanelsAfter(d, reached[n - 1])
<1> DEFINE N == Len(d.steps)
           Runs(f, n) == f = [k \in 0..n |-> IF k = 0 THEN {}
                                             ELSE PanelsAfter(d, f[k - 1])]
           P == {n \in Nat : \E f : Runs(f, n)}
<1>1. 0 \in P
  <2>1. Runs([k \in 0..0 |-> {}], 0)
    OBVIOUS
  <2> QED
    BY <2>1
<1>2. ASSUME NEW n \in Nat, n \in P
      PROVE  n + 1 \in P
  <2>1. PICK f : Runs(f, n)
    BY <1>2
  <2> DEFINE g == [k \in 0..(n + 1) |-> IF k = n + 1 THEN PanelsAfter(d, f[n]) ELSE f[k]]
  <2>2. ASSUME NEW k \in 0..(n + 1)
        PROVE  g[k] = IF k = 0 THEN {} ELSE PanelsAfter(d, g[k - 1])
    <3>1. CASE k = n + 1
      BY <3>1
    <3>2. CASE k # n + 1
      <4>1. k \in 0..n
        BY <3>2
      <4>2. f[k] = IF k = 0 THEN {} ELSE PanelsAfter(d, f[k - 1])
        BY <2>1, <4>1
      <4> QED
        BY <3>2, <4>1, <4>2
    <3> QED
      BY <3>1, <3>2
  <2>3. g = [k \in 0..(n + 1) |-> g[k]]
    OBVIOUS
  <2> HIDE DEF g
  <2>4. Runs(g, n + 1)
    BY <2>2, <2>3
  <2> QED
    BY <2>4
<1>3. N \in P
  <2> HIDE DEF P
  <2> QED
    BY <1>1, <1>2, InductionInSet
<1> DEFINE F(h) == [k \in 0..N |-> IF k = 0 THEN {} ELSE PanelsAfter(d, h[k - 1])]
           g == CHOOSE h : h = F(h)
<1>4. PanelsReached(d) = g
  BY DEF PanelsReached
<1>5. PICK f : f = F(f)
  BY <1>3
<1>6. g = F(g)
  BY <1>5
<1> HIDE DEF g
<1>7. g[0] = {} /\ \A n \in 1..N : g[n] = PanelsAfter(d, g[n - 1])
  <2>1. N \in Nat
    OBVIOUS
  <2>2. ASSUME NEW k \in 0..N
        PROVE  g[k] = IF k = 0 THEN {} ELSE PanelsAfter(d, g[k - 1])
    BY <1>6, Zenon
  <2> HIDE DEF N, F
  <2>3. g[0] = {}
    <3>1. 0 \in 0..N
      BY <2>1
    <3> QED
      BY <2>2, <3>1, Zenon
  <2>4. ASSUME NEW n \in 1..N
        PROVE  g[n] = PanelsAfter(d, g[n - 1])
    <3>1. n \in 0..N /\ n # 0
      BY <2>1
    <3> QED
      BY <2>2, <3>1, Zenon
  <2> QED
    BY <2>3, <2>4
<1> QED
  BY <1>4, <1>7

\* Where panels can be put in an order, a step is ready unless all are
\* resolved: the first in that order that is not.
LEMMA NeverStuck ==
  ASSUME def \in Definitions, New(def), outcomes \in OutcomeMaps(def),
         Whole(def, outcomes), PanelsSchedulable(def), Ready = {}
  PROVE  Unresolved = {}
<1> DEFINE N == Len(def.steps)
           reached == PanelsReached(def)
           P == {n \in Nat : n <= N => \A t \in reached[n] : t \notin Unresolved}
<1>1. N \in Nat /\ StepIds(def) = 1..N
  BY DefinitionType
<1>2. /\ reached[0] = {}
      /\ \A n \in 1..N : reached[n] = PanelsAfter(def, reached[n - 1])
  BY <1>1, ReachedUnfolds
<1>3. reached[N] = StepIds(def)
  BY DEF PanelsSchedulable
<1> HIDE DEF reached
<1>4. 0 \in P
  BY <1>2
<1>5. ASSUME NEW n \in Nat, n \in P
      PROVE  n + 1 \in P
  <2>1. SUFFICES ASSUME n + 1 <= N, NEW t \in reached[n + 1], t \in Unresolved
                 PROVE  FALSE
    OBVIOUS
  <2>2. \A u \in reached[n] : u \notin Unresolved
    BY <1>1, <1>5, <2>1
  <2>3. reached[n + 1] = PanelsAfter(def, reached[n])
    BY <1>1, <1>2, <2>1
  <2>4. t \in Ids /\ outcomes[t] = "none"
    BY <2>1 DEF Unresolved
  <2>5. \A m \in Node(def, t) : Needs(def, m) \subseteq reached[n]
    BY <2>1, <2>2, <2>3 DEF PanelsAfter
  <2>6. Node(def, t) \subseteq Ids /\ t \in Node(def, t)
    BY <2>4, PanelOf DEF Node, Ids
  <2>7. \A m \in Node(def, t) : \A u \in Needs(def, m) : outcomes[u] # "none"
    BY <2>2, <2>5, <2>6 DEF Unresolved, Ids, New, ValidateSteps
  <2>8. \A m \in Node(def, t) : AdmissionVerdict(m, outcomes) \in {"admit", "skip"}
    BY <2>7, AdmissionGiven
  <2>9. Verdict(t, outcomes) # "wait"
    <3>1. CASE InPanel(def, t)
      <4>1. Node(def, t) = PanelFor(def, t)
        BY <3>1 DEF Node
      <4>2. \A m \in PanelFor(def, t) : outcomes[m] = "none"
        BY <2>4, <3>1, PanelOf DEF Whole
      <4> QED
        BY <2>8, <3>1, <4>1, <4>2, PanelGiven DEF Verdict
    <3>2. CASE ~InPanel(def, t)
      BY <2>6, <2>8, <3>2 DEF Verdict
    <3> QED
      BY <3>1, <3>2
  <2> QED
    BY <2>1, <2>9 DEF Ready
<1>6. N \in P
  <2> HIDE DEF P
  <2> QED
    BY <1>1, <1>4, <1>5, InductionInSet
<1>7. N <= N
  BY <1>1
<1> QED
  BY <1>3, <1>6, <1>7 DEF Unresolved, Ids

-----------------------------------------------------------------------------
(* Outcomes.                                                               *)

Marked(d, oc, S, o) == [s \in StepIds(d) |-> IF s \in S THEN o ELSE oc[s]]

\* Steps that are due, or a Route leaves out, are resolved: the outcomes stay
\* closed and whole, and what the last checkpoint says still holds.
LEMMA Marks ==
  ASSUME NEW d, New(d), NEW oc \in OutcomeMaps(d), Closed(d, oc), Whole(d, oc),
         NEW sv, sv # NoCheckpoint => Final(d, oc, sv),
         NEW S \in SUBSET StepIds(d), NEW o \in {"succeeded", "failed", "skipped"},
         \A s \in S : \/ oc[s] \in {"none", o}
                      \/ sv # NoCheckpoint => sv.outcomes[s] = "none",
         o # "skipped" => \A s \in S : \A n \in Needs(d, s) : oc[n] # "none",
         \A p \in Panels(d) : \A s \in S : s \in p => p \subseteq S
  PROVE  /\ Marked(d, oc, S, o) \in OutcomeMaps(d)
         /\ Closed(d, Marked(d, oc, S, o)) /\ Whole(d, Marked(d, oc, S, o))
         /\ sv # NoCheckpoint => Final(d, Marked(d, oc, S, o), sv)
<1> DEFINE new == Marked(d, oc, S, o)
<1>1. new \in OutcomeMaps(d)
  BY DEF OutcomeMaps, Marked, Outcomes
<1>2. \A s \in StepIds(d) : new[s] = IF s \in S THEN o ELSE oc[s]
  BY DEF Marked
<1> HIDE DEF new
<1>3. Closed(d, new)
  <2>1. SUFFICES ASSUME NEW s \in StepIds(d), new[s] \in {"succeeded", "failed"},
                        NEW n \in Needs(d, s)
                 PROVE  new[n] # "none"
    BY DEF Closed
  <2>2. n \in StepIds(d)
    BY DEF New, ValidateSteps
  <2>3. oc[n] # "none"
    BY <1>2, <2>1 DEF Closed
  <2> QED
    BY <1>2, <2>2, <2>3
<1>4. Whole(d, new)
  <2>1. SUFFICES ASSUME NEW p \in Panels(d), NEW s \in p \cap StepIds(d),
                        NEW t \in p \cap StepIds(d), new[s] = "none"
                 PROVE  new[t] = "none"
    BY DEF Whole
  <2>2. s \in StepIds(d) /\ t \in StepIds(d)
    BY DEF New, ValidatePanels
  <2>3. s \notin S /\ t \notin S
    BY <1>2, <2>1, <2>2
  <2> QED
    BY <1>2, <2>1, <2>2, <2>3 DEF Whole
<1>5. sv # NoCheckpoint => Final(d, new, sv)
  BY <1>2 DEF Final
<1> QED
  BY <1>1, <1>3, <1>4, <1>5 DEF new

\* The outcomes of module Flow.
LEMMA MarkIs == \A S, o : Mark(S, o) = Marked(def, outcomes, S, o)
  BY DEF Mark, Marked, Ids

-----------------------------------------------------------------------------
(* The ends of a step of the walk.                                         *)

Walking == pc \notin {"new", "stopped"}

\* The definition of a walk was accepted.
LEMMA Accepted ==
  ASSUME FlowInv, Walking
  PROVE  def \in Definitions /\ New(def)
  BY DEF FlowInv, Walking

\* The walk returns with e.
LEMMA StopStep ==
  ASSUME FlowInv, Walking, NEW e, Stop(e), saved' = saved,
         e # "rejected",
         /\ outcomes' \in OutcomeMaps(def)
         /\ Closed(def, outcomes') /\ Whole(def, outcomes')
         /\ saved # NoCheckpoint => Final(def, outcomes', saved),
         e = "nil" => NoFailureSwallowed', e = "stalled" => ~PanelsSchedulable(def)
  PROVE  FlowInv'
<1>1. /\ pc' = "stopped" /\ err' = e /\ def' = def /\ seed' = seed
      /\ pending' = [s \in StepIds(def) |-> {}]
  BY DEF Stop, NothingPending, Ids
<1>2. Pend(def, outcomes', pending')
  BY <1>1 DEF Pend
<1>3. Walked(def, outcomes', pending', saved', seed', pc')
  BY <1>1, <1>2 DEF Walked, FlowInv
<1>4. Place(def, outcomes', saved', pc', local')
  BY <1>1 DEF Place, Stop, Idle
<1>5. New(def) /\ def \in Definitions
  BY Accepted
<1>6. NoFailureSwallowed'
  BY <1>1 DEF NoFailureSwallowed
<1>7. StallsOnlyOnPanels'
  BY <1>1 DEF StallsOnlyOnPanels
<1> QED
  BY <1>1, <1>3, <1>4, <1>5, <1>6, <1>7 DEF FlowInv

\* The walk goes on, at p.
LEMMA OnStep ==
  ASSUME FlowInv, Walking, pc' \notin {"new", "stopped"},
         UNCHANGED <<def, err, seed>>,
         Walked(def, outcomes', pending', saved', seed, pc'),
         Place(def, outcomes', saved', pc', local')
  PROVE  FlowInv'
<1>1. err = "none" /\ err' = "none" /\ def' = def
  BY DEF FlowInv, Walking
<1>2. NoFailureSwallowed' /\ StallsOnlyOnPanels'
  BY <1>1 DEF NoFailureSwallowed, StallsOnlyOnPanels
<1>3. New(def) /\ def \in Definitions
  BY Accepted
<1> QED
  BY <1>1, <1>2, <1>3 DEF FlowInv

\* The walk goes on with its next group.
LEMMA ContinueStep ==
  ASSUME FlowInv, Walking, Continue, Walked(def, outcomes', pending', saved', seed, "loop")
  PROVE  FlowInv'
<1>1. pc' = "loop" /\ UNCHANGED <<def, err, seed>>
  BY DEF Continue
<1>2. Place(def, outcomes', saved', pc', local')
  BY <1>1 DEF Place, Continue, Idle
<1> QED
  BY <1>1, <1>2, OnStep

\* The step under way goes on at label.
LEMMA GotoStep ==
  ASSUME FlowInv, Walking, NEW label, NEW l, Goto(label, l),
         label \notin {"new", "stopped"}, Place(def, outcomes, saved, label, l)
  PROVE  FlowInv'
<1>1. /\ pc' = label /\ local' = l
      /\ UNCHANGED <<def, outcomes, pending, err, saved, seed>>
  BY DEF Goto
<1>2. Walked(def, outcomes, pending, saved, seed, label)
  BY DEF FlowInv, Walked, Walking
<1>3. Walked(def, outcomes', pending', saved', seed, pc')
  BY <1>1, <1>2
<1>4. Place(def, outcomes', saved', pc', local')
  BY <1>1
<1> QED
  BY <1>1, <1>3, <1>4, OnStep

-----------------------------------------------------------------------------
(* Pending failures.                                                       *)

\* h is a fallback of f.
FallbackOf(d, h, f) == d.steps[h].when = "OnFailed" /\ f \in Needs(d, h)

\* One step ends, with E for its own entry: the entries it was part of end
\* with it, as it has run.
LEMMA PruneEnds ==
  ASSUME NEW d, NEW oc \in OutcomeMaps(d), NEW pe, NEW sd,
         Pend(d, oc, pe), Caught(d, oc, pe, sd),
         NEW s \in StepIds(d), oc[s] \in {"none", "succeeded"},
         NEW o \in {"succeeded", "failed"}, NEW E \in SUBSET StepIds(d),
         \A h \in E : FallbackOf(d, h, s) /\ Marked(d, oc, {s}, o)[h] = "none",
         E # {} <=> o = "failed",
         NEW pe2 \in [StepIds(d) -> SUBSET StepIds(d)],
         \A f \in StepIds(d) :
           pe2[f] = IF f = s THEN E ELSE IF s \in pe[f] THEN {} ELSE pe[f]
  PROVE  Pend(d, Marked(d, oc, {s}, o), pe2) /\ Caught(d, Marked(d, oc, {s}, o), pe2, sd)
<1> DEFINE new == Marked(d, oc, {s}, o)
<1>1. \A t \in StepIds(d) : new[t] = IF t = s THEN o ELSE oc[t]
  BY DEF Marked
<1> HIDE DEF new
<1>2. pe \in [StepIds(d) -> SUBSET StepIds(d)]
  BY DEF Pend
<1>3. ASSUME NEW f \in StepIds(d), NEW h \in pe2[f]
      PROVE  /\ d.steps[h].when = "OnFailed" /\ f \in Needs(d, h)
             /\ new[h] = "none" /\ new[f] = "failed"
  <2>1. h \in StepIds(d)
    BY <1>3
  <2>2. CASE f = s
    BY <1>1, <1>3, <2>2 DEF FallbackOf, new
  <2>3. CASE f # s
    <3>1. h \in pe[f] /\ h # s
      BY <1>3, <2>3
    <3> QED
      BY <1>1, <2>1, <2>3, <3>1 DEF Pend
  <2> QED
    BY <2>2, <2>3
<1>4. Pend(d, new, pe2)
  BY <1>3 DEF Pend
<1>5. Caught(d, new, pe2, sd)
  <2>1. SUFFICES ASSUME NEW f \in StepIds(d), new[f] = "failed", sd[f] = "none"
                 PROVE  \/ pe2[f] # {}
                        \/ \E h \in StepIds(d) :
                             /\ d.steps[h].when = "OnFailed" /\ f \in Needs(d, h)
                             /\ new[h] \in {"succeeded", "failed"}
    BY DEF Caught
  <2>2. CASE f = s
    BY <1>1, <2>1, <2>2
  <2>3. CASE f # s
    <3>1. oc[f] = "failed"
      BY <1>1, <2>1, <2>3
    <3>2. CASE s \in pe[f]
      <4>1. d.steps[s].when = "OnFailed" /\ f \in Needs(d, s) /\ new[s] = o
        BY <1>1, <3>2 DEF Pend
      <4> QED
        BY <4>1
    <3>3. CASE s \notin pe[f] /\ pe[f] # {}
      BY <2>3, <3>3
    <3>4. CASE pe[f] = {}
      <4>1. PICK h \in StepIds(d) : /\ d.steps[h].when = "OnFailed" /\ f \in Needs(d, h)
                                    /\ oc[h] \in {"succeeded", "failed"}
        BY <2>1, <3>1, <3>4 DEF Caught
      <4>2. new[h] \in {"succeeded", "failed"}
        BY <1>1, <4>1
      <4> QED
        BY <4>1, <4>2
    <3> QED
      BY <3>2, <3>3, <3>4
  <2> QED
    BY <2>2, <2>3
<1> QED
  BY <1>4, <1>5 DEF new

\* Several steps end, none of which is a fallback somebody waits for; those
\* that fail get entries.
LEMMA GroupEnds ==
  ASSUME NEW d, NEW oc \in OutcomeMaps(d), NEW pe, NEW sd,
         Pend(d, oc, pe), Caught(d, oc, pe, sd),
         NEW S \in SUBSET StepIds(d), \A s \in S : oc[s] \in {"none", "skipped"},
         NEW o \in {"succeeded", "failed", "skipped"},
         NEW pe2 \in [StepIds(d) -> SUBSET StepIds(d)],
         \A f \in StepIds(d) : pe2[f] \cap S = {},
         \A f \in StepIds(d) \ S : pe2[f] \subseteq pe[f] /\ (pe[f] # {} => pe2[f] # {}),
         \A f \in S : \A h \in pe2[f] :
           /\ FallbackOf(d, h, f) /\ Marked(d, oc, S, o)[h] = "none" /\ o = "failed",
         o = "failed" => \A f \in S : pe2[f] # {}
  PROVE  Pend(d, Marked(d, oc, S, o), pe2) /\ Caught(d, Marked(d, oc, S, o), pe2, sd)
<1> DEFINE new == Marked(d, oc, S, o)
<1>1. \A t \in StepIds(d) : new[t] = IF t \in S THEN o ELSE oc[t]
  BY DEF Marked
<1> HIDE DEF new
<1>2. pe \in [StepIds(d) -> SUBSET StepIds(d)]
  BY DEF Pend
<1>3. ASSUME NEW f \in StepIds(d), NEW h \in pe2[f]
      PROVE  /\ d.steps[h].when = "OnFailed" /\ f \in Needs(d, h)
             /\ new[h] = "none" /\ new[f] = "failed"
  <2>1. h \in StepIds(d) /\ h \notin S
    BY <1>3
  <2>2. CASE f \in S
    BY <1>1, <1>3, <2>2 DEF FallbackOf, new
  <2>3. CASE f \notin S
    <3>1. h \in pe[f]
      BY <1>3, <2>3
    <3> QED
      BY <1>1, <2>1, <2>3, <3>1 DEF Pend
  <2> QED
    BY <2>2, <2>3
<1>4. Pend(d, new, pe2)
  BY <1>3 DEF Pend
<1>5. Caught(d, new, pe2, sd)
  <2>1. SUFFICES ASSUME NEW f \in StepIds(d), new[f] = "failed", sd[f] = "none"
                 PROVE  \/ pe2[f] # {}
                        \/ \E h \in StepIds(d) :
                             /\ d.steps[h].when = "OnFailed" /\ f \in Needs(d, h)
                             /\ new[h] \in {"succeeded", "failed"}
    BY DEF Caught
  <2>2. CASE f \in S
    BY <1>1, <2>1, <2>2
  <2>3. CASE f \notin S
    <3>1. oc[f] = "failed"
      BY <1>1, <2>1, <2>3
    <3>2. CASE pe[f] # {}
      BY <2>3, <3>2
    <3>3. CASE pe[f] = {}
      <4>1. PICK h \in StepIds(d) : /\ d.steps[h].when = "OnFailed" /\ f \in Needs(d, h)
                                    /\ oc[h] \in {"succeeded", "failed"}
        BY <2>1, <3>1, <3>3 DEF Caught
      <4>2. new[h] \in {"succeeded", "failed"}
        BY <1>1, <4>1
      <4> QED
        BY <4>1, <4>2
    <3> QED
      BY <3>2, <3>3
  <2> QED
    BY <2>2, <2>3
<1> QED
  BY <1>4, <1>5 DEF new

-----------------------------------------------------------------------------
(* The steps of the walk.                                                  *)

\* resolveCatchable, for a step that is due or whose Route failed.
LEMMA CatchStep ==
  ASSUME FlowInv, Walking, NEW s \in StepIds(def), NEW kind, NEW entries,
         ResolveCatchable(s, kind, entries),
         entries \in [StepIds(def) -> SUBSET StepIds(def)],
         \A f \in StepIds(def) \ {s} :
           entries[f] = IF s \in pending[f] THEN {} ELSE pending[f],
         outcomes[s] \in {"none", "succeeded"}, Alone(def, s),
         \A n \in Needs(def, s) : outcomes[n] # "none",
         outcomes[s] = "none" \/ (saved # NoCheckpoint => saved.outcomes[s] = "none")
  PROVE  FlowInv'
<1> DEFINE new == Marked(def, outcomes, {s}, "failed")
           handlers == FailureHandlersFor(s, new)
<1>1. def \in Definitions /\ New(def)
  BY Accepted
<1>2. Walked(def, outcomes, pending, saved, seed, pc) /\ pc # "stopped"
  BY DEF FlowInv, Walking
<1>3. /\ outcomes \in OutcomeMaps(def) /\ seed \in OutcomeMaps(def)
      /\ Closed(def, outcomes) /\ Whole(def, outcomes)
      /\ saved # NoCheckpoint => Final(def, outcomes, saved)
      /\ Pend(def, outcomes, pending) /\ Caught(def, outcomes, pending, seed)
  BY <1>2 DEF Walked
<1>4. \A p \in Panels(def) : \A t \in {s} : t \in p => p \subseteq {s}
  BY DEF Alone
<1>5. /\ new \in OutcomeMaps(def) /\ Closed(def, new) /\ Whole(def, new)
      /\ saved # NoCheckpoint => Final(def, new, saved)
  BY <1>1, <1>3, <1>4, Marks
<1>6. outcomes' = new /\ saved' = saved
  BY MarkIs DEF ResolveCatchable
<1>7. \/ /\ handlers # {} /\ pending' = [entries EXCEPT ![s] = handlers] /\ Continue
      \/ \E e \in {"norow", "failed"} : Stop(e)
  BY MarkIs DEF ResolveCatchable
<1>8. handlers \subseteq StepIds(def)
      /\ \A h \in handlers : FallbackOf(def, h, s) /\ new[h] = "none"
  BY DEF FailureHandlersFor, FallbackOf, Ids
<1> HIDE DEF handlers
<1>9. CASE \E e \in {"norow", "failed"} : Stop(e)
  <2>1. PICK e \in {"norow", "failed"} : Stop(e)
    BY <1>9
  <2> HIDE DEF new
  <2> QED
    BY <1>5, <1>6, <2>1, StopStep
<1>10. CASE handlers # {} /\ pending' = [entries EXCEPT ![s] = handlers] /\ Continue
  <2>1. pending' \in [StepIds(def) -> SUBSET StepIds(def)]
    BY <1>8, <1>10
  <2>2. \A f \in StepIds(def) :
          pending'[f] = IF f = s THEN handlers
                        ELSE IF s \in pending[f] THEN {} ELSE pending[f]
    BY <1>10
  <2>3. Pend(def, new, pending') /\ Caught(def, new, pending', seed)
    <3>1. handlers \in SUBSET StepIds(def) /\ (handlers # {} <=> "failed" = "failed")
      BY <1>8, <1>10
    <3>2. \A h \in handlers : FallbackOf(def, h, s) /\ Marked(def, outcomes, {s}, "failed")[h] = "none"
      BY <1>8
    <3> HIDE DEF new
    <3> QED
      BY <1>3, <2>1, <2>2, <3>1, <3>2, PruneEnds DEF new
  <2> HIDE DEF new
  <2>4. Walked(def, outcomes', pending', saved', seed, "loop")
    BY <1>3, <1>5, <1>6, <2>3 DEF Walked
  <2> QED
    BY <1>10, <2>4, ContinueStep
<1> QED
  BY <1>7, <1>9, <1>10

\* The step under way fails.
LEMMA FailsStep ==
  ASSUME FlowInv, pc \in {"fire", "sleep", "child", "confirm"}, NEW kind, StepFails(kind)
  PROVE  FlowInv'
<1> DEFINE s == local.step
           entries == PrunePendingHandler(s)
<1>1. Due(def, outcomes, s) /\ Alone(def, s) /\ Walking
  BY DEF FlowInv, Place, Walking
<1>2. Pend(def, outcomes, pending)
  BY DEF FlowInv, Walked
<1>3. /\ entries \in [StepIds(def) -> SUBSET StepIds(def)]
      /\ \A f \in StepIds(def) : entries[f] = IF s \in pending[f] THEN {} ELSE pending[f]
  BY <1>2 DEF PrunePendingHandler, Pend, Ids
<1>4. ResolveCatchable(s, kind, entries)
  BY DEF StepFails
<1> HIDE DEF s, entries
<1> QED
  BY <1>1, <1>3, <1>4, CatchStep DEF Due

\* Route fails: the step that was marked succeeded is marked failed, and no
\* checkpoint has told of it.
LEMMA RouteFailsStep ==
  ASSUME FlowInv, RouteFails
  PROVE  FlowInv'
<1> DEFINE s == local.step
<1>1. Routing(def, outcomes, saved, s) /\ Walking
  BY DEF FlowInv, Place, Walking, RouteFails
<1>2. Pend(def, outcomes, pending) /\ Closed(def, outcomes)
  BY DEF FlowInv, Walked
<1>3. def \in Definitions /\ New(def)
  BY <1>1, Accepted
<1>4. ~InPanel(def, s)
  BY <1>1, <1>3 DEF Routing, New, ValidateRouting
<1>5. Alone(def, s)
  BY <1>4 DEF InPanel, Alone
<1>6. \A f \in StepIds(def) : s \notin pending[f]
  BY <1>1, <1>2 DEF Pend, Routing
<1>7. pending \in [StepIds(def) -> SUBSET StepIds(def)]
  BY <1>2 DEF Pend
<1>8. \A n \in Needs(def, s) : outcomes[n] # "none"
  BY <1>1, <1>2 DEF Closed, Routing
<1>9. ResolveCatchable(s, "fire", pending)
  BY DEF RouteFails
<1> HIDE DEF s
<1> QED
  BY <1>1, <1>5, <1>6, <1>7, <1>8, <1>9, CatchStep DEF Routing

\* What the invariant says of a walk.
LEMMA WalkingFacts ==
  ASSUME FlowInv, Walking
  PROVE  /\ outcomes \in OutcomeMaps(def) /\ seed \in OutcomeMaps(def)
         /\ Closed(def, outcomes) /\ Whole(def, outcomes)
         /\ saved # NoCheckpoint => Final(def, outcomes, saved)
         /\ Pend(def, outcomes, pending) /\ Caught(def, outcomes, pending, seed)
  BY DEF FlowInv, Walking, Walked

\* The checkpoint just delivered is final.
LEMMA NewCheckpoint ==
  ASSUME NEW d, NEW oc \in OutcomeMaps(d), Closed(d, oc), Whole(d, oc),
         NEW sv, sv.outcomes = oc
  PROVE  Final(d, oc, sv)
  BY DEF Final

\* Confirm accepts a step, which is checkpointed unless it routes.
LEMMA ConfirmsStep ==
  ASSUME FlowInv, Confirms
  PROVE  FlowInv'
<1> DEFINE s == local.step
           new == Marked(def, outcomes, {s}, "succeeded")
<1>1. Due(def, outcomes, s) /\ Alone(def, s) /\ Walking
  BY DEF FlowInv, Place, Walking, Confirms
<1>2. def \in Definitions /\ New(def)
  BY <1>1, Accepted
<1>3. /\ outcomes \in OutcomeMaps(def) /\ seed \in OutcomeMaps(def)
      /\ Closed(def, outcomes) /\ Whole(def, outcomes)
      /\ saved # NoCheckpoint => Final(def, outcomes, saved)
      /\ Pend(def, outcomes, pending) /\ Caught(def, outcomes, pending, seed)
  BY <1>1, WalkingFacts
<1>4. outcomes' = new /\ pending' = PrunePendingHandler(s)
  BY MarkIs DEF Confirms
<1>5. \/ /\ Current.route /\ pc' = "route" /\ saved' = saved
         /\ UNCHANGED <<def, local, err, seed>>
      \/ Continue /\ saved' = [status |-> cur, outcomes |-> outcomes']
  BY DEF Confirms, FireCheckpoint
<1>6. Current = def.steps[s]
  BY DEF Current
<1> HIDE DEF s
<1>7. /\ new \in OutcomeMaps(def) /\ Closed(def, new) /\ Whole(def, new)
      /\ saved # NoCheckpoint => Final(def, new, saved)
  <2>1. \A p \in Panels(def) : \A t \in {s} : t \in p => p \subseteq {s}
    BY <1>1 DEF Alone
  <2> QED
    BY <1>1, <1>2, <1>3, <2>1, Marks DEF Due
<1>8. Pend(def, new, pending') /\ Caught(def, new, pending', seed)
  <2>1. pending[s] = {}
    BY <1>1, <1>3 DEF Pend, Due
  <2>2. /\ pending' \in [StepIds(def) -> SUBSET StepIds(def)]
        /\ \A f \in StepIds(def) : pending'[f] = IF s \in pending[f] THEN {} ELSE pending[f]
    BY <1>3, <1>4 DEF PrunePendingHandler, Pend, Ids
  <2>3. \A f \in StepIds(def) :
          pending'[f] = IF f = s THEN {} ELSE IF s \in pending[f] THEN {} ELSE pending[f]
    BY <2>1, <2>2
  <2>4. \A h \in {} : FallbackOf(def, h, s) /\ Marked(def, outcomes, {s}, "succeeded")[h] = "none"
    OBVIOUS
  <2>5. {} \in SUBSET StepIds(def) /\ ({} # {} <=> "succeeded" = "failed")
    OBVIOUS
  <2> HIDE DEF new
  <2> QED
    BY <1>1, <1>3, <2>2, <2>3, <2>4, <2>5, PruneEnds DEF new, Due
<1>9. \A t \in StepIds(def) : new[t] = IF t = s THEN "succeeded" ELSE outcomes[t]
  BY DEF Marked
<1> HIDE DEF new
<1>10. CASE Continue /\ saved' = [status |-> cur, outcomes |-> outcomes']
  <2>1. saved'.outcomes = new
    BY <1>4, <1>10
  <2>2. Final(def, new, saved')
    BY <1>7, <2>1, NewCheckpoint
  <2>3. Walked(def, outcomes', pending', saved', seed, "loop")
    BY <1>3, <1>4, <1>7, <1>8, <2>2 DEF Walked
  <2> QED
    BY <1>1, <1>10, <2>3, ContinueStep
<1>11. CASE /\ Current.route /\ pc' = "route" /\ saved' = saved
            /\ UNCHANGED <<def, local, err, seed>>
  <2>1. Walked(def, outcomes', pending', saved', seed, pc')
    BY <1>3, <1>4, <1>7, <1>8, <1>11 DEF Walked
  <2>2. saved # NoCheckpoint => saved.outcomes[s] = "none"
    BY <1>1, <1>3 DEF Final, Due
  <2>3. \A t \in DirectDependents(def, s) : new[t] \in {"none", "skipped"}
    <3>1. SUFFICES ASSUME NEW t \in StepIds(def), s \in Needs(def, t)
                   PROVE  new[t] \in {"none", "skipped"}
      BY DEF DirectDependents
    <3>2. t # s
      BY <1>1, <3>1 DEF Due
    <3>3. outcomes[t] \in {"none", "skipped"}
      BY <1>1, <1>3, <3>1 DEF Closed, Due, OutcomeMaps, Outcomes
    <3> QED
      BY <1>9, <3>2, <3>3
  <2>4. Routing(def, outcomes', saved', s)
    BY <1>1, <1>4, <1>6, <1>9, <1>11, <2>2, <2>3 DEF Routing, Due
  <2>5. Place(def, outcomes', saved', pc', local')
    BY <1>11, <2>4 DEF Place, s, FlowInv
  <2> QED
    BY <1>1, <1>11, <2>1, <2>5, OnStep
<1> QED
  BY <1>5, <1>10, <1>11

\* applyRoute and prunePendingOnRoute.
LEMMA RoutesStep ==
  ASSUME FlowInv, NEW kept \in SUBSET Ids, Routes(kept)
  PROVE  FlowInv'
<1> DEFINE s == local.step
           deps == DirectDependents(def, s)
           S == deps \ kept
           new == Marked(def, outcomes, S, "skipped")
           skipped == {t \in deps : new[t] = "skipped"}
           left == [t \in StepIds(def) |-> pending[t] \ skipped]
<1>1. Routing(def, outcomes, saved, s) /\ Walking
  BY DEF FlowInv, Place, Walking, Routes
<1>2. def \in Definitions /\ New(def)
  BY <1>1, Accepted
<1>3. /\ outcomes \in OutcomeMaps(def) /\ seed \in OutcomeMaps(def)
      /\ Closed(def, outcomes) /\ Whole(def, outcomes)
      /\ saved # NoCheckpoint => Final(def, outcomes, saved)
      /\ Pend(def, outcomes, pending) /\ Caught(def, outcomes, pending, seed)
  BY <1>1, WalkingFacts
<1>4. /\ outcomes' = new
      /\ \/ Stop("failed") /\ saved' = saved
         \/ /\ ~(\E t \in StepIds(def) : pending[t] # {} /\ left[t] = {})
            /\ pending' = left /\ Continue
            /\ saved' = [status |-> cur, outcomes |-> new]
  BY MarkIs DEF Routes, FireCheckpoint, Ids
<1>5. S \in SUBSET StepIds(def) /\ \A t \in S : outcomes[t] \in {"none", "skipped"}
  BY <1>1 DEF Routing, DirectDependents
<1>6. \A p \in Panels(def) : \A t \in S : t \notin p
  BY <1>1, <1>2 DEF Routing, New, ValidateRouting, InPanel
<1>7. /\ new \in OutcomeMaps(def) /\ Closed(def, new) /\ Whole(def, new)
      /\ saved # NoCheckpoint => Final(def, new, saved)
  <2> HIDE DEF S
  <2> QED
    BY <1>2, <1>3, <1>5, <1>6, Marks
<1>8. CASE Stop("failed") /\ saved' = saved
  <2> HIDE DEF new
  <2> QED
    BY <1>1, <1>4, <1>7, <1>8, StopStep
<1>9. CASE /\ ~(\E t \in StepIds(def) : pending[t] # {} /\ left[t] = {})
           /\ pending' = left /\ Continue
           /\ saved' = [status |-> cur, outcomes |-> new]
  <2>1. left \in [StepIds(def) -> SUBSET StepIds(def)]
    BY <1>3 DEF Pend
  <2>2. \A f \in StepIds(def) : left[f] = pending[f] \ skipped
    OBVIOUS
  <2>3. \A t \in S : new[t] = "skipped" /\ t \in deps
    BY <1>5 DEF Marked
  <2>4. S \subseteq skipped
    BY <2>3
  <2>5. \A f \in S : pending[f] = {}
    BY <1>3, <1>5 DEF Pend
  <2>6. \A f \in StepIds(def) : pending[f] # {} => left[f] # {}
    BY <1>9
  <2> HIDE DEF S, skipped, left
  <2>7. \A f \in StepIds(def) : left[f] \cap S = {}
    BY <2>2, <2>4
  <2>8. \A f \in StepIds(def) \ S : left[f] \subseteq pending[f] /\ (pending[f] # {} => left[f] # {})
    BY <2>2, <2>6
  <2>9. \A f \in S : left[f] = {}
    BY <1>5, <2>2, <2>5
  <2>10. Pend(def, new, left) /\ Caught(def, new, left, seed)
    BY <1>3, <1>5, <2>1, <2>7, <2>8, <2>9, GroupEnds
  <2>11. saved'.outcomes = new
    BY <1>9
  <2> HIDE DEF new
  <2>12. Final(def, new, saved')
    BY <1>7, <2>11, NewCheckpoint
  <2>13. Walked(def, outcomes', pending', saved', seed, "loop")
    BY <1>3, <1>4, <1>7, <1>9, <2>10, <2>12 DEF Walked
  <2> QED
    BY <1>1, <1>9, <2>13, ContinueStep
<1> QED
  BY <1>4, <1>8, <1>9

\* A group that failed admission is skipped.
LEMMA SkipStep ==
  ASSUME FlowInv, Skip
  PROVE  FlowInv'
<1> DEFINE s == NextReady
           S == Group(s)
           new == Marked(def, outcomes, S, "skipped")
<1>1. Walking /\ Ready # {} /\ Verdict(s, outcomes) = "skip"
  BY DEF Skip, Scanning, Walking
<1>2. def \in Definitions /\ New(def)
  BY <1>1, Accepted
<1>3. /\ outcomes \in OutcomeMaps(def) /\ seed \in OutcomeMaps(def)
      /\ Closed(def, outcomes) /\ Whole(def, outcomes)
      /\ saved # NoCheckpoint => Final(def, outcomes, saved)
      /\ Pend(def, outcomes, pending) /\ Caught(def, outcomes, pending, seed)
  BY <1>1, WalkingFacts
<1>4. outcomes' = new /\ Continue /\ UNCHANGED <<pending, saved>>
  BY MarkIs DEF Skip
<1>5. s \in Ready
  BY <1>1, <1>2, NextIsReady
<1> HIDE DEF s
<1>6. /\ S \in SUBSET StepIds(def) /\ \A t \in S : Due(def, outcomes, t)
      /\ \A p \in Panels(def) : \A t \in S : t \in p => p = S
  BY <1>2, <1>5, ReadyGroup DEF Ids
<1>7. \A f \in StepIds(def) : \A h \in pending[f] : h \notin S
  BY <1>1, <1>2, <1>3, <1>5, SkipsNoFallback DEF Pend
<1> HIDE DEF S
<1>8. /\ new \in OutcomeMaps(def) /\ Closed(def, new) /\ Whole(def, new)
      /\ saved # NoCheckpoint => Final(def, new, saved)
  BY <1>2, <1>3, <1>6, Marks DEF Due
<1>9. Pend(def, new, pending) /\ Caught(def, new, pending, seed)
  <2>1. \A f \in S : pending[f] = {}
    BY <1>3, <1>6 DEF Pend, Due
  <2>2. pending \in [StepIds(def) -> SUBSET StepIds(def)]
    BY <1>3 DEF Pend
  <2>3. \A f \in StepIds(def) : pending[f] \cap S = {}
    BY <1>7
  <2>4. \A t \in S : outcomes[t] \in {"none", "skipped"}
    BY <1>6 DEF Due
  <2> QED
    BY <1>3, <1>6, <2>1, <2>2, <2>3, <2>4, GroupEnds
<1> HIDE DEF new
<1>10. Walked(def, outcomes', pending', saved', seed, "loop")
  BY <1>3, <1>4, <1>8, <1>9 DEF Walked
<1> QED
  BY <1>1, <1>4, <1>10, ContinueStep

\* runSingleton begins.
LEMMA BeginStep ==
  ASSUME FlowInv, Begin
  PROVE  FlowInv'
<1> DEFINE s == NextReady
           l == [Idle EXCEPT !.step = s, !.failure = FailureForStep(s)]
<1>1. Walking /\ Ready # {} /\ Cardinality(Group(s)) = 1
  BY DEF Begin, Scanning, Walking
<1>2. PICK label \in {"child", "fire"} : Goto(label, l)
  BY DEF Begin
<1>3. def \in Definitions /\ New(def)
  BY <1>1, Accepted
<1>4. s \in Ready
  BY <1>1, <1>3, NextIsReady
<1>5. l.step = s /\ l = [field \in {"step", "count", "failure", "wave"} |-> l[field]]
  BY DEF Idle
<1> HIDE DEF s, l
<1>6. /\ Group(s) \subseteq StepIds(def) /\ s \in Group(s) /\ Due(def, outcomes, s)
      /\ \A p \in Panels(def) : s \in p => p = Group(s)
  BY <1>3, <1>4, ReadyGroup DEF Ids
<1>7. IsFiniteSet(Group(s))
  BY <1>3, <1>6, DefinitionType, FS_Subset
<1>8. Group(s) = {s}
  BY <1>1, <1>6, <1>7, FS_Singleton
<1>9. Place(def, outcomes, saved, label, l)
  BY <1>5, <1>6, <1>8 DEF Place, Alone
<1> QED
  BY <1>1, <1>2, <1>9, GotoStep

\* The members of a panel start together.
LEMMA WaveStartsStep ==
  ASSUME FlowInv, WaveStarts
  PROVE  FlowInv'
<1> DEFINE s == NextReady
           l == [Idle EXCEPT !.step = s, !.wave = [t \in Group(s) |-> "running"]]
<1>1. /\ Walking /\ Ready # {} /\ Cardinality(Group(s)) > 1
      /\ Goto("wave", l)
  BY DEF WaveStarts, Scanning, Walking
<1>2. def \in Definitions /\ New(def)
  BY <1>1, Accepted
<1>3. s \in Ready
  BY <1>1, <1>2, NextIsReady
<1>4. /\ DOMAIN l.wave = Group(s)
      /\ l = [field \in {"step", "count", "failure", "wave"} |-> l[field]]
  BY DEF Idle
<1> HIDE DEF s, l
<1>5. Group(s) # {s}
  <2>1. Cardinality({s}) = 1
    BY FS_Singleton
  <2>2. ~(1 > 1)
    OBVIOUS
  <2> QED
    BY <1>1, <2>1, <2>2
<1>6. Group(s) \in Panels(def) /\ \A t \in Group(s) : Due(def, outcomes, t)
  BY <1>2, <1>3, <1>5, ReadyGroup
<1>7. Place(def, outcomes, saved, "wave", l)
  BY <1>4, <1>6 DEF Place
<1> QED
  BY <1>1, <1>7, GotoStep

\* A member's goroutine ends.
LEMMA MemberStep ==
  ASSUME FlowInv, NEW s, NEW answer, MemberFires(s, answer)
  PROVE  FlowInv'
<1> DEFINE l == [local EXCEPT !.wave[s] = answer]
<1>1. pc = "wave" /\ Walking /\ Goto("wave", l)
  BY DEF MemberFires, Walking
<1>2. Place(def, outcomes, saved, "wave", local)
  BY <1>1 DEF FlowInv
<1>3. /\ DOMAIN l.wave = DOMAIN local.wave
      /\ l = [field \in {"step", "count", "failure", "wave"} |-> l[field]]
  BY <1>2 DEF Place
<1> HIDE DEF l
<1>4. Place(def, outcomes, saved, "wave", l)
  BY <1>2, <1>3 DEF Place
<1> QED
  BY <1>1, <1>4, GotoStep

\* All members have answered.
LEMMA JoinStep ==
  ASSUME FlowInv, WaveJoins
  PROVE  FlowInv'
<1> DEFINE S == DOMAIN local.wave
           good == Marked(def, outcomes, S, "succeeded")
           bad == Marked(def, outcomes, S, "failed")
<1>1. Walking /\ S \in Panels(def) /\ \A s \in S : Due(def, outcomes, s)
  BY DEF FlowInv, Place, Walking, WaveJoins
<1>2. def \in Definitions /\ New(def)
  BY <1>1, Accepted
<1>3. /\ outcomes \in OutcomeMaps(def) /\ seed \in OutcomeMaps(def)
      /\ Closed(def, outcomes) /\ Whole(def, outcomes)
      /\ saved # NoCheckpoint => Final(def, outcomes, saved)
      /\ Pend(def, outcomes, pending) /\ Caught(def, outcomes, pending, seed)
  BY <1>1, WalkingFacts
<1>4. \/ PanelFails(S)
      \/ /\ outcomes' = good /\ Continue /\ pending' = pending
         /\ saved' = [status |-> cur', outcomes |-> outcomes']
  BY MarkIs DEF WaveJoins, FireCheckpoint
<1> HIDE DEF S
<1>5. S \in SUBSET StepIds(def) /\ \A p \in Panels(def) : \A s \in S : s \in p => p = S
  <2>1. \A s \in S : InPanel(def, s)
    BY <1>1 DEF InPanel
  <2> QED
    BY <1>1, <1>2, <2>1, PanelOf
<1>6. \A o \in {"succeeded", "failed"} :
        LET new == Marked(def, outcomes, S, o)
        IN /\ new \in OutcomeMaps(def) /\ Closed(def, new) /\ Whole(def, new)
           /\ saved # NoCheckpoint => Final(def, new, saved)
  BY <1>1, <1>2, <1>3, <1>5, Marks DEF Due
<1>7. /\ good \in OutcomeMaps(def) /\ Closed(def, good) /\ Whole(def, good)
      /\ bad \in OutcomeMaps(def) /\ Closed(def, bad) /\ Whole(def, bad)
      /\ saved # NoCheckpoint => Final(def, bad, saved)
  BY <1>6
<1>8. \A h \in StepIds(def) : def.steps[h].when = "OnFailed" => h \notin S
  BY <1>1, <1>2 DEF New, ValidateFailureAdmission, InPanel
<1>9. /\ \A f \in S : pending[f] = {}
      /\ pending \in [StepIds(def) -> SUBSET StepIds(def)]
      /\ \A f \in StepIds(def) : pending[f] \cap S = {}
      /\ \A t \in S : outcomes[t] \in {"none", "skipped"}
  BY <1>1, <1>3, <1>5, <1>8 DEF Pend, Due
<1>10. CASE /\ outcomes' = good /\ Continue /\ pending' = pending
            /\ saved' = [status |-> cur', outcomes |-> outcomes']
  <2>1. Pend(def, good, pending) /\ Caught(def, good, pending, seed)
    BY <1>3, <1>5, <1>9, GroupEnds
  <2>2. saved'.outcomes = good
    BY <1>10
  <2> HIDE DEF good
  <2>3. Final(def, good, saved')
    BY <1>7, <2>2, NewCheckpoint
  <2>4. Walked(def, outcomes', pending', saved', seed, "loop")
    BY <1>3, <1>7, <1>10, <2>1, <2>3 DEF Walked
  <2> QED
    BY <1>1, <1>10, <2>4, ContinueStep
<1>11. CASE PanelFails(S)
  <2> DEFINE pe == [s \in StepIds(def) |-> IF s \in S THEN FailureHandlersFor(s, bad)
                                           ELSE pending[s]]
  <2>1. /\ outcomes' = bad /\ saved' = saved
        /\ \/ /\ \A s \in S : FailureHandlersFor(s, bad) # {}
              /\ pending' = pe /\ Continue
           \/ Stop("failed")
    BY <1>11, MarkIs DEF PanelFails, Ids
  <2>2. CASE Stop("failed")
    <3> HIDE DEF bad
    <3> QED
      BY <1>1, <1>7, <2>1, <2>2, StopStep
  <2>3. CASE /\ \A s \in S : FailureHandlersFor(s, bad) # {}
             /\ pending' = pe /\ Continue
    <3>1. \A f \in S : \A h \in FailureHandlersFor(f, bad) :
            h \in StepIds(def) /\ FallbackOf(def, h, f) /\ bad[h] = "none"
      BY DEF FailureHandlersFor, FallbackOf, Ids
    <3>2. \A h \in StepIds(def) : bad[h] = "none" => h \notin S
      BY DEF Marked
    <3>3. pe \in [StepIds(def) -> SUBSET StepIds(def)]
      BY <1>9, <3>1
    <3>4. \A f \in StepIds(def) :
            pe[f] = IF f \in S THEN FailureHandlersFor(f, bad) ELSE pending[f]
      OBVIOUS
    <3> HIDE DEF pe
    <3>5. \A f \in StepIds(def) : pe[f] \cap S = {}
      BY <1>9, <3>1, <3>2, <3>4
    <3>6. \A f \in StepIds(def) \ S : pe[f] \subseteq pending[f] /\ (pending[f] # {} => pe[f] # {})
      BY <3>4
    <3>7. \A f \in S : pe[f] # {} /\ \A h \in pe[f] : FallbackOf(def, h, f) /\ bad[h] = "none"
      BY <1>5, <2>3, <3>1, <3>4
    <3>8. Pend(def, bad, pe) /\ Caught(def, bad, pe, seed)
      BY <1>3, <1>5, <1>9, <3>3, <3>5, <3>6, <3>7, GroupEnds
    <3> HIDE DEF bad
    <3>9. Walked(def, outcomes', pending', saved', seed, "loop")
      BY <1>3, <1>7, <2>1, <2>3, <3>8 DEF Walked
    <3> QED
      BY <1>1, <2>3, <3>9, ContinueStep
  <2> QED
    BY <2>1, <2>2, <2>3
<1> QED
  BY <1>4, <1>10, <1>11

\* The walk returns and the outcomes stay as they are.
LEMMA ReturnStep ==
  ASSUME FlowInv, Walking, NEW e, Stop(e), UNCHANGED <<outcomes, saved>>,
         e # "rejected", e = "nil" => NoFailureSwallowed',
         e = "stalled" => ~PanelsSchedulable(def)
  PROVE  FlowInv'
<1>1. /\ outcomes' \in OutcomeMaps(def)
      /\ Closed(def, outcomes') /\ Whole(def, outcomes')
      /\ saved # NoCheckpoint => Final(def, outcomes', saved)
  BY WalkingFacts
<1> QED
  BY <1>1, StopStep

\* All steps are resolved: no fallback is to come, so each failure of this
\* call has met one that ran.
LEMMA FinishStep ==
  ASSUME FlowInv, Finish
  PROVE  FlowInv'
<1>1. /\ Walking /\ Unresolved = {} /\ Stop("nil") /\ UNCHANGED <<outcomes, saved>>
      /\ def' = def /\ seed' = seed
  BY DEF Finish, Walking, Stop
<1>2. Caught(def, outcomes, pending, seed) /\ Pend(def, outcomes, pending)
  BY <1>1, WalkingFacts
<1>3. \A f \in StepIds(def) : pending[f] = {}
  BY <1>1, <1>2 DEF Pend, Unresolved, Ids
<1>4. \A f \in StepIds(def) : outcomes[f] = "failed" /\ seed[f] = "none" =>
        \E h \in StepIds(def) : /\ def.steps[h].when = "OnFailed" /\ f \in Needs(def, h)
                                /\ outcomes[h] \in {"succeeded", "failed"}
  BY <1>2, <1>3 DEF Caught
<1>5. NoFailureSwallowed'
  <2>1. \A f \in FailedHere' : \E h \in Handlers(f)' : Ran(h)'
    BY <1>1, <1>4 DEF FailedHere, Handlers, Ran, Ids
  <2> QED
    BY <2>1 DEF NoFailureSwallowed
<1> QED
  BY <1>1, <1>5, ReturnStep

\* No group is ready.
LEMMA StallStep ==
  ASSUME FlowInv, Stall
  PROVE  FlowInv'
<1>1. /\ Walking /\ Unresolved # {} /\ Ready = {} /\ Stop("stalled")
      /\ UNCHANGED <<outcomes, saved>>
  BY DEF Stall, Scanning, Walking
<1>2. ~PanelsSchedulable(def)
  BY <1>1, Accepted, WalkingFacts, NeverStuck
<1> QED
  BY <1>1, <1>2, ReturnStep

\* The step under way goes on: it stays the one that is due.
LEMMA StaysStep ==
  ASSUME FlowInv, pc \in {"fire", "sleep", "child"},
         NEW label \in {"fire", "sleep", "child", "confirm"}, NEW l, Goto(label, l),
         l = local \/ l = [local EXCEPT !.count = @ + 1]
  PROVE  FlowInv'
<1>1. Place(def, outcomes, saved, pc, local) /\ Walking
  BY DEF FlowInv, Walking
<1>2. l.step = local.step /\ l = [field \in {"step", "count", "failure", "wave"} |-> l[field]]
  BY <1>1 DEF Place
<1>3. Place(def, outcomes, saved, label, l)
  BY <1>1, <1>2 DEF Place
<1> QED
  BY <1>1, <1>3, GotoStep

\* Another call starts from the last checkpoint, or from nothing.
LEMMA ResumeStep ==
  ASSUME FlowInv, Resume
  PROVE  FlowInv'
<1> DEFINE fresh == [s \in StepIds(def) |-> "none"]
<1>1. /\ pc' = "loop" /\ err' = "none" /\ UNCHANGED <<def, local, saved>>
      /\ outcomes' = (IF saved = NoCheckpoint THEN fresh ELSE saved.outcomes)
      /\ seed' = outcomes' /\ pending' = [s \in StepIds(def) |-> {}]
      /\ pc = "stopped" /\ err # "rejected"
  BY DEF Resume, NothingPending, Ids
<1>2. def \in Definitions /\ New(def)
  BY <1>1 DEF FlowInv
<1>3. Walked(def, outcomes, pending, saved, seed, pc)
  BY DEF FlowInv
<1>4. /\ outcomes' \in OutcomeMaps(def) /\ Closed(def, outcomes') /\ Whole(def, outcomes')
      /\ saved # NoCheckpoint => Final(def, outcomes', saved)
  <2>1. CASE saved = NoCheckpoint
    <3>1. fresh \in OutcomeMaps(def) /\ \A s \in StepIds(def) : fresh[s] = "none"
      BY DEF OutcomeMaps, Outcomes
    <3>2. outcomes' = fresh
      BY <1>1, <2>1
    <3> HIDE DEF fresh
    <3>3. Closed(def, fresh)
      BY <3>1 DEF Closed
    <3>4. Whole(def, fresh)
      BY <1>2, <3>1 DEF Whole, New, ValidatePanels
    <3> QED
      BY <2>1, <3>1, <3>2, <3>3, <3>4
  <2>2. CASE saved # NoCheckpoint
    <3>1. Final(def, outcomes, saved) /\ outcomes' = saved.outcomes
      BY <1>1, <1>3, <2>2 DEF Walked
    <3> QED
      BY <3>1 DEF Final
  <2> QED
    BY <2>1, <2>2
<1>5. Pend(def, outcomes', pending')
  BY <1>1 DEF Pend
<1>6. Caught(def, outcomes', pending', seed')
  BY <1>1 DEF Caught
<1>7. Walked(def, outcomes', pending', saved', seed', pc')
  BY <1>1, <1>4, <1>5, <1>6 DEF Walked
<1>8. Place(def, outcomes', saved', pc', local')
  BY <1>1 DEF Place, FlowInv
<1>9. NoFailureSwallowed' /\ StallsOnlyOnPanels'
  BY <1>1 DEF NoFailureSwallowed, StallsOnlyOnPanels
<1> QED
  BY <1>1, <1>2, <1>7, <1>8, <1>9 DEF FlowInv

\* New is asked about the definition.
LEMMA NewStep ==
  ASSUME FlowInv, NewDefinition
  PROVE  FlowInv'
<1>1. /\ pc = "new" /\ UNCHANGED <<def, outcomes, pending, local, saved, seed>>
      /\ \/ New(def) /\ pc' = "loop" /\ err' = err
         \/ pc' = "stopped" /\ err' = "rejected"
  BY DEF NewDefinition
<1>2. Walked(def, outcomes, pending, saved, seed, pc) /\ err = "none"
  BY <1>1 DEF FlowInv
<1>3. Walked(def, outcomes', pending', saved', seed', pc')
  BY <1>1, <1>2 DEF Walked
<1>4. Place(def, outcomes', saved', pc', local')
  BY <1>1 DEF Place, FlowInv
<1>5. NoFailureSwallowed' /\ StallsOnlyOnPanels'
  BY <1>1, <1>2 DEF NoFailureSwallowed, StallsOnlyOnPanels
<1> QED
  BY <1>1, <1>2, <1>3, <1>4, <1>5 DEF FlowInv

\* Nothing the invariant speaks of changes.
LEMMA IdleStep ==
  ASSUME FlowInv, UNCHANGED <<def, pc, outcomes, pending, local, err, saved, seed>>
  PROVE  FlowInv'
<1>1. NoFailureSwallowed' /\ StallsOnlyOnPanels'
  BY DEF FlowInv, NoFailureSwallowed, StallsOnlyOnPanels, FailedHere, Handlers, Ran, Ids
<1> QED
  BY <1>1 DEF FlowInv

\* Every action keeps the invariant.
LEMMA FlowStep == FlowInv /\ [Next]_flowVars => FlowInv'
<1> SUFFICES ASSUME FlowInv, [Next]_flowVars PROVE FlowInv'
  OBVIOUS
<1>1. CASE NewDefinition
  BY <1>1, NewStep
<1>2. CASE Finish \/ Stall
  BY <1>2, FinishStep, StallStep
<1>3. CASE Pause \/ WaveNoTransition \/ Crash
  <2>1. Walking
    BY <1>3 DEF Pause, WaveNoTransition, Crash, Scanning, Running, Walking
  <2>2. PICK e \in {"paused", "norow", "crashed"} : Stop(e)
    BY <1>3 DEF Pause, WaveNoTransition, Crash
  <2>3. UNCHANGED <<outcomes, saved>>
    BY <1>3 DEF Pause, WaveNoTransition, Crash
  <2> QED
    BY <2>1, <2>2, <2>3, ReturnStep
<1>4. CASE Skip \/ Begin
  BY <1>4, SkipStep, BeginStep
<1>5. CASE NoTransition \/ FireFails \/ LoopCancelled \/ ChildFails \/ ConfirmRejects
  BY <1>5, FailsStep DEF NoTransition, FireFails, Fires, LoopCancelled, ChildFails,
       RunsChild, ConfirmRejects
<1>6. CASE ChildMoveFails \/ GuardFails
  <2>1. pc = "child"
    BY <1>6 DEF ChildMoveFails, GuardFails, RunsChild
  <2>2. \E kind \in {"fire", "transition"} : StepFails(kind)
    BY <1>6 DEF ChildMoveFails, GuardFails
  <2> QED
    BY <2>1, <2>2, FailsStep
<1>7. CASE FireSucceeds \/ FireRetries
  <2>1. pc = "fire"
    BY <1>7 DEF FireSucceeds, FireRetries, Fires
  <2>2. \/ Goto("confirm", local)
        \/ Goto("sleep", [local EXCEPT !.count = @ + 1])
    BY <1>7 DEF FireSucceeds, FireRetries
  <2> QED
    BY <2>1, <2>2, StaysStep
<1>8. CASE ChildDone \/ ChildAgain
  <2>1. pc = "child"
    BY <1>8 DEF ChildDone, ChildAgain, RunsChild
  <2>2. \/ Goto("confirm", local)
        \/ Goto("child", [local EXCEPT !.count = @ + 1])
    BY <1>8 DEF ChildDone, ChildAgain
  <2> QED
    BY <2>1, <2>2, StaysStep
<1>9. CASE SleepEnds
  <2>1. pc = "sleep" /\ (StepFails("ctx") \/ Goto("fire", local))
    BY <1>9 DEF SleepEnds
  <2> QED
    BY <2>1, FailsStep, StaysStep
<1>10. CASE Confirms \/ RouteFails \/ \E kept \in SUBSET Ids : Routes(kept)
  BY <1>10, ConfirmsStep, RouteFailsStep, RoutesStep
<1>11. CASE WaveStarts \/ WaveJoins
             \/ \E s \in Ids, answer \in {"ok", "err"} : MemberFires(s, answer)
  BY <1>11, WaveStartsStep, JoinStep, MemberStep
<1>12. CASE Resume
  BY <1>12, ResumeStep
<1>13. CASE Cancel \/ UNCHANGED flowVars
  BY <1>13, IdleStep DEF Cancel, flowVars
<1> QED
  BY <1>1, <1>2, <1>3, <1>4, <1>5, <1>6, <1>7, <1>8, <1>9, <1>10, <1>11, <1>12, <1>13
     DEF Next, Walk

\* It holds before New is asked.
LEMMA FlowInitial == Init => FlowInv
<1> SUFFICES ASSUME Init PROVE FlowInv
  OBVIOUS
<1>1. /\ def \in Definitions /\ pc = "new" /\ err = "none" /\ saved = NoCheckpoint
      /\ outcomes = [s \in StepIds(def) |-> "none"] /\ seed = outcomes
      /\ pending = [s \in StepIds(def) |-> {}] /\ local = Idle
  BY DEF Init, NothingPending, Ids
<1>2. outcomes \in OutcomeMaps(def)
  BY <1>1 DEF OutcomeMaps, Outcomes
<1>3. Closed(def, outcomes)
  BY <1>1 DEF Closed
<1>4. Whole(def, outcomes)
  BY <1>1 DEF Whole
<1>5. Pend(def, outcomes, pending) /\ Caught(def, outcomes, pending, seed)
  BY <1>1 DEF Pend, Caught
<1>6. Place(def, outcomes, saved, pc, local)
  BY <1>1 DEF Place, Idle
<1>7. NoFailureSwallowed /\ StallsOnlyOnPanels
  BY <1>1 DEF NoFailureSwallowed, StallsOnlyOnPanels
<1> QED
  BY <1>1, <1>2, <1>3, <1>4, <1>5, <1>6, <1>7 DEF FlowInv, Walked

-----------------------------------------------------------------------------
(* The theorems.                                                           *)

\* The inductive invariant of the runner holds in every reachable state, for
\* every definition: outcomes are closed and panels whole, the step under way
\* is due, and pending failures have fallbacks that are still to come.
THEOREM WalkInvariance == Spec => []FlowInv
<1> QED
  BY FlowInitial, FlowStep, PTL DEF Spec

\* A checkpoint is never contradicted: what it says of a step is what every
\* later state and every resumed call says of it, also when a Route is turned
\* down or the process dies (advanceGroup, fireCheckpoint).
THEOREM CheckpointsAreFinal == Spec => []CheckpointIsFinal
<1>1. FlowInv => CheckpointIsFinal
  BY DEF FlowInv, Walked, Final, CheckpointIsFinal, Ids
<1> QED
  BY <1>1, WalkInvariance, PTL

\* A run that returns nil has swallowed no failure: each one was met by a
\* fallback that ran (resolveCatchable, prunePendingOnRoute).
THEOREM FailuresAreMet == Spec => []NoFailureSwallowed
<1>1. FlowInv => NoFailureSwallowed
  BY DEF FlowInv
<1> QED
  BY <1>1, WalkInvariance, PTL

\* A graph that New accepts and whose panels can be put in an order is never
\* reported as stalled (nextReadyGroup).
THEOREM StallsAreOfPanels == Spec => []StallsOnlyOnPanels
<1>1. FlowInv => StallsOnlyOnPanels
  BY DEF FlowInv
<1> QED
  BY <1>1, WalkInvariance, PTL

-----------------------------------------------------------------------------
(* What a walk has in common with the simulation of module Matrix.         *)

\* The steps that are resolved.
Resolved(d, oc) == {s \in StepIds(d) : oc[s] # "none"}

\* The walk is on the path that the simulation takes.
OnPath(d, oc) ==
  \A s \in StepIds(d) : /\ ~d.steps[s].route
                        /\ oc[s] = "skipped" => d.steps[s].when = "OnFailed"

\* The stages of the simulation of d.
Stages(d) == {Sims(d)[i] : i \in 0..Len(d.steps)}

\* s has failed since checkpoint sv.
Since(oc, sv, s) == oc[s] = "failed" /\ (sv # NoCheckpoint => sv.outcomes[s] = "none")

Overtaken(d, oc, sv, h) ==
  /\ d.steps[h].when = "OnFailed" /\ oc[h] = "failed"
  /\ \/ \A f \in Needs(d, h) : ~Since(oc, sv, f)
     \/ \E g \in StepIds(d) \ (Needs(d, h) \cup {h}) :
          Since(oc, sv, g) /\ d.steps[g].loop > 1

\* A loop that failed since sv left the machine on c.
LoopLeft(d, oc, c, sv, sim, g) ==
  Since(oc, sv, g) /\ d.steps[g].loop > 1 /\ c \in sim.firedTo[g]

\* Unless a fallback was overtaken, the status c is in the failure span of
\* each step that has failed since sv, or a later loop has moved to it.
InSpan(d, oc, c, sv, sim) ==
  \/ \E h \in StepIds(d) : Overtaken(d, oc, sv, h)
  \/ \A f \in StepIds(d) : Since(oc, sv, f) =>
       \/ c \in sim.firedFrom[f] \cup sim.firedTo[f]
       \/ \E g \in StepIds(d) \ {f} : LoopLeft(d, oc, c, sv, sim, g)

\* The walk rests where the simulation does.
Stands(d, oc, c, sv, sim) == c \in sim.curs /\ InSpan(d, oc, c, sv, sim)

\* s is the next unit of the simulation.
NextUnit(d, sim, s) ==
  /\ s \in SimReady(d, sim) /\ \A t \in SimReady(d, sim) : s <= t

\* s is under way, by itself.
UnderWay(d, sim, s) == NextUnit(d, sim, s) /\ Unit(d, s) = {s}

\* Where a walk at p is with respect to the stage sim.
Abreast(d, oc, c, sv, p, l, sim) ==
  /\ p \in {"loop", "fire", "sleep", "wave"} => Stands(d, oc, c, sv, sim)
  /\ p \in {"fire", "sleep", "child", "confirm"} => UnderWay(d, sim, l.step)
  /\ p = "child" => \/ Stands(d, oc, c, sv, sim)
                    \/ d.steps[l.step].loop > 1 /\ c \in ChildFinals(d.steps[l.step])
  /\ p \in {"fire", "sleep", "wave"} => ~Sub(d.steps[l.step])
  /\ p = "child" => Sub(d.steps[l.step]) /\ l.count \in Nat
  /\ p = "confirm" => c \in Targets(d.steps[l.step])
  /\ p = "wave" => NextUnit(d, sim, l.step) /\ Unit(d, l.step) = DOMAIN l.wave

\* A checkpoint is a stage of the simulation.
Recorded(d, sv) ==
  sv # NoCheckpoint /\ OnPath(d, sv.outcomes) =>
    \E sim \in Stages(d) : sim.resolved = Resolved(d, sv.outcomes) /\ sv.status \in sim.curs

MatrixInv ==
  /\ Recorded(def, saved)
  /\ pc \notin {"new", "stopped"} /\ OnPath(def, outcomes) =>
       \E sim \in Stages(def) : /\ sim.resolved = Resolved(def, outcomes)
                                /\ Abreast(def, outcomes, cur, saved, pc, local, sim)
  /\ pc = "new" => saved = NoCheckpoint /\ cur = Initial /\ outcomes = [s \in Ids |-> "none"]
  /\ MatrixCoversWalk

-----------------------------------------------------------------------------
(* The simulation of module Matrix.                                        *)

\* The recursion behind Sims has a solution.
LEMMA SimsUnfold ==
  ASSUME NEW d, Len(d.steps) \in Nat
  PROVE  LET sims == Sims(d)
         IN /\ sims[0] = SimStart(d)
            /\ \A n \in 1..Len(d.steps) : sims[n] = SimAfter(d, sims[n - 1])
<1> DEFINE N == Len(d.steps)
           Runs(f, n) == f = [k \in 0..n |-> IF k = 0 THEN SimStart(d)
                                             ELSE SimAfter(d, f[k - 1])]
           P == {n \in Nat : \E f : Runs(f, n)}
<1>1. 0 \in P
  <2>1. Runs([k \in 0..0 |-> SimStart(d)], 0)
    OBVIOUS
  <2> QED
    BY <2>1
<1>2. ASSUME NEW n \in Nat, n \in P
      PROVE  n + 1 \in P
  <2>1. PICK f : Runs(f, n)
    BY <1>2
  <2> DEFINE g == [k \in 0..(n + 1) |-> IF k = n + 1 THEN SimAfter(d, f[n]) ELSE f[k]]
  <2>2. ASSUME NEW k \in 0..(n + 1)
        PROVE  g[k] = IF k = 0 THEN SimStart(d) ELSE SimAfter(d, g[k - 1])
    <3>1. CASE k = n + 1
      BY <3>1
    <3>2. CASE k # n + 1
      <4>1. k \in 0..n
        BY <3>2
      <4>2. f[k] = IF k = 0 THEN SimStart(d) ELSE SimAfter(d, f[k - 1])
        BY <2>1, <4>1
      <4> QED
        BY <3>2, <4>1, <4>2
    <3> QED
      BY <3>1, <3>2
  <2>3. g = [k \in 0..(n + 1) |-> g[k]]
    OBVIOUS
  <2> HIDE DEF g
  <2>4. Runs(g, n + 1)
    BY <2>2, <2>3
  <2> QED
    BY <2>4
<1>3. N \in P
  <2> HIDE DEF P
  <2> QED
    BY <1>1, <1>2, InductionInSet
<1> DEFINE F(h) == [k \in 0..N |-> IF k = 0 THEN SimStart(d) ELSE SimAfter(d, h[k - 1])]
           g == CHOOSE h : h = F(h)
<1>4. Sims(d) = g
  BY DEF Sims
<1>5. PICK f : f = F(f)
  BY <1>3
<1>6. g = F(g)
  BY <1>5
<1> HIDE DEF g
<1>7. ASSUME NEW k \in 0..N
      PROVE  g[k] = IF k = 0 THEN SimStart(d) ELSE SimAfter(d, g[k - 1])
  BY <1>6, Zenon
<1>8. N \in Nat
  OBVIOUS
<1> HIDE DEF N, F
<1>9. g[0] = SimStart(d)
  <2>1. 0 \in 0..N
    BY <1>8
  <2> QED
    BY <1>7, <2>1, Zenon
<1>10. ASSUME NEW n \in 1..N
       PROVE  g[n] = SimAfter(d, g[n - 1])
  <2>1. n \in 0..N /\ n # 0
    BY <1>8
  <2> QED
    BY <1>7, <2>1, Zenon
<1> QED
  BY <1>4, <1>9, <1>10 DEF N

\* What a unit does to the simulation.
LEMMA UnitRuns ==
  ASSUME NEW d, NEW sim, NEW s
  PROVE  LET after == RunUnit(d, sim, s)
             unit == Unit(d, s)
             preds == StandingFor(d, sim, s)
             targets == Targets(d.steps[s])
         IN /\ after.resolved = sim.resolved \cup unit
            /\ targets \subseteq after.curs /\ after.curs \subseteq targets \cup sim.curs
            /\ (\E m \in unit : KeepsPriorSet(d, m)) => sim.curs \subseteq after.curs
            /\ \A t \in StepIds(d) :
                 /\ after.firedFrom[t] = (IF t \in unit THEN preds ELSE sim.firedFrom[t])
                 /\ after.firedTo[t] = (IF t \in unit THEN targets ELSE sim.firedTo[t])
            /\ after.asked = sim.asked \cup (preds \X targets) \cup LoopReentry(d.steps[s])
  BY DEF RunUnit

\* The statuses a step moves to, and the members of its unit.
LEMMA StepFacts ==
  ASSUME NEW d \in Definitions, New(d), NEW s \in StepIds(d)
  PROVE  /\ Targets(d.steps[s]) \subseteq Statuses
         /\ Unit(d, s) \subseteq StepIds(d) /\ s \in Unit(d, s)
<1>1. d.steps[s] \in Step(Statuses)
  BY FlowAssumption DEF StepIds
<1>2. /\ d.steps[s].to \in Statuses
      /\ d.steps[s].child \in Seq([needs : Seq(Nat), to : Statuses])
  BY <1>1 DEF Step
<1>3. \A i \in DOMAIN d.steps[s].child : d.steps[s].child[i].to \in Statuses
  <2>1. ASSUME NEW T, NEW c \in Seq(T), NEW i \in DOMAIN c
        PROVE  c[i] \in T
    OBVIOUS
  <2>2. \A i \in DOMAIN d.steps[s].child :
          d.steps[s].child[i] \in [needs : Seq(Nat), to : Statuses]
    BY <1>2, <2>1, Zenon
  <2> QED
    BY <2>2
<1>4. Targets(d.steps[s]) \subseteq Statuses
  BY <1>2, <1>3 DEF Targets, ChildFinals
<1>5. CASE InPanel(d, s)
  BY <1>4, <1>5, PanelOf DEF Unit
<1>6. CASE ~InPanel(d, s)
  <2>1. PanelFor(d, s) = {}
    BY <1>6 DEF InPanel, Panels, PanelFor
  <2>2. Cardinality(PanelFor(d, s)) = 0
    BY <2>1, FS_EmptySet
  <2>3. Unit(d, s) = {s}
    BY <2>2 DEF Unit
  <2> QED
    BY <1>4, <2>3
<1> QED
  BY <1>5, <1>6

\* The bound of a loop is a number.
LEMMA LoopType ==
  ASSUME NEW d \in Definitions, NEW s \in StepIds(d)
  PROVE  d.steps[s].loop \in Nat
<1>1. d.steps[s] \in Step(Statuses)
  BY FlowAssumption DEF StepIds
<1> QED
  BY <1>1 DEF Step

\* The next unit is unique: it is the one SimAfter runs.
LEMMA NextUnitRuns ==
  ASSUME NEW d \in Definitions, NEW sim, NEW s, NextUnit(d, sim, s)
  PROVE  SimAfter(d, sim) = RunUnit(d, sim, s)
<1> DEFINE ready == SimReady(d, sim)
<1>1. s \in ready /\ \A t \in ready : s <= t
  BY DEF NextUnit
<1>2. ready \subseteq Nat
  BY DefinitionType DEF SimReady
<1> HIDE DEF ready
<1> DEFINE u == CHOOSE v \in ready : \A t \in ready : v <= t
<1>3. u = s
  <2>1. u \in ready /\ \A t \in ready : u <= t
    BY <1>1
  <2> HIDE DEF u
  <2>2. u <= s /\ s <= u /\ u \in Nat /\ s \in Nat
    BY <1>1, <1>2, <2>1
  <2> QED
    BY <2>2
<1> QED
  BY <1>1, <1>3 DEF SimAfter, ready

\* Where a unit is ready one is next.
LEMMA SomeUnit ==
  ASSUME NEW d \in Definitions, NEW sim, SimReady(d, sim) # {}
  PROVE  \E s : NextUnit(d, sim, s)
<1>1. SimReady(d, sim) \in SUBSET Nat
  BY DefinitionType DEF SimReady
<1> QED
  BY <1>1, Smallest DEF NextUnit

\* A stage resolves steps of the definition, rests on statuses of the machine,
\* and has resolved a step for each unit that ran.
LEMMA StageFacts ==
  ASSUME NEW d \in Definitions, New(d), NEW n \in 0..Len(d.steps)
  PROVE  LET sim == Sims(d)[n]
         IN /\ sim.resolved \subseteq StepIds(d) /\ sim.curs \subseteq Statuses
            /\ SimReady(d, sim) # {} => Cardinality(sim.resolved) >= n
<1> DEFINE N == Len(d.steps)
           Good(i) == /\ Sims(d)[i].resolved \subseteq StepIds(d)
                      /\ Sims(d)[i].curs \subseteq Statuses
                      /\ SimReady(d, Sims(d)[i]) # {} => Cardinality(Sims(d)[i].resolved) >= i
           P == {i \in Nat : i <= N => Good(i)}
<1>1. N \in Nat /\ StepIds(d) = 1..N /\ IsFiniteSet(StepIds(d))
  BY DefinitionType
<1>2. /\ Sims(d)[0] = SimStart(d)
      /\ \A i \in 1..N : Sims(d)[i] = SimAfter(d, Sims(d)[i - 1])
  BY <1>1, SimsUnfold
<1>3. 0 \in P
  <2>1. Sims(d)[0].resolved = {} /\ Sims(d)[0].curs = {Initial}
    BY <1>2 DEF SimStart
  <2>2. Cardinality({}) = 0 /\ Initial \in Statuses
    BY FS_EmptySet, FlowAssumption
  <2>3. Cardinality(Sims(d)[0].resolved) = 0 /\ 0 >= 0
    BY <2>1, <2>2
  <2>4. Good(0)
    BY <2>1, <2>2, <2>3
  <2> QED
    BY <2>4
<1>4. ASSUME NEW i \in Nat, i \in P
      PROVE  i + 1 \in P
  <2>1. SUFFICES ASSUME i + 1 <= N PROVE Good(i + 1)
    OBVIOUS
  <2> DEFINE sim == Sims(d)[i]
             next == Sims(d)[i + 1]
  <2>2. Good(i)
    BY <1>1, <1>4, <2>1
  <2>3. next = SimAfter(d, sim)
    <3>1. i + 1 \in 1..N /\ (i + 1) - 1 = i
      BY <1>1, <2>1
    <3> QED
      BY <1>2, <3>1
  <2>4. /\ sim.resolved \subseteq StepIds(d) /\ sim.curs \subseteq Statuses
        /\ SimReady(d, sim) # {} => Cardinality(sim.resolved) >= i
    BY <2>2
  <2> HIDE DEF sim, next
  <2>5. SUFFICES /\ next.resolved \subseteq StepIds(d) /\ next.curs \subseteq Statuses
                 /\ SimReady(d, next) # {} => Cardinality(next.resolved) >= i + 1
    BY DEF next
  <2>6. CASE SimReady(d, sim) = {}
    <3>1. next = sim
      BY <2>3, <2>6 DEF SimAfter
    <3> QED
      BY <2>4, <2>6, <3>1
  <2>7. CASE SimReady(d, sim) # {}
    <3>1. PICK s : NextUnit(d, sim, s)
      BY <2>7, SomeUnit
    <3>2. next = RunUnit(d, sim, s)
      BY <2>3, <3>1, NextUnitRuns
    <3>3. s \in StepIds(d) /\ s \notin sim.resolved
      BY <3>1 DEF NextUnit, SimReady
    <3>4. /\ Targets(d.steps[s]) \subseteq Statuses
          /\ Unit(d, s) \subseteq StepIds(d) /\ s \in Unit(d, s)
      BY <3>3, StepFacts
    <3>5. /\ next.resolved = sim.resolved \cup Unit(d, s)
          /\ next.curs \subseteq Targets(d.steps[s]) \cup sim.curs
      BY <3>2, UnitRuns
    <3>6. next.resolved \subseteq StepIds(d) /\ next.curs \subseteq Statuses
      BY <2>4, <3>4, <3>5
    <3>7. IsFiniteSet(next.resolved) /\ IsFiniteSet(sim.resolved)
      BY <1>1, <2>4, <3>6, FS_Subset
    <3>8. Cardinality(sim.resolved \cup {s}) = Cardinality(sim.resolved) + 1
      BY <3>3, <3>7, FS_AddElement
    <3>9. Cardinality(sim.resolved \cup {s}) <= Cardinality(next.resolved)
      <4>1. sim.resolved \cup {s} \subseteq next.resolved
        BY <3>4, <3>5
      <4> QED
        BY <3>7, <4>1, FS_Subset
    <3>10. /\ Cardinality(sim.resolved) \in Nat /\ Cardinality(next.resolved) \in Nat
           /\ Cardinality(sim.resolved) >= i
      BY <2>4, <2>7, <3>7, FS_CardinalityType
    <3>11. Cardinality(next.resolved) >= i + 1
      BY <3>8, <3>9, <3>10
    <3> QED
      BY <3>6, <3>11
  <2> QED
    BY <2>6, <2>7
<1>5. n \in P
  <2>1. n \in Nat
    BY <1>1
  <2> HIDE DEF P
  <2> QED
    BY <1>3, <1>4, <2>1, InductionInSet
<1>6. n <= N
  BY <1>1
<1> QED
  BY <1>5, <1>6

\* The rows a stage has asked for are among those of the whole walk.
LEMMA StageAsks ==
  ASSUME NEW d \in Definitions, NEW sim \in Stages(d)
  PROVE  sim.asked \subseteq WalkRows(d)
<1> DEFINE N == Len(d.steps)
           P == {k \in Nat : k <= N => Sims(d)[N - k].asked \subseteq Sims(d)[N].asked}
<1>1. N \in Nat
  BY DefinitionType
<1>2. \A i \in 1..N : Sims(d)[i] = SimAfter(d, Sims(d)[i - 1])
  BY <1>1, SimsUnfold
<1>3. 0 \in P
  <2>1. N - 0 = N
    BY <1>1
  <2> QED
    BY <2>1
<1>4. ASSUME NEW k \in Nat, k \in P
      PROVE  k + 1 \in P
  <2>1. SUFFICES ASSUME k + 1 <= N
                 PROVE  Sims(d)[N - (k + 1)].asked \subseteq Sims(d)[N].asked
    OBVIOUS
  <2> DEFINE j == N - k
  <2>2. j \in 1..N /\ j - 1 = N - (k + 1) /\ k <= N
    BY <1>1, <2>1
  <2>3. Sims(d)[j].asked \subseteq Sims(d)[N].asked
    BY <1>4, <2>2
  <2>4. Sims(d)[j] = SimAfter(d, Sims(d)[j - 1])
    BY <1>2, <2>2
  <2> HIDE DEF j
  <2>5. Sims(d)[j - 1].asked \subseteq Sims(d)[j].asked
    <3> DEFINE before == Sims(d)[j - 1]
    <3>1. Sims(d)[j] = SimAfter(d, before)
      BY <2>4
    <3> HIDE DEF before
    <3>2. CASE SimReady(d, before) = {}
      BY <3>1, <3>2 DEF SimAfter, before
    <3>3. CASE SimReady(d, before) # {}
      <4>1. PICK s : NextUnit(d, before, s)
        BY <3>3, SomeUnit
      <4>2. Sims(d)[j] = RunUnit(d, before, s)
        BY <3>1, <4>1, NextUnitRuns
      <4>3. before.asked \subseteq RunUnit(d, before, s).asked
        BY UnitRuns
      <4> QED
        BY <4>2, <4>3 DEF before
    <3> QED
      BY <3>2, <3>3
  <2> QED
    BY <2>2, <2>3, <2>5
<1>5. \A k \in Nat : k \in P
  <2> HIDE DEF P
  <2> QED
    BY <1>3, <1>4, InductionInSet
<1>6. PICK i \in 0..N : sim = Sims(d)[i]
  BY DEF Stages
<1>7. N - i \in Nat /\ N - i <= N /\ N - (N - i) = i
  BY <1>1, <1>6
<1> QED
  BY <1>5, <1>6, <1>7 DEF WalkRows

\* Running the next unit of a stage leads to a stage, and the machine has to
\* have the rows it asks for.
LEMMA StageAfter ==
  ASSUME NEW d \in Definitions, New(d), NEW sim \in Stages(d), NEW s, NextUnit(d, sim, s)
  PROVE  /\ RunUnit(d, sim, s) \in Stages(d)
         /\ RunUnit(d, sim, s).asked \subseteq WalkRows(d)
         /\ RunUnit(d, sim, s).curs \subseteq Statuses
<1> DEFINE N == Len(d.steps)
<1>1. N \in Nat /\ StepIds(d) = 1..N /\ IsFiniteSet(StepIds(d))
  BY DefinitionType
<1>2. PICK i \in 0..N : sim = Sims(d)[i]
  BY DEF Stages
<1>3. /\ sim.resolved \subseteq StepIds(d)
      /\ SimReady(d, sim) # {} => Cardinality(sim.resolved) >= i
  BY <1>2, StageFacts
<1>4. s \in StepIds(d) /\ s \notin sim.resolved /\ SimReady(d, sim) # {}
  BY DEF NextUnit, SimReady
<1>5. i < N
  <2>1. Cardinality(StepIds(d)) = N
    BY <1>1, FS_Interval
  <2>2. Cardinality(sim.resolved) <= N /\ Cardinality(sim.resolved) # N
    BY <1>1, <1>3, <1>4, <2>1, FS_Subset
  <2>3. Cardinality(sim.resolved) \in Nat
    BY <1>1, <1>3, FS_Subset, FS_CardinalityType
  <2> QED
    BY <1>1, <1>2, <1>3, <1>4, <2>2, <2>3
<1>6. i + 1 \in 0..N /\ i + 1 \in 1..N /\ (i + 1) - 1 = i
  BY <1>1, <1>2, <1>5
<1>7. Sims(d)[i + 1] = SimAfter(d, sim)
  BY <1>1, <1>2, <1>6, SimsUnfold
<1>8. Sims(d)[i + 1] = RunUnit(d, sim, s)
  BY <1>7, NextUnitRuns
<1>9. RunUnit(d, sim, s) \in Stages(d)
  BY <1>6, <1>8 DEF Stages
<1>10. RunUnit(d, sim, s).curs \subseteq Statuses
  BY <1>6, <1>8, StageFacts
<1> QED
  BY <1>9, <1>10, StageAsks

-----------------------------------------------------------------------------
(* The walk and the simulation side by side.                               *)

\* nextUnit and nextReadyGroup take the same steps together.
LEMMA UnitIsGroup ==
  ASSUME def \in Definitions, New(def), NEW s \in StepIds(def)
  PROVE  Unit(def, s) = Group(s)
<1>1. CASE InPanel(def, s)
  <2> DEFINE p == PanelFor(def, s)
  <2>1. s \in p /\ p \subseteq StepIds(def) /\ Group(s) = p
    BY <1>1, PanelOf DEF Group
  <2>2. Unit(def, s) = IF Cardinality(p) >= 2 THEN p ELSE {s}
    BY DEF Unit
  <2> HIDE DEF p
  <2>3. IsFiniteSet(p) /\ Cardinality(p) \in Nat
    BY <2>1, DefinitionType, FS_Subset, FS_CardinalityType
  <2>4. CASE Cardinality(p) >= 2
    BY <2>1, <2>2, <2>4
  <2>5. CASE ~(Cardinality(p) >= 2)
    <3>1. Cardinality(p) # 0
      BY <2>1, <2>3, FS_EmptySet
    <3>2. Cardinality(p) = 1
      BY <2>3, <2>5, <3>1
    <3>3. p = {s}
      BY <2>1, <2>3, <3>2, FS_Singleton
    <3> QED
      BY <2>1, <2>2, <3>3
  <2> QED
    BY <2>4, <2>5
<1>2. CASE ~InPanel(def, s)
  <2>1. PanelFor(def, s) = {}
    BY <1>2 DEF InPanel, Panels, PanelFor
  <2>2. Cardinality(PanelFor(def, s)) = 0
    BY <2>1, FS_EmptySet
  <2> QED
    BY <1>2, <2>2 DEF Unit, Group
<1> QED
  BY <1>1, <1>2

\* A simulation that has resolved what the walk has finds the same steps
\* ready, whatever the verdict on them is.
LEMMA ReadyInBoth ==
  ASSUME def \in Definitions, New(def), outcomes \in OutcomeMaps(def),
         Whole(def, outcomes), NEW sim, sim.resolved = Resolved(def, outcomes)
  PROVE  Ready = SimReady(def, sim)
<1>1. ASSUME NEW s \in Ready
      PROVE  s \in SimReady(def, sim)
  <2>1. /\ s \in Ids /\ \A t \in Group(s) : Due(def, outcomes, t)
        /\ s \in Group(s)
    BY ReadyGroup DEF Ready, Unresolved
  <2>2. Unit(def, s) = Group(s)
    BY <2>1, UnitIsGroup DEF Ids
  <2>3. \A m \in Unit(def, s) : Needs(def, m) \subseteq sim.resolved
    BY <2>1, <2>2 DEF Due, Resolved, New, ValidateSteps
  <2>4. s \in StepIds(def) \ sim.resolved
    BY <2>1 DEF Due, Resolved, Ids
  <2> QED
    BY <2>3, <2>4 DEF SimReady, UnitReady
<1>2. ASSUME NEW s \in SimReady(def, sim)
      PROVE  s \in Ready
  <2>1. s \in StepIds(def) /\ outcomes[s] = "none" /\ UnitReady(def, s, sim.resolved)
    BY DEF SimReady, Resolved
  <2>2. \A m \in Group(s) : \A n \in Needs(def, m) : outcomes[n] # "none"
    BY <2>1, UnitIsGroup DEF UnitReady, Resolved
  <2>3. \A m \in Group(s) : AdmissionVerdict(m, outcomes) \in {"admit", "skip"}
    BY <2>2, AdmissionGiven
  <2>4. Verdict(s, outcomes) # "wait"
    <3>1. CASE InPanel(def, s)
      <4>1. Group(s) = PanelFor(def, s)
        BY <3>1 DEF Group
      <4>2. \A m \in PanelFor(def, s) : outcomes[m] = "none"
        BY <2>1, <3>1, PanelOf DEF Whole
      <4> QED
        BY <2>3, <3>1, <4>1, <4>2, PanelGiven DEF Verdict
    <3>2. CASE ~InPanel(def, s)
      BY <2>3, <3>2 DEF Verdict, Group
    <3> QED
      BY <3>1, <3>2
  <2> QED
    BY <2>1, <2>4 DEF Ready, Unresolved, Ids
<1> QED
  BY <1>1, <1>2

\* The step that the walk takes next is the unit the simulation runs next.
LEMMA SameNext ==
  ASSUME def \in Definitions, New(def), outcomes \in OutcomeMaps(def),
         Whole(def, outcomes), NEW sim, sim.resolved = Resolved(def, outcomes), Ready # {}
  PROVE  /\ NextUnit(def, sim, NextReady) /\ NextReady \in Ready
         /\ Unit(def, NextReady) = Group(NextReady)
<1>1. Ready = SimReady(def, sim)
  BY ReadyInBoth
<1>2. Ready \in SUBSET Nat /\ Ready \subseteq StepIds(def)
  BY DefinitionType DEF Ready, Unresolved, Ids
<1>3. \E s \in Ready : \A t \in Ready : s <= t
  BY <1>2, Smallest
<1>4. NextReady \in Ready /\ \A t \in Ready : NextReady <= t
  BY <1>3 DEF NextReady
<1>5. Unit(def, NextReady) = Group(NextReady)
  BY <1>2, <1>4, UnitIsGroup
<1> QED
  BY <1>1, <1>4, <1>5 DEF NextUnit

\* A fallback stays overtaken while further steps are resolved.
LEMMA OvertakenStays ==
  ASSUME NEW d, New(d), NEW oc \in OutcomeMaps(d), Closed(d, oc),
         NEW S \in SUBSET StepIds(d), \A s \in S : oc[s] = "none", NEW o, NEW sv,
         NEW h \in StepIds(d), Overtaken(d, oc, sv, h)
  PROVE  Overtaken(d, Marked(d, oc, S, o), sv, h)
<1> DEFINE new == Marked(d, oc, S, o)
<1>1. \A s \in StepIds(d) : new[s] = IF s \in S THEN o ELSE oc[s]
  BY DEF Marked
<1> HIDE DEF new
<1>2. d.steps[h].when = "OnFailed" /\ oc[h] = "failed"
  BY DEF Overtaken
<1>3. new[h] = "failed"
  BY <1>1, <1>2
<1>4. \A f \in Needs(d, h) : f \in StepIds(d) /\ oc[f] # "none"
  BY <1>2 DEF Closed, New, ValidateSteps
<1>5. \A f \in Needs(d, h) : new[f] = oc[f]
  BY <1>1, <1>4
<1>6. \A g \in StepIds(d) : Since(oc, sv, g) => Since(new, sv, g)
  BY <1>1 DEF Since
<1>7. CASE \A f \in Needs(d, h) : ~Since(oc, sv, f)
  <2>1. \A f \in Needs(d, h) : ~Since(new, sv, f)
    BY <1>5, <1>7 DEF Since
  <2> QED
    BY <1>2, <1>3, <2>1 DEF Overtaken, new
<1>8. CASE \E g \in StepIds(d) \ (Needs(d, h) \cup {h}) :
             Since(oc, sv, g) /\ d.steps[g].loop > 1
  BY <1>2, <1>3, <1>6, <1>8 DEF Overtaken, new
<1> QED
  BY <1>7, <1>8 DEF Overtaken

\* A fallback fires from the span of a need that failed, unless it, or the
\* fallback that failed before it, is overtaken.
LEMMA FallbackStands ==
  ASSUME NEW d, New(d), NEW oc \in OutcomeMaps(d), Closed(d, oc),
         NEW s \in StepIds(d), oc[s] = "none", d.steps[s].when = "OnFailed",
         \A n \in Needs(d, s) : oc[n] # "none",
         NEW c, NEW sv, NEW sim, InSpan(d, oc, c, sv, sim)
  PROVE  \/ c \in StandingFor(d, sim, s)
         \/ \E h \in StepIds(d) : Overtaken(d, Marked(d, oc, {s}, "failed"), sv, h)
<1> DEFINE new == Marked(d, oc, {s}, "failed")
<1>1. \A t \in StepIds(d) : new[t] = IF t = s THEN "failed" ELSE oc[t]
  BY DEF Marked
<1>2. \A h \in StepIds(d) : Overtaken(d, oc, sv, h) => Overtaken(d, new, sv, h)
  BY OvertakenStays
<1> HIDE DEF new
<1>3. \A n \in Needs(d, s) : n \in StepIds(d) /\ n # s /\ new[n] = oc[n]
  BY <1>1 DEF New, ValidateSteps
<1>4. \A n \in Needs(d, s) : sim.firedFrom[n] \cup sim.firedTo[n] \subseteq StandingFor(d, sim, s)
  BY DEF StandingFor
<1>5. CASE \A n \in Needs(d, s) : ~Since(oc, sv, n)
  <2>1. \A n \in Needs(d, s) : ~Since(new, sv, n)
    BY <1>3, <1>5 DEF Since
  <2>2. Overtaken(d, new, sv, s)
    BY <1>1, <2>1 DEF Overtaken
  <2> QED
    BY <2>2 DEF new
<1>6. CASE \E n \in Needs(d, s) : Since(oc, sv, n)
  <2>1. PICK n \in Needs(d, s) : Since(oc, sv, n)
    BY <1>6
  <2>2. CASE \E h \in StepIds(d) : Overtaken(d, oc, sv, h)
    BY <1>2, <2>2 DEF new
  <2>3. CASE c \in sim.firedFrom[n] \cup sim.firedTo[n]
    BY <1>4, <2>3
  <2>4. CASE \E g \in StepIds(d) \ {n} : LoopLeft(d, oc, c, sv, sim, g)
    <3>1. PICK g \in StepIds(d) : LoopLeft(d, oc, c, sv, sim, g)
      BY <2>4
    <3>2. Since(oc, sv, g) /\ d.steps[g].loop > 1 /\ c \in sim.firedTo[g]
      BY <3>1 DEF LoopLeft
    <3>3. CASE g \in Needs(d, s)
      BY <1>4, <3>2, <3>3
    <3>4. CASE g \notin Needs(d, s)
      <4>1. g # s
        BY <3>2 DEF Since
      <4>2. Since(new, sv, g)
        BY <1>1, <3>2, <4>1 DEF Since
      <4>3. g \in StepIds(d) \ (Needs(d, s) \cup {s}) /\ new[s] = "failed"
        BY <1>1, <3>4, <4>1
      <4>4. Overtaken(d, new, sv, s)
        BY <3>2, <4>2, <4>3 DEF Overtaken
      <4> QED
        BY <4>4 DEF new
    <3> QED
      BY <3>3, <3>4
  <2> QED
    BY <1>3, <2>1, <2>2, <2>3, <2>4 DEF InSpan
<1> QED
  BY <1>5, <1>6

\* A unit is resolved and the machine stays where it is.
LEMMA InSpanStays ==
  ASSUME NEW d, New(d), NEW oc \in OutcomeMaps(d), Closed(d, oc),
         NEW s, Unit(d, s) \subseteq StepIds(d), \A t \in Unit(d, s) : oc[t] = "none",
         NEW o \in {"failed", "skipped"}, NEW c, NEW sv, NEW sim, InSpan(d, oc, c, sv, sim),
         o = "failed" =>
           \/ c \in StandingFor(d, sim, s)
           \/ \E h \in StepIds(d) : Overtaken(d, Marked(d, oc, Unit(d, s), o), sv, h)
  PROVE  InSpan(d, Marked(d, oc, Unit(d, s), o), c, sv, RunUnit(d, sim, s))
<1> DEFINE S == Unit(d, s)
           new == Marked(d, oc, S, o)
           after == RunUnit(d, sim, s)
<1>1. \A t \in StepIds(d) : new[t] = IF t \in S THEN o ELSE oc[t]
  BY DEF Marked
<1>2. \A h \in StepIds(d) : Overtaken(d, oc, sv, h) => Overtaken(d, new, sv, h)
  BY OvertakenStays
<1>3. \A t \in StepIds(d) :
        /\ after.firedFrom[t] = IF t \in S THEN StandingFor(d, sim, s) ELSE sim.firedFrom[t]
        /\ after.firedTo[t] = IF t \in S THEN Targets(d.steps[s]) ELSE sim.firedTo[t]
  BY UnitRuns
<1>4. o = "failed" => \/ c \in StandingFor(d, sim, s)
                      \/ \E h \in StepIds(d) : Overtaken(d, new, sv, h)
  OBVIOUS
<1>5. \A t \in S : oc[t] = "none"
  OBVIOUS
<1> HIDE DEF S, new, after
<1>6. SUFFICES ASSUME ~\E h \in StepIds(d) : Overtaken(d, new, sv, h),
                      NEW f \in StepIds(d), Since(new, sv, f)
               PROVE  \/ c \in after.firedFrom[f] \cup after.firedTo[f]
                      \/ \E g \in StepIds(d) \ {f} : LoopLeft(d, new, c, sv, after, g)
  BY DEF InSpan, S, new, after
<1>7. CASE f \in S
  BY <1>1, <1>3, <1>4, <1>6, <1>7 DEF Since
<1>8. CASE f \notin S
  <2>1. Since(oc, sv, f)
    BY <1>1, <1>6, <1>8 DEF Since
  <2>2. ~\E h \in StepIds(d) : Overtaken(d, oc, sv, h)
    BY <1>2, <1>6
  <2>3. CASE c \in sim.firedFrom[f] \cup sim.firedTo[f]
    BY <1>3, <1>8, <2>3
  <2>4. CASE \E g \in StepIds(d) \ {f} : LoopLeft(d, oc, c, sv, sim, g)
    <3>1. PICK g \in StepIds(d) \ {f} : LoopLeft(d, oc, c, sv, sim, g)
      BY <2>4
    <3>2. g \notin S
      BY <1>5, <3>1 DEF LoopLeft, Since
    <3>3. LoopLeft(d, new, c, sv, after, g)
      BY <1>1, <1>3, <3>1, <3>2 DEF LoopLeft, Since
    <3> QED
      BY <3>1, <3>3
  <2> QED
    BY <2>1, <2>2, <2>3, <2>4 DEF InSpan
<1> QED
  BY <1>7, <1>8

\* A loop moves the machine and then fails.
LEMMA InSpanMoves ==
  ASSUME NEW d, NEW oc, NEW s \in StepIds(d), Unit(d, s) = {s}, d.steps[s].loop > 1,
         NEW c \in Targets(d.steps[s]), NEW sv, sv # NoCheckpoint => sv.outcomes[s] = "none",
         NEW sim
  PROVE  InSpan(d, Marked(d, oc, {s}, "failed"), c, sv, RunUnit(d, sim, s))
<1> DEFINE new == Marked(d, oc, {s}, "failed")
           after == RunUnit(d, sim, s)
<1>1. new[s] = "failed"
  BY DEF Marked
<1>2. after.firedTo[s] = Targets(d.steps[s])
  BY UnitRuns
<1> HIDE DEF new, after
<1>3. LoopLeft(d, new, c, sv, after, s)
  BY <1>1, <1>2 DEF LoopLeft, Since
<1>4. c \in after.firedTo[s]
  BY <1>2
<1> QED
  BY <1>3, <1>4 DEF InSpan, new, after

\* Resolving steps takes the walk off the path or leaves it there.
LEMMA MarksPath ==
  ASSUME NEW d, NEW oc \in OutcomeMaps(d), NEW S \in SUBSET StepIds(d),
         \A s \in S : oc[s] = "none", NEW o \in {"succeeded", "failed", "skipped"}
  PROVE  /\ Resolved(d, Marked(d, oc, S, o)) = Resolved(d, oc) \cup S
         /\ OnPath(d, Marked(d, oc, S, o)) => OnPath(d, oc)
         /\ OnPath(d, Marked(d, oc, S, o)) /\ o = "skipped" =>
              \A s \in S : d.steps[s].when = "OnFailed"
<1> DEFINE new == Marked(d, oc, S, o)
<1>1. \A s \in StepIds(d) : new[s] = IF s \in S THEN o ELSE oc[s]
  BY DEF Marked
<1> HIDE DEF new
<1>2. Resolved(d, new) = Resolved(d, oc) \cup S
  BY <1>1 DEF Resolved
<1>3. OnPath(d, new) => OnPath(d, oc)
  BY <1>1 DEF OnPath
<1>4. OnPath(d, new) /\ o = "skipped" => \A s \in S : d.steps[s].when = "OnFailed"
  BY <1>1 DEF OnPath
<1> QED
  BY <1>2, <1>3, <1>4 DEF new

-----------------------------------------------------------------------------
(* The steps of the walk, against the simulation.                          *)

\* What a walk that is on the path of the simulation knows.
LEMMA OnItsWay ==
  ASSUME FlowInv, MatrixInv, Walking
  PROVE  /\ def \in Definitions /\ New(def) /\ err = "none"
         /\ outcomes \in OutcomeMaps(def)
         /\ Closed(def, outcomes) /\ Whole(def, outcomes)
         /\ saved # NoCheckpoint => Final(def, outcomes, saved)
         /\ Recorded(def, saved)
         /\ OnPath(def, outcomes) =>
              \E sim \in Stages(def) :
                /\ sim.resolved = Resolved(def, outcomes)
                /\ Abreast(def, outcomes, cur, saved, pc, local, sim)
<1>1. def \in Definitions /\ New(def)
  BY Accepted
<1>2. /\ outcomes \in OutcomeMaps(def) /\ Closed(def, outcomes) /\ Whole(def, outcomes)
      /\ saved # NoCheckpoint => Final(def, outcomes, saved)
  BY WalkingFacts
<1>3. err = "none"
  BY DEF FlowInv, Walking
<1> QED
  BY <1>1, <1>2, <1>3 DEF MatrixInv, Walking

\* The walk goes on.
LEMMA StaysAbreast ==
  ASSUME def' = def, err' = "none", pc' \notin {"new", "stopped"}, Recorded(def, saved'),
         OnPath(def, outcomes') =>
           \E sim \in Stages(def) :
             /\ sim.resolved = Resolved(def, outcomes')
             /\ Abreast(def, outcomes', cur', saved', pc', local', sim)
  PROVE  MatrixInv'
<1>1. MatrixCoversWalk'
  BY DEF MatrixCoversWalk
<1> QED
  BY <1>1 DEF MatrixInv

\* The call returns.
LEMMA Returns ==
  ASSUME MatrixInv, NEW e, Stop(e), saved' = saved, e = "norow" => MatrixCoversWalk'
  PROVE  MatrixInv'
<1>1. pc' = "stopped" /\ err' = e /\ def' = def
  BY DEF Stop
<1>2. MatrixCoversWalk'
  BY <1>1 DEF MatrixCoversWalk
<1>3. Recorded(def', saved')
  BY <1>1 DEF MatrixInv
<1> QED
  BY <1>1, <1>2, <1>3 DEF MatrixInv

\* A checkpoint is delivered where the unit s of the simulation succeeded: it
\* is a stage, and no failure has happened since.
LEMMA Records ==
  ASSUME FlowInv, MatrixInv, Walking,
         NEW sim \in Stages(def), sim.resolved = Resolved(def, outcomes),
         NEW s, NextUnit(def, sim, s), Unit(def, s) \subseteq StepIds(def),
         \A t \in Unit(def, s) : outcomes[t] = "none",
         outcomes' = Marked(def, outcomes, Unit(def, s), "succeeded"),
         cur' \in Targets(def.steps[s]), saved' = [status |-> cur', outcomes |-> outcomes'],
         Continue
  PROVE  MatrixInv'
<1> DEFINE after == RunUnit(def, sim, s)
           new == Marked(def, outcomes, Unit(def, s), "succeeded")
<1>1. /\ def \in Definitions /\ New(def) /\ err = "none"
      /\ outcomes \in OutcomeMaps(def)
  BY OnItsWay
<1>2. after \in Stages(def) /\ after.curs \subseteq Statuses
  BY <1>1, StageAfter
<1>3. after.resolved = sim.resolved \cup Unit(def, s) /\ Targets(def.steps[s]) \subseteq after.curs
  BY UnitRuns
<1>4. Resolved(def, new) = Resolved(def, outcomes) \cup Unit(def, s)
  BY <1>1, MarksPath
<1>5. new \in OutcomeMaps(def)
  BY <1>1 DEF OutcomeMaps, Marked, Outcomes
<1> HIDE DEF after, new
<1>6. outcomes' = new /\ cur' \in after.curs /\ after.resolved = Resolved(def, new)
  BY <1>3, <1>4 DEF new
<1>7. saved' # NoCheckpoint /\ saved'.outcomes = outcomes' /\ saved'.status = cur'
  BY <1>1, <1>2, <1>5, <1>6, FlowAssumption DEF OutcomeMaps, Outcomes
<1>8. Recorded(def, saved')
  BY <1>2, <1>6, <1>7 DEF Recorded
<1>9. \A f : ~Since(outcomes', saved', f)
  BY <1>7 DEF Since
<1>10. Stands(def, outcomes', cur', saved', after)
  BY <1>6, <1>9 DEF Stands, InSpan
<1>11. pc' = "loop" /\ def' = def /\ err' = "none"
  BY <1>1 DEF Continue
<1>12. Abreast(def, outcomes', cur', saved', pc', local', after)
  BY <1>10, <1>11 DEF Abreast
<1> QED
  BY <1>2, <1>6, <1>8, <1>11, <1>12, StaysAbreast

\* A step or panel fails and is caught, or is skipped: the simulation keeps
\* the statuses the walk stood on.
LEMMA Resolves ==
  ASSUME FlowInv, MatrixInv, Walking,
         NEW sim \in Stages(def), sim.resolved = Resolved(def, outcomes),
         NEW s, NextUnit(def, sim, s), Unit(def, s) \subseteq StepIds(def),
         \A t \in Unit(def, s) : outcomes[t] = "none",
         NEW o \in {"failed", "skipped"},
         outcomes' = Marked(def, outcomes, Unit(def, s), o),
         \E m \in Unit(def, s) : KeepsPriorSet(def, m),
         cur' \in sim.curs \cup Targets(def.steps[s]), saved' = saved, Continue,
         InSpan(def, outcomes', cur', saved, RunUnit(def, sim, s))
  PROVE  MatrixInv'
<1> DEFINE after == RunUnit(def, sim, s)
           new == Marked(def, outcomes, Unit(def, s), o)
<1>1. /\ def \in Definitions /\ New(def) /\ err = "none"
      /\ outcomes \in OutcomeMaps(def) /\ Recorded(def, saved)
  BY OnItsWay
<1>2. after \in Stages(def)
  BY <1>1, StageAfter
<1>3. /\ after.resolved = sim.resolved \cup Unit(def, s)
      /\ Targets(def.steps[s]) \subseteq after.curs /\ sim.curs \subseteq after.curs
  BY UnitRuns
<1>4. Resolved(def, new) = Resolved(def, outcomes) \cup Unit(def, s)
  BY <1>1, MarksPath
<1>5. InSpan(def, outcomes', cur', saved, after) /\ outcomes' = new
  OBVIOUS
<1> HIDE DEF after, new
<1>6. cur' \in after.curs /\ after.resolved = Resolved(def, outcomes')
  BY <1>3, <1>4, <1>5
<1>7. Stands(def, outcomes', cur', saved', after)
  BY <1>5, <1>6 DEF Stands
<1>8. pc' = "loop" /\ def' = def /\ err' = "none"
  BY <1>1 DEF Continue
<1>9. Abreast(def, outcomes', cur', saved', pc', local', after)
  BY <1>7, <1>8 DEF Abreast
<1> QED
  BY <1>1, <1>2, <1>6, <1>8, <1>9, StaysAbreast

\* The unit s has failed for want of a row from where the walk stands.
LEMMA RowIsAsked ==
  ASSUME def \in Definitions, New(def), NEW sim \in Stages(def),
         NEW s, NextUnit(def, sim, s), ValidateMatrix(def),
         NEW from \in StandingFor(def, sim, s), NEW to \in Targets(def.steps[s])
  PROVE  CanPick(def, from, to)
<1>1. RunUnit(def, sim, s).asked \subseteq WalkRows(def)
  BY StageAfter
<1>2. <<from, to>> \in RunUnit(def, sim, s).asked
  BY UnitRuns
<1>3. <<from, to>> \in Required(def)
  BY <1>1, <1>2 DEF Required
<1> QED
  BY <1>3 DEF ValidateMatrix, CheckRow, CanPick

\* The same between two ends of a child that runs again.
LEMMA ReentryIsAsked ==
  ASSUME def \in Definitions, New(def), NEW sim \in Stages(def),
         NEW s, NextUnit(def, sim, s), ValidateMatrix(def),
         def.steps[s].loop \in Nat, def.steps[s].loop > 1,
         NEW from \in ChildFinals(def.steps[s]), NEW to \in ChildFinals(def.steps[s]),
         from # to
  PROVE  CanPick(def, from, to)
<1>1. RunUnit(def, sim, s).asked \subseteq WalkRows(def)
  BY StageAfter
<1>2. ~(def.steps[s].loop <= 1)
  OBVIOUS
<1>3. <<from, to>> \in LoopReentry(def.steps[s])
  BY <1>2 DEF LoopReentry
<1>4. <<from, to>> \in RunUnit(def, sim, s).asked
  BY <1>3, UnitRuns
<1>5. <<from, to>> \in Required(def)
  BY <1>1, <1>4 DEF Required
<1> QED
  BY <1>5 DEF ValidateMatrix, CheckRow, CanPick

\* Where a unit stands: on the standing set, or for a fallback in the span of
\* a need, unless it was overtaken.
LEMMA UnitStands ==
  ASSUME NEW d, New(d), NEW oc \in OutcomeMaps(d), Closed(d, oc),
         NEW s \in StepIds(d), \A t \in Unit(d, s) : oc[t] = "none", s \in Unit(d, s),
         \A n \in Needs(d, s) : oc[n] # "none",
         d.steps[s].when = "OnFailed" => Unit(d, s) = {s},
         NEW c, NEW sv, NEW sim, Stands(d, oc, c, sv, sim)
  PROVE  \/ c \in StandingFor(d, sim, s)
         \/ \E h \in StepIds(d) : Overtaken(d, Marked(d, oc, Unit(d, s), "failed"), sv, h)
<1>1. c \in sim.curs /\ InSpan(d, oc, c, sv, sim)
  BY DEF Stands
<1>2. CASE d.steps[s].when = "OnFailed"
  BY <1>1, <1>2, FallbackStands
<1>3. CASE d.steps[s].when # "OnFailed"
  BY <1>1, <1>3 DEF StandingFor
<1> QED
  BY <1>2, <1>3

\* The exceptions of MatrixCoversWalk, in the terms of the invariant.
LEMMA Exceptions ==
  ASSUME def' = def
  PROVE  /\ ~LeftTheAllRunPath' => OnPath(def, outcomes')
         /\ (\E h \in StepIds(def) : Overtaken(def, outcomes', saved', h)) => FallbackOvertaken'
<1>1. ~LeftTheAllRunPath' => OnPath(def, outcomes')
  BY DEF LeftTheAllRunPath, OnPath, Ids
<1>2. (\E h \in StepIds(def) : Overtaken(def, outcomes', saved', h)) => FallbackOvertaken'
  BY DEF FallbackOvertaken, Overtaken, Since, FailedSince, Ids
<1> QED
  BY <1>1, <1>2

\* The step under way finds no row: on the path it was overtaken.
LEMMA NoRowStep ==
  ASSUME FlowInv, MatrixInv, pc \in {"fire", "child"}, def' = def, saved' = saved,
         outcomes' = Marked(def, outcomes, {local.step}, "failed"),
         \/ pc = "fire" /\ ~CanPick(def, cur, Current.to)
         \/ pc = "child" /\ \E final \in ChildFinals(Current) \ {cur} : ~CanPick(def, cur, final)
  PROVE  MatrixCoversWalk'
<1> DEFINE s == local.step
           new == Marked(def, outcomes, {s}, "failed")
<1>1. Walking /\ Due(def, outcomes, s)
  BY DEF Walking, FlowInv, Place
<1>2. /\ def \in Definitions /\ New(def) /\ outcomes \in OutcomeMaps(def)
      /\ Closed(def, outcomes)
  BY <1>1, OnItsWay
<1>3. SUFFICES ASSUME ValidateMatrix(def), ~LeftTheAllRunPath', ~FallbackOvertaken'
               PROVE  FALSE
  BY DEF MatrixCoversWalk
<1>4. OnPath(def, new) /\ ~\E h \in StepIds(def) : Overtaken(def, new, saved, h)
  BY <1>3, Exceptions
<1>5. s \in StepIds(def) /\ outcomes[s] = "none" /\ \A n \in Needs(def, s) : outcomes[n] # "none"
  BY <1>1 DEF Due
<1> HIDE DEF s, new
<1>6. OnPath(def, outcomes)
  BY <1>2, <1>4, <1>5, MarksPath DEF new
<1>7. PICK sim \in Stages(def) : Abreast(def, outcomes, cur, saved, pc, local, sim)
  BY <1>1, <1>6, OnItsWay
<1>8. NextUnit(def, sim, s) /\ Unit(def, s) = {s}
  BY <1>7 DEF Abreast, UnderWay, s
<1>9. Current = def.steps[s]
  BY DEF Current, s
<1>10. Stands(def, outcomes, cur, saved, sim) => cur \in StandingFor(def, sim, s)
  BY <1>2, <1>4, <1>5, <1>8, UnitStands DEF new
<1>11. CASE pc = "fire" /\ ~CanPick(def, cur, def.steps[s].to)
  <2>1. Stands(def, outcomes, cur, saved, sim) /\ ~Sub(def.steps[s])
    BY <1>7, <1>11 DEF Abreast, s
  <2>2. def.steps[s].to \in Targets(def.steps[s])
    BY <2>1 DEF Targets
  <2> QED
    BY <1>2, <1>3, <1>8, <1>10, <1>11, <2>1, <2>2, RowIsAsked
<1>12. CASE pc = "child" /\ \E final \in ChildFinals(def.steps[s]) \ {cur} :
              ~CanPick(def, cur, final)
  <2>1. PICK final \in ChildFinals(def.steps[s]) : final # cur /\ ~CanPick(def, cur, final)
    BY <1>12
  <2>2. Sub(def.steps[s])
    BY <1>7, <1>12 DEF Abreast, s
  <2>3. final \in Targets(def.steps[s])
    BY <2>1, <2>2 DEF Targets
  <2>4. \/ Stands(def, outcomes, cur, saved, sim)
        \/ def.steps[s].loop > 1 /\ cur \in ChildFinals(def.steps[s])
    BY <1>7, <1>12 DEF Abreast, s
  <2>5. CASE Stands(def, outcomes, cur, saved, sim)
    BY <1>2, <1>3, <1>8, <1>10, <2>1, <2>3, <2>5, RowIsAsked
  <2>6. CASE def.steps[s].loop > 1 /\ cur \in ChildFinals(def.steps[s])
    <3>1. def.steps[s].loop \in Nat
      BY <1>2, <1>5, LoopType
    <3> QED
      BY <1>2, <1>3, <1>8, <2>1, <2>6, <3>1, ReentryIsAsked
  <2> QED
    BY <2>4, <2>5, <2>6
<1> QED
  BY <1>9, <1>11, <1>12

\* The step under way fails, with the machine where it was, or where a loop
\* has taken it.
LEMMA FailsAbreast ==
  ASSUME FlowInv, MatrixInv, pc \in {"fire", "sleep", "child", "confirm"},
         NEW kind, StepFails(kind), kind = "fire" => pc \in {"fire", "child"},
         \/ cur' = cur
         \/ /\ pc = "child" /\ kind = "fire"
            /\ local.count + 1 < Current.loop /\ cur' \in ChildFinals(Current),
         kind = "transition" =>
           \/ pc = "fire" /\ ~CanPick(def, cur, Current.to)
           \/ pc = "child" /\ \E final \in ChildFinals(Current) \ {cur} :
                                ~CanPick(def, cur, final)
  PROVE  MatrixInv'
<1> DEFINE s == local.step
           new == Marked(def, outcomes, {s}, "failed")
           handlers == FailureHandlersFor(s, new)
<1>1. Walking /\ Due(def, outcomes, s)
  BY DEF Walking, FlowInv, Place
<1>2. /\ def \in Definitions /\ New(def) /\ err = "none" /\ outcomes \in OutcomeMaps(def)
      /\ Closed(def, outcomes) /\ Recorded(def, saved)
      /\ saved # NoCheckpoint => Final(def, outcomes, saved)
  BY <1>1, OnItsWay
<1>3. /\ outcomes' = new /\ saved' = saved
      /\ \/ kind = "fire" /\ handlers # {} /\ Continue
         \/ Stop(IF kind = "transition" THEN "norow" ELSE "failed")
  BY MarkIs DEF StepFails, ResolveCatchable
<1>4. /\ s \in StepIds(def) /\ outcomes[s] = "none"
      /\ \A n \in Needs(def, s) : outcomes[n] # "none"
  BY <1>1 DEF Due
<1>5. handlers # {} => KeepsPriorSet(def, s)
  BY DEF FailureHandlersFor, KeepsPriorSet, DirectDependents, Ids
<1> HIDE DEF handlers
<1>6. CASE kind = "transition" /\ Stop("norow")
  <2>1. MatrixCoversWalk'
    BY <1>3, <1>6, NoRowStep DEF Stop
  <2> QED
    BY <1>3, <1>6, <2>1, Returns
<1>7. CASE kind # "transition" /\ Stop("failed")
  BY <1>3, <1>7, Returns
<1>8. CASE kind = "fire" /\ handlers # {} /\ Continue
  <2>1. CASE ~OnPath(def, outcomes)
    <3>1. ~OnPath(def, outcomes')
      BY <1>2, <1>3, <1>4, <2>1, MarksPath
    <3>2. pc' = "loop" /\ def' = def /\ err' = "none"
      BY <1>2, <1>8 DEF Continue
    <3> QED
      BY <1>2, <1>3, <3>1, <3>2, StaysAbreast
  <2>2. CASE OnPath(def, outcomes)
    <3>1. PICK sim \in Stages(def) : /\ sim.resolved = Resolved(def, outcomes)
                                     /\ Abreast(def, outcomes, cur, saved, pc, local, sim)
      BY <1>1, <2>2, OnItsWay
    <3>2. NextUnit(def, sim, s) /\ Unit(def, s) = {s}
      BY <3>1 DEF Abreast, UnderWay
    <3>3. /\ pc = "fire" => Stands(def, outcomes, cur, saved, sim)
          /\ pc = "child" => /\ Sub(def.steps[s]) /\ local.count \in Nat
                             /\ \/ Stands(def, outcomes, cur, saved, sim)
                                \/ def.steps[s].loop > 1 /\ cur \in ChildFinals(def.steps[s])
      BY <3>1 DEF Abreast
    <3>4. \/ Stands(def, outcomes, cur, saved, sim) /\ cur' = cur
          \/ def.steps[s].loop > 1 /\ cur' \in Targets(def.steps[s])
      <4>1. def.steps[s].loop \in Nat
        BY <1>2, <1>4, LoopType
      <4>2. pc = "child" /\ local.count + 1 < def.steps[s].loop => def.steps[s].loop > 1
        BY <3>3, <4>1
      <4> QED
        BY <1>8, <3>3, <4>2 DEF Current, Targets
    <3> HIDE DEF s, new
    <3>5. cur' \in sim.curs \cup Targets(def.steps[s])
      BY <3>4 DEF Stands
    <3>6. InSpan(def, new, cur', saved, RunUnit(def, sim, s))
      <4>1. CASE Stands(def, outcomes, cur, saved, sim) /\ cur' = cur
        <5>1. \/ cur \in StandingFor(def, sim, s)
              \/ \E h \in StepIds(def) : Overtaken(def, new, saved, h)
          BY <1>2, <1>4, <3>2, <4>1, UnitStands DEF new
        <5>2. InSpan(def, outcomes, cur, saved, sim)
          BY <4>1 DEF Stands
        <5> QED
          BY <1>2, <1>4, <3>2, <4>1, <5>1, <5>2, InSpanStays DEF new
      <4>2. CASE def.steps[s].loop > 1 /\ cur' \in Targets(def.steps[s])
        <5>1. saved # NoCheckpoint => saved.outcomes[s] = "none"
          BY <1>2, <1>4 DEF Final
        <5> QED
          BY <1>4, <3>2, <4>2, <5>1, InSpanMoves DEF new
      <4> QED
        BY <3>4, <4>1, <4>2
    <3>7. \E m \in Unit(def, s) : KeepsPriorSet(def, m)
      BY <1>5, <1>8, <3>2
    <3>8. outcomes' = Marked(def, outcomes, Unit(def, s), "failed")
      BY <1>3, <3>2 DEF new
    <3>9. /\ Unit(def, s) \subseteq StepIds(def) /\ \A t \in Unit(def, s) : outcomes[t] = "none"
      BY <1>4, <3>2
    <3>10. InSpan(def, outcomes', cur', saved, RunUnit(def, sim, s))
      BY <1>3, <3>6
    <3> QED
      BY <1>1, <1>3, <1>8, <3>1, <3>2, <3>5, <3>7, <3>8, <3>9, <3>10, Resolves
  <2> QED
    BY <2>1, <2>2
<1> QED
  BY <1>3, <1>6, <1>7, <1>8

\* The step under way goes on: it is the one the simulation runs, and a
\* machine that moves does so to one of its targets.
LEMMA GoesAbreast ==
  ASSUME FlowInv, MatrixInv, pc \in {"fire", "sleep", "child"},
         NEW label \in {"fire", "sleep", "child", "confirm"}, NEW l, Goto(label, l),
         \/ l = local /\ label # "child"
         \/ l = [local EXCEPT !.count = @ + 1],
         \/ pc \in {"fire", "sleep"} /\ label \in {"fire", "sleep"} /\ cur' = cur
         \/ pc = "fire" /\ label = "confirm" /\ cur' = Current.to
         \/ pc = "child" /\ label = "confirm" /\ cur' \in ChildFinals(Current)
         \/ /\ pc = "child" /\ label = "child"
            /\ local.count + 1 < Current.loop /\ cur' \in ChildFinals(Current)
  PROVE  MatrixInv'
<1>1. Walking /\ Place(def, outcomes, saved, pc, local)
  BY DEF Walking, FlowInv
<1>2. l.step = local.step /\ (label = "child" => l.count = local.count + 1)
  BY <1>1 DEF Place
<1>3. def \in Definitions /\ err = "none" /\ Recorded(def, saved)
  BY <1>1, OnItsWay
<1>4. /\ pc' = label /\ local' = l /\ def' = def /\ outcomes' = outcomes
      /\ err' = "none" /\ saved' = saved
  BY <1>3 DEF Goto
<1>5. ASSUME OnPath(def, outcomes)
      PROVE  \E sim \in Stages(def) :
               /\ sim.resolved = Resolved(def, outcomes)
               /\ Abreast(def, outcomes, cur', saved, label, l, sim)
  <2>1. PICK sim \in Stages(def) : /\ sim.resolved = Resolved(def, outcomes)
                                   /\ Abreast(def, outcomes, cur, saved, pc, local, sim)
    BY <1>1, <1>5, OnItsWay
  <2>2. /\ UnderWay(def, sim, local.step)
        /\ pc \in {"fire", "sleep"} => /\ Stands(def, outcomes, cur, saved, sim)
                                       /\ ~Sub(Current)
        /\ pc = "child" => Sub(Current) /\ local.count \in Nat
    BY <2>1 DEF Abreast, Current
  <2>3. CASE pc \in {"fire", "sleep"} /\ label \in {"fire", "sleep"} /\ cur' = cur
    BY <1>2, <2>1, <2>2, <2>3 DEF Abreast, Current
  <2>4. CASE \/ pc = "fire" /\ label = "confirm" /\ cur' = Current.to
             \/ pc = "child" /\ label = "confirm" /\ cur' \in ChildFinals(Current)
    <3>1. cur' \in Targets(Current)
      BY <2>2, <2>4 DEF Targets
    <3> QED
      BY <1>2, <2>1, <2>2, <2>4, <3>1 DEF Abreast, Current
  <2>5. CASE /\ pc = "child" /\ label = "child"
             /\ local.count + 1 < Current.loop /\ cur' \in ChildFinals(Current)
    <3>1. local.step \in StepIds(def)
      BY <2>2 DEF UnderWay, NextUnit, SimReady
    <3>2. Current.loop \in Nat
      BY <1>3, <3>1, LoopType DEF Current
    <3>3. Current.loop > 1 /\ l.count \in Nat
      BY <1>2, <2>2, <2>5, <3>2
    <3> QED
      BY <1>2, <2>1, <2>2, <2>5, <3>3 DEF Abreast, Current
  <2> QED
    BY <2>1, <2>3, <2>4, <2>5
<1> QED
  BY <1>3, <1>4, <1>5, StaysAbreast

\* Confirm accepts the step under way; one that routes is off the path.
LEMMA ConfirmsAbreast ==
  ASSUME FlowInv, MatrixInv, Confirms
  PROVE  MatrixInv'
<1> DEFINE s == local.step
           new == Marked(def, outcomes, {s}, "succeeded")
<1>1. /\ pc = "confirm" /\ outcomes' = new /\ cur' = cur
      /\ IF Current.route
         THEN pc' = "route" /\ UNCHANGED <<def, err, saved>>
         ELSE Continue /\ saved' = [status |-> cur, outcomes |-> outcomes']
  BY MarkIs DEF Confirms, FireCheckpoint
<1>2. Walking /\ Due(def, outcomes, s)
  BY <1>1 DEF Walking, FlowInv, Place
<1>3. /\ def \in Definitions /\ New(def) /\ err = "none" /\ outcomes \in OutcomeMaps(def)
      /\ Recorded(def, saved)
  BY <1>2, OnItsWay
<1>4. s \in StepIds(def) /\ outcomes[s] = "none"
  BY <1>2 DEF Due
<1>5. OnPath(def, new) => OnPath(def, outcomes) /\ ~def.steps[s].route
  BY <1>3, <1>4, MarksPath DEF OnPath
<1>6. CASE Current.route
  <2>1. ~OnPath(def, outcomes') /\ pc' = "route" /\ UNCHANGED <<def, err, saved>>
    BY <1>1, <1>5, <1>6 DEF Current
  <2> QED
    BY <1>3, <2>1, StaysAbreast
<1>7. CASE ~Current.route /\ OnPath(def, outcomes)
  <2>1. PICK sim \in Stages(def) : /\ sim.resolved = Resolved(def, outcomes)
                                   /\ Abreast(def, outcomes, cur, saved, pc, local, sim)
    BY <1>2, <1>7, OnItsWay
  <2>2. NextUnit(def, sim, s) /\ Unit(def, s) = {s} /\ cur \in Targets(def.steps[s])
    BY <1>1, <2>1 DEF Abreast, UnderWay
  <2>3. Continue /\ saved' = [status |-> cur', outcomes |-> outcomes']
    BY <1>1, <1>7
  <2> HIDE DEF s
  <2>4. outcomes' = Marked(def, outcomes, Unit(def, s), "succeeded")
    BY <1>1, <2>2
  <2>5. Unit(def, s) \subseteq StepIds(def) /\ \A t \in Unit(def, s) : outcomes[t] = "none"
    BY <1>4, <2>2
  <2> QED
    BY <1>1, <1>2, <2>1, <2>2, <2>3, <2>4, <2>5, Records
<1>8. CASE ~Current.route /\ ~OnPath(def, outcomes)
  <2>1. Continue /\ saved' = [status |-> cur, outcomes |-> outcomes']
    BY <1>1, <1>8
  <2>2. ~OnPath(def, outcomes') /\ saved'.outcomes = outcomes'
    BY <1>1, <1>5, <1>8, <2>1
  <2>3. Recorded(def, saved')
    BY <2>2 DEF Recorded
  <2>4. pc' = "loop" /\ def' = def /\ err' = "none"
    BY <1>3, <2>1 DEF Continue
  <2> QED
    BY <2>2, <2>3, <2>4, StaysAbreast
<1> QED
  BY <1>6, <1>7, <1>8

\* A step that routes is off the path, whatever Route answers.
LEMMA RoutesOff ==
  ASSUME FlowInv, MatrixInv, RouteFails \/ \E kept \in SUBSET Ids : Routes(kept)
  PROVE  MatrixInv'
<1>1. pc = "route"
  BY DEF RouteFails, Routes
<1>2. Walking /\ Routing(def, outcomes, saved, local.step)
  BY <1>1 DEF Walking, FlowInv, Place
<1>3. \A oc : ~OnPath(def, oc)
  BY <1>2 DEF Routing, OnPath
<1>4. err = "none" /\ Recorded(def, saved)
  BY <1>2, OnItsWay
<1>5. \A sv : Recorded(def, sv)
  BY <1>3 DEF Recorded
<1>6. CASE Continue
  <2>1. pc' = "loop" /\ def' = def /\ err' = "none"
    BY <1>4, <1>6 DEF Continue
  <2> QED
    BY <1>3, <1>5, <2>1, StaysAbreast
<1>7. CASE Stop("failed") /\ saved' = saved
  BY <1>7, Returns
<1>8. Continue \/ (Stop("failed") /\ saved' = saved)
  <2>1. CASE RouteFails
    BY <2>1 DEF RouteFails, ResolveCatchable
  <2>2. CASE \E kept \in SUBSET Ids : Routes(kept)
    BY <2>2 DEF Routes
  <2> QED
    BY <2>1, <2>2
<1> QED
  BY <1>6, <1>7, <1>8

\* What the walk looks at next, on the path.
LEMMA Looks ==
  ASSUME FlowInv, MatrixInv, Scanning, Ready # {}, OnPath(def, outcomes)
  PROVE  \E sim \in Stages(def) :
           /\ sim.resolved = Resolved(def, outcomes)
           /\ Stands(def, outcomes, cur, saved, sim)
           /\ NextUnit(def, sim, NextReady) /\ Unit(def, NextReady) = Group(NextReady)
<1>1. Walking /\ pc = "loop"
  BY DEF Scanning, Walking
<1>2. /\ def \in Definitions /\ New(def) /\ outcomes \in OutcomeMaps(def)
      /\ Whole(def, outcomes)
  BY <1>1, OnItsWay
<1>3. PICK sim \in Stages(def) : /\ sim.resolved = Resolved(def, outcomes)
                                 /\ Abreast(def, outcomes, cur, saved, pc, local, sim)
  BY <1>1, OnItsWay
<1>4. Stands(def, outcomes, cur, saved, sim)
  BY <1>1, <1>3 DEF Abreast
<1>5. NextUnit(def, sim, NextReady) /\ Unit(def, NextReady) = Group(NextReady)
  BY <1>2, <1>3, SameNext
<1> QED
  BY <1>3, <1>4, <1>5

\* A step or panel is skipped; on the path it is a fallback.
LEMMA SkipAbreast ==
  ASSUME FlowInv, MatrixInv, Skip
  PROVE  MatrixInv'
<1> DEFINE s == NextReady
           new == Marked(def, outcomes, Group(s), "skipped")
<1>1. /\ Scanning /\ Walking /\ Ready # {} /\ outcomes' = new /\ Continue
      /\ cur' = cur /\ saved' = saved
  BY MarkIs DEF Skip, Scanning, Walking
<1>2. /\ def \in Definitions /\ New(def) /\ err = "none" /\ outcomes \in OutcomeMaps(def)
      /\ Closed(def, outcomes) /\ Recorded(def, saved)
  BY <1>1, OnItsWay
<1>3. s \in Ready
  BY <1>1, <1>2, NextIsReady
<1>4. /\ Group(s) \subseteq StepIds(def) /\ s \in Group(s)
      /\ \A t \in Group(s) : outcomes[t] = "none"
  BY <1>2, <1>3, ReadyGroup DEF Due, Ids
<1>5. OnPath(def, new) => OnPath(def, outcomes) /\ def.steps[s].when = "OnFailed"
  BY <1>2, <1>4, MarksPath
<1>6. CASE ~OnPath(def, outcomes')
  <2>1. pc' = "loop" /\ def' = def /\ err' = "none"
    BY <1>1, <1>2 DEF Continue
  <2> QED
    BY <1>1, <1>2, <1>6, <2>1, StaysAbreast
<1>7. CASE OnPath(def, outcomes')
  <2>1. PICK sim \in Stages(def) :
          /\ sim.resolved = Resolved(def, outcomes)
          /\ Stands(def, outcomes, cur, saved, sim)
          /\ NextUnit(def, sim, s) /\ Unit(def, s) = Group(s)
    BY <1>1, <1>5, <1>7, Looks
  <2> HIDE DEF s
  <2>2. /\ Unit(def, s) \subseteq StepIds(def) /\ \A t \in Unit(def, s) : outcomes[t] = "none"
        /\ outcomes' = Marked(def, outcomes, Unit(def, s), "skipped")
    BY <1>1, <1>4, <2>1
  <2>3. \E m \in Unit(def, s) : KeepsPriorSet(def, m)
    BY <1>1, <1>4, <1>5, <1>7, <2>1 DEF KeepsPriorSet
  <2>4. cur \in sim.curs /\ InSpan(def, outcomes, cur, saved, sim)
    BY <2>1 DEF Stands
  <2>5. "skipped" # "failed"
    OBVIOUS
  <2>6. InSpan(def, outcomes', cur, saved, RunUnit(def, sim, s))
    BY <1>2, <2>2, <2>4, <2>5, InSpanStays
  <2> QED
    BY <1>1, <2>1, <2>2, <2>3, <2>4, <2>6, Resolves
<1> QED
  BY <1>6, <1>7

\* runSingleton begins with the unit of the simulation.
LEMMA BeginAbreast ==
  ASSUME FlowInv, MatrixInv, Begin
  PROVE  MatrixInv'
<1> DEFINE s == NextReady
           l == [Idle EXCEPT !.step = s, !.failure = FailureForStep(s)]
           label == IF Sub(def.steps[s]) THEN "child" ELSE "fire"
<1>1. /\ Scanning /\ Walking /\ Ready # {} /\ Cardinality(Group(s)) = 1
      /\ Goto(label, l) /\ cur' = cur
  BY DEF Begin, Scanning, Walking
<1>2. def \in Definitions /\ New(def) /\ err = "none" /\ Recorded(def, saved)
  BY <1>1, OnItsWay
<1>3. s \in Ready
  BY <1>1, <1>2, NextIsReady
<1>4. l.step = s /\ l.count = 0
  BY DEF Idle
<1>5. /\ pc' = label /\ local' = l /\ def' = def /\ outcomes' = outcomes
      /\ err' = "none" /\ saved' = saved
  BY <1>1, <1>2 DEF Goto
<1> HIDE DEF s, l
<1>6. Group(s) = {s}
  <2>1. Group(s) \subseteq StepIds(def) /\ s \in Group(s)
    BY <1>2, <1>3, ReadyGroup DEF Ids
  <2>2. IsFiniteSet(Group(s))
    BY <1>2, <2>1, DefinitionType, FS_Subset
  <2> QED
    BY <1>1, <2>1, <2>2, FS_Singleton
<1>7. ASSUME OnPath(def, outcomes)
      PROVE  \E sim \in Stages(def) :
               /\ sim.resolved = Resolved(def, outcomes)
               /\ Abreast(def, outcomes, cur, saved, label, l, sim)
  <2>1. PICK sim \in Stages(def) :
          /\ sim.resolved = Resolved(def, outcomes)
          /\ Stands(def, outcomes, cur, saved, sim)
          /\ NextUnit(def, sim, s) /\ Unit(def, s) = Group(s)
    BY <1>1, <1>7, Looks DEF s
  <2>2. Abreast(def, outcomes, cur, saved, label, l, sim)
    BY <1>4, <1>6, <2>1 DEF Abreast, UnderWay
  <2> QED
    BY <2>1, <2>2
<1>8. label \notin {"new", "stopped"}
  OBVIOUS
<1> HIDE DEF label
<1> QED
  BY <1>1, <1>2, <1>5, <1>7, <1>8, StaysAbreast

\* A panel of two or more has members that are neither fallbacks nor chained.
LEMMA WavesArePlain ==
  ASSUME def \in Definitions, New(def), NEW s \in Ready, Cardinality(Group(s)) > 1
  PROVE  /\ s \in StepIds(def) /\ s \in Group(s)
         /\ def.steps[s].when # "OnFailed" /\ ~Sub(def.steps[s])
<1>1. /\ s \in Group(s) /\ s \in Ids
      /\ \/ InPanel(def, s) /\ Group(s) \in Panels(def)
         \/ ~InPanel(def, s) /\ Group(s) = {s}
  BY ReadyGroup DEF Ready, Unresolved
<1>2. Cardinality({s}) = 1 /\ ~(1 > 1)
  BY FS_Singleton
<1>3. InPanel(def, s) /\ Group(s) \in Panels(def)
  BY <1>1, <1>2
<1> QED
  BY <1>1, <1>3 DEF New, ValidateFailureAdmission, ValidatePanelChains, Ids

\* The members of a panel start together, or find no row to share.
LEMMA WaveAbreast ==
  ASSUME FlowInv, MatrixInv, WaveStarts \/ WaveNoTransition
  PROVE  MatrixInv'
<1> DEFINE s == NextReady
           l == [Idle EXCEPT !.step = s, !.wave = [t \in Group(s) |-> "running"]]
<1>1. /\ Scanning /\ Walking /\ Ready # {} /\ Cardinality(Group(s)) > 1 /\ cur' = cur
  BY DEF WaveStarts, WaveNoTransition, Scanning, Walking
<1>2. def \in Definitions /\ New(def) /\ err = "none" /\ Recorded(def, saved)
  BY <1>1, OnItsWay
<1>3. s \in Ready
  BY <1>1, <1>2, NextIsReady
<1>4. s \in StepIds(def) /\ def.steps[s].when # "OnFailed" /\ ~Sub(def.steps[s])
  BY <1>1, <1>2, <1>3, WavesArePlain
<1>5. l.step = s /\ DOMAIN l.wave = Group(s)
  BY DEF Idle
<1>6. ASSUME OnPath(def, outcomes)
      PROVE  \E sim \in Stages(def) :
               /\ sim.resolved = Resolved(def, outcomes)
               /\ Stands(def, outcomes, cur, saved, sim)
               /\ NextUnit(def, sim, s) /\ Unit(def, s) = Group(s)
  BY <1>1, <1>6, Looks
<1>7. CASE WaveStarts
  <2>1. Goto("wave", l)
    BY <1>7 DEF WaveStarts
  <2> HIDE DEF s, l
  <2>2. /\ pc' = "wave" /\ local' = l /\ def' = def /\ outcomes' = outcomes
        /\ err' = "none" /\ saved' = saved
    BY <1>2, <2>1 DEF Goto
  <2>3. ASSUME OnPath(def, outcomes)
        PROVE  \E sim \in Stages(def) :
                 /\ sim.resolved = Resolved(def, outcomes)
                 /\ Abreast(def, outcomes, cur, saved, "wave", l, sim)
    BY <1>4, <1>5, <1>6, <2>3 DEF Abreast
  <2> QED
    BY <1>1, <1>2, <2>2, <2>3, StaysAbreast
<1>8. CASE WaveNoTransition
  <2>1. /\ ~CanPick(def, cur, def.steps[s].to) /\ Stop("norow")
        /\ outcomes' = outcomes /\ saved' = saved
    BY <1>8 DEF WaveNoTransition
  <2>2. def' = def
    BY <2>1 DEF Stop
  <2> HIDE DEF s, l
  <2>3. ASSUME ValidateMatrix(def), ~LeftTheAllRunPath'
        PROVE  FALSE
    <3>1. OnPath(def, outcomes)
      BY <2>1, <2>2, <2>3, Exceptions
    <3>2. PICK sim \in Stages(def) :
            Stands(def, outcomes, cur, saved, sim) /\ NextUnit(def, sim, s)
      BY <1>6, <3>1
    <3>3. cur \in StandingFor(def, sim, s) /\ def.steps[s].to \in Targets(def.steps[s])
      BY <1>4, <3>2 DEF Stands, StandingFor, Targets
    <3> QED
      BY <1>2, <2>1, <2>3, <3>2, <3>3, RowIsAsked
  <2>4. MatrixCoversWalk'
    BY <2>2, <2>3 DEF MatrixCoversWalk
  <2> QED
    BY <2>1, <2>4, Returns
<1> QED
  BY <1>7, <1>8

\* A member's goroutine ends.
LEMMA MemberAbreast ==
  ASSUME FlowInv, MatrixInv, NEW s, NEW answer, MemberFires(s, answer)
  PROVE  MatrixInv'
<1> DEFINE l == [local EXCEPT !.wave[s] = answer]
<1>1. /\ pc = "wave" /\ Walking /\ s \in DOMAIN local.wave /\ Goto("wave", l) /\ cur' = cur
  BY DEF MemberFires, Walking
<1>2. err = "none" /\ Recorded(def, saved)
  BY <1>1, OnItsWay
<1>3. Place(def, outcomes, saved, pc, local)
  BY DEF FlowInv
<1>4. l.step = local.step /\ DOMAIN l.wave = DOMAIN local.wave
  <2>1. local = [field \in {"step", "count", "failure", "wave"} |-> local[field]]
    BY <1>3 DEF Place
  <2> QED
    BY <2>1
<1> HIDE DEF l
<1>5. /\ pc' = "wave" /\ local' = l /\ def' = def /\ outcomes' = outcomes
      /\ err' = "none" /\ saved' = saved
  BY <1>1, <1>2 DEF Goto
<1>6. ASSUME OnPath(def, outcomes)
      PROVE  \E sim \in Stages(def) :
               /\ sim.resolved = Resolved(def, outcomes)
               /\ Abreast(def, outcomes, cur, saved, "wave", l, sim)
  <2>1. PICK sim \in Stages(def) : /\ sim.resolved = Resolved(def, outcomes)
                                   /\ Abreast(def, outcomes, cur, saved, pc, local, sim)
    BY <1>1, <1>6, OnItsWay
  <2>2. Abreast(def, outcomes, cur, saved, "wave", l, sim)
    BY <1>1, <1>4, <2>1 DEF Abreast
  <2> QED
    BY <2>1, <2>2
<1> QED
  BY <1>1, <1>2, <1>5, <1>6, StaysAbreast

\* The answers of a panel are in.
LEMMA JoinAbreast ==
  ASSUME FlowInv, MatrixInv, WaveJoins
  PROVE  MatrixInv'
<1> DEFINE s == local.step
           S == DOMAIN local.wave
<1>1. pc = "wave" /\ Walking
  BY DEF WaveJoins, Walking
<1>2. \/ PanelFails(S)
      \/ /\ outcomes' = Marked(def, outcomes, S, "succeeded") /\ cur' = Current.to
         /\ Continue /\ saved' = [status |-> cur', outcomes |-> outcomes']
  BY MarkIs DEF WaveJoins, FireCheckpoint
<1>3. /\ def \in Definitions /\ New(def) /\ err = "none" /\ outcomes \in OutcomeMaps(def)
      /\ Closed(def, outcomes) /\ Recorded(def, saved)
  BY <1>1, OnItsWay
<1>4. S \in Panels(def) /\ \A t \in S : Due(def, outcomes, t)
  BY <1>1 DEF FlowInv, Place
<1>5. S \subseteq StepIds(def) /\ \A t \in S : outcomes[t] = "none"
  BY <1>4 DEF Due
<1>6. ASSUME OnPath(def, outcomes)
      PROVE  \E sim \in Stages(def) :
               /\ sim.resolved = Resolved(def, outcomes)
               /\ Stands(def, outcomes, cur, saved, sim)
               /\ NextUnit(def, sim, s) /\ Unit(def, s) = S /\ ~Sub(def.steps[s])
  <2>1. PICK sim \in Stages(def) : /\ sim.resolved = Resolved(def, outcomes)
                                   /\ Abreast(def, outcomes, cur, saved, pc, local, sim)
    BY <1>1, <1>6, OnItsWay
  <2> QED
    BY <1>1, <2>1 DEF Abreast
<1>7. Current = def.steps[s]
  BY DEF Current
<1> HIDE DEF s, S
<1>8. \A o \in {"succeeded", "failed"} :
        OnPath(def, Marked(def, outcomes, S, o)) => OnPath(def, outcomes)
  BY <1>3, <1>5, MarksPath
<1>9. CASE /\ outcomes' = Marked(def, outcomes, S, "succeeded") /\ cur' = Current.to
           /\ Continue /\ saved' = [status |-> cur', outcomes |-> outcomes']
  <2>1. CASE OnPath(def, outcomes)
    <3>1. PICK sim \in Stages(def) :
            /\ sim.resolved = Resolved(def, outcomes)
            /\ NextUnit(def, sim, s) /\ Unit(def, s) = S /\ ~Sub(def.steps[s])
      BY <1>6, <2>1
    <3>2. cur' \in Targets(def.steps[s])
      BY <1>7, <1>9, <3>1 DEF Targets
    <3>3. /\ Unit(def, s) \subseteq StepIds(def) /\ \A t \in Unit(def, s) : outcomes[t] = "none"
          /\ outcomes' = Marked(def, outcomes, Unit(def, s), "succeeded")
      BY <1>5, <1>9, <3>1
    <3> QED
      BY <1>1, <1>9, <3>1, <3>2, <3>3, Records
  <2>2. CASE ~OnPath(def, outcomes)
    <3>1. ~OnPath(def, outcomes') /\ saved'.outcomes = outcomes'
      BY <1>8, <1>9, <2>2
    <3>2. Recorded(def, saved')
      BY <3>1 DEF Recorded
    <3>3. pc' = "loop" /\ def' = def /\ err' = "none"
      BY <1>3, <1>9 DEF Continue
    <3> QED
      BY <3>1, <3>2, <3>3, StaysAbreast
  <2> QED
    BY <2>1, <2>2
<1>10. CASE PanelFails(S)
  <2> DEFINE new == Marked(def, outcomes, S, "failed")
  <2>1. /\ outcomes' = new /\ cur' = cur /\ saved' = saved
        /\ \/ (\A t \in S : FailureHandlersFor(t, new) # {}) /\ Continue
           \/ Stop("failed")
    BY <1>10, MarkIs DEF PanelFails
  <2>2. CASE Stop("failed")
    BY <2>1, <2>2, Returns
  <2>3. CASE Continue /\ ~OnPath(def, outcomes)
    <3>1. ~OnPath(def, outcomes')
      BY <1>8, <2>1, <2>3
    <3>2. pc' = "loop" /\ def' = def /\ err' = "none"
      BY <1>3, <2>3 DEF Continue
    <3> QED
      BY <1>3, <2>1, <3>1, <3>2, StaysAbreast
  <2>4. CASE /\ \A t \in S : FailureHandlersFor(t, new) # {}
             /\ Continue /\ OnPath(def, outcomes)
    <3>1. PICK sim \in Stages(def) :
            /\ sim.resolved = Resolved(def, outcomes)
            /\ Stands(def, outcomes, cur, saved, sim)
            /\ NextUnit(def, sim, s) /\ Unit(def, s) = S
      BY <1>6, <2>4
    <3>2. s \in StepIds(def)
      BY <3>1 DEF NextUnit, SimReady
    <3>3. s \in S
      BY <1>3, <3>1, <3>2, StepFacts
    <3>4. def.steps[s].when # "OnFailed"
      BY <1>3, <1>4, <3>2, <3>3 DEF New, ValidateFailureAdmission, InPanel
    <3>5. KeepsPriorSet(def, s)
      BY <2>4, <3>3 DEF FailureHandlersFor, KeepsPriorSet, DirectDependents, Ids
    <3>6. cur \in sim.curs /\ InSpan(def, outcomes, cur, saved, sim)
      BY <3>1 DEF Stands
    <3>7. cur \in StandingFor(def, sim, s)
      BY <3>4, <3>6 DEF StandingFor
    <3>8. /\ Unit(def, s) \subseteq StepIds(def) /\ \A t \in Unit(def, s) : outcomes[t] = "none"
          /\ outcomes' = Marked(def, outcomes, Unit(def, s), "failed")
      BY <1>5, <2>1, <3>1
    <3>9. InSpan(def, outcomes', cur, saved, RunUnit(def, sim, s))
      BY <1>3, <3>6, <3>7, <3>8, InSpanStays
    <3>10. \E m \in Unit(def, s) : KeepsPriorSet(def, m)
      BY <3>1, <3>3, <3>5
    <3> QED
      BY <1>1, <2>1, <2>4, <3>1, <3>6, <3>8, <3>9, <3>10, Resolves
  <2> QED
    BY <2>1, <2>2, <2>3, <2>4
<1> QED
  BY <1>2, <1>9, <1>10

\* A walk that has resolved nothing stands where the simulation starts.
LEMMA StartsAbreast ==
  ASSUME NEW d \in Definitions, NEW oc, oc = [s \in StepIds(d) |-> "none"], NEW sv, NEW l
  PROVE  \E sim \in Stages(d) : /\ sim.resolved = Resolved(d, oc)
                                /\ Abreast(d, oc, Initial, sv, "loop", l, sim)
<1> DEFINE sim == Sims(d)[0]
<1>1. sim = SimStart(d) /\ Len(d.steps) \in Nat
  BY DefinitionType, SimsUnfold
<1>2. sim \in Stages(d)
  BY <1>1 DEF Stages
<1>3. sim.resolved = {} /\ Initial \in sim.curs
  BY <1>1 DEF SimStart
<1> HIDE DEF sim
<1>4. Resolved(d, oc) = {} /\ \A f \in StepIds(d) : ~Since(oc, sv, f)
  BY DEF Resolved, Since
<1>5. Abreast(d, oc, Initial, sv, "loop", l, sim)
  BY <1>3, <1>4 DEF Abreast, Stands, InSpan
<1> QED
  BY <1>2, <1>3, <1>4, <1>5

\* Another call starts on a stage of the simulation.
LEMMA ResumeAbreast ==
  ASSUME FlowInv, MatrixInv, Resume
  PROVE  MatrixInv'
<1>1. /\ pc' = "loop" /\ err' = "none" /\ UNCHANGED <<def, local, saved>>
      /\ outcomes' = (IF saved = NoCheckpoint THEN [s \in StepIds(def) |-> "none"]
                      ELSE saved.outcomes)
      /\ cur' = (IF saved = NoCheckpoint THEN Initial ELSE saved.status)
  BY DEF Resume, Ids
<1>2. def \in Definitions /\ Recorded(def, saved)
  BY DEF FlowInv, MatrixInv
<1>3. CASE saved = NoCheckpoint
  <2>1. outcomes' = [s \in StepIds(def) |-> "none"] /\ cur' = Initial
    BY <1>1, <1>3
  <2>2. \E sim \in Stages(def) :
          /\ sim.resolved = Resolved(def, outcomes')
          /\ Abreast(def, outcomes', Initial, saved', "loop", local', sim)
    BY <1>2, <2>1, StartsAbreast
  <2> QED
    BY <1>1, <1>2, <2>1, <2>2, StaysAbreast
<1>4. CASE saved # NoCheckpoint
  <2>1. outcomes' = saved.outcomes /\ cur' = saved.status
    BY <1>1, <1>4
  <2>2. ASSUME OnPath(def, saved.outcomes)
        PROVE  \E sim \in Stages(def) :
                 /\ sim.resolved = Resolved(def, saved.outcomes)
                 /\ Abreast(def, saved.outcomes, saved.status, saved, "loop", local, sim)
    <3>1. PICK sim \in Stages(def) : /\ sim.resolved = Resolved(def, saved.outcomes)
                                     /\ saved.status \in sim.curs
      BY <1>2, <1>4, <2>2 DEF Recorded
    <3>2. \A f : ~Since(saved.outcomes, saved, f)
      BY <1>4 DEF Since
    <3>3. Abreast(def, saved.outcomes, saved.status, saved, "loop", local, sim)
      BY <3>1, <3>2 DEF Abreast, Stands, InSpan
    <3> QED
      BY <3>1, <3>3
  <2> QED
    BY <1>1, <1>2, <2>1, <2>2, StaysAbreast
<1> QED
  BY <1>3, <1>4

\* New is asked about the definition.
LEMMA NewAbreast ==
  ASSUME FlowInv, MatrixInv, NewDefinition
  PROVE  MatrixInv'
<1>1. /\ pc = "new" /\ UNCHANGED <<def, outcomes, cur, local, saved>>
      /\ \/ pc' = "loop" /\ err' = err
         \/ pc' = "stopped" /\ err' = "rejected"
  BY DEF NewDefinition
<1>2. def \in Definitions /\ err = "none"
  BY <1>1 DEF FlowInv
<1>3. /\ saved = NoCheckpoint /\ cur = Initial
      /\ outcomes = [s \in StepIds(def) |-> "none"]
  BY <1>1 DEF MatrixInv, Ids
<1>4. Recorded(def, saved)
  BY <1>3 DEF Recorded
<1>5. CASE pc' = "loop" /\ err' = err
  <2>1. \E sim \in Stages(def) :
          /\ sim.resolved = Resolved(def, outcomes)
          /\ Abreast(def, outcomes, Initial, saved, "loop", local, sim)
    BY <1>2, <1>3, StartsAbreast
  <2> QED
    BY <1>1, <1>2, <1>3, <1>4, <1>5, <2>1, StaysAbreast
<1>6. CASE pc' = "stopped" /\ err' = "rejected"
  <2>1. MatrixCoversWalk'
    BY <1>6 DEF MatrixCoversWalk
  <2> QED
    BY <1>1, <1>4, <1>6, <2>1 DEF MatrixInv
<1> QED
  BY <1>1, <1>5, <1>6

\* Every action keeps the walk abreast of the simulation.
LEMMA MatrixStep == FlowInv /\ MatrixInv /\ [Next]_flowVars => MatrixInv'
<1> SUFFICES ASSUME FlowInv, MatrixInv, [Next]_flowVars PROVE MatrixInv'
  OBVIOUS
<1>1. CASE NewDefinition \/ Resume
  BY <1>1, NewAbreast, ResumeAbreast
<1>2. CASE Finish \/ Stall \/ Pause \/ Crash
  <2>1. PICK e \in {"nil", "stalled", "paused", "crashed"} : Stop(e)
    BY <1>2 DEF Finish, Stall, Pause, Crash
  <2>2. saved' = saved
    BY <1>2 DEF Finish, Stall, Pause, Crash
  <2> QED
    BY <2>1, <2>2, Returns
<1>3. CASE Skip \/ Begin
  BY <1>3, SkipAbreast, BeginAbreast
<1>4. CASE NoTransition
  BY <1>4, FailsAbreast DEF NoTransition
<1>5. CASE FireFails \/ LoopCancelled
  BY <1>5, FailsAbreast DEF FireFails, Fires, LoopCancelled
<1>6. CASE ChildFails \/ ConfirmRejects
  BY <1>6, FailsAbreast DEF ChildFails, RunsChild, ConfirmRejects
<1>7. CASE ChildMoveFails
  <2>1. PICK final \in ChildFinals(Current) \ {cur} :
          StepFails(IF Reenters(final) THEN "fire" ELSE "transition")
    BY <1>7 DEF ChildMoveFails
  <2>2. pc = "child" /\ cur' = cur
    BY <1>7 DEF ChildMoveFails, RunsChild
  <2>3. CASE Reenters(final)
    BY <2>1, <2>2, <2>3, FailsAbreast
  <2>4. CASE ~Reenters(final)
    <3>1. ~CanPick(def, cur, final)
      BY <2>4 DEF Reenters
    <3> QED
      BY <2>1, <2>2, <2>4, <3>1, FailsAbreast
  <2> QED
    BY <2>3, <2>4
<1>8. CASE GuardFails \/ ChildAgain \/ ChildDone
  <2>1. pc = "child" /\ cur' \in ChildFinals(Current) /\ Walking
    BY <1>8 DEF GuardFails, ChildAgain, ChildDone, RunsChild, Walking
  <2>2. CASE ChildDone
    BY <2>1, <2>2, GoesAbreast DEF ChildDone
  <2>3. CASE GuardFails \/ ChildAgain
    <3>1. local.count + 1 < Current.loop
      BY <2>3 DEF GuardFails, ChildAgain
    <3>2. CASE GuardFails
      BY <2>1, <3>1, <3>2, FailsAbreast DEF GuardFails
    <3>3. CASE ChildAgain
      BY <2>1, <3>1, <3>3, GoesAbreast DEF ChildAgain
    <3> QED
      BY <2>3, <3>2, <3>3
  <2> QED
    BY <1>8, <2>2, <2>3
<1>9. CASE FireSucceeds \/ FireRetries
  <2>1. pc = "fire"
    BY <1>9 DEF FireSucceeds, FireRetries, Fires
  <2>2. \/ Goto("confirm", local) /\ cur' = Current.to
        \/ Goto("sleep", [local EXCEPT !.count = @ + 1]) /\ cur' = cur
    BY <1>9 DEF FireSucceeds, FireRetries
  <2> QED
    BY <2>1, <2>2, GoesAbreast
<1>10. CASE SleepEnds
  <2>1. pc = "sleep" /\ (StepFails("ctx") \/ Goto("fire", local)) /\ cur' = cur
    BY <1>10 DEF SleepEnds
  <2> QED
    BY <2>1, FailsAbreast, GoesAbreast
<1>11. CASE Confirms \/ RouteFails \/ \E kept \in SUBSET Ids : Routes(kept)
  BY <1>11, ConfirmsAbreast, RoutesOff
<1>12. CASE WaveStarts \/ WaveNoTransition \/ WaveJoins
             \/ \E s \in Ids, answer \in {"ok", "err"} : MemberFires(s, answer)
  BY <1>12, WaveAbreast, JoinAbreast, MemberAbreast
<1>13. CASE Cancel \/ UNCHANGED flowVars
  <2>1. UNCHANGED <<def, pc, outcomes, cur, local, err, saved>>
    BY <1>13 DEF Cancel, flowVars
  <2>2. MatrixCoversWalk'
    BY <2>1 DEF MatrixInv, MatrixCoversWalk, LeftTheAllRunPath, FallbackOvertaken,
         FailedSince, Ids
  <2> QED
    BY <2>1, <2>2 DEF MatrixInv, Ids
<1> QED
  BY <1>1, <1>2, <1>3, <1>4, <1>5, <1>6, <1>7, <1>8, <1>9, <1>10, <1>11, <1>12, <1>13
     DEF Next, Walk

\* It holds before New is asked.
LEMMA MatrixInitial == Init => MatrixInv
  BY DEF Init, MatrixInv, Recorded, MatrixCoversWalk, Ids

\* Until a route or a skipped step takes it off the path on which every step
\* runs, a walk has resolved what a stage of the simulation has, stands on a
\* status that stage counts with, and takes the unit it runs next; so does
\* every checkpoint (nextReadyGroup and nextUnit, advance).
THEOREM WalkIsSimulated == Spec => []MatrixInv
<1> QED
  BY FlowInitial, FlowStep, MatrixInitial, MatrixStep, PTL DEF Spec

\* A plan that ValidateMatrix lets through never aborts for want of a row or
\* for one too many, for every graph and table, however its steps fail, fan
\* out, loop and are resumed, outside of the exceptions that are stated.
THEOREM MatrixIsEnough == Spec => []MatrixCoversWalk
<1>1. MatrixInv => MatrixCoversWalk
  BY DEF MatrixInv
<1> QED
  BY <1>1, WalkIsSimulated, PTL

=============================================================================
