--------------------------- MODULE ContextSession ---------------------------
(***************************************************************************)
(* The session planner (src/contextsession/) over the context state store  *)
(* and the spool, with everyone else who uses those two at the same time.  *)
(*                                                                         *)
(* Plan walks a snapshot of a session from its newest event to its oldest. *)
(* It reads each payload from the store when it gets there, a revoked one  *)
(* twice (Get, then Status for its metadata), keeps what fits the window,  *)
(* and spools what does not for the payload's subject.  Each read and each *)
(* half of a spooling is a step of its own.                                *)
(*                                                                         *)
(* The estimator charges a message its size and may fail on any call.  A   *)
(* planner without a spool behaves as one whose every spooling fails.      *)
(***************************************************************************)
EXTENDS ContextState, Spool

CONSTANTS
  Budget,     \* Window.Budget, in the bytes the estimator charges
  StubBytes,  \* StubContentBytes
  MaxPlans    \* bound: calls of Plan

ASSUME PlannerAssumption == {Budget, StubBytes, MaxPlans} \subseteq Nat

VARIABLES
  plan,  \* planState, the snapshot, and where Plan is
  plans  \* calls of Plan so far

vars == <<stateVars, spoolVars, plan, plans>>

Unplanned == [at |-> "idle"]

Bytes(record, c) == IF record.data THEN c ELSE NoBytes

\* What the estimator charges for a list of messages, from the newest on.
ChargeOfLast(msgs) ==
  LET sum[n \in 0..Len(msgs)] ==
        IF n = 0 THEN 0 ELSE sum[n - 1] + msgs[Len(msgs) + 1 - n].size
  IN  sum

Charge(msgs) == ChargeOfLast(msgs)[Len(msgs)]

\* A trial insertion that the estimator finds within the budget.
Fits(msgs, size) == Charge(msgs) + size <= Budget

\* StubContent: the whole of a short content, StubBytes of a long one.
StubSize(c) == Min({Size[c], StubBytes})

Elision(i, reason, kept, spooled) ==
  [i |-> i, reason |-> reason, kept |-> kept, spooled |-> spooled]

\* Plan: the caller's Session is a snapshot; its window is well formed.
\* denied remembers what was revoked before.
PlanBegin(s) ==
  /\ plan.at = "idle" /\ plans < MaxPlans /\ sessions[s] # NoSession
  /\ plans' = plans + 1
  /\ plan' = [at |-> "event", src |-> sessions[s].events,
              i |-> Len(sessions[s].events), msgs |-> <<>>, elided |-> <<>>,
              over |-> FALSE, pending |-> {}, denied |-> {c \in Contents : Revoked(c)}]
  /\ UNCHANGED <<stateVars, spoolVars>>

\* The payload of the event at hand.
Payload == payloads[plan.src[plan.i].content]

\* One more elision, and on to the next older event.
Elide(p, e) ==
  [p EXCEPT !.at = "event", !.i = @ - 1, !.elided = Append(@, e)]

\* resolvePayload: a payload that is missing fails the whole plan, a revoked
\* one sends it to Status.
PlanMissing ==
  /\ plan.at = "event" /\ plan.i > 0
  /\ Payload = NoPayload
  /\ plan' = Unplanned
  /\ UNCHANGED <<stateVars, spoolVars, plans>>

PlanDenied ==
  /\ plan.at = "event" /\ plan.i > 0
  /\ Payload # NoPayload /\ Payload.revoked
  /\ plan' = [plan EXCEPT !.at = "status"]
  /\ UNCHANGED <<stateVars, spoolVars, plans>>

PlanStatus ==
  /\ plan.at = "status"
  /\ Payload # NoPayload
  /\ plan' = Elide(plan, Elision(plan.i, "revoked", 0, FALSE))
  /\ UNCHANGED <<stateVars, spoolVars, plans>>

\* Get answered.
Resolved == plan.at = "event" /\ plan.i > 0
              /\ Payload # NoPayload /\ ~Payload.revoked

\* IsReasoningEvent.
Reasoning(i) == plan.src[i].kind = "reasoning"

PlanReasoning ==
  /\ Resolved /\ Reasoning(plan.i)
  /\ plan' = Elide(plan, Elision(plan.i, "reasoning", 0, FALSE))
  /\ UNCHANGED <<stateVars, spoolVars, plans>>

\* Mutant of PlanKeep: admit tries every message, however many were dropped.
PlanKeepAnyTime ==
  /\ Resolved /\ ~Reasoning(plan.i)
  /\ LET size == Size[Bytes(Payload, plan.src[plan.i].content)]
     IN  /\ Fits(plan.msgs, size)
         /\ plan' = [plan EXCEPT !.i = @ - 1, !.msgs =
              <<[i |-> plan.i, size |-> size, full |-> TRUE]>> \o @]
  /\ UNCHANGED <<stateVars, spoolVars, plans>>

\* admit, while the budget lasts.
PlanKeep ==
  /\ Resolved /\ ~Reasoning(plan.i) /\ ~plan.over
  /\ LET size == Size[Bytes(Payload, plan.src[plan.i].content)]
     IN  /\ Fits(plan.msgs, size)
         /\ plan' = [plan EXCEPT !.i = @ - 1, !.msgs =
              <<[i |-> plan.i, size |-> size, full |-> TRUE]>> \o @]
  /\ UNCHANGED <<stateVars, spoolVars, plans>>

\* admit, from the first message on that does not fit or that the estimator
\* fails on: a stub for a payload kept for compliance, if it fits, and the
\* first half of the spooling.
PlanElide ==
  /\ Resolved /\ ~Reasoning(plan.i)
  /\ LET c    == Bytes(Payload, plan.src[plan.i].content)
         stub == StubSize(c)
     IN  \E kept \in BOOLEAN :
           /\ kept => Payload.retention = "compliance" /\ Fits(plan.msgs, stub)
           /\ LET e == IF kept THEN Elision(plan.i, "retention", stub, FALSE)
                       ELSE Elision(plan.i, "overflow", 0, FALSE)
                  next == [plan EXCEPT !.over = TRUE, !.msgs =
                    IF kept THEN <<[i |-> plan.i, size |-> stub, full |-> FALSE]>> \o @
                    ELSE @]
              IN  IF SpoolRefused(c)
                    THEN plan' = Elide(next, e) /\ UNCHANGED blobs
                    ELSE /\ PutBlob(c)
                         /\ plan' = [next EXCEPT !.at = "grant", !.pending =
                              [content |-> c, principal |-> Payload.subject,
                               elision |-> e]]
  /\ UNCHANGED <<stateVars, grants, owner, agent, runs, plans>>

\* The second half of spoolRecord: a refused grant leaves the SpoolRef empty.
PlanGrant ==
  /\ plan.at = "grant"
  /\ LET g == plan.pending
     IN  IF Conflict(g.content, g.principal)
           THEN /\ plan' = Elide(plan, g.elision)
                /\ UNCHANGED <<grants, owner>>
           ELSE /\ RecordGrant(g.content, g.principal, "never")
                /\ plan' = Elide(plan, [g.elision EXCEPT !.spooled = TRUE])
  /\ UNCHANGED <<stateVars, blobs, agent, runs, plans>>

\* Plan has returned; its caller may plan again.
PlanAgain ==
  /\ plan.at = "event" /\ plan.i = 0
  /\ plan' = Unplanned
  /\ UNCHANGED <<stateVars, spoolVars, plans>>

PlanNext ==
  \/ \E s \in Sessions : PlanBegin(s)
  \/ PlanMissing \/ PlanDenied \/ PlanStatus \/ PlanReasoning
  \/ PlanKeep \/ PlanElide \/ PlanGrant \/ PlanAgain

Init == StateInit /\ SpoolInit(0) /\ plan = Unplanned /\ plans = 0

Next ==
  \/ StateNext /\ UNCHANGED <<spoolVars, plan, plans>>
  \/ SpoolNext /\ UNCHANGED <<stateVars, plan, plans>>
  \/ PlanNext

Spec == Init /\ [][Next]_vars

----------------------------------------------------------------------------
(* Properties.                                                             *)

Planned == plan.at = "event" /\ plan.i = 0

FullIn(msgs) == {m.i : m \in {n \in Range(msgs) : n.full}}

ForRoom == {"overflow", "retention"}

\* A plan accounts for every event of the snapshot exactly once, as a message
\* or as an elision with its reason; keeps the order of the source; keeps a
\* newest run of events, so that nothing older gets in whole behind one that
\* was left out for room; stubs exactly what it says it kept a part of; and
\* stays within the window (contextsession/planner.go Plan, admit).
PlanIsFaithful ==
  Planned =>
    LET full  == FullIn(plan.msgs)
        elid  == {e.i : e \in Range(plan.elided)}
        stubs == {m.i : m \in Range(plan.msgs)} \ full
    IN  /\ full \union elid = DOMAIN plan.src /\ full \intersect elid = {}
        /\ Len(plan.elided) = Cardinality(elid)
        /\ stubs = {e.i : e \in {d \in Range(plan.elided) : d.reason = "retention"}}
        /\ \A j, k \in DOMAIN plan.msgs : j < k => plan.msgs[j].i < plan.msgs[k].i
        /\ \A e \in Range(plan.elided) :
             e.reason \in ForRoom => \A i \in full : e.i < i
        /\ \A m \in Range(plan.msgs) : ~Reasoning(m.i)
        /\ Charge(plan.msgs) <= Budget

\* What was revoked before a plan began is in none of its messages, whatever
\* is put, committed or revoked while the plan is made: a revoked payload is
\* never written again, neither by Put nor by a commit that carries it
\* (contextstate/store.go:53, 135).
RevokedNeverPlanned ==
  plan.at # "idle"
    => \A m \in Range(plan.msgs) : plan.src[m.i].content \notin plan.denied
=============================================================================
