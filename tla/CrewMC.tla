------------------------------- MODULE CrewMC -------------------------------
(***************************************************************************)
(* Set-ups of agent runs for TLC.                                          *)
(***************************************************************************)
EXTENDS AgentRun

a == <<"a">>
b == <<"b">>
a2 == <<"a", 2>>

NoHooks == [p \in Points \cup EventNames |-> <<>>]

\* Runners in the order of the set-ups' plans.
Place(i) == SetToSeq(Runners)[i]

Plans(plans) ==
  [r \in Runners |-> LET i == CHOOSE i \in 1..3 : Place(i) = r IN plans[i]]

Plain ==
  [plan |-> Plans(<<<<a>>, <<>>, <<>>>>), child |-> <<a>>, registered |-> {a},
   tool |-> {"text"}, ask |-> FALSE, remote |-> FALSE, budget |-> 0,
   payloads |-> {"text"}, hooks |-> NoHooks, changes |-> 0, cancels |-> FALSE]

\* A loop over a step whose repetition collides with another step's name,
\* beside a second run.
Looping ==
  [Plain EXCEPT !.plan = Plans(<<<<a, a, a2, a>>, <<b, b>>, <<>>>>),
                !.registered = {a, a2, b}, !.tool = {"text", "blank", "nontext", "error"},
                !.budget = 4, !.payloads = Texts]

\* A budget that ends the walk.
Tight == [Plain EXCEPT !.plan = Plans(<<<<a, a>>, <<>>, <<>>>>), !.budget = 1]

\* Two runs that escalate to one human, with steps of the same name.
Asking ==
  [Plain EXCEPT !.plan = Plans(<<<<a, b>>, <<a>>, <<>>>>), !.registered = {a, b},
                !.tool = {"escalated"}, !.ask = TRUE, !.cancels = TRUE]

\* Nobody to escalate to.
Unasked == [Plain EXCEPT !.tool = {"escalated"}]

\* Hooks and subscriptions that change while a run fires them.
Hooked ==
  [Plain EXCEPT !.changes = 2,
                !.hooks = [NoHooks EXCEPT !["pre"] = <<"h1", "h2">>, !["post"] = <<"h1">>,
                                          !["stop"] = <<"h2">>, !["acked"] = <<"h1">>]]

Spawning == [Plain EXCEPT !.plan = Plans(<<<<a, a>>, <<>>, <<>>>>),
                          !.tool = {"spawn"}, !.cancels = TRUE]

Mixed == [Spawning EXCEPT !.tool = {"spawn", "text"}, !.child = <<a, a>>]

Away == [Plain EXCEPT !.plan = Plans(<<<<a, b>>, <<>>, <<>>>>), !.registered = {a, b},
                      !.remote = TRUE, !.cancels = TRUE]

\* A spawned run that has no step to gate.
Hollow == [Spawning EXCEPT !.plan = Plans(<<<<a>>, <<>>, <<>>>>), !.child = <<>>]

MCStepIDs == {a, b, a2}

MCCrews == {Plain, Looping, Tight, Asking, Unasked, Hooked, Spawning, Hollow, Mixed, Away}

=============================================================================
