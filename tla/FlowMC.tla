------------------------------- MODULE FlowMC -------------------------------
(* Instances of modules Flow and Matrix for TLC. *)
EXTENDS Matrix, TLC

Plain == [needs |-> <<>>, to |-> 1, when |-> "OnSucceeded", route |-> FALSE,
          retry |-> 0, child |-> <<>>, loop |-> 0]

After(needs, when) == [Plain EXCEPT !.needs = needs, !.when = when]

\* The members of S in declaration order.
Ascending(S) == SelectSeq(<<1, 2, 3, 4>>, LAMBDA s : s \in S)

\* Each step has a status of its own, which the members of a panel share.
WithStatuses(d) ==
  [d EXCEPT !.steps = [s \in DOMAIN d.steps |->
     [d.steps[s] EXCEPT !.to =
        CHOOSE t \in Unit(d, s) : \A u \in Unit(d, s) : t <= u]]]

\* The table with a row for every pair of statuses, and the one with the
\* rows that ValidateMatrix asks for and no others.
FullTable(d) == [p \in Statuses \X Statuses |-> IF p[1] = p[2] THEN 0 ELSE 1]

AskedTable(d) == [p \in Statuses \X Statuses |-> IF p \in Required(d) THEN 1 ELSE 0]

DoubledTable(d) == [p \in Statuses \X Statuses |-> IF p \in Required(d) THEN 2 ELSE 0]

Plan(d, rows) == [steps |-> d.steps, panels |-> d.panels, rows |-> rows]

\* Graphs of three plain steps with at most one Route and one panel; where
\* a step needs nothing its admission rule is not varied.
NeedsOfThree ==
  {f \in [1..3 -> SUBSET (1..3)] :
     /\ \A s, t \in 1..3 : ~(t \in f[s] /\ s \in f[t])
     /\ ~\E s, t, u \in 1..3 : t \in f[s] /\ u \in f[t] /\ s \in f[u]}

ThreeSteps ==
  {WithStatuses([steps |-> [s \in 1..3 |->
                   [Plain EXCEPT !.needs = Ascending(g[1][s]), !.when = g[2][s],
                                 !.route = s = routed]],
                 panels |-> panels]) :
     g \in {h \in NeedsOfThree \X [1..3 -> Admissions] :
              \A s \in 1..3 : h[1][s] = {} => h[2][s] # "OnFinished"},
     routed \in 0..3,
     panels \in {<<>>, <<{1, 2}>>, <<{2, 3}>>}}

Accepted == {d \in ThreeSteps : New(d)}

\* Retries, chained and looped steps with a fallback, a cycle, panels that
\* wait for each other, a panel one member of which may be turned down, a
\* panel to begin with, and a loop that may come between a failure and its
\* fallback.
Features ==
  {WithStatuses(d) : d \in
    {[steps |-> <<[Plain EXCEPT !.retry = 3], After(<<1>>, "OnFailed"),
                  After(<<1, 2>>, "OnFinished")>>, panels |-> <<>>],
     [steps |-> <<[Plain EXCEPT !.child = <<[needs |-> <<>>, to |-> 1]>>],
                  After(<<1>>, "OnFailed"), After(<<1>>, "OnSucceeded")>>,
      panels |-> <<{1}>>],
     [steps |-> <<[Plain EXCEPT !.child = <<[needs |-> <<>>, to |-> 1],
                                            [needs |-> <<1>>, to |-> 2],
                                            [needs |-> <<1>>, to |-> 4]>>,
                                !.loop = 3],
                  After(<<1>>, "OnFailed"), After(<<1>>, "OnSucceeded")>>,
      panels |-> <<>>],
     [steps |-> <<After(<<2>>, "OnSucceeded"), After(<<1>>, "OnFinished")>>,
      panels |-> <<>>],
     [steps |-> <<After(<<3>>, "OnSucceeded"), Plain, Plain,
                  After(<<2>>, "OnSucceeded")>>,
      panels |-> <<{1, 2}, {3, 4}>>],
     [steps |-> <<Plain, After(<<1>>, "OnFailed"), After(<<1>>, "OnSucceeded"),
                  Plain>>,
      panels |-> <<{3, 4}>>],
     [steps |-> <<Plain, Plain, After(<<1, 2>>, "OnFinished")>>,
      panels |-> <<{1, 2}>>],
     [steps |-> <<Plain,
                  [Plain EXCEPT !.child = <<[needs |-> <<>>, to |-> 2]>>, !.loop = 2],
                  After(<<1>>, "OnFailed"), After(<<2>>, "OnFailed")>>,
      panels |-> <<>>]}}

Graphs == {Plan(d, FullTable(d)) : d \in ThreeSteps \cup Features}
          \cup {Plan(d, AskedTable(d)) : d \in Accepted \cup Features}
          \cup {Plan(d, DoubledTable(d)) : d \in Features}

=============================================================================
