---------------------------- MODULE AgentLoopMC ----------------------------
(* Instances of module AgentLoop for TLC. *)
EXTENDS AgentLoop

Batch(policy, bounded) == [policy |-> policy, dedup |-> TRUE, bounded |-> bounded]

NilWindow == [maxTokens |-> 0]

\* Seven messages' worth of budget; compaction starts at five.
SmallWindow ==
  [maxTokens |-> 800, reserve |-> 100, triggerPercent |-> 75,
   targetPercent |-> 50, targetTokens |-> 0, recentTail |-> 2]

Calls(ks) == [i \in DOMAIN ks |-> [key |-> ks[i], waits |-> i > 1]]

Response(tag, cs) == [tag |-> tag, calls |-> cs, usage |-> 1]

Costly(tag, cs) == [Response(tag, cs) EXCEPT !.usage = 2]

One == Calls(<<1>>)

Asked == <<System, User>>

\* Every option at its zero value, in quiet surroundings.
Plain ==
  [batch |-> Batch("report", FALSE), window |-> NilWindow,
   continues |-> FALSE, deadline |-> FALSE, margin |-> 0,
   maxCalls |-> 0, maxTokens |-> 0, maxFailures |-> 0, maxEvents |-> 0,
   starts |-> {Asked}, triggers |-> 0, injected |-> 0, runs |-> 1,
   offers |-> <<{Response("text", <<>>)}, {}, {}>>]

\* Three calls at once, the later two ordered behind the earlier ones.
PoolLoop ==
  [Plain EXCEPT !.batch = Batch("fail", FALSE),
                !.offers = <<{Response("blank", Calls(<<0, 0, 0>>))},
                             {Response("text", <<>>)}, {}>>]

\* A loop that plans its context, concludes and is steered.
PlanningLoop ==
  [Plain EXCEPT !.window = SmallWindow, !.continues = TRUE, !.margin = 2,
                !.triggers = 2, !.injected = 1,
                !.starts = {Asked, <<System, User, Assistant("blank", {}),
                                     Assistant("text", {}), User>>},
                !.offers = <<{Response("blank", One), Response("text", <<>>)},
                             {Response("text", One), Response("blank", <<>>)},
                             {Response("text", <<>>),
                              Response("thinking", <<>>)}>>]

\* A loop with every bound set, run twice.
BoundedLoop ==
  [Plain EXCEPT !.batch = Batch("report", TRUE), !.deadline = TRUE,
                !.maxCalls = 2, !.maxTokens = 2, !.maxFailures = 2,
                !.maxEvents = 6, !.triggers = 1, !.runs = 2,
                !.offers = <<{Response("blank", Calls(<<1, 1>>)),
                              Response("blank", Calls(<<0, 0, 0>>))},
                             {Response("text", One), Response("text", <<>>),
                              Costly("text", <<>>)},
                             {Response("text", <<>>)}>>]

LoopsRun == {PoolLoop, PlanningLoop, BoundedLoop}

=============================================================================
