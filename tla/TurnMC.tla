------------------------------- MODULE TurnMC ------------------------------
(* Instances of module Turn for TLC. *)
EXTENDS Turn

TwoNames == <<"first", "second">>

\* Thinking in clear and redacted, text before and after, calls with and
\* without arguments, and a refusal half way.
ThreeAnswers ==
  <<[blocks |-> <<Block("thinking", <<1, 2>>, 7),
                  Block("redacted_thinking", <<>>, 8),
                  Block("text", <<3>>, 0)>>,
     stop |-> "end_turn", input |-> 5, output |-> 3],
    [blocks |-> <<Block("text", <<1>>, 0),
                  Block("tool_use", <<3, 4>>, 8),
                  Block("tool_use", <<>>, 9)>>,
     stop |-> "tool_use", input |-> 4, output |-> 2],
    [blocks |-> <<Block("text", <<1>>, 0)>>,
     stop |-> "refusal", input |-> 2, output |-> 1]>>

=============================================================================
