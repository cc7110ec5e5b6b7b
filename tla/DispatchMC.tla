----------------------------- MODULE DispatchMC -----------------------------
(***************************************************************************)
(* Instances of module Dispatch for TLC.  Two threads use the same ID; one *)
(* message comes from a member that may go, one was changed on its way.    *)
(***************************************************************************)
EXTENDS Dispatch, TLC

Plain(thread, to) == Message(thread, <<1>>, RoomID, to, <<>>, "text")

signed == Sign(Plain(1, <<>>), Founder)

MCMail ==
  [first |-> signed, second |-> Sign(Plain(2, <<Founder>>), "member"),
   changed |-> [signed EXCEPT !.thread = 2]]

MCRequests ==
  {<<"first", "first">>, <<"second">>, <<"changed">>, <<"first", "second", "first">>}

NoNeeds == [k \in Keys |-> {<<>>}]

WorkerSymmetry == Permutations(Owners)

=============================================================================
