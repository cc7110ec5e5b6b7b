------------------------------ MODULE LedgerMC -----------------------------
(* Instances of module Ledger for TLC. *)
EXTENDS Ledger, TLC

\* 2 depends on 1 or on nothing.
PairNeeds == (1 :> {<<>>}) @@ (2 :> {<<>>, <<1>>})

WorkerSymmetry == Permutations(Owners)

=============================================================================
