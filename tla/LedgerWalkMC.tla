---------------------------- MODULE LedgerWalkMC ---------------------------
(* Instances of module LedgerWalk for TLC. *)
EXTENDS LedgerWalk, TLC

\* 3 needs 2 and 2 needs 1.
ChainNeeds == (1 :> {<<>>}) @@ (2 :> {<<1>>}) @@ (3 :> {<<2>>})

WorkerSymmetry == Permutations(Owners)

=============================================================================
