----------------------------- MODULE TaskRunMC -----------------------------
(* Instances of module TaskRun for TLC. *)
EXTENDS TaskRun, TLC

\* 2 depends on 1, or names itself, which Admit refuses.
SelfNeeds == (1 :> {<<>>}) @@ (2 :> {<<1>>, <<2>>})


=============================================================================
