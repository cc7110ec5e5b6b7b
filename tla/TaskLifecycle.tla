--------------------------- MODULE TaskLifecycle ---------------------------
(***************************************************************************)
(* What the task ledger promises about one key, without stores, loops and  *)
(* workers: a task is submitted, granted to an owner under a fence, handed *)
(* back, finished once or blocked, and a fence never goes back.  A bounded *)
(* store may also forget tasks; the fence of a forgotten key is where its  *)
(* next life starts.                                                       *)
(***************************************************************************)
EXTENDS Naturals

CONSTANTS Keys, Forgetful   \* Forgetful: TRUE for a bounded store

VARIABLES phase, fence

lifeVars == <<phase, fence>>

Open(k) == phase[k] \in {"pending", "claimed"}

\* A submission: new, or a rebase that dispossesses the current owner.  A
\* new life starts at or above the fence the last one ended with.
Submit(k) ==
  /\ phase[k] = "absent" \/ Open(k)
  /\ phase'[k] \in {"pending", "blocked"}
  /\ IF phase[k] = "absent" THEN fence'[k] >= fence[k]
                            ELSE fence'[k] = fence[k]

\* A claim or takeover: every grant has a fence of its own.
Grant(k) ==
  /\ Open(k)
  /\ phase'[k] = "claimed"
  /\ fence'[k] = fence[k] + 1

\* A claimed task is handed back, finished or kept under a longer lease.
Settle(k) ==
  /\ phase[k] = "claimed"
  /\ phase'[k] \in {"pending", "claimed", "completed", "failed"}
  /\ fence'[k] = fence[k]

Block(k) ==
  /\ Open(k)
  /\ phase'[k] = "blocked"
  /\ fence'[k] = fence[k]

\* What may happen to a key that is not written: nothing, or the store
\* forgets it, or the floor rises under it while it is absent.
Bystander(k) ==
  \/ phase'[k] = phase[k] /\ fence'[k] = fence[k]
  \/ Forgetful /\ phase'[k] = "absent" /\ fence'[k] >= fence[k]

Write(k) ==
  /\ Submit(k) \/ Grant(k) \/ Settle(k) \/ Block(k)
  /\ \A j \in Keys \ {k} : Bystander(j)
  /\ DOMAIN phase' = Keys /\ DOMAIN fence' = Keys

Init ==
  /\ phase = [k \in Keys |-> "absent"]
  /\ fence = [k \in Keys |-> 0]

Next == \E k \in Keys : Write(k)

Spec == Init /\ [][Next]_lifeVars

=============================================================================
