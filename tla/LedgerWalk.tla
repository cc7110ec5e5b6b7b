----------------------------- MODULE LedgerWalk ----------------------------
(***************************************************************************)
(* Module Ledger with a history variable that records whether a claim is   *)
(* doomed: whether, when Claim or Takeover loaded the record, a failed or  *)
(* blocked key was already in its Needs closure, and no rebase and no      *)
(* deletion has rewired the graph since.  The walk of blockingAncestor     *)
(* loads one key at a time while the graph grows and fails around it.      *)
(***************************************************************************)
EXTENDS Ledger

VARIABLE doomed

walkVars == <<ledgerVars, doomed>>

\* The Needs closure as it stands: the least set that holds the given needs
\* and the needs of every recorded key in it.
Closure(needs) ==
  LET Closed(S) ==
        /\ needs \subseteq S
        /\ \A k \in S : Found(k) => ElementsOf(tasks[k].needs) \subseteq S
  IN {k \in Keys : \A S \in SUBSET Keys : Closed(S) => k \in S}

HasBadAncestor(t) == \E k \in Closure(ElementsOf(t.needs)) : IsBad(tasks[k])

\* A step that changes an edge of the graph, or removes a key from it.
Rewires ==
  \E k \in Keys : /\ Found(k)
                  /\ tasks'[k] # NoTask => tasks'[k].needs # tasks[k].needs

WalkInit == Init /\ doomed = [w \in Workers |-> FALSE]

WalkNext ==
  /\ Next
  /\ doomed' = [w \in Workers |->
       /\ pc'[w] = "Walk" /\ ~Rewires
       /\ IF pc[w] = "Walk" THEN doomed[w] ELSE HasBadAncestor(call'[w].cur)]

WalkSpec == WalkInit /\ [][WalkNext]_walkVars

\* No record is claimed or taken over when a key in its transitive Needs
\* closure was failed or blocked as the call loaded it, whichever keys are
\* admitted, failed and blocked while the walk is under way, and whichever
\* failure walks died half way.
NoDoomedGrant ==
  [][\A w \in Workers :
       pc[w] = "Walk" /\ pc'[w] = "idle" /\ ret'[w] = "ok"
         => ~doomed[w]]_walkVars

=============================================================================
