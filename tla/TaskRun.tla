------------------------------ MODULE TaskRun ------------------------------
(***************************************************************************)
(* ledger.Run (src/ledger/taskrun.go): Admit, State, Claim, the caller's   *)
(* work and Complete, run by several workers over one ledger.  The ledger  *)
(* calls are those of module Ledger, step by step; this module adds what   *)
(* Run does between them.  The ledger's now is read afresh for each call.  *)
(***************************************************************************)
EXTENDS Ledger

CONSTANTS MaxRuns   \* bound: calls of Run

ASSUME MaxRunsAssumption == MaxRuns \in Nat

VARIABLES
  run,       \* each worker's Run: the call it is in and its locals
  runs,      \* how many Runs have begun
  error,     \* what each worker's last Run returned
  nils       \* per key, how many Runs have returned nil

runVars == <<ledgerVars, run, runs, error, nils>>

NoRun == [at |-> "none", key |-> NoKey, seq |-> 0, fence |-> 0, until |-> 0,
          status |-> "completed"]

Errors == Results \cup {"nil", "ErrTaskDone", "ErrTaskFailed",
                        "ErrTaskBlocked", "workErr"}

RunEnds(w, err) ==
  /\ run' = [run EXCEPT ![w] = NoRun]
  /\ error' = [error EXCEPT ![w] = err]
  /\ nils' = IF err = "nil" THEN [nils EXCEPT ![run[w].key] = @ + 1] ELSE nils
  /\ UNCHANGED runs

RunGoes(w, r) ==
  /\ run' = [run EXCEPT ![w] = r]
  /\ UNCHANGED <<runs, error, nils>>

RunStart(w, k, s, needs) ==
  /\ run[w].at = "none" /\ runs < MaxRuns
  /\ AdmitStart(w, k, s, needs)
  /\ runs' = runs + 1
  /\ run' = [run EXCEPT ![w] = [NoRun EXCEPT !.at = "Admit", !.key = k]]
  /\ error' = [error EXCEPT ![w] = "none"]
  /\ UNCHANGED nils

\* The ledger call of Run is over: w is between two calls.
Between(w, stage) == run[w].at = stage /\ pc[w] = "idle"

\* A refused Admit is not an error, a failed one is.
AdmitFails(w) ==
  /\ Between(w, "Admit") /\ ret[w] \notin {"true", "false"}
  /\ RunEnds(w, ret[w]) /\ UNCHANGED ledgerVars

\* State, the check for a finished task, and the start of Claim.
TaskError(status) ==
  CASE status = "completed" -> "ErrTaskDone"
    [] status = "failed" -> "ErrTaskFailed"
    [] status = "blocked" -> "ErrTaskBlocked"

\* The errors Run may return for what State answers, or fails to answer.
StateErrors(st) ==
  (IF st # NoTask /\ IsTerminal(st) THEN {TaskError(st.status)} ELSE {})
    \cup (IF Faults THEN {"fault"} ELSE {})

StateEnds(w) ==
  /\ Between(w, "Admit") /\ ret[w] \in {"true", "false"}
  /\ \E err \in StateErrors(tasks[run[w].key]) : RunEnds(w, err)
  /\ UNCHANGED ledgerVars

StateOpen(w) ==
  /\ Between(w, "Admit") /\ ret[w] \in {"true", "false"}
  /\ tasks[run[w].key] # NoTask => ~IsTerminal(tasks[run[w].key])
  /\ \E lease \in Leases : ClaimStart(w, "Claim", run[w].key, lease)
  /\ RunGoes(w, [run[w] EXCEPT !.at = "Claim"])

ClaimFails(w) ==
  /\ Between(w, "Claim") /\ ret[w] # "ok"
  /\ RunEnds(w, ret[w]) /\ UNCHANGED ledgerVars

\* The token of the last grant to w: tokens of a key only grow.
Token(w, k) ==
  LET own == {g \in grants : g[1] = k /\ g[3] = w}
  IN (CHOOSE g \in own : \A h \in own : h[2] <= g[2])[2]

\* Claim has returned the fence and work(ctx) begins.  The record may have
\* changed hands since the swap.
WorkBegins(w) ==
  /\ Between(w, "Claim") /\ ret[w] = "ok"
  /\ RunGoes(w, [run[w] EXCEPT !.at = "work",
                               !.fence = Token(w, run[w].key)])
  /\ UNCHANGED ledgerVars

\* work returns, with or without an error, and Complete is called.
WorkEnds(w) ==
  /\ Between(w, "work")
  /\ \E status \in {"completed", "failed"} :
       /\ OwnerStart(w, "Complete", run[w].key, run[w].fence, 0, status)
       /\ RunGoes(w, [run[w] EXCEPT !.at = "Complete", !.status = status])

RunReturns(w) ==
  /\ Between(w, "Complete")
  /\ RunEnds(w, CASE run[w].status = "failed" -> "workErr"
                  [] run[w].status = "completed" /\ ret[w] = "ok" -> "nil"
                  [] OTHER -> ret[w])
  /\ UNCHANGED ledgerVars

\* A store call of the ledger method Run is in.  When Claim's swap lands,
\* seq and until keep the submission and the deadline it was granted for;
\* the code does not, they are read by the properties only.
LedgerStep(w) ==
  /\ Step(w) \/ Abort(w)
  /\ IF grants' # grants
     THEN RunGoes(w, [run[w] EXCEPT !.until = call[w].now + call[w].lease,
                                    !.seq = call[w].cur.seq])
     ELSE UNCHANGED <<run, runs, error, nils>>

RunInit ==
  /\ Init
  /\ run = [w \in Workers |-> NoRun]
  /\ runs = 0
  /\ error = [w \in Workers |-> "none"]
  /\ nils = [k \in Keys |-> 0]

Proceed(w) ==
  \/ LedgerStep(w) \/ AdmitFails(w) \/ StateEnds(w) \/ StateOpen(w)
  \/ ClaimFails(w) \/ WorkBegins(w) \/ WorkEnds(w) \/ RunReturns(w)

RunNext ==
  \/ Passing /\ UNCHANGED <<run, runs, error, nils>>
  \/ \E w \in Workers :
       \/ \E k \in Keys, s \in 1..MaxSeq : \E needs \in NeedsOf[k] :
            RunStart(w, k, s, needs)
       \/ Proceed(w)

RunSpec == RunInit /\ [][RunNext]_runVars

\* work(ctx) is assumed to return; the rest is a goroutine that Go runs.
FairRunSpec == RunSpec /\ \A w \in Workers : WF_runVars(Proceed(w))

-----------------------------------------------------------------------------
(* Properties.                                                             *)

\* The lease a Run works under has not run out.
UnderLease(w) == run[w].at = "work" /\ clock < run[w].until

\* In a store that keeps its records, two Runs work on one submission at the
\* same time only when the lease of one has run out.  (A bounded store may
\* drop a record that was blocked under its owner, and admit it again.)
ExclusiveWork ==
  ~Evicting => \A w, v \in Workers :
    w # v /\ UnderLease(w) /\ UnderLease(v) /\ run[w].key = run[v].key
      => run[w].seq # run[v].seq

\* In a store that keeps its records, at most one Run of a key ever returns
\* nil, and from then on the record reads completed.
OneRunSucceeds ==
  ~Evicting => \A k \in Keys :
    nils[k] > 0 => nils[k] = 1 /\ Found(k) /\ tasks[k].status = "completed"

\* Every Run ends, whatever the other workers do to its record.
RunsEnd == \A w \in Workers : run[w].at # "none" ~> run[w].at = "none"

=============================================================================
