----------------------------- MODULE ToolBatch -----------------------------
(***************************************************************************)
(* One turn's tool calls (src/agentloop/toolcall.go, toolcall_batch.go)    *)
(* and what carries one of them out (src/tools/registry.go,                *)
(* registry_timeout.go): planCalls serves duplicates, executeCalls hands   *)
(* the rest to a pool of workers in index order, a veto or a hard error    *)
(* aborts the batch, BatchOrder tells the tools which calls have settled,  *)
(* and collectCalls turns the outcomes into history in index order.        *)
(*                                                                         *)
(* A worker's steps are the atomic operations it shares with the others:   *)
(* next.Add, aborted.Load, the tool's own goroutine, aborted.Store and     *)
(* order.Settle.  A call is named by its place in the sorted list; the     *)
(* Index values of one response are distinct.  The hooks, the schema and   *)
(* scope checks, approval, the tool, rendering and the audit sink may      *)
(* answer anything.                                                        *)
(*                                                                         *)
(* The pool has no more workers than calls.  executeCalls runs serially    *)
(* when it would have fewer than two of either; a pool of one does the     *)
(* same.                                                                   *)
(***************************************************************************)
EXTENDS Integers, SequencesExt

CONSTANT MaxConcurrentTools

ASSUME PoolAssumption == MaxConcurrentTools \in Nat

\* Options a batch runs under.
\*   policy: OnToolError; dedup: DedupWithinTurn; bounded: the tools
\*   declare no negative Timeout, so runBounded caps them.
BatchOptions == [policy : {"report", "fail"}, dedup : BOOLEAN,
                 bounded : BOOLEAN]

\* A call the model asks for.  key: its tool and canonical arguments, 0 when
\* they have no canonical form; waits: the tool orders its work by index and
\* waits until BatchOrder has no unsettled predecessor.
Call == [key : Nat, waits : BOOLEAN]

Workers == 1..(IF MaxConcurrentTools < 2 THEN 1 ELSE MaxConcurrentTools)

VARIABLES
  batchOpts, \* the options of the loop
  calls,     \* the turn's calls, sorted by Index
  next,      \* the pool's counter
  aborted,   \* a veto or a hard error was seen
  settled,   \* BatchOrder's settled set
  worker,    \* where each worker is, and its call
  tool,      \* what each call's tool is doing
  outcome    \* what each call came to

batchVars == <<batchOpts, calls, next, aborted, settled, worker, tool, outcome>>

\* The parts of a batch a worker's step may leave alone.
poolVars == <<next, aborted, settled>>

Positions == DOMAIN calls

\* planCalls: an earlier call of this turn reserved the same pair.
Duplicate(i) ==
  batchOpts.dedup /\ calls[i].key # 0
    /\ \E j \in 1..(i - 1) : calls[j].key = calls[i].key

Dispatched == {i \in Positions : ~Duplicate(i)}

\* The n-th of a set of positions in order.
Nth(S, n) == CHOOSE i \in S : Cardinality({j \in S : j <= i}) = n

UnsettledBefore(i) ==
  \E j \in 1..(i - 1) : ~Duplicate(j) /\ j \notin settled

Resting == [at |-> "done", call |-> 0]

NoBatch ==
  /\ calls = <<>> /\ next = 1 /\ aborted = FALSE /\ settled = {}
  /\ worker = [w \in Workers |-> Resting] /\ tool = <<>> /\ outcome = <<>>

BatchBegins(cs) ==
  /\ UNCHANGED batchOpts
  /\ calls' = cs /\ next' = 1 /\ aborted' = FALSE /\ settled' = {}
  /\ worker' = [w \in Workers |->
                 IF w <= Cardinality(Dispatched') THEN [at |-> "claim", call |-> 0]
                 ELSE Resting]
  /\ tool' = [i \in DOMAIN cs |-> "none"]
  /\ outcome' = [i \in DOMAIN cs |-> "zero"]

BatchClears ==
  /\ calls' = <<>> /\ next' = 1 /\ aborted' = FALSE /\ settled' = {}
  /\ worker' = [w \in Workers |-> Resting]
  /\ tool' = <<>> /\ outcome' = <<>>
  /\ UNCHANGED batchOpts

-----------------------------------------------------------------------------
(* A worker.                                                               *)

At(w, label) == worker[w].at = label

Moves(w, label) == worker' = [worker EXCEPT ![w].at = label]

\* next.Add(1): positions are handed out in index order, each once.
Claims(w) ==
  /\ At(w, "claim")
  /\ next' = next + 1
  /\ worker' = [worker EXCEPT ![w] =
       IF next > Cardinality(Dispatched) THEN Resting
       ELSE [at |-> "check", call |-> Nth(Dispatched, next)]]
  /\ UNCHANGED <<batchOpts, calls, aborted, settled, tool, outcome>>

\* Mutant of Abandons: the claimed call is dropped without a word.
AbandonsUnsettled(w) ==
  /\ At(w, "check") /\ aborted
  /\ Moves(w, "claim")
  /\ UNCHANGED <<batchOpts, calls, next, aborted, settled, tool, outcome>>

\* The abort came before the claimed call began.
Abandons(w) ==
  /\ At(w, "check") /\ aborted
  /\ settled' = settled \cup {worker[w].call}
  /\ Moves(w, "claim")
  /\ UNCHANGED <<batchOpts, calls, next, aborted, tool, outcome>>

Proceeds(w) ==
  /\ At(w, "check") /\ ~aborted
  /\ Moves(w, "begin")
  /\ UNCHANGED <<batchOpts, calls, poolVars, tool, outcome>>

\* outcomes[i] = ...; aborted.Store; the deferred Settle comes next.
Stores(w, result) ==
  /\ outcome' = [outcome EXCEPT ![worker[w].call] = result]
  /\ aborted' = (aborted \/ result \in {"veto", "err"})
  /\ Moves(w, "settle")
  /\ UNCHANGED <<batchOpts, calls, next, settled>>

\* A run or render error: a hard error under ErrorPolicyFail, else a report
\* to the model unless the OnToolCallError hook fails.
Errs(w) ==
  \/ batchOpts.policy = "fail" /\ Stores(w, "err")
  \/ batchOpts.policy = "report" /\ Stores(w, "reported")
  \/ batchOpts.policy = "report" /\ Stores(w, "err")

\* PointPreTool fails or vetoes the call.
HookRefuses(w) ==
  /\ At(w, "begin")
  /\ \E result \in {"veto", "err"} : Stores(w, result)
  /\ UNCHANGED tool

\* decodeAndRun and RunScoped turn the call down before the tool sees it.
Rejects(w) ==
  /\ At(w, "begin")
  /\ Errs(w)
  /\ UNCHANGED tool

ToolStarts(w) ==
  /\ At(w, "begin")
  /\ tool' = [tool EXCEPT ![worker[w].call] = "running"]
  /\ Moves(w, "wait")
  /\ UNCHANGED <<batchOpts, calls, poolVars, outcome>>

\* The tool's goroutine ends, with a result, an error or a panic.
ToolReturns(i) ==
  /\ tool[i] = "running"
  /\ calls[i].waits => ~UnsettledBefore(i)
  /\ \E result \in {"ok", "failed"} : tool' = [tool EXCEPT ![i] = result]
  /\ UNCHANGED <<batchOpts, calls, poolVars, worker, outcome>>

\* runBounded receives the result; rendering it may fail.
ResultArrives(w) ==
  /\ At(w, "wait")
  /\ \/ tool[worker[w].call] = "ok" /\ Stores(w, "ok")
     \/ tool[worker[w].call] \in {"ok", "failed"} /\ Errs(w)
  /\ UNCHANGED tool

\* runBounded's other branch: the bound has passed, or ctx is done.  The
\* tool is left to itself; a result that is ready may lose this race.
TimesOut(w) ==
  /\ At(w, "wait") /\ batchOpts.bounded
  /\ Errs(w)
  /\ UNCHANGED tool

Settles(w) ==
  /\ At(w, "settle")
  /\ settled' = settled \cup {worker[w].call}
  /\ Moves(w, "claim")
  /\ UNCHANGED <<batchOpts, calls, next, aborted, tool, outcome>>

WorkerStep(w) ==
  \/ Claims(w) \/ Abandons(w) \/ Proceeds(w) \/ HookRefuses(w)
  \/ Rejects(w) \/ ToolStarts(w) \/ ResultArrives(w) \/ TimesOut(w)
  \/ Settles(w)

\* wg.Wait has returned.
AllJoined == \A w \in Workers : At(w, "done")

-----------------------------------------------------------------------------
(* collectCalls.                                                           *)

\* The first call, in index order, that vetoed or failed hard.
Stopper ==
  LET stops == {i \in Positions : outcome[i] \in {"veto", "err"}}
  IN IF stops = {} THEN 0 ELSE Min(stops)

\* Mutant of Recorded: what ran behind the stopping call is forgotten.
RecordedUpToStop ==
  {i \in Positions : Stopper = 0 \/ i < Stopper}

\* The calls that get a message and an audit record: every one up to the
\* stopping call, and behind it (recordRanOutcomes) those that ran.
Recorded ==
  {i \in Positions :
     \/ Stopper = 0 \/ i < Stopper
     \/ i > Stopper /\ ~Duplicate(i) /\ outcome[i] \in {"ok", "reported"}}

AllFailed ==
  /\ Dispatched # {}
  /\ \A i \in Dispatched : outcome[i] = "reported"

=============================================================================
