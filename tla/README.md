# TLA+ models of mivia-ai-sdk

Models of the parts of the SDK whose correctness depends on the order of
events: the task ledger, its two stores and its snapshots; the workflow runner,
its matrix check and the agent runs on top of it; the scheduler; the agent loop;
the context state, the session planner and the spool; the hooks, the notifier
and the A2A acknowledgements; dispatch over a room; and one model turn over
Anthropic clients. TLC checks each on small instances. TLAPS proves the safety
properties, all but one, and the two refinements for every value of the constants;
"Proofs" says which, and what stays with TLC.

## The system

The SDK is a set of Go packages that a program links together to run agents.
The packages with state and their interactions:

| Package | State | Operations | What is hard |
|---|---|---|---|
| `ledger` | one `TaskState` per key in a `Store` | `Admit`, `Claim`, `Takeover`, `Renew`, `Release`, `Complete`, `Run` | no lock between load and swap; leases and fences; failures that reach dependents; bounded store |
| `ledger` stores | a map with an eviction queue; one SQLite file | `Load`, `CompareAndSwap`, `Range`, `Snapshot`, `Restore` | several processes migrate one file; a restore into a store in use |
| `flow`, `machine` | outcomes, pending failures, machine status of one run | `New`, `Run`, `Resume`, `Fire` | routes, fallbacks, panels and checkpoints of one walk meet; pause, crash and resume |
| `workflow`, `workflow/run` | threads of signed messages, artifacts, tracked heartbeats | `Agent.Run`, `Runner.Run`, `ValidateMatrix` | repeated steps, spawned runs, several runs over one notifier |
| `scheduler` | job map, wake channel, timer; trigger registry | `Add`, `Remove`, `Run`, `Fire` | wake-ups lost between two lock regions; job goroutines; cancellation |
| `agentloop`, `tools` | message history, budget, batch of tool calls, steer generation | `Run`, `Steer.Trigger`, `Execute` | worker pool with abort, cancellation by generation, compaction, a bound against a late result |
| `contextstate`, `contextsession` | payloads, sessions, operation keys | `Put`, `Get`, `Revoke`, `Checkpoint`, `Plan` | repeated commits, stale revisions, payloads revoked under a plan |
| `memory`, `longtermmemory` | blobs, grants, eviction orders | `Put`, `Get`, spool and read-back tools | grants that outlast their blobs, pages of content that comes and goes |
| `events`, `channel` | handler lists; a pipe with a lock | `Subscribe`, `Emit`, `Add`, `Fire`; `Ask` | lists that change during delivery; askers that go away |
| `subagent`, `room` | runs, mailboxes, members and roles | `RunAll`, `AsTool`, `Send`, `Admit` | depth, joins, a human shared by many |
| `provider`, `provider/anthropic` | stream goroutines, accumulators, routes | `Route`, `RunTurn`, `Chat`, `ChatStream` | partial streams, retries, a stream that goes on beside the next turn |
| `dispatch`, `a2a`, `mcp` | requests, acknowledgements | `Send`, `Receive`, poll | resends of what was already handled, lost replies, disconnects |
| `envelope`, `schema`, `skills`, `trace`, `workspace`, `envfile`, `runconfig`, `context/*` | pure or I/O | | |

`flow` fires the transitions of `machine`; `workflow/run` runs `flow` steps as
signed messages whose answer comes from a tool, a human, a remote agent or a
spawned run; `dispatch` checks a message against `envelope` and `room` and runs
its handler under `ledger.Run`; `contextsession` plans what `contextstate` holds
and spools into `memory` what does not fit; an `agentloop` renders what the
spool's tools return. All of them emit on an `events.Bus`, which none of them
reads.

What makes the components correct:

* ledger: a token is granted once; only the holder of the newest token finishes
  a record; a failure reaches every dependent, also one admitted while it
  happens; nothing is granted over a failed ancestor.
* stores: no write is lost, no column added twice, no token granted again after
  a restart; the bounded store keeps what it writes and what is leased.
* `ledger.Run`: under its lease work is exclusive, and it succeeds once.
* flow: a checkpoint is never contradicted; a failure is never swallowed; a run
  stalls only on panels that wait for each other; every run ends; a table that
  `ValidateMatrix` accepts is never missing a row.
* workflow runs: the thread a run builds verifies; a step is confirmed only by
  what answers it; every run joins.
* scheduler: no wake-up is lost; nothing fires twice at an instant; no job
  outlives `Run`; due jobs are started.
* agent loop: the model is sent only histories it can read; a reservation is
  given back once on every path; no `Trigger` is lost; a call that ran is in the
  history; a run ends however its tools wait for each other.
* context: a session is its commits, each once, whoever repeated them; an answer
  is truthful; a plan accounts for every event; what is revoked stays out; pages
  add up to the content.
* hooks: whoever fires hears the handlers of the moment it began, each once.
* dispatch: a message is confirmed once, and called a replay only if it was seen.
* provider: what a turn returns is one whole answer; every goroutine ends.

`PROJECT.json` lists every component with its status, the hazards with the
line where each bites, and the source lines of every definition.

## Modules

| Module | Models | Built on |
|---|---|---|
| `Store` | the `Store` contract: `TaskState`, `CompareAndSwap`, deletion left open | |
| `MemStore` | `MemStore` with `MaxEntries`: eviction queue and scan budget | `Store`, implements it |
| `SqlStore` | `SQLiteStore`: opening, migration, statements | `Store` |
| `ColdStart` | `Snapshot` of a file and `Restore` into a bounded store | `SqlStore`, `MemStore` |
| `TaskLifecycle` | abstract specification: what the ledger promises of one key | |
| `Ledger` | the ledger's methods, one step per store call | `Store`, implements `TaskLifecycle` |
| `LedgerWalk` | history variable for the ancestor walk | `Ledger` |
| `TaskRun` | `ledger.Run` of several workers | `Ledger` |
| `FlowDefinition` | step graphs and the rules of `flow.New` | |
| `Flow` | `flow.Run` and `flow.Resume` over a transition table | `FlowDefinition` |
| `Matrix` | `ValidateMatrix`, a pure function of a definition | `Flow` |
| `Scheduler` | `scheduler.Scheduler` | |
| `Compaction` | `plan.Compact` and the rebuilding of a history, as operators | |
| `ToolBatch` | one turn's tool calls: the pool, `BatchOrder`, bounded tools | |
| `AgentLoop` | `Loop.RunSteerable` with `Steer` | `ToolBatch`, `Compaction` |
| `ContentRef` | content addresses | |
| `ContextState` | the context state store and its clients | `ContentRef` |
| `Spool` | the memory store, the grants, the spool and read-back tools | `ContentRef` |
| `ContextSession` | `Planner.Plan` beside everybody else | `ContextState`, `Spool` |
| `Envelope` | messages, signatures, threads, acks, as operators | |
| `Hooks` | event bus and hook registry, as Go slices | |
| `Notifier` | `channel`'s questions over one pipe | |
| `A2A` | sending a step to a remote task and polling it | `Envelope` |
| `AgentRun` | `Agent.Run`, `Runner.Run`, `RunAll`, `AsTool` | `Hooks`, `Notifier`, `A2A` |
| `Room` | members, roles and `Accepts` | `Envelope` |
| `Dispatch` | `Send`, the endpoint and its receive ladder | `TaskRun`, `Room` |
| `Stream` | an answer, the events and the chunks it comes in, as operators | |
| `Turn` | `Route` over clients and the goroutines of their streams | `Stream` |
| `*MC` | constants and initial states for TLC (`cold_start` needs none) | |
| `LedgerProofs` | theorems of the ledger and of the ancestor walk | `LedgerWalk` |
| `ColdStartProofs` | theorems of the stores and the snapshot | `ColdStart` |
| `DispatchProofs` | theorems of `ledger.Run` and of dispatch | `Dispatch`, `LedgerProofs` |
| `SchedulerProofs` | theorems of the scheduler | `Scheduler` |
| `FlowProofs` | theorems of the workflow runner and of the matrix check | `Matrix` |
| `AgentLoopProofs` | theorems of the budget, of `Steer`, of histories and of tool batches | `AgentLoop` |
| `ContextProofs` | theorems of the context store, the spool and the planner | `ContextSession` |
| `CrewProofs` | theorems of hooks, threads and acks | `AgentRun` |

### Store, MemStore

`tasks[k]` is the record of key `k`, `fenceFloor` the highest fence deleted,
`clock` the wall clock with 0 for Go's zero time. Each of `Load`,
`CompareAndSwap` and `Range` is atomic in the code: `MemStore` holds its mutex,
`SQLiteStore` issues one SQL statement. A key is a positive number so that
`sort.Slice` has a meaning. The audit fields and the `Task` payload are left
out; no guard reads them. `MemStore` executes `evictOverCap` as a fold of
`EvictTurn` and is driven by the three kinds of write the ledger makes.

### SqlStore, ColdStart

The file is `columns` and `rows`; a row is a record as the columns hold it.
The payload of a task is left out: its column is JSON, which does not give every
value back, and no guard reads it; a payload that does not encode and a column
that does not decode fail the call, as any statement may. Between its load and
its swap a caller turns a record into any the ledger would write: an admission
or a rebase, a claim or a takeover, a renewal, a release, a block, a completion.
`db[p]` is where process `p` stands: closed, creating the table, asking for its columns,
inside the migration transaction, open, or holding a loaded record. Any statement
may fail. Initially there is no file, an old one, or one whose migration died
half way. `ColdStart` takes a snapshot of the file with `Range` and inserts its
records one at a time into a bounded `MemStore` in which other callers already
insert, grant and finish.

### Ledger

`pc[w]` is where worker `w` is in its method and `call[w]` its arguments and
locals. A method is a loop of load, decision and swap; a lost swap goes back
to the load (`Retry`). `Claim` and `Takeover` share their actions, as do
`Renew`, `Release` and `Complete`, with the difference in `ClaimVerdict`,
`OwnerVerdict` and `OwnerWrites`. `now` is fixed when a call starts, as the
callers pass it once. Any worker may present any token ever granted: the code
compares tokens and ignores the owner argument. `blockingAncestor` is `Walk`,
`blockDependents` is one `Range` step and then a `BlockCAS` / `BlockLoad` pair
per dependent in key order. `Abort` ends a call between two store calls: a
store error, a cancelled `ctx`, or the death of the process.

`ClaimCAS` and `BlockCAS` leave out the `Validate` call before the swap: it
cannot fail there, which `RecordsStayValid` proves (what is stored is always
valid). `AdmitCAS` keeps it, since a self-dependency fails it.

### TaskRun

`run[w].at` is the ledger call that `w`'s `Run` is in. `seq` and `until` of a
run remember the submission and deadline of its grant, for the properties
only.

### FlowDefinition, Flow, Matrix

A step is its position in the declaration order; a panel is a set of steps.
Payload rules and nesting depth are not modelled. The table gives, per pair of
statuses, the number of transition rows; guards, `Confirm`, `Route`,
`Retryable`, `Guard` and child workflows belong to the caller and may answer
anything. `outcomes`, `pending` and `cur` are the locals of `runLoop`. `saved` is
the last checkpoint handed to `onCheckpoint`, and `Resume` starts from it.
`Cancel` and `Crash` may come at any point. A `LoopPolicy` with neither `Max`
nor `Guard` runs until its `ctx` ends and is not modelled: `loop` is a positive
`Max`. `Matrix` translates the simulation of `ValidateMatrix` as its stages,
`Sims(d)[i]` being what `walkSim` holds after its first `i` units;
`MatrixCoversWalk` compares it with every walk.

### Scheduler

`adding` counts the calls of `Add` between the unlock and the non-blocking send
on `wake`. The loop's steps are `computePending`, `sleepTimer` and one branch
of the `select`; Go chooses freely among ready branches, and so does the model.
`Every` and `At` are the two schedules of the package.

### Compaction, ToolBatch, AgentLoop

A message keeps its role, the calls it makes or answers, and a tag for the
content the loop tells apart; every message weighs the same before
calibration. `fillTail` is stated as the longest tail that breaks no bound,
which is what its loop computes because both bounds only grow.

A worker of the pool takes one step per atomic operation it shares: `next.Add`,
`aborted.Load`, starting the tool, storing the outcome with the abort flag, and
`Settle`. Tools are goroutines of their own; a tool with `waits` orders its work
through `BatchOrder`. `TimesOut` is `runBounded`'s second branch and leaves the
tool running. An `OnToolCallError` hook that replaces a report is taken to
answer the call it was asked about. What an abandoned tool does after its batch
has ended is not followed.

`st` holds `runState` and the locals of an iteration, `pc` the place in
`runIteration`. A step of the loop ends where a cancellation or a `Trigger` can
be noticed: the top, the reservation, the call, `isSteerStop`, the hook of a
steered stop, the tool stage. `held` counts reservations of the `WorkBudget`
nobody gave back. The model's answers are taken from `offers`; the summarizer,
the estimator, the audit sink and all hooks may fail at any time. `Options.Trim`
is not modelled (it excludes a window).

### ContextState, Spool, ContextSession

Every method of the context store and of the memory store holds a mutex and is
one step. A content stands for its bytes and for its digest. A client of the
context store builds a request from a session it read, sends it, and sends it
again when the answer is lost; `Slips` are the ways in which a request differs
from what `NewCommitRequest` would build, for each of which the store has a check; a wide
range is refused only beyond `MaxSourceRangeEvents`. `Spool` works in the two locked sections it has in the code, the blob
first and the grant after it, and so does a read. An agent in `ThroughLoop` gets
its pages through the loop's `render`, the others directly. `Plan` walks its
snapshot newest first; each read of a payload and each half of a spooling is a
step, so that others put, commit, revoke, spool and evict in between.

### Envelope, Hooks, Notifier, A2A, AgentRun

A signature is the content it was made over and the hash of a message is the
message, so a changed field fails to verify. A handler list is a slice with a
backing array, since the code's care is about which array a delivery ranges
over. The notifier's `Ask` is the lock, the write and the scan, with the
goroutines a cancelled asker leaves behind; the peer answers what it was asked,
sends noise or hangs up. A write or a read may also fail on a stream that goes
on (`WriteQuestion`, `ReadFails`), which leaves the peer and the askers out of step;
`MaxNoise` bounds these failures and the noise together.

A run of an agent is a list of steps the gate walks through (`plan`, chosen by
`Crews`); each step makes a message, runs the `pre` hooks, obtains the answer of
a tool, a human, a spawned run or a remote task, signs and chains the message,
and runs the `post` hooks. `ack` remembers what confirmed a step. A remote task
goes through its states or hangs; the poll ends with its context.

### Room, Dispatch

A worker of `TaskRun` serves a request: it decodes the line, verifies the
signature, asks the room, and runs `Resolve`, `Handle` and the ack under
`ledger.Run`; the room changes between any two steps. A disconnect cancels the
context, which the store's calls notice. `taken`, `handled`, `acks` and `told`
are history, for the properties.

### Stream, Turn

`Stream` holds both directions: what a server sends for an answer and what the
client makes of it. In `Turn`, `route` is the caller's goroutine (the post with
its retries, the drain, the next name), and `streams[i]` the body and the two
goroutines of attempt `i`, with their unbuffered channels as rendezvous. The
server refuses, breaks off inside an event, sends an error event or answers
whole.

## Runs

| Run | Instance | Shows |
|---|---|---|
| `ledger` | 2 workers, a task and a dependent with two possible need lists, 2 sequences, 5 calls, clock 1..2, lease 1, any call may be cut short | `TokensAreFresh`, `OnlyLatestOwnerFinishes`, `BlockersAreBad`, and that the ledger implements `TaskLifecycle` |
| `ledger_walk` | chain of 3 tasks, 6 calls, faults | `NoDoomedGrant`: no claim over an ancestor that was bad when it was loaded |
| `task_run` | 3 `Run`s, 2 workers, 2 tasks, a self-dependency among the inputs, no call cut short | `ExclusiveWork`, `OneRunSucceeds`, `FailureReachesDependents`, `RunsEnd` |
| `cold_start` | 2 processes, 3 keys, 2 swaps, cap 2, scan budget 2 | `MigratesOnce`, `NoLostUpdate`, `TokensSurviveRestart`, and that `MemStore` implements the store contract |
| `flow` | all 3-step graphs with at most one route and one panel, and eight graphs with retries, children, loops (one between a failure and its fallback), a cycle and panels, each over a full table, the table `ValidateMatrix` asks for, and one with a row too many; 2 runs | `CheckpointIsFinal`, `NoFailureSwallowed`, `StallsOnlyOnPanels`, `MatrixCoversWalk`, `RunsEnd` |
| `scheduler` | 2 IDs, 3 schedules, 3 `Add`s, 2 `Run`s, clock 1..3 | `NothingMissed`, `NoJobOutlivesRun`, `FiresOncePerInstant`, `DueJobFires` |
| `agent_loop` | three loops with 3 iterations and 3 workers: three ordered calls under `ErrorPolicyFail`; a planning loop with two triggers, an injected message and continued stops; a loop with every bound set, run twice | `RequestsWellFormed`, `BudgetSettled`, `TriggersSeen`, `RanCallsTraced`, `RunsEnd` |
| `context` | three starts: two clients build three requests over two keys; two principals run the tools four times over budgets that hold one content; a session of three events is planned while it is written to | `SessionIsItsCommits`, `AnswersAreTruthful`, `PlanIsFaithful`, `RevokedNeverPlanned`, `PagesCoverContent` |
| `crew` | 3 runs, 10 set-ups: repeated steps, a run that builds no message, questions, hooks that change, spawned runs, remote tasks | `ThreadsVerify`, `HooksHeard`, `AcksAreEarned`, `RunsJoin` |
| `dispatch` | 2 workers, 3 messages (two threads with one ID, one line changed on its way), 4 bodies, 2 requests, 2 room changes, lease 1 | `ConfirmedOnce`, `ReplayIsTruthful` |
| `turn` | 2 names, 3 answers, 6 statuses, 1 retry, streamed and plain | `AnswerIsTheMessage`, `TurnsEnd` |
| `dispatch_handled_twice` | as `dispatch` | the disagreement below |

Why the bounds are enough for the cases of interest.

* Ledger: five calls let a task be admitted, claimed and failed while its
  dependent is admitted and rebased, with two calls in progress at any time; two
  sequences make a rebase, a clock of two values with a lease of one makes a
  lease end. Six calls and three keys let a failure walk die half way and a
  claim walk past it.
* Stores: three keys over a cap and a scan budget of two make the budget run out
  and evict what was restored a moment ago; two processes meet at every
  statement of the migration.
* Flow: three steps with all needs, admission rules, one route and one panel
  contain a route that skips a fallback, a fallback of a panel, two fallbacks of
  one step and a join; the second call starts from every checkpoint the first can
  deliver.
* Scheduler: three adds make an ID come back after a removal.
* Agent loop: three workers and three calls are the fewest for a tool that waits
  on a claimed call a third worker aborted. The window holds seven messages and
  compaction starts at five, so a run of three iterations compacts, compacts
  again with a summary in place, overflows, and recovers; two triggers let one
  arrive while the other is acknowledged.
* Context: three requests make a lost answer, a request that was overtaken, and
  its repetition after the session has moved on. Contents of two and three bytes
  over budgets of four evict each other; a page of two bytes makes two pages. A
  plan of three events has one that fits, one that overflows, one behind it.
* Crew: three runs are a parent, its spawned run and a third beside them, or two
  askers with an answer still to come; two changes of a list leave an array with
  room behind a delivery that reads it.
* Dispatch: two requests with up to three lines repeat a message beside itself
  and after itself; a clock of two values ends a lease.
* Turn: two names make one stream given up beside the next; one retry makes a
  refusal, a retry and a final answer.

`CHECK_DEADLOCK FALSE` is set where the bounds, or a finished program, end the
behaviour.

Symmetry over workers is used in `ledger`, `ledger_walk`, `dispatch` and
`dispatch_handled_twice`, which check no liveness; no definition tells them apart.

### Fairness

* `TaskRun!FairRunSpec`: weak fairness of each worker inside a `Run`. A worker is
  a goroutine and its store calls return; `work` is assumed to return. A swap is
  lost only to another worker's successful swap, so with finitely many calls
  every retry loop ends; `RunsEnd` shows that nothing else keeps one going.
* `Flow!FairSpec`: weak fairness of the walk, which runs on its caller's
  goroutine. Caller closures are assumed to return. No fairness of `Cancel`,
  `Crash` or `Resume`.
* `Scheduler!FairSpec`: weak fairness of the loop, of a caller inside `Add`, and
  of every job goroutine. Nobody has to call `Run`, `Add` or cancel, and the
  clock need not advance.
* `AgentLoop!FairSpec`: weak fairness of the loop's goroutine, of each worker of
  the pool and of each tool. The completer, the hooks and the tools are assumed
  to return; nobody has to cancel or to trigger. A steered stop that is
  continued is not counted as an iteration, so `RunsEnd` also needs the number
  of triggers to be finite, which its bound provides.
* `AgentRun!CrewSpec`: weak fairness of each run, of its remote wait with its
  deadline, of the notifier's goroutines, and of a peer that was asked: it
  answers or hangs up. A peer that does neither keeps its asker until the
  asker's context ends, and the code says so. Nothing is assumed of a remote
  task or of those who cancel.
* `Turn!FairSpec`: weak fairness of the caller and of the two goroutines of each
  stream. The HTTP client's timeout (ten minutes unless configured,
  `anthropic/client.go`) ends a post or a read that the server leaves open.
  Cancellation is not assumed.

### Refinements

`Ledger` implements `TaskLifecycle` (`ImplementsLifecycle`, checked in `ledger`,
proved as `LifecycleRefinement`); `MemStore` implements `Store`'s contract
(`ImplementsStore`, checked in `cold_start`, proved as `MemStoreRefines`), which is
what `Ledger` is built on. The compositions are refinements too, and only proved:
`ledger.Run` takes steps of the ledger only (`RunUsesLedger`: `RunSpec => Spec`),
and dispatch takes steps of `ledger.Run` only (`DispatchUsesRun`:
`DispatchSpec => RunSpec`), so that what is proved of the ledger holds of a
message on its way through the endpoint.

## Disagreements between code and documentation

**A message is handled twice** (`dispatch_handled_twice`). `ledger.Run` completes
the task with the context it worked under, and a store refuses a cancelled one.
When the client disconnects while `Handle` runs, `Handle` returns, `Complete`
fails, the record stays claimed, and a resend after the lease runs `Resolve` and
`Handle` again, although the first handler was done within its lease.
`dispatch/ladder.go:57-60` says that they "run once per replay key", without an
exception. The docs know the parts: an aborted request leaves a claimed record
(`docs/packages/dispatch.md:97-102`, `docs/history/dispatch.md:713-715`), and a claim
past its lease is retried, which is meant for a crashed or a slow handler
(`docs/packages/dispatch.md:121-124`).

Others were met while modelling; each is in the model as the code has it, and
the properties above are stated so that they hold beside it:

* Ledger: a failure walk that lost its swap reloads the record and checks only
  that it is not terminal (`complete.go:136-143`). If it was rebased meanwhile to
  other needs, the new submission is blocked for good by a key it does not name;
  `task_state.go:43` says "StatusBlocked marks a record whose named dependency
  failed."
* Ledger: `docs/packages/ledger.md` says "`ledger` never revokes a granted claim";
  `blockDependents` blocks a claimed dependent under a live lease.
* Ledger: `Renew` computes the new deadline from the `now` of its call; a retry
  after a lost swap can shorten a lease that a later `Renew` had extended
  (`claim.go:138`).
* Stores: in a bounded store an insert restarts `Rev` at 0 (`store.go:147`), so a
  writer that loaded a record before its eviction can match its successor; the
  deletion consequences listed in `store.go` do not mention it. With at least
  `evictScanBudget` live leases the store grows past the bound that
  `docs/history/ledger.md` derives. A `Restore` into a bounded store may evict what
  it inserted itself, and returns nil.
* Flow: the first fallback that runs deletes the pending entry
  (`failure.go:246`); a second one is fired without the `Failure` that
  `docs/packages/flow.md:337-338` promises.
* Flow: a caught failure delivers no checkpoint (`runner.go:91-92, 116-117`), so a
  pause before the next success makes `Resume` run the failed step again,
  contrary to `resume.go:17-18`.
* Matrix: between a failure and its fallback, a step that the fallback does not
  need may succeed, or may be a loop that moves and then fails. The fallback
  then fires from a status the simulation does not count with, so a run may
  abort for want of a row although `ValidateMatrix` passed
  (`matrix.go:12-16, 62-63, 176-179`). `MatrixCoversWalk` excepts walks in which
  such a fallback has failed (`FallbackOvertaken`). `childFinals` leaves out a final step that only a fallback depends on.
* Agent loop: `runBounded` returns when the bound passes and leaves the tool
  running; the deferred `Settle` follows at once. `toolcall_batch.go:15-16` says
  "a call whose tool DID run settles only after the tool returned".
* Agent loop: a call that ran behind the stopping call and failed hard leaves
  neither a message nor an audit record, and its error is dropped:
  `recordRanOutcomes` skips a zero message. `RanCallsTraced` is stated for
  results and reports.
* Agent loop: a worker that claims a call and then finds the batch aborted drops
  the call (`toolcall.go:169-171`). If the call stands before the one that
  stopped the batch, `collectCalls` appends its zero message, without a role or a
  call ID, and audits a call that never ran (`toolcall.go:226-229`); the comment
  of `recordRanOutcomes` says of such a call that it "has a zero outcome and is
  skipped". The run ends there, so no request carries the message.
* Agent loop: `Bounds.MaxIterations` "bounds the Completer-call count of one
  Run"; retries of a recovery and steered-off calls are not counted.
  `noticeInRequest` is computed before a recovery compacts the request. An error
  of the recovery path carries the history also before the first iteration,
  contrary to the rule at `hardFail`. `StopRepeatedToolFailures` is documented in
  `stop.go` for unknown tools; the code, and `bounds.go`, count every reported
  error. The conclude notice is the latest user message when compaction selects
  what it must keep.
* Spool: the read-back tool's `MaxResultBytes` is one page (`readtool.go:60`), but
  a full page carries the marker with the next offset as well. Behind an agent
  loop, whose `render` cuts at that bound, the marker that `readtool.go:80`
  promises is cut off. `PagesCoverContent` excepts readers behind the loop.
* Workflow runs: `toolNameFor` takes a caller's tool named `a#2` for the repetition
  of `a` (`wire.go:158-170`). An approved answer with an empty payload fails its
  step. The result of a spawned run is read from shared artifacts and may be
  another run's. `FromPart` overwrites thread and ID, so that a carrier with an
  ID of its own breaks the signature check. The
  notifier hands the next asker an answer that is not its own after a peer's
  unasked line, after a read that failed on a stream that goes on or met a line
  that is too long (`ndjson_notifier.go:223-228`), and after a write that failed
  although its line reached the peer (`137-141`): each gives the lock back while
  an answer may still come. `AcksAreEarned` is stated for runs without any.
* Dispatch: within the lease a resend is told "replay: message already
  processed" though nothing was; a client whose reply was lost never gets the
  ack.
* Provider: `types.go:258-260` says that `Response.Model` echoes the serving model;
  a streamed response leaves it empty (`runturn.go:121-141`).

## Proofs

`LedgerProofs` proves, for any keys, workers, needs, leases and bounds, with
and without eviction and faults:

* `TypeCorrect`, `RecordsStayValid` (what is stored is valid), `TerminalStays`
  (only eviction removes a finished record), `LatestOwnerFinishes`,
  `FreshTokens` and `LifecycleRefinement`.

The properties are not inductive. A swap writes a record derived from `cur`, the
one the method loaded earlier, and whether that is harmless depends on what
the compare guarantees. The inductive invariant `IInv` therefore says, besides
the types: what is stored is valid; for every call in progress, `cur` is a
record that was loaded with the status its next swap relies on (`CallInv`, one
condition per label, for instance that a claim walk holds a live record and a
blocking write has a blocker); and every token granted for a key is covered by
the fence of its stored record or, when it was deleted, by the fence floor.
`MatchesLoaded` is the heart: a compare that succeeds means that the stored
record has the sequence, status and fence of the loaded one. One lemma per
action shows that the action keeps the call part and writes nothing, or writes
one record of a known shape; `StoreInv` then carries the store part for all
writes at once. The refinement maps a key's phase to its status and its fence
to the stored fence or the floor, and takes its step from the same effect lemma.

`SchedulerProofs` proves `TypeCorrect`, `NoWakeLost`, `NoJobLeaks` and
`OneFirePerInstant` for any IDs, schedules and bounds. Its invariant adds to
the types: an entry without a fire time implies a token in the channel, an
`Add` about to send one, or a loop that has still to compute (`WakeInv`); the
armed timer is not later than any computed fire time (`TimerInv`); and a computed
fire time is later than the last firing of its ID, which needs `NextLater`: a
schedule answers strictly later instants only.

`LedgerProofs` also proves `BlockersStayBad` and `FailureIsPropagated`, for stores
that keep their records. `BlockInv` says three more things of a call in
progress: what it is about to name as a blocker is bad now, and stays so
(`Suspects`); a record it holds is the stored one unless that was revised
meanwhile (`Holds`); and for every live record that needs a failed key somebody is
still going to reach it (`Reaches`): the failure walk of the key, which has not
yet ranged or still has the record on its list, or the second look of the
admission that wrote the record. `Careful` is the obligation of one step, and
each action is shown to meet it.

`DoomedIsRefused` is `NoDoomedGrant`, for needs of any depth. While a claim is
doomed, `DoomInv` says, a bad key is still before the walk: one it has not
marked, and that lies in every set which holds the queue and is closed under
the needs of unmarked keys (`Ahead`). The closure is stated by such sets and not
by paths, so that no induction is needed: a turn of the walk moves the head of
its queue to the marked keys and appends the needs of that key, and a set
closed after the turn gives, with the head, one closed before it.

`DispatchProofs` goes up the layers. For `ledger.Run`, the invariant says that the
stage of a `Run` agrees with the ledger call it is in (`StageInv`), that the token
it works under was granted to it (`TokenInv`), that while it works and its lease
lasts the record is still claimed under that lease, or its submission is over or
overtaken (`LeaseInv`), and that a `nil` is matched by a completed record (`NilInv`). From it follow
`RunUsesLedger`, `WorkIsExclusive` and `OneSuccess`. For the endpoint, messages
need nothing, so their records are never blocked (`PlainInv`); a key that left
"pending" belongs to a message that was taken (`TakenInv`); a request's line agrees
with its run (`LineInv`); and an ack is matched by the one `nil` of its key
(`AckInv`). From it follow `DispatchUsesRun`, `AcksAreUnique` and `ReplayTold`.
`ExclusiveWork` and `ConfirmedOnce` say "in a store that keeps its records": a
bounded store may drop a record that was blocked or whose lease is over, and
admit its key again from the beginning, which `store.go` documents.

`ColdStartProofs` proves `MigrationIsExclusive`, `UpdatesAreNotLost`,
 `TokensSurvive` and `MemStoreRefines`. Its invariant says that
one process at most is inside the migration (`OneWriter`), which then sees the
file's own columns; that an opened store finds all of them; and that what a
process has loaded is what the row holds or is older by its `rev` (`Loaded`), which
is why the statement's WHERE clause is enough. For the bounded store the
eviction loop is unfolded one turn at a time: every turn keeps the queue a list
of the keys in the store, and the floor at or above every fence it deletes.

`FlowProofs` proves `CheckpointsAreFinal`, `FailuresAreMet` and `StallsAreOfPanels`
for every definition that `New` accepts and every table. `FlowInv` says that
outcomes are closed under needs and whole for a panel, that the last checkpoint
is contained in the outcomes of every later call, that a pending failure has a
fallback that is still to come and a caught one had a fallback that ran, and
that the step under way is due. A stall is refuted by the least step that is
not resolved, or, with panels, by the order in which they can be walked.

`MatrixIsEnough` is `MatrixCoversWalk`. `MatrixInv` holds the walk beside the
simulation, which knows no outcomes: while every step runs or is a fallback
that is skipped, there is a stage of the simulation that has resolved what the
walk has, finds the same units ready, and counts with the status the walk is on
(`Abreast`); so does the last checkpoint (`Recorded`), from which a resumed call
goes on. A failure that a fallback is still to meet leaves the walk in the
failure span of the step, or where a loop that failed later took it (`InSpan`).
That the simulation has come to its end after as many stages as there are steps
is a counting argument. The exception needs both its cases, the step that
succeeds and the loop that moves and then fails: the `flow` run has a graph for
each.

`AgentLoopProofs` proves `BudgetIsSettled` and `TriggersAreSeen`: the place of the
loop, the reservation and the generations of `Steer` agree (`LoopInv`), for any
answers, pools, bounds and hooks. It also proves `RequestsAreWellFormed` and
`RanCallsAreTraced`. `HistoryInv` says per label what the run may rely on: between
turns its history can be read, behind an answer only the replies to that answer
are missing, and no empty turn stands in a request (`HistoryAt`). `BatchInv` says
that only calls that were dispatched are held by a worker or have an outcome.
`ClaimInv` adds that the calls are claimed in turn, each by one worker, and that a
batch nobody has stopped has run every call it claimed, so that the zero message
of a dropped call gets into no request; and a call that ran is traced at a place
in the history that follows its index.
What compaction, `splitSummary` and the filter of empty turns keep of a history is
always the messages at a set of positions in their order (`Pick`), so one group
of lemmas about `Pick` (what is kept, that order and pairs are) stands for the
induction over the list.

`ContextProofs` proves `TruthfulAnswers`, `SessionsAreCommits`, `PagesCover`,
`RevokedStaysOut` and `PlansAreFaithful`. The invariant of the store (`StateIInv`)
has, besides the types, what a client may rely on: what it read is not ahead of
the session, and a request that was refused stays refused because revisions
only grow; and `History`, which says of the committed requests of a session that
they are a chain from revision zero to its own. The planner's (`PlanIInv`)
accounts for the events behind its position and leaves the others alone; the
charge of a plan is unfolded one message at a time.

`CrewProofs` proves `HandlersAreHeard`, `ThreadsAreVerified` and `AcksStayEarned`.
The hooks rest on which arrays are shared: only the list of an event is appended
to in place, its array is shared with no other list (`ListsInv`), and it is never
the array a delivery ranges over, since `Emit` copies (`FireInv`). A run's record carries the chain
it has built, the IDs it has used, and whether the gated message is in it
(`Record`, `Chain`); that `uniqueStepID` finds a free ID is a counting argument
over the finite set of those in use. For acks, the pipe, the lock and the lines
on their way are in step while the peer has sent nothing unasked and no stream
has gone on after an error (`StreamInv`), so
that the line a scan takes is the answer to its own question; a remote result is
of the task its own message started (`ExchangeInv`).

Assumptions: those declared beside the constants, which TLC evaluates on every
run. Keys are positive, and finitely many in a bounded store; sentinels (`NoTask`)
are no values; leases, caps and scan budgets are positive; `At` instants are not
the zero time; offers and slips are of the kinds the model knows
(`OffersAssumption`); messages that verify in one thread have different IDs, and
need nothing (`MailAssumption`); no checkpoint is the sentinel for none
(`FlowAssumption`); the histories a caller starts the loop with can be read, a window is
valid or absent, and the model's answers are lists of calls (`LoopAssumption`; the
first is the caller's obligation, which the loop does not check); each run fires, asks and waits for itself
(`PlacesAssumption`), and step IDs and plans are finite lists (`CrewAssumption`).

The invariants named here were checked by TLC on the runs' instances before they
were proved. What a loop does step by step (the eviction turns, the charge of a
plan, the order of panels, the numbered IDs) is proved by induction stated for
a set of numbers, since the provers cannot instantiate the general rule.

Only model-checked:

* liveness (`RunsEnd` of three modules, `DueJobFires`, `RunsJoin`, `TurnsEnd`): fairness
  and `ENABLED` are out of the prover's reach;
* `AnswerIsTheMessage`: relates what a decoder has made of a prefix of a stream to
  the whole answer, which is an induction over the events of a stream of any
  length.

TLC checks the ledger without eviction; the case with eviction is covered by
the proofs, which leave deletion open, and by `ImplementsStore`.

## Not modelled

* Trigger registry, long-term memory, mailbox: one mutex each and no protocol
  between calls that a property could relate.
* MCP client, tracing, run configuration, schema, skills, workspace and
  environment files: I/O, parsing and checks over strings and paths.
* Test harness and scripts.
* In modelled packages: the JSON forms of snapshots, artifacts and records;
  payload policies, nesting depth and the payload closures of a flow; events
  that are emitted and not read; `Options.Trim`, heartbeats and stream bytes of the
  agent loop; the calibration and the texts of compaction and summaries;
  `Registry.Add` and `Remove` of tools; request encoding, token estimates, delays
  and cache counters of the Anthropic client; canonical bytes, keys and key
  files of an envelope; TLS, HTTP and gRPC. `PROJECT.json` says what is left out
  of each component.

## Plan

1. Done: all modules above, the compositions `ColdStart`, `ContextSession`,
   `AgentRun` and `Dispatch`; the inductive invariants and theorems of "Proofs".
2. Next, proofs: `AnswerIsTheMessage` of `Turn`, as far as it can be stated step by
   step along the stream.
3. After them: an abstract specification of a batch of tool calls (every call
   is answered once, in order), and the mailbox composed with `AgentRun`.
