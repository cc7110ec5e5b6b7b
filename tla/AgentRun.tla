------------------------------ MODULE AgentRun ------------------------------
(***************************************************************************)
(* Agent runs (src/workflow/run.go, src/workflow/run/wire.go): a runner    *)
(* walks a plan and gates every step behind a signed message and its ack.  *)
(* The ack comes from a tool the step names, from a human an escalated     *)
(* step is put to, from a run the tool spawns (src/subagent/astool.go) or  *)
(* from a remote agent.  Runners are started together by RunAll and share  *)
(* the hook registry, the event bus, the notifier, the artifacts and the   *)
(* heartbeat monitor.                                                      *)
(*                                                                         *)
(* The plan is the sequence of gated steps the walk reaches: a step a loop *)
(* repeats occurs again.  An ID is a sequence, "a" being <<"a">> and "a#2" *)
(* <<"a", 2>>.  A failed step ends the walk, as no fallback catches a      *)
(* failed Confirm (module Flow).                                           *)
(***************************************************************************)
EXTENDS Hooks, Notifier, A2A

CONSTANTS
  Runners,   \* places for runs
  StepIDs,   \* the steps' IDs
  Crews,     \* set-ups: plans, tools, hooks and what may happen
  MaxDepth   \* ToolOptions.Depth

\* Every run fires, asks and waits for itself.
ASSUME PlacesAssumption == Firers = Runners /\ Askers = Runners /\ Callers = Runners

ASSUME CrewAssumption ==
  /\ \A id \in StepIDs : Len(id) \in Nat /\ id = [i \in 1..Len(id) |-> id[i]]
  /\ \A c \in Crews :
       /\ c.plan \in [Runners -> Seq(StepIDs)] /\ c.child \in Seq(StepIDs)
       /\ c.hooks \in [Points \cup EventNames -> Seq(HookNames)]

VARIABLES
  crew,       \* the set-up
  run,        \* per place, its run
  threadSeq,  \* threads minted so far
  artifacts,  \* per tool name, the messages whose results were recorded
  beats,      \* threads the heartbeat monitor tracks
  canceled    \* started runs whose ctx is canceled

crewVars == <<crew, run, threadSeq, artifacts, beats, canceled,
              hookVars, notifierVars, a2aVars>>

ownVars == <<crew, threadSeq, artifacts, beats, canceled>>

NoRun == [at |-> "idle"]

NewRun(plan, thread, depth, parent, root) ==
  [at |-> "walk", todo |-> plan, thread |-> thread, depth |-> depth,
   parent |-> parent, root |-> root, seen |-> {}, built |-> <<>>, msg |-> <<>>,
   ack |-> "none", err |-> "nil"]

Live(r) == run[r].at \notin {"idle", "done"}

\* A spawned run has the ctx of the run that spawned it.
CtxDone(r) == Live(r) /\ run[r].root \in canceled

-----------------------------------------------------------------------------
(* Names.                                                                  *)

\* Mutant of UniqueStepID: a repeated step keeps its ID.
SameStepID(seen, id) == id

\* uniqueStepID: the ID, or its first free suffix.
UniqueStepID(seen, id) ==
  IF id \notin seen THEN id
  ELSE LET n == CHOOSE n \in 2..Cardinality(seen) + 2 :
                  /\ Append(id, n) \notin seen
                  /\ \A k \in 2..n - 1 : Append(id, k) \in seen
       IN Append(id, n)

\* toolNameFor: a name the registry holds wins over a stripped suffix.
ToolNameFor(registered, id) ==
  IF id \in registered \/ Len(id) = 1 THEN id ELSE Front(id)

\* resolveGatedSteps.
ValidCrew(c) ==
  \A i \in DOMAIN c.child : c.child[i] \in c.registered

\* Limits.Fits, on the count of messages.
Fits(limit, events) == limit = 0 \/ events <= limit

-----------------------------------------------------------------------------
(* Control.                                                                *)

\* The run of r goes on at label.
RunGoes(r, label) ==
  /\ run' = [run EXCEPT ![r].at = label]
  /\ UNCHANGED ownVars

\* It enters a phase in which handlers run.
Enter(r, phase) == RunGoes(r, phase) /\ StartFiring(r, phase)

\* The phase is over.
Through(r, phase) == run[r].at = phase /\ FiringDone(r)

\* Agent.Run returns: the monitor forgets the thread, and the stop hooks run.
\* runs is the state of the others.
ReturnsFrom(runs, r, err) ==
  /\ run' = [runs EXCEPT ![r].at = "stop", ![r].err = err]
  /\ beats' = beats \ {run[r].thread}
  /\ StartFiring(r, "stop")
  /\ UNCHANGED <<crew, threadSeq, canceled>>

AgentReturns(r, err) == ReturnsFrom(run, r, err) /\ UNCHANGED artifacts

Fails(r) == AgentReturns(r, "failed")

\* An ack was built: the post-tool hooks run.
Confirmed(r, by) ==
  /\ run' = [run EXCEPT ![r].at = "post", ![r].ack = by]
  /\ StartFiring(r, "post")
  /\ UNCHANGED ownVars

Handler(r) ==
  /\ CallHandler(r)
  /\ UNCHANGED <<run, ownVars, notifierVars, a2aVars>>

-----------------------------------------------------------------------------
(* The walk, as workflow.Agent.Run sees it.                                *)

\* RunAll starts a goroutine per spec, each on a thread of its own.
Start(r) ==
  /\ run[r] = NoRun /\ crew.plan[r] # <<>>
  /\ threadSeq' = threadSeq + 1
  /\ run' = [run EXCEPT ![r] = NewRun(crew.plan[r], threadSeq', 0, r, r)]
  /\ UNCHANGED <<crew, artifacts, beats, canceled, hookVars, notifierVars, a2aVars>>

\* confirmStep: the message is built, chained to the last one acked, signed
\* and announced.
ConfirmStep(r) ==
  LET g == run[r]
      id == UniqueStepID(g.seen, Head(g.todo))
      prev == IF g.built = <<>> THEN <<>> ELSE Hash(Last(g.built))
  IN /\ g.at = "walk" /\ g.todo # <<>> /\ ~CtxDone(r)
     /\ \E payload \in crew.payloads :
          LET m == Message(g.thread, id, "room", <<>>, prev, payload)
          IN IF ValidateMessage(m)
             THEN /\ run' = [run EXCEPT ![r].at = "delivered", ![r].msg = <<Sign(m, "agent")>>,
                                        ![r].seen = @ \cup {id}]
                  /\ StartFiring(r, "delivered")
                  /\ UNCHANGED ownVars
             ELSE Fails(r)
     /\ UNCHANGED <<notifierVars, a2aVars>>

\* flow.Run stops between two steps when ctx is done.
Paused(r) ==
  /\ run[r].at = "walk" /\ run[r].todo # <<>> /\ CtxDone(r)
  /\ Fails(r) /\ UNCHANGED <<notifierVars, a2aVars>>

\* The budget, the heartbeat, and then the wait.
Gate(r) ==
  /\ Through(r, "delivered")
  /\ \/ ~Fits(crew.budget, Len(run[r].built) + 1) /\ Fails(r) /\ UNCHANGED a2aVars
     \/ /\ Fits(crew.budget, Len(run[r].built) + 1)
        /\ beats' = beats \cup {run[r].thread}
        /\ UNCHANGED <<crew, threadSeq, artifacts, canceled>>
        /\ \/ /\ ~crew.remote
              /\ run' = [run EXCEPT ![r].at = "pre"]
              /\ StartFiring(r, "pre") /\ UNCHANGED a2aVars
           \/ /\ crew.remote
              /\ run' = [run EXCEPT ![r].at = "remote"]
              /\ WaitStarts(r, run[r].msg[1]) /\ UNCHANGED hookVars
  /\ UNCHANGED notifierVars

\* The confirmed ack is announced, and the step is done.
StepDone(r) ==
  /\ Through(r, "acked")
  /\ run' = [run EXCEPT ![r].at = "walk", ![r].built = @ \o run[r].msg,
                        ![r].todo = Tail(@), ![r].msg = <<>>, ![r].ack = "none"]
  /\ UNCHANGED <<ownVars, hookVars, notifierVars, a2aVars>>

\* The walk is over; the thread is verified unless it is empty.
WalkEnds(r) ==
  /\ run[r].at = "walk" /\ run[r].todo = <<>>
  /\ \/ run[r].built = <<>> /\ AgentReturns(r, "nil")
     \/ /\ run[r].built # <<>>
        /\ IF VerifyThread(run[r].built) THEN Enter(r, "verified")
           ELSE AgentReturns(r, "unverified")
  /\ UNCHANGED <<notifierVars, a2aVars>>

ThreadVerified(r) ==
  /\ Through(r, "verified")
  /\ AgentReturns(r, "nil") /\ UNCHANGED <<notifierVars, a2aVars>>

\* Runner.Run returns, with the error of the walk or of a stop hook.
RunReturns(r) ==
  /\ Through(r, "stop")
  /\ run' = [run EXCEPT ![r].at = "done",
                        ![r].err = IF firing[r].vetoed /\ @ = "nil" THEN "failed" ELSE @]
  /\ UNCHANGED <<ownVars, hookVars, notifierVars, a2aVars>>

-----------------------------------------------------------------------------
(* The chain: hooks, tool, human.                                          *)

PreHooks(r) ==
  /\ Through(r, "pre")
  /\ IF firing[r].vetoed THEN Fails(r)
     ELSE RunGoes(r, "tool") /\ UNCHANGED hookVars
  /\ UNCHANGED <<notifierVars, a2aVars>>

SetRun(r, name) ==
  artifacts' = [artifacts EXCEPT ![name] =
                  Append(@, <<run[r].thread, run[r].msg[1].id>>)]

\* The tool has answered with a string: store.Put, which may refuse it,
\* SetRun and NewAck.
ToolText(runs, r, text) ==
  LET id == run[r].msg[1].id
      name == ToolNameFor(crew.registered, id)
  IN \/ ReturnsFrom(runs, r, "failed") /\ UNCHANGED artifacts
     \/ /\ SetRun(r, name)
        /\ \/ /\ CanAck(run[r].msg[1], "agent", text)
              /\ run' = [runs EXCEPT ![r].at = "post", ![r].ack = "tool"]
              /\ StartFiring(r, "post")
              /\ UNCHANGED <<crew, threadSeq, beats, canceled>>
           \/ /\ ~CanAck(run[r].msg[1], "agent", text)
              /\ ReturnsFrom(runs, r, "failed")

RunTool(r) ==
  /\ run[r].at = "tool"
  /\ \/ /\ \E text \in crew.tool \cap Texts : ToolText(run, r, text)
        /\ UNCHANGED notifierVars
     \/ /\ \/ crew.tool \cap {"nontext", "error"} # {}
           \/ "escalated" \in crew.tool /\ ~crew.ask
        /\ Fails(r) /\ UNCHANGED notifierVars
     \/ /\ "escalated" \in crew.tool /\ crew.ask
        /\ Ask(r, run[r].msg[1].id)
        /\ RunGoes(r, "ask") /\ UNCHANGED hookVars
  /\ UNCHANGED a2aVars

\* askRoundTrip, once the notifier has returned: an approval confirms with
\* the answer's payload, which must not be blank.
AskReturns(r) ==
  /\ run[r].at = "ask" /\ call[r].at = "told"
  /\ Heard(r) /\ UNCHANGED <<pipe, asked, lines, noise, closed>>
  /\ \/ /\ call[r].what = "approved"
        /\ Confirmed(r, IF call[r].of = Question(r, run[r].msg[1].id)
                        THEN "human" ELSE "other")
     \/ Fails(r)
  /\ UNCHANGED a2aVars

PostHooks(r) ==
  /\ Through(r, "post")
  /\ IF firing[r].vetoed THEN Fails(r) ELSE Enter(r, "acked")
  /\ UNCHANGED <<notifierVars, a2aVars>>

\* Wait has returned.
RemoteReturns(r) ==
  /\ run[r].at = "remote" /\ exchange[r].at = "told"
  /\ IF exchange[r].what = "confirmed"
     THEN /\ run' = [run EXCEPT ![r].at = "acked",
               ![r].ack = IF /\ task[r].state = "completed" /\ task[r].of = run[r].msg
                             /\ \/ ExpectSigner = ""
                                \/ task[r].result[1].msg.signer = ExpectSigner
                          THEN "remote" ELSE "other"]
          /\ StartFiring(r, "acked")
          /\ UNCHANGED ownVars
     ELSE Fails(r)
  /\ exchange' = [exchange EXCEPT ![r] = NoExchange]
  /\ UNCHANGED <<task, notifierVars>>

-----------------------------------------------------------------------------
(* Spawned runs.                                                           *)

\* Mutant of SpawnDepth: the depth does not travel with ctx.
SpawnDepthLost(r) == 0

\* withDepth and depthFrom.
SpawnDepth(r) == run[r].depth + 1

\* subTool.Run, up to the run it starts.
Spawn(r) ==
  /\ run[r].at = "tool" /\ "spawn" \in crew.tool
  /\ \/ run[r].depth >= MaxDepth /\ Fails(r)
     \/ /\ run[r].depth < MaxDepth
        /\ threadSeq' = threadSeq + 1
        /\ \E c \in Runners :
             /\ run[c] = NoRun /\ crew.plan[c] = <<>>
             /\ run' = [run EXCEPT ![r].at = "spawned",
                          ![c] = NewRun(crew.child, threadSeq', SpawnDepth(r), r, run[r].root)]
        /\ UNCHANGED <<crew, artifacts, beats, canceled, hookVars>>
  /\ UNCHANGED <<notifierVars, a2aVars>>

\* The spawned run is over: its error is the tool's, and the named artifact
\* or the status its text, which may be blank.  The artifact is whatever a
\* run recorded last.
SpawnReturns(r) ==
  /\ run[r].at = "spawned"
  /\ \E c \in Runners \ {r} :
       /\ run[c].at = "done" /\ run[c].parent = r
       /\ LET runs == [run EXCEPT ![c] = NoRun]
          IN IF run[c].err = "nil" THEN \E text \in Texts : ToolText(runs, r, text)
             ELSE ReturnsFrom(runs, r, "failed") /\ UNCHANGED artifacts
  /\ UNCHANGED <<notifierVars, a2aVars>>

-----------------------------------------------------------------------------
(* Everybody else.                                                         *)

\* The caller cancels the ctx of a run it has started.
Cancel(r) ==
  /\ crew.cancels /\ Live(r) /\ run[r].root = r /\ r \notin canceled
  /\ canceled' = canceled \cup {r}
  /\ UNCHANGED <<run, crew, threadSeq, artifacts, beats, hookVars, notifierVars, a2aVars>>

\* A hook or a subscription is added or a hook removed while runs go on.
ChangeHooks ==
  /\ changes < crew.changes
  /\ \E name \in HookNames :
       \/ \E p \in Points : AddHook(p, name) \/ RemoveHook(p, name)
       \/ \E e \in EventNames : Subscribe(e, name)
  /\ UNCHANGED <<run, ownVars, notifierVars, a2aVars>>

NotifierStep ==
  /\ \/ WriteQuestion \/ ScanAnswer
     \/ \E r \in Runners : CtxDone(r) /\ CancelAsk(r)
  /\ UNCHANGED <<run, ownVars, hookVars, a2aVars>>

Peer ==
  /\ crew.ask
  /\ PeerAnswers \/ PeerCloses
  /\ UNCHANGED <<run, ownVars, hookVars, a2aVars>>

\* What nobody has to expect of the stream.
Noise ==
  /\ crew.ask
  /\ PeerNoise \/ ReadFails
  /\ UNCHANGED <<run, ownVars, hookVars, a2aVars>>

WaitStep(r) ==
  /\ RemoteSend(r) \/ RemotePoll(r) \/ RemoteFetch(r) \/ RemoteTimeout(r)
  /\ UNCHANGED <<run, ownVars, hookVars, notifierVars>>

Remote(r) == RemoteProgress(r) /\ UNCHANGED <<run, ownVars, hookVars, notifierVars>>

-----------------------------------------------------------------------------

CrewInit ==
  /\ crew \in {c \in Crews : ValidCrew(c)}
  /\ run = [r \in Runners |-> NoRun]
  /\ threadSeq = 0
  /\ artifacts = [name \in crew.registered |-> <<>>]
  /\ beats = {} /\ canceled = {}
  /\ HooksInit(crew.hooks) /\ NotifierInit /\ A2AInit

RunStep(r) ==
  \/ Start(r) \/ ConfirmStep(r) \/ Paused(r) \/ Gate(r) \/ Handler(r)
  \/ PreHooks(r) \/ RunTool(r) \/ Spawn(r) \/ SpawnReturns(r) \/ AskReturns(r)
  \/ RemoteReturns(r) \/ PostHooks(r) \/ StepDone(r) \/ WalkEnds(r)
  \/ ThreadVerified(r) \/ RunReturns(r)

CrewNext ==
  \/ \E r \in Runners : RunStep(r) \/ Cancel(r) \/ WaitStep(r) \/ Remote(r)
  \/ ChangeHooks \/ NotifierStep \/ Peer \/ Noise

\* Goroutines and timers run, and the peer answers a question or hangs up.
\* Nothing is assumed of a remote agent, of the caller or of those who change
\* hooks.
CrewSpec ==
  /\ CrewInit /\ [][CrewNext]_crewVars
  /\ \A r \in Runners : WF_crewVars(RunStep(r)) /\ WF_crewVars(WaitStep(r))
  /\ WF_crewVars(NotifierStep) /\ WF_crewVars(asked # {} /\ Peer)

-----------------------------------------------------------------------------

\* However often the walk repeats a step, and whatever the steps are called,
\* the thread a run has built verifies: no step is refused for its ID after
\* its tool has run (run.go uniqueStepID, the chain of PrevHash).
ThreadsVerify == \A r \in Runners : Live(r) => run[r].err # "unverified"

\* A step is confirmed only by what answers its own message: the tool, the
\* human it was put to, the remote task it started, signed by the pinned
\* identity.  An answer to a question whose asker has gone is not taken for
\* the answer to the next one.  Only a peer that sends lines unasked, or a
\* stream that goes on after an error, can bring the two out of step.
AcksAreEarned == \A r \in Runners : Live(r) /\ noise = 0 => run[r].ack # "other"

\* Every run that starts ends: RunAll's join, the depth of spawned runs, the
\* notifier's lock and the deadline of a remote wait never leave one behind.
RunsJoin == \A r \in Runners : Live(r) ~> ~Live(r)

=============================================================================
