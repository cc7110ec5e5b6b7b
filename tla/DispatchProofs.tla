--------------------------- MODULE DispatchProofs ---------------------------
(***************************************************************************)
(* Proofs about ledger.Run (module TaskRun) and the dispatch endpoint       *)
(* (module Dispatch), on top of those about the ledger.  Run takes only    *)
(* steps of the ledger, so the ledger's invariants hold under it; what it  *)
(* adds is the lease it works under and the tasks it has finished.         *)
(***************************************************************************)
EXTENDS Dispatch, LedgerProofs

-----------------------------------------------------------------------------
(* The invariant of ledger.Run.                                            *)

RunRecord ==
  [at : {"none", "Admit", "Claim", "work", "Complete"}, key : Keys \cup {NoKey},
   seq : Nat, fence : Nat, until : Nat, status : {"completed", "failed"}]

RunTypeOK ==
  /\ run \in [Workers -> RunRecord]
  /\ error \in [Workers -> Errors]
  /\ nils \in [Keys -> Nat]

\* The ledger call of a Run is the one its stage makes, with the key of the
\* Run and a time that has been; and a claim under way has passed its checks.
Stage(r, p, c, time) ==
  /\ r.at # "none" => r.key \in Keys
  /\ r.at \in {"none", "work"} => p = "idle"
  /\ p # "idle" => c.key = r.key /\ c.now <= time
  /\ r.at = "Admit" /\ p # "idle" => c.op = "Admit"
  /\ r.at = "Claim" /\ p # "idle" => c.op = "Claim"
  /\ r.at = "Complete" /\ p # "idle" =>
       /\ c.op = "Complete" /\ c.status = r.status
       /\ p \notin {"OwnerLoad", "OwnerCAS"} => c.status = "failed"
  /\ p = "Walk" => ClaimVerdict(c.op, c.cur, c.now) = "ok"

\* A Run whose claim was granted.
Granted(r, p, res) ==
  r.at = "work" \/ (r.at = "Claim" /\ p = "idle" /\ res = "ok")

\* The token of a granted Run is among the grants.
Tokens(w, r, p, res, G) ==
  /\ r.at = "Claim" /\ p = "idle" /\ res = "ok" =>
       \E g \in G : /\ g[1] = r.key /\ g[3] = w
                    /\ \A h \in G : h[1] = r.key /\ h[3] = w => h[2] <= g[2]
  /\ r.at = "work" => \E g \in G : g[1] = r.key /\ g[2] = r.fence

\* The submission a Run was granted is still claimed under its lease, is
\* over, or was overtaken by a later one; or the lease has run out.
Leased(r, t, time) ==
  /\ t # NoTask /\ t.seq >= r.seq
  /\ t.seq = r.seq => \/ IsTerminal(t) \/ time >= r.until
                      \/ t.status = "claimed" /\ t.leaseUntil = r.until

\* A Run that has completed its task and will return nil.
Finished(r, p, res) ==
  r.at = "Complete" /\ p = "idle" /\ res = "ok" /\ r.status = "completed"

Completed(t) == t # NoTask /\ t.status = "completed"

StageInv == \A w \in Workers : Stage(run[w], pc[w], call[w], clock)

TokenInv == \A w \in Workers : Tokens(w, run[w], pc[w], ret[w], grants)

LeaseInv ==
  ~Evicting =>
    /\ \A w \in Workers :
         Granted(run[w], pc[w], ret[w]) => Leased(run[w], tasks[run[w].key], clock)
    /\ \A w, v \in Workers :
         /\ w # v /\ run[w].key = run[v].key /\ run[w].seq = run[v].seq
         /\ Granted(run[w], pc[w], ret[w]) /\ Granted(run[v], pc[v], ret[v])
         => clock >= run[w].until \/ clock >= run[v].until

\* One Run at most finishes a task, and the record says so.
NilInv ==
  ~Evicting =>
    /\ \A k \in Keys : nils[k] <= 1 /\ (nils[k] = 1 => Completed(tasks[k]))
    /\ \A w \in Workers : Finished(run[w], pc[w], ret[w]) =>
         /\ Completed(tasks[run[w].key]) /\ nils[run[w].key] = 0
         /\ \A v \in Workers \ {w} :
              Finished(run[v], pc[v], ret[v]) => run[v].key # run[w].key

RunInv == RunTypeOK /\ StageInv /\ TokenInv /\ LeaseInv /\ NilInv

RunIInv == IInv /\ BlockInv /\ RunInv

-----------------------------------------------------------------------------
(* What a step inside a ledger call does to that call.                     *)

\* The arguments of a call.
SameArgs(c, d) ==
  /\ d.op = c.op /\ d.key = c.key /\ d.status = c.status
  /\ d.now = c.now /\ d.lease = c.lease

\* A call that goes on keeps its arguments; it walks on with a record that
\* may be claimed; and Complete goes beyond its swap only with a failed task.
GoesOn(p, c, q, d) ==
  /\ SameArgs(c, d)
  /\ p \in {"OwnerLoad", "OwnerCAS"} /\ q \notin {"OwnerLoad", "OwnerCAS"} =>
       c.status = "failed"
  /\ q = "Walk" => \/ ClaimVerdict(c.op, d.cur, c.now) = "ok"
                   \/ p = "Walk" /\ d.cur = c.cur

\* Admit goes on.
LEMMA AdmitGoesOn ==
  ASSUME Pre, NEW w \in Workers, pc'[w] # "idle",
         \/ AdmitLoad(w) \/ AdmitNeeds(w) \/ AdmitCAS(w)
         \/ RecheckNeeds(w) \/ RecheckLoad(w)
  PROVE  GoesOn(pc[w], call[w], pc'[w], call'[w])
<1>0. /\ ControlTypeOK /\ call[w] \in Call
      /\ pc[w] \in {"AdmitLoad", "AdmitNeeds", "RecheckNeeds", "RecheckLoad"}
  BY Caller DEF Pre, ControlInv, AdmitLoad, AdmitNeeds, AdmitCAS, RecheckNeeds,
     RecheckLoad
<1>1. PICK c \in Call : c = call[w]
  BY <1>0
<1>2. ASSUME NEW label \in Labels \ {"Walk"}, NEW d, SameArgs(c, d), Goto(w, label, d)
      PROVE  GoesOn(pc[w], call[w], pc'[w], call'[w])
  <2>1. pc'[w] = label /\ call'[w] = d
    BY <1>0, <1>2, GotoMoves
  <2> QED
    BY <1>0, <1>1, <1>2, <2>1 DEF GoesOn
<1>3. ~\E result : Return(w, result)
  BY <1>0, ReturnMoves
<1>4. CASE AdmitLoad(w)
  <2>1. Goto(w, "AdmitNeeds", [c EXCEPT !.cur = tasks[c.key], !.queue = c.needs,
                                        !.blocker = NoKey])
    BY <1>1, <1>3, <1>4 DEF AdmitLoad
  <2> QED
    BY <1>2, <2>1 DEF SameArgs, Call, Labels
<1>5. CASE AdmitNeeds(w)
  <2>1. \/ Goto(w, "AdmitNeeds", [c EXCEPT !.queue = <<>>, !.blocker = Head(c.queue)])
        \/ Goto(w, "AdmitNeeds", [c EXCEPT !.queue = Tail(@)])
    BY <1>1, <1>5 DEF AdmitNeeds
  <2> QED
    BY <1>2, <2>1 DEF SameArgs, Call, Labels
<1>6. CASE AdmitCAS(w)
  <2>1. \/ Goto(w, "RecheckNeeds", [c EXCEPT !.queue = c.needs])
        \/ Goto(w, "AdmitLoad", [c EXCEPT !.cur = NoTask, !.queue = <<>>, !.seen = {},
                                          !.blocker = NoKey])
    BY <1>1, <1>3, <1>6 DEF AdmitCAS, Retry
  <2> QED
    BY <1>2, <2>1 DEF SameArgs, Call, Labels
<1>7. CASE RecheckNeeds(w)
  <2>1. \/ Goto(w, "RecheckLoad", [c EXCEPT !.blocker = Head(c.queue)])
        \/ Goto(w, "RecheckNeeds", [c EXCEPT !.queue = Tail(@)])
    BY <1>1, <1>3, <1>7 DEF RecheckNeeds
  <2> QED
    BY <1>2, <2>1 DEF SameArgs, Call, Labels
<1>8. CASE RecheckLoad(w)
  <2>1. Goto(w, "BlockCAS", [c EXCEPT !.cur = tasks[c.key], !.target = c.key])
    BY <1>1, <1>3, <1>8 DEF RecheckLoad
  <2> QED
    BY <1>2, <2>1 DEF SameArgs, Call, Labels
<1> QED
  BY <1>4, <1>5, <1>6, <1>7, <1>8

\* Claim and Takeover go on.
LEMMA ClaimGoesOn ==
  ASSUME Pre, NEW w \in Workers, pc'[w] # "idle",
         ClaimLoad(w) \/ Walk(w) \/ ClaimCAS(w)
  PROVE  GoesOn(pc[w], call[w], pc'[w], call'[w])
<1>0. /\ ControlTypeOK /\ call[w] \in Call
      /\ pc[w] \in {"ClaimLoad", "Walk"}
  BY Caller DEF Pre, ControlInv, ClaimLoad, Walk, ClaimCAS
<1>1. PICK c \in Call : c = call[w]
  BY <1>0
<1>2. ASSUME NEW label \in Labels, NEW d, SameArgs(c, d), Goto(w, label, d),
             label = "Walk" => \/ ClaimVerdict(c.op, d.cur, c.now) = "ok"
                               \/ pc[w] = "Walk" /\ d.cur = c.cur
      PROVE  GoesOn(pc[w], call[w], pc'[w], call'[w])
  <2>1. pc'[w] = label /\ call'[w] = d
    BY <1>0, <1>2, GotoMoves
  <2> QED
    BY <1>0, <1>1, <1>2, <2>1 DEF GoesOn
<1>3. ~\E result : Return(w, result)
  BY <1>0, ReturnMoves
<1>4. CASE ClaimLoad(w)
  <2> DEFINE d == [c EXCEPT !.cur = tasks[c.key], !.queue = tasks[c.key].needs,
                            !.seen = {}]
  <2>1. /\ ClaimVerdict(c.op, tasks[c.key], c.now) = "ok"
        /\ Goto(w, "Walk", d)
    BY <1>1, <1>3, <1>4 DEF ClaimLoad
  <2>2. SameArgs(c, d) /\ d.cur = tasks[c.key]
    BY DEF SameArgs, Call
  <2> HIDE DEF d
  <2> QED
    BY <1>2, <2>1, <2>2 DEF Labels
<1>5. CASE Walk(w)
  <2> DEFINE n == Head(c.queue)
             rest == [c EXCEPT !.queue = Tail(@), !.seen = @ \cup {n}]
             d == IF n \notin c.seen /\ Found(n)
                  THEN [rest EXCEPT !.queue = @ \o tasks[n].needs]
                  ELSE rest
             e == [c EXCEPT !.blocker = n, !.target = c.key]
  <2>1. \/ Goto(w, "BlockCAS", e)
        \/ Goto(w, "Walk", d)
    BY <1>1, <1>5 DEF Walk
  <2>2. SameArgs(c, d) /\ d.cur = c.cur /\ SameArgs(c, e)
    BY DEF SameArgs, Call
  <2>3. pc[w] = "Walk"
    BY <1>5 DEF Walk
  <2> HIDE DEF d, e
  <2> QED
    BY <1>2, <2>1, <2>2, <2>3 DEF Labels
<1>6. CASE ClaimCAS(w)
  <2>1. Goto(w, "ClaimLoad", [c EXCEPT !.cur = NoTask, !.queue = <<>>, !.seen = {},
                                       !.blocker = NoKey])
    BY <1>1, <1>3, <1>6 DEF ClaimCAS, Retry
  <2> QED
    BY <1>2, <2>1 DEF SameArgs, Call, Labels
<1> QED
  BY <1>4, <1>5, <1>6

\* Complete goes on, and so does the blocking of dependents.
LEMMA OwnerGoesOn ==
  ASSUME Pre, NEW w \in Workers, pc'[w] # "idle",
         \/ OwnerLoad(w) \/ OwnerCAS(w)
         \/ BlockDependents(w) \/ BlockCAS(w) \/ BlockLoad(w)
  PROVE  GoesOn(pc[w], call[w], pc'[w], call'[w])
<1>0. /\ ControlTypeOK /\ call[w] \in Call
      /\ pc[w] \in {"OwnerLoad", "OwnerCAS", "Range"} \cup Blocking
  BY Caller DEF Pre, ControlInv, OwnerLoad, OwnerCAS, BlockDependents, BlockCAS,
     BlockLoad, Blocking
<1>1. PICK c \in Call : c = call[w]
  BY <1>0
<1>2. ASSUME NEW label \in Labels \ {"Walk"}, NEW d, SameArgs(c, d), Goto(w, label, d),
             /\ pc[w] \in {"OwnerLoad", "OwnerCAS"}
             /\ label \notin {"OwnerLoad", "OwnerCAS"}
             => c.status = "failed"
      PROVE  GoesOn(pc[w], call[w], pc'[w], call'[w])
  <2>1. pc'[w] = label /\ call'[w] = d
    BY <1>0, <1>2, GotoMoves
  <2> QED
    BY <1>0, <1>1, <1>2, <2>1 DEF GoesOn
<1>3. ~\E result : Return(w, result)
  BY <1>0, ReturnMoves
<1>4. ASSUME NEW d \in Call, NEW result, SameArgs(c, d), NextDependent(w, d, result),
             pc[w] \in {"Range"} \cup Blocking
      PROVE  GoesOn(pc[w], call[w], pc'[w], call'[w])
  <2> DEFINE k == First(d.todo)
             e == [d EXCEPT !.target = k, !.cur = d.list[k], !.todo = @ \ {k}]
  <2>1. Goto(w, "BlockCAS", e)
    BY <1>3, <1>4 DEF NextDependent
  <2>2. SameArgs(c, e)
    BY <1>4 DEF SameArgs, Call
  <2> HIDE DEF e
  <2> QED
    BY <1>2, <1>4, <2>1, <2>2 DEF Labels, Blocking
<1>5. CASE OwnerLoad(w)
  <2>1. Goto(w, "OwnerCAS", [c EXCEPT !.cur = tasks[c.key]])
    BY <1>1, <1>3, <1>5 DEF OwnerLoad
  <2> QED
    BY <1>2, <2>1 DEF SameArgs, Call, Labels
<1>6. CASE OwnerCAS(w)
  <2>1. \/ Goto(w, "Range", c) /\ c.status = "failed"
        \/ Goto(w, "OwnerLoad", [c EXCEPT !.cur = NoTask, !.queue = <<>>, !.seen = {},
                                          !.blocker = NoKey])
    BY <1>1, <1>3, <1>6 DEF OwnerCAS, Retry
  <2> QED
    BY <1>2, <2>1 DEF SameArgs, Call, Labels
<1>7. CASE BlockDependents(w)
  <2> DEFINE live == {k \in TransitiveDependents(tasks, c.key) : ~IsTerminal(tasks[k])}
             d == [c EXCEPT !.blocker = c.key, !.todo = live, !.list = tasks]
  <2>1. NextDependent(w, d, "ok") /\ pc[w] = "Range"
    BY <1>1, <1>7 DEF BlockDependents
  <2>2. live \subseteq Keys /\ tasks \in [Keys -> MaybeTask]
    BY DEF TransitiveDependents, Pre, StoreTypeOK, MaybeTask
  <2>3. c.key \in Keys \cup {NoKey}
    BY DEF Call
  <2> HIDE DEF live
  <2>4. d \in Call /\ SameArgs(c, d)
    BY <2>2, <2>3 DEF Call, SameArgs
  <2> HIDE DEF d
  <2> QED
    BY <1>4, <2>1, <2>4
<1>8. CASE BlockCAS(w)
  <2>1. NextDependent(w, c, BlockResult(c.op)) \/ Goto(w, "BlockLoad", c)
    BY <1>1, <1>8 DEF BlockCAS
  <2> QED
    BY <1>2, <1>4, <1>8, <2>1 DEF SameArgs, Labels, Blocking, BlockCAS
<1>9. CASE BlockLoad(w)
  <2>1. \/ NextDependent(w, c, BlockResult(c.op))
        \/ Goto(w, "BlockCAS", [c EXCEPT !.cur = tasks[c.target]])
    BY <1>1, <1>9 DEF BlockLoad
  <2>2. SameArgs(c, c) /\ pc[w] \in Blocking
    BY <1>9 DEF SameArgs, BlockLoad, Blocking
  <2>3. SameArgs(c, [c EXCEPT !.cur = tasks[c.target]])
    BY DEF SameArgs, Call
  <2> QED
    BY <1>2, <1>4, <2>1, <2>2, <2>3 DEF Labels, Blocking
<1> QED
  BY <1>5, <1>6, <1>7, <1>8, <1>9

\* Every step of a call that does not end it.
LEMMA StepGoesOn ==
  ASSUME Pre, NEW w \in Workers, pc'[w] # "idle", Step(w)
  PROVE  GoesOn(pc[w], call[w], pc'[w], call'[w])
  BY AdmitGoesOn, ClaimGoesOn, OwnerGoesOn DEF Step

\* A call returns ok only from a swap that landed, or when the dependents
\* of a failed task have been seen to.
LEMMA StepReturns ==
  ASSUME Pre, NEW w \in Workers, Step(w) \/ Abort(w), pc'[w] = "idle", ret'[w] = "ok"
  PROVE  \/ /\ pc[w] = "Walk" /\ Matches(call[w].key, call[w].cur)
            /\ Write(call[w].key, Claimed(w, call[w]))
            /\ grants' = grants \cup {<<call[w].key, call[w].cur.fence + 1, w>>}
         \/ /\ pc[w] = "OwnerCAS" /\ Matches(call[w].key, call[w].cur)
            /\ Write(call[w].key, OwnerWrites(call[w]))
            /\ grants' = grants
         \/ /\ pc[w] \in {"Range"} \cup Blocking
            /\ call[w].op \notin {"Admit"} \cup ClaimOps
            /\ grants' = grants
<1>0. /\ ControlTypeOK /\ call[w] \in Call /\ CallInv(pc[w], call[w])
  BY Caller DEF Pre, ControlInv
<1>1. ASSUME NEW result, Return(w, result)
      PROVE  result = "ok"
  BY <1>0, <1>1 DEF Return, ControlTypeOK
<1>2. ASSUME NEW label, NEW c, Goto(w, label, c)
      PROVE  label = "idle"
  BY <1>0, <1>2, GotoMoves
<1>3. ~Abort(w)
  BY <1>1 DEF Abort
<1>4. ~(AdmitLoad(w) \/ AdmitNeeds(w) \/ RecheckNeeds(w) \/ RecheckLoad(w))
  BY <1>1, <1>2 DEF AdmitLoad, AdmitNeeds, RecheckNeeds, RecheckLoad
<1>5. ~AdmitCAS(w)
  BY <1>1, <1>2 DEF AdmitCAS, Retry
<1>6. ~(ClaimLoad(w) \/ Walk(w) \/ OwnerLoad(w))
  BY <1>1, <1>2 DEF ClaimLoad, Walk, OwnerLoad
<1>7. CASE ClaimCAS(w)
  BY <1>2, <1>7 DEF ClaimCAS, Retry
<1>8. CASE OwnerCAS(w)
  BY <1>2, <1>8 DEF OwnerCAS, Retry
<1>9. CASE BlockDependents(w)
  BY <1>0, <1>9 DEF BlockDependents, CallInv, ClaimOps
<1>10. CASE BlockCAS(w) \/ BlockLoad(w)
  <2>1. NextDependent(w, call[w], BlockResult(call[w].op))
    BY <1>2, <1>10 DEF BlockCAS, BlockLoad
  <2>2. BlockResult(call[w].op) = "ok"
    BY <1>1, <1>2, <2>1 DEF NextDependent
  <2> QED
    BY <1>10, <2>2 DEF BlockResult, ClaimOps, BlockCAS, BlockLoad, Blocking
<1> QED
  BY <1>3, <1>4, <1>5, <1>6, <1>7, <1>8, <1>9, <1>10 DEF Step

\* A token is granted by no other step.
LEMMA GrantReturns ==
  ASSUME Pre, NEW w \in Workers, Step(w) \/ Abort(w), grants' # grants
  PROVE  pc[w] = "Walk" /\ pc'[w] = "idle" /\ ret'[w] = "ok"
<1>1. ControlTypeOK
  BY DEF Pre, ControlInv
<1>2. ClaimCAS(w)
  BY DEF Step, Abort, AdmitLoad, AdmitNeeds, AdmitCAS, RecheckNeeds, RecheckLoad,
     ClaimLoad, Walk, OwnerLoad, OwnerCAS, BlockDependents, BlockCAS, BlockLoad
<1> QED
  BY <1>1, <1>2 DEF ClaimCAS, Return, ControlTypeOK

-----------------------------------------------------------------------------
(* What a step of a Run does to the records, in a store that keeps them.   *)

\* From one record of a key to the next: a later submission, an end, or a
\* grant of a record that nobody has under lease.
Succeeds(t, u, time) ==
  \/ u = t
  \/ /\ u # NoTask
     /\ \/ u.seq > t.seq
        \/ u.seq = t.seq /\ IsTerminal(u)
        \/ /\ u.seq = t.seq /\ IsLive(t)
           /\ t.status = "pending" \/ t.leaseUntil <= time

\* A record that is over stays what it is.
LEMMA DoneStays ==
  ASSUME StoreTypeOK, ~Evicting, StoreStep, NEW k \in Keys, Found(k),
         IsTerminal(tasks[k])
  PROVE  tasks'[k] = tasks[k]
<1>1. ASSUME NEW x \in Keys, NEW new \in TaskState,
             LegalWrite(x, new), Write(x, new)
      PROVE  tasks'[k] = tasks[k]
  <2>1. x # k
    BY <1>1 DEF LegalWrite, Submits, Grants, Settles, Blocks, IsLive,
       IsTerminal, Terminal, Found
  <2> QED
    BY <1>1, <2>1, WriteKeeps
<1> QED
  BY <1>1 DEF StoreStep

\* A write that keeps the submission of the record it replaces.
LEMMA WriteSucceeds ==
  ASSUME StoreTypeOK, ~Evicting, NEW x \in Keys, NEW new \in TaskState,
         Write(x, new), NEW k \in Keys, Found(k),
         Found(x) => Succeeds(tasks[x], [new EXCEPT !.rev = tasks[x].rev + 1], clock)
  PROVE  Succeeds(tasks[k], tasks'[k], clock)
<1>1. /\ tasks'[x] = Stored(x, new)
      /\ \A j \in Keys \ {x} : tasks'[j] = tasks[j]
  BY WriteEffect
<1>2. CASE k # x
  BY <1>1, <1>2 DEF Succeeds
<1>3. CASE k = x
  BY <1>1, <1>3 DEF Stored
<1> QED
  BY <1>2, <1>3

\* A record that may be claimed is not under lease.
LEMMA NotUnderLease ==
  ASSUME NEW c \in Call, c.cur \in TaskState, IsLive(c.cur), NEW time \in Nat,
         c.now <= time, ClaimVerdict(c.op, c.cur, c.now) = "ok"
  PROVE  c.cur.status = "pending" \/ (c.cur.status = "claimed" /\ c.cur.leaseUntil <= time)
<1>1. c.cur.status \in {"pending", "claimed"} /\ c.cur # NoTask
  BY DEF IsLive, IsTerminal, TaskState, Status
<1>2. c.cur.status = "claimed" => c.cur.leaseUntil <= c.now
  BY <1>1 DEF ClaimVerdict, IsTerminal, Terminal
<1>3. c.cur.leaseUntil \in Nat /\ c.now \in Nat
  BY DEF TaskState, Call
<1> QED
  BY <1>1, <1>2, <1>3

\* What a worker in a Run does to the records.
LEMMA RecordStep ==
  ASSUME Pre, ~Evicting, NEW w \in Workers, Step(w),
         Holds(pc[w], call[w], tasks), Stage(run[w], pc[w], call[w], clock),
         run[w] \in RunRecord, NEW k \in Keys, Found(k)
  PROVE  Succeeds(tasks[k], tasks'[k], clock)
<1>0. /\ ControlTypeOK /\ StoreTypeOK /\ call[w] \in Call
      /\ CallInv(pc[w], call[w]) /\ pc[w] \in Labels /\ clock \in Nat
  BY Caller DEF Pre, ControlInv, ControlTypeOK, StoreTypeOK
<1>1. PICK c \in Call : c = call[w]
  BY <1>0
<1>2. PICK p \in Labels : p = pc[w]
  BY <1>0
<1>3. PICK r \in RunRecord : r = run[w]
  OBVIOUS
<1>4. CallInv(p, c) /\ Stage(r, p, c, clock) /\ Holds(p, c, tasks)
  BY <1>0, <1>1, <1>2, <1>3
<1>5. p # "idle" => c.key \in Keys
  BY <1>4 DEF CallInv
<1>6. CASE tasks' = tasks
  BY <1>6 DEF Succeeds
<1>7. CASE /\ p = "AdmitNeeds" /\ Validate(c.key, Admitted(c))
           /\ Matches(c.key, c.cur) /\ Write(c.key, Admitted(c))
  <2>1. Admitted(c) \in TaskState /\ Admitted(c).seq = c.seq
    BY DEF Admitted, Call, MaybeTask, TaskState, Status, Terminal
  <2>2. Found(c.key) => c.seq > tasks[c.key].seq
    BY <1>4, <1>7 DEF CallInv, AdmitEligible, Matches
  <2>3. ASSUME Found(c.key)
        PROVE  Succeeds(tasks[c.key], [Admitted(c) EXCEPT !.rev = tasks[c.key].rev + 1],
                        clock)
    <3>1. tasks[c.key] \in TaskState /\ tasks[c.key].rev + 1 \in Nat
      BY <1>0, <1>5, <1>7, <2>3 DEF StoreTypeOK, Found, TaskState
    <3> DEFINE u == [Admitted(c) EXCEPT !.rev = tasks[c.key].rev + 1]
    <3>2. u \in TaskState /\ u.seq = c.seq
      BY <2>1, <3>1 DEF TaskState
    <3> HIDE DEF u
    <3>3. Succeeds(tasks[c.key], u, clock)
      BY <2>2, <2>3, <3>2, NoTaskAssumption DEF Succeeds
    <3> QED
      BY <3>3 DEF u
  <2> QED
    BY <1>0, <1>5, <1>7, <2>1, <2>3, WriteSucceeds
<1>8. CASE /\ p = "Walk" /\ Matches(c.key, c.cur) /\ Write(c.key, Claimed(w, c))
  <2>1. c.cur = tasks[c.key] /\ IsLive(c.cur) /\ c.cur \in TaskState
    BY <1>0, <1>4, <1>5, <1>8, MatchesSame
    DEF CallInv, Holds, IsLive, StoreTypeOK
  <2>2. /\ Claimed(w, c) \in TaskState /\ Claimed(w, c).seq = c.cur.seq
    <3>1. /\ c.cur.fence + 1 \in Nat /\ c.now + c.lease \in Nat
      BY <2>1 DEF TaskState, Call
    <3> QED
      BY <2>1, <3>1 DEF Claimed, TaskState, Status, Workers
  <2>3. c.cur.status = "pending" \/ c.cur.leaseUntil <= clock
    BY <1>0, <1>4, <1>8, <2>1, NotUnderLease DEF Stage
  <2>4. Succeeds(tasks[c.key], [Claimed(w, c) EXCEPT !.rev = tasks[c.key].rev + 1], clock)
    <3>1. tasks[c.key].rev + 1 \in Nat
      BY <2>1 DEF TaskState
    <3> DEFINE u == [Claimed(w, c) EXCEPT !.rev = tasks[c.key].rev + 1]
    <3>2. u \in TaskState /\ u.seq = c.cur.seq
      BY <2>2, <3>1 DEF TaskState
    <3> HIDE DEF u
    <3>3. Succeeds(tasks[c.key], u, clock)
      BY <2>1, <2>3, <3>2, NoTaskAssumption DEF Succeeds
    <3> QED
      BY <3>3 DEF u
  <2> QED
    BY <1>0, <1>5, <1>8, <2>2, <2>4, WriteSucceeds
<1>9. ASSUME NEW x \in Keys, NEW new \in TaskState, c.cur # NoTask, Matches(x, c.cur),
             Write(x, new), new.seq = c.cur.seq, IsTerminal(new)
      PROVE  Succeeds(tasks[k], tasks'[k], clock)
  <2>1. tasks[x] \in TaskState /\ tasks[x].seq = c.cur.seq
    BY <1>0, <1>9 DEF Matches, StoreTypeOK, Found
  <2>2. Succeeds(tasks[x], [new EXCEPT !.rev = tasks[x].rev + 1], clock)
    <3>1. tasks[x].rev + 1 \in Nat
      BY <2>1 DEF TaskState
    <3> DEFINE u == [new EXCEPT !.rev = tasks[x].rev + 1]
    <3>2. u \in TaskState /\ u.seq = c.cur.seq /\ IsTerminal(u)
      BY <1>9, <3>1 DEF TaskState, IsTerminal
    <3> HIDE DEF u
    <3>3. Succeeds(tasks[x], u, clock)
      BY <2>1, <3>2, NoTaskAssumption DEF Succeeds
    <3> QED
      BY <3>3 DEF u
  <2> QED
    BY <1>0, <1>9, <2>2, WriteSucceeds
<1>10. CASE /\ p = "OwnerCAS" /\ Matches(c.key, c.cur) /\ Write(c.key, OwnerWrites(c))
  <2>1. c.op = "Complete" /\ c.cur \in TaskState /\ c.cur # NoTask
    <3>1. c.op \in OwnerOps /\ c.cur # NoTask
      BY <1>4, <1>10 DEF CallInv
    <3>2. r.at \notin {"none", "work", "Admit", "Claim"}
      BY <1>4, <1>10, <3>1 DEF Stage, OwnerOps
    <3> QED
      BY <1>4, <1>10, <3>1, <3>2 DEF Stage, RunRecord, Call, MaybeTask
  <2>2. OwnerWrites(c) = [c.cur EXCEPT !.status = c.status]
    BY <2>1 DEF OwnerWrites
  <2>3. c.status \in {"completed", "failed"}
    BY DEF Call
  <2>4. /\ OwnerWrites(c) \in TaskState /\ OwnerWrites(c).seq = c.cur.seq
        /\ IsTerminal(OwnerWrites(c))
    BY <2>1, <2>2, <2>3 DEF TaskState, IsTerminal, Terminal, Status
  <2> QED
    BY <1>5, <1>9, <1>10, <2>1, <2>4
<1>11. CASE /\ p = "BlockCAS" /\ Matches(c.target, c.cur) /\ Write(c.target, Blocked(c))
  <2>1. /\ c.cur \in TaskState /\ c.cur # NoTask /\ c.target \in Keys
        /\ c.blocker \in Keys
    BY <1>4, <1>11 DEF CallInv, IsLive, Blocking, Call, MaybeTask
  <2>2. /\ Blocked(c) \in TaskState /\ Blocked(c).seq = c.cur.seq
        /\ IsTerminal(Blocked(c))
    BY <2>1 DEF Blocked, TaskState, IsTerminal, Terminal, Status
  <2> QED
    BY <1>9, <1>11, <2>1, <2>2
<1>12. CASE \/ AdmitLoad(w) \/ AdmitNeeds(w) \/ RecheckNeeds(w) \/ RecheckLoad(w)
            \/ ClaimLoad(w) \/ Walk(w) \/ OwnerLoad(w)
            \/ BlockDependents(w) \/ BlockLoad(w)
  BY <1>6, <1>12 DEF AdmitLoad, AdmitNeeds, RecheckNeeds, RecheckLoad, ClaimLoad,
     Walk, OwnerLoad, BlockDependents, BlockLoad, storeVars
<1>13. CASE AdmitCAS(w)
  BY <1>1, <1>2, <1>6, <1>7, <1>13 DEF AdmitCAS, storeVars
<1>14. CASE ClaimCAS(w)
  BY <1>1, <1>2, <1>6, <1>8, <1>14 DEF ClaimCAS, storeVars
<1>15. CASE OwnerCAS(w)
  BY <1>1, <1>2, <1>6, <1>10, <1>15 DEF OwnerCAS, storeVars
<1>16. CASE BlockCAS(w)
  BY <1>1, <1>2, <1>6, <1>11, <1>16 DEF BlockCAS, storeVars
<1> QED
  BY <1>12, <1>13, <1>14, <1>15, <1>16 DEF Step

-----------------------------------------------------------------------------
(* Run takes steps of the ledger.                                          *)

\* The token of the last grant to w is among the grants.
LEMMA TokenGranted ==
  ASSUME NEW w \in Workers, NEW k,
         \E g \in grants : /\ g[1] = k /\ g[3] = w
                           /\ \A h \in grants : h[1] = k /\ h[3] = w => h[2] <= g[2]
  PROVE  \E g \in grants : g[1] = k /\ g[2] = Token(w, k)
<1> DEFINE own == {g \in grants : g[1] = k /\ g[3] = w}
           top == CHOOSE g \in own : \A h \in own : h[2] <= g[2]
<1>1. \E g \in own : \A h \in own : h[2] <= g[2]
  OBVIOUS
<1>2. top \in own
  BY <1>1
<1>3. Token(w, k) = top[2]
  BY DEF Token
<1> QED
  BY <1>2, <1>3

\* The ledger never sees more of a Run than a caller that starts calls with
\* tokens it was granted.
LEMMA RunIsLedgerStep ==
  ASSUME RunInv, IInv, [RunNext]_runVars
  PROVE  [Next]_ledgerVars
<1>1. CASE UNCHANGED runVars
  BY <1>1 DEF runVars, ledgerVars
<1>2. CASE Passing
  BY <1>2 DEF Next
<1>3. ASSUME NEW w \in Workers, NEW k \in Keys, NEW s \in 1..MaxSeq,
             NEW needs \in NeedsOf[k], RunStart(w, k, s, needs)
      PROVE  Next
  BY <1>3 DEF RunStart, Next, Start
<1>4. ASSUME NEW w \in Workers, Proceed(w)
      PROVE  Next \/ UNCHANGED ledgerVars
  <2>1. CASE LedgerStep(w)
    BY <2>1 DEF LedgerStep, Next
  <2>2. CASE AdmitFails(w) \/ StateEnds(w) \/ ClaimFails(w) \/ WorkBegins(w) \/ RunReturns(w)
    BY <2>2 DEF AdmitFails, StateEnds, ClaimFails, WorkBegins, RunReturns
  <2>3. CASE StateOpen(w)
    <3>1. run[w].key \in Keys
      BY <2>3 DEF StateOpen, Between, RunInv, StageInv, Stage
    <3> QED
      BY <2>3, <3>1 DEF StateOpen, Next, Start, ClaimOps
  <2>4. CASE WorkEnds(w)
    <3>1. PICK g \in grants : g[1] = run[w].key /\ g[2] = run[w].fence
      BY <2>4 DEF WorkEnds, Between, RunInv, TokenInv, Tokens
    <3> QED
      BY <2>4, <3>1 DEF WorkEnds, Next, Start
  <2> QED
    BY <1>4, <2>1, <2>2, <2>3, <2>4 DEF Proceed
<1> QED
  BY <1>1, <1>2, <1>3, <1>4 DEF RunNext

-----------------------------------------------------------------------------
(* One worker moves at a time.                                             *)

Alone(w) ==
  \A v \in Workers \ {w} :
    run'[v] = run[v] /\ pc'[v] = pc[v] /\ call'[v] = call[v] /\ ret'[v] = ret[v]

\* A step of the ledger sets the result of the worker that takes it.
LEMMA OthersKeepResults ==
  ASSUME ControlTypeOK, NEW v \in Workers, NEW w \in Workers, v # w,
         Start(v) \/ Step(v) \/ Abort(v)
  PROVE  ret'[w] = ret[w]
<1>1. ASSUME NEW x, ret' = [ret EXCEPT ![v] = x]
      PROVE  ret'[w] = ret[w]
  BY <1>1 DEF ControlTypeOK
<1>2. ret' = ret \/ \E x : ret' = [ret EXCEPT ![v] = x]
  <2>1. CASE Start(v)
    BY <2>1 DEF Start, AdmitStart, ClaimStart, OwnerStart, Begin
  <2>2. CASE Abort(v)
    BY <2>2 DEF Abort, Return
  <2>3. CASE AdmitLoad(v) \/ AdmitNeeds(v) \/ RecheckNeeds(v) \/ RecheckLoad(v)
    BY <2>3 DEF AdmitLoad, AdmitNeeds, RecheckNeeds, RecheckLoad, Goto, Return
  <2>4. CASE AdmitCAS(v)
    BY <2>4 DEF AdmitCAS, Goto, Return, Retry
  <2>5. CASE ClaimLoad(v) \/ Walk(v) \/ ClaimCAS(v)
    BY <2>5 DEF ClaimLoad, Walk, ClaimCAS, Goto, Return, Retry
  <2>6. CASE OwnerLoad(v) \/ OwnerCAS(v)
    BY <2>6 DEF OwnerLoad, OwnerCAS, Goto, Return, Retry
  <2>7. CASE BlockDependents(v) \/ BlockCAS(v) \/ BlockLoad(v)
    BY <2>7 DEF BlockDependents, BlockCAS, BlockLoad, NextDependent, Goto,
       Return
  <2> QED
    BY <2>1, <2>2, <2>3, <2>4, <2>5, <2>6, <2>7 DEF Step
<1> QED
  BY <1>1, <1>2

\* A step of the ledger in which only w moves, and of Run likewise.
LEMMA LedgerAlone ==
  ASSUME ControlTypeOK, run \in [Workers -> RunRecord], NEW w \in Workers,
         \/ Start(w) \/ Step(w) \/ Abort(w) \/ UNCHANGED ledgerVars,
         \/ UNCHANGED run
         \/ \E r : run' = [run EXCEPT ![w] = r]
  PROVE  Alone(w)
<1>1. \A v \in Workers \ {w} : run'[v] = run[v]
  OBVIOUS
<1>2. \A v \in Workers \ {w} : pc'[v] = pc[v] /\ call'[v] = call[v] /\ ret'[v] = ret[v]
  BY OneMoves, OthersKeepCalls, OthersKeepResults DEF ledgerVars
<1> QED
  BY <1>1, <1>2 DEF Alone

\* What the invariant says of the workers that do not move stays true.
LEMMA OthersKept ==
  ASSUME IInv, RunInv, NEW w \in Workers, Alone(w), clock' \in Nat, clock' >= clock,
         grants \subseteq grants', \A g \in grants' \ grants : g[3] = w
  PROVE  \A v \in Workers \ {w} :
           /\ Stage(run'[v], pc'[v], call'[v], clock')
           /\ Tokens(v, run'[v], pc'[v], ret'[v], grants')
<1> SUFFICES ASSUME NEW v \in Workers \ {w}
             PROVE  /\ Stage(run[v], pc[v], call[v], clock')
                    /\ Tokens(v, run[v], pc[v], ret[v], grants')
  BY DEF Alone
<1>1. Stage(run[v], pc[v], call[v], clock) /\ call[v].now \in Nat /\ clock \in Nat
  BY DEF RunInv, StageInv, IInv, TypeOK, StoreTypeOK, Call
<1>2. call[v].now <= clock => call[v].now <= clock'
  BY <1>1
<1>3. Stage(run[v], pc[v], call[v], clock')
  BY <1>1, <1>2 DEF Stage
<1>4. Tokens(v, run[v], pc[v], ret[v], grants)
  BY DEF RunInv, TokenInv
<1>5. Tokens(v, run[v], pc[v], ret[v], grants')
  BY <1>4 DEF Tokens
<1> QED
  BY <1>3, <1>5

\* What is known of a granted submission survives the next record of its key
\* and the passing of time.
LEMMA LeasedStays ==
  ASSUME NEW r \in RunRecord, NEW t \in TaskState, NEW u \in TaskState \cup {NoTask},
         NEW time \in Nat, NEW later \in Nat, later >= time,
         Leased(r, t, time), Succeeds(t, u, time)
  PROVE  Leased(r, u, later)
<1>1. /\ t.seq \in Nat /\ t.leaseUntil \in Nat /\ r.seq \in Nat /\ r.until \in Nat
      /\ u # NoTask => u.seq \in Nat
  BY DEF TaskState, RunRecord
<1>2. CASE u = t
  BY <1>1, <1>2 DEF Leased
<1>3. CASE u # NoTask /\ u.seq > t.seq
  BY <1>1, <1>3 DEF Leased
<1>4. CASE u # NoTask /\ u.seq = t.seq /\ IsTerminal(u)
  BY <1>1, <1>4 DEF Leased
<1>5. CASE /\ u # NoTask /\ u.seq = t.seq /\ IsLive(t)
           /\ t.status = "pending" \/ t.leaseUntil <= time
  BY <1>1, <1>5 DEF Leased, IsLive
<1> QED
  BY <1>2, <1>3, <1>4, <1>5 DEF Succeeds

\* Leases are kept when no Run is granted one.
LEMMA LeasesKept ==
  ASSUME StoreTypeOK, RunInv, clock' \in Nat, clock' >= clock, StoreTypeOK',
         run' \in [Workers -> RunRecord],
         ~Evicting => \A k \in Keys : Found(k) => Succeeds(tasks[k], tasks'[k], clock),
         \A w \in Workers : Granted(run'[w], pc'[w], ret'[w]) =>
           /\ Granted(run[w], pc[w], ret[w]) /\ run'[w].key = run[w].key
           /\ run'[w].seq = run[w].seq /\ run'[w].until = run[w].until
  PROVE  LeaseInv'
<1> SUFFICES ASSUME ~Evicting PROVE LeaseInv'
  BY DEF LeaseInv
<1>0. clock \in Nat /\ \A w \in Workers : run[w] \in RunRecord /\ run'[w] \in RunRecord
  BY DEF StoreTypeOK, RunInv, RunTypeOK
<1>1. ASSUME NEW w \in Workers, Granted(run'[w], pc'[w], ret'[w])
      PROVE  Leased(run'[w], tasks'[run'[w].key], clock')
  <2>1. PICK r \in RunRecord, s \in RunRecord : r = run[w] /\ s = run'[w]
    BY <1>0
  <2>2. /\ Granted(run[w], pc[w], ret[w]) /\ s.key = r.key
        /\ s.seq = r.seq /\ s.until = r.until
    BY <1>1, <2>1
  <2>3. Leased(r, tasks[r.key], clock) /\ r.key \in Keys
    <3>1. Stage(r, pc[w], call[w], clock)
      BY <2>1 DEF RunInv, StageInv
    <3> QED
      BY <2>1, <2>2, <3>1 DEF RunInv, LeaseInv, Granted, Stage
  <2>4. PICK t \in TaskState, u \in TaskState \cup {NoTask} :
          t = tasks[r.key] /\ u = tasks'[r.key]
    BY <2>3 DEF Leased, StoreTypeOK
  <2>5. Succeeds(t, u, clock)
    BY <2>3, <2>4 DEF Leased, Found
  <2>7. Leased(r, u, clock')
    BY <1>0, <2>3, <2>4, <2>5, LeasedStays
  <2> QED
    BY <2>1, <2>2, <2>4, <2>7 DEF Leased
<1>2. ASSUME NEW w \in Workers, NEW v \in Workers, w # v, run'[w].key = run'[v].key,
             run'[w].seq = run'[v].seq, Granted(run'[w], pc'[w], ret'[w]),
             Granted(run'[v], pc'[v], ret'[v])
      PROVE  clock' >= run'[w].until \/ clock' >= run'[v].until
  <2>1. clock >= run[w].until \/ clock >= run[v].until
    BY <1>2 DEF RunInv, LeaseInv
  <2>2. run[w].until \in Nat /\ run[v].until \in Nat
    BY <1>0 DEF RunRecord
  <2> QED
    BY <1>0, <1>2, <2>1, <2>2
<1> QED
  BY <1>1, <1>2 DEF LeaseInv

\* What has been finished stays finished when no Run finishes or returns nil.
LEMMA NilsKept ==
  ASSUME RunInv, nils' = nils,
         ~Evicting => \A k \in Keys : Completed(tasks[k]) => tasks'[k] = tasks[k],
         \A w \in Workers : Finished(run'[w], pc'[w], ret'[w]) =>
           Finished(run[w], pc[w], ret[w]) /\ run'[w].key = run[w].key
  PROVE  NilInv'
<1> SUFFICES ASSUME ~Evicting PROVE NilInv'
  BY DEF NilInv
<1>1. ASSUME NEW k \in Keys
      PROVE  nils'[k] <= 1 /\ (nils'[k] = 1 => Completed(tasks'[k]))
  BY DEF RunInv, NilInv, Completed
<1>2. ASSUME NEW w \in Workers, Finished(run'[w], pc'[w], ret'[w])
      PROVE  /\ Completed(tasks'[run'[w].key]) /\ nils'[run'[w].key] = 0
             /\ \A v \in Workers \ {w} :
                  Finished(run'[v], pc'[v], ret'[v]) => run'[v].key # run'[w].key
  <2>1. Finished(run[w], pc[w], ret[w]) /\ run'[w].key = run[w].key
    BY <1>2
  <2>2. run[w].key \in Keys
    BY <2>1 DEF RunInv, StageInv, Stage, Finished
  <2>3. /\ Completed(tasks[run[w].key]) /\ nils[run[w].key] = 0
        /\ \A v \in Workers \ {w} :
             Finished(run[v], pc[v], ret[v]) => run[v].key # run[w].key
    BY <2>1 DEF RunInv, NilInv
  <2>4. tasks'[run[w].key] = tasks[run[w].key]
    BY <2>2, <2>3
  <2> QED
    BY <1>2, <2>1, <2>3, <2>4
<1> QED
  BY <1>1, <1>2 DEF NilInv

\* What has to be shown of a step of w.
LEMMA RunInvStep ==
  ASSUME IInv, RunInv, NEW w \in Workers, Alone(w), clock' \in Nat, clock' >= clock,
         grants \subseteq grants', \A g \in grants' \ grants : g[3] = w,
         RunTypeOK', Stage(run'[w], pc'[w], call'[w], clock'),
         Tokens(w, run'[w], pc'[w], ret'[w], grants'), LeaseInv', NilInv'
  PROVE  RunInv'
<1>1. \A v \in Workers \ {w} :
        /\ Stage(run'[v], pc'[v], call'[v], clock')
        /\ Tokens(v, run'[v], pc'[v], ret'[v], grants')
  BY OthersKept
<1> QED
  BY <1>1 DEF RunInv, StageInv, TokenInv

\* A step of w that leaves the store as it is, grants nothing and makes no Run
\* return nil.
LEMMA QuietRunStep ==
  ASSUME IInv, RunInv, NEW w \in Workers, Alone(w), UNCHANGED <<storeVars, grants, nils>>,
         RunTypeOK', Stage(run'[w], pc'[w], call'[w], clock),
         Tokens(w, run'[w], pc'[w], ret'[w], grants),
         Granted(run'[w], pc'[w], ret'[w]) =>
           /\ Granted(run[w], pc[w], ret[w]) /\ run'[w].key = run[w].key
           /\ run'[w].seq = run[w].seq /\ run'[w].until = run[w].until,
         Finished(run'[w], pc'[w], ret'[w]) =>
           Finished(run[w], pc[w], ret[w]) /\ run'[w].key = run[w].key
  PROVE  RunInv'
<1>1. /\ tasks' = tasks /\ clock' = clock /\ clock \in Nat /\ StoreTypeOK
      /\ StoreTypeOK' /\ clock' >= clock
  BY DEF storeVars, IInv, TypeOK, StoreTypeOK
<1>2. LeaseInv'
  <2>1. \A v \in Workers : Granted(run'[v], pc'[v], ret'[v]) =>
          /\ Granted(run[v], pc[v], ret[v]) /\ run'[v].key = run[v].key
          /\ run'[v].seq = run[v].seq /\ run'[v].until = run[v].until
    BY DEF Alone
  <2> QED
    BY <1>1, <2>1, LeasesKept DEF Succeeds, RunTypeOK
<1>3. NilInv'
  <2>1. \A v \in Workers : Finished(run'[v], pc'[v], ret'[v]) =>
          Finished(run[v], pc[v], ret[v]) /\ run'[v].key = run[v].key
    BY DEF Alone
  <2> QED
    BY <1>1, <2>1, NilsKept
<1> QED
  BY <1>1, <1>2, <1>3, RunInvStep

\* What RunGoes and RunEnds leave behind.
LEMMA RunGoesTo ==
  ASSUME RunTypeOK, NEW w \in Workers, NEW r \in RunRecord, RunGoes(w, r)
  PROVE  RunTypeOK' /\ run'[w] = r /\ nils' = nils
  BY DEF RunTypeOK, RunGoes

\* A worker that runs nothing.
LEMMA NoRunType == NoRun \in RunRecord
  BY DEF NoRun, RunRecord

\* ledger.Run returns: the worker runs nothing, all else keeps its type.
LEMMA RunEndsAt ==
  ASSUME RunTypeOK, NEW w \in Workers, NEW err \in Errors, RunEnds(w, err),
         run[w].key \in Keys
  PROVE  RunTypeOK' /\ run'[w] = NoRun
<1>1. run' \in [Workers -> RunRecord] /\ error' \in [Workers -> Errors]
      /\ run'[w] = NoRun
  BY NoRunType DEF RunTypeOK, RunEnds
<1>2. nils' \in [Keys -> Nat]
  BY DEF RunTypeOK, RunEnds
<1> QED
  BY <1>1, <1>2 DEF RunTypeOK

\* A Run begins with Admit.
LEMMA RunStartInv ==
  ASSUME IInv, RunInv, NEW w \in Workers, NEW k \in Keys, NEW s \in 1..MaxSeq,
         NEW needs \in NeedsOf[k], RunStart(w, k, s, needs)
  PROVE  RunInv'
<1>0. RunTypeOK /\ ControlTypeOK /\ clock \in Nat
  BY DEF RunInv, IInv, TypeOK, ControlTypeOK, StoreTypeOK
<1> DEFINE c == [NoCall EXCEPT !.op = "Admit", !.key = k, !.seq = s,
                               !.needs = needs, !.now = clock]
           r == [NoRun EXCEPT !.at = "Admit", !.key = k]
<1>1. /\ Begin(w, "AdmitLoad", c) /\ run' = [run EXCEPT ![w] = r] /\ nils' = nils
      /\ error' = [error EXCEPT ![w] = "none"]
  BY DEF RunStart, AdmitStart
<1>2. r \in RunRecord /\ r.at = "Admit" /\ r.key = k
  BY DEF NoRun, RunRecord
<1>3. c.op = "Admit" /\ c.key = k /\ c.now = clock
  BY DEF NoCall
<1> HIDE DEF c, r
<1>4. /\ pc'[w] = "AdmitLoad" /\ call'[w] = c /\ run'[w] = r
      /\ UNCHANGED <<storeVars, grants, nils>>
  BY <1>0, <1>1 DEF Begin, ControlTypeOK, RunTypeOK
<1>5. RunTypeOK'
  BY <1>0, <1>1, <1>2 DEF RunTypeOK, Errors, Results
<1>6. Alone(w)
  <2>1. Start(w)
    BY DEF RunStart, Start
  <2> QED
    BY <1>0, <1>1, <2>1, LedgerAlone DEF RunTypeOK
<1>7. Stage(run'[w], pc'[w], call'[w], clock)
  BY <1>0, <1>2, <1>3, <1>4 DEF Stage
<1>8. /\ Tokens(w, run'[w], pc'[w], ret'[w], grants)
      /\ ~Granted(run'[w], pc'[w], ret'[w]) /\ ~Finished(run'[w], pc'[w], ret'[w])
  BY <1>2, <1>4 DEF Tokens, Granted, Finished
<1> QED
  BY <1>4, <1>5, <1>6, <1>7, <1>8, QuietRunStep

\* It goes on with Claim.
LEMMA StateOpenInv ==
  ASSUME IInv, RunInv, NEW w \in Workers, StateOpen(w)
  PROVE  RunInv'
<1>0. /\ RunTypeOK /\ ControlTypeOK /\ clock \in Nat /\ run[w] \in RunRecord
      /\ run[w].key \in Keys
  BY DEF RunInv, IInv, TypeOK, ControlTypeOK, StoreTypeOK, RunTypeOK, StageInv, Stage,
     StateOpen, Between
<1>1. PICK lease \in Leases : ClaimStart(w, "Claim", run[w].key, lease)
  BY DEF StateOpen
<1>2. PICK q \in RunRecord : q = run[w]
  BY <1>0
<1> DEFINE c == [NoCall EXCEPT !.op = "Claim", !.key = q.key, !.lease = lease,
                               !.now = clock]
           r == [q EXCEPT !.at = "Claim"]
<1>3. Begin(w, "ClaimLoad", c) /\ RunGoes(w, r)
  BY <1>1, <1>2 DEF StateOpen, ClaimStart
<1>4. r \in RunRecord /\ r.at = "Claim" /\ r.key = q.key
  BY DEF RunRecord
<1>5. c.op = "Claim" /\ c.key = q.key /\ c.now = clock
  BY DEF NoCall
<1> HIDE DEF c, r
<1>6. /\ pc'[w] = "ClaimLoad" /\ call'[w] = c /\ UNCHANGED <<storeVars, grants>>
  BY <1>0, <1>3 DEF Begin, ControlTypeOK
<1>7. RunTypeOK' /\ run'[w] = r /\ nils' = nils
  BY <1>0, <1>3, <1>4, RunGoesTo
<1>8. Alone(w)
  <2>1. Start(w)
    BY <1>0, <1>1 DEF Start, ClaimOps
  <2> QED
    BY <1>0, <1>3, <2>1, LedgerAlone DEF RunTypeOK, RunGoes
<1>9. Stage(run'[w], pc'[w], call'[w], clock)
  BY <1>0, <1>2, <1>4, <1>5, <1>6, <1>7 DEF Stage
<1>10. /\ Tokens(w, run'[w], pc'[w], ret'[w], grants)
       /\ ~Granted(run'[w], pc'[w], ret'[w]) /\ ~Finished(run'[w], pc'[w], ret'[w])
  BY <1>4, <1>6, <1>7 DEF Tokens, Granted, Finished
<1> QED
  BY <1>6, <1>7, <1>8, <1>9, <1>10, QuietRunStep

\* The work begins with the token that Claim was granted.
LEMMA WorkBeginsInv ==
  ASSUME IInv, RunInv, NEW w \in Workers, WorkBegins(w)
  PROVE  RunInv'
<1>0. /\ RunTypeOK /\ ControlTypeOK /\ clock \in Nat /\ run[w] \in RunRecord
      /\ run[w].key \in Keys /\ Stage(run[w], pc[w], call[w], clock)
      /\ pc[w] = "idle" /\ run[w].at = "Claim" /\ ret[w] = "ok"
      /\ grants \subseteq Keys \X Nat \X Workers
  BY DEF RunInv, IInv, TypeOK, ControlTypeOK, StoreTypeOK, RunTypeOK, StageInv, Stage,
     WorkBegins, Between
<1>1. UNCHANGED ledgerVars
  BY DEF WorkBegins
<1>2. PICK q \in RunRecord : q = run[w]
  BY <1>0
<1>3. \E g \in grants : g[1] = q.key /\ g[2] = Token(w, q.key)
  <2>1. Tokens(w, run[w], pc[w], ret[w], grants)
    BY DEF RunInv, TokenInv
  <2>2. \E g \in grants : /\ g[1] = q.key /\ g[3] = w
                          /\ \A h \in grants : h[1] = q.key /\ h[3] = w => h[2] <= g[2]
    BY <1>0, <1>2, <2>1 DEF Tokens
  <2> QED
    BY <2>2, TokenGranted
<1>4. PICK f \in Nat : f = Token(w, q.key)
  BY <1>0, <1>3
<1> DEFINE r == [q EXCEPT !.at = "work", !.fence = f]
<1>5. RunGoes(w, r)
  BY <1>2, <1>4 DEF WorkBegins
<1>6. /\ r \in RunRecord /\ r.at = "work" /\ r.key = q.key /\ r.fence = f
      /\ r.seq = q.seq /\ r.until = q.until
  BY DEF RunRecord
<1> HIDE DEF r
<1>7. RunTypeOK' /\ run'[w] = r /\ nils' = nils
  BY <1>0, <1>5, <1>6, RunGoesTo
<1>8. Alone(w)
  BY <1>0, <1>1, <1>5, LedgerAlone DEF RunTypeOK, RunGoes
<1>9. UNCHANGED <<storeVars, grants, pc, call, ret>>
  BY <1>1 DEF ledgerVars, storeVars
<1>10. Stage(run'[w], pc'[w], call'[w], clock)
  BY <1>0, <1>2, <1>6, <1>7, <1>9 DEF Stage
<1>11. /\ Tokens(w, run'[w], pc'[w], ret'[w], grants)
       /\ Granted(run[w], pc[w], ret[w]) /\ ~Finished(run'[w], pc'[w], ret'[w])
  BY <1>0, <1>2, <1>3, <1>4, <1>6, <1>7, <1>9 DEF Tokens, Granted, Finished
<1> QED
  BY <1>2, <1>6, <1>7, <1>8, <1>9, <1>10, <1>11, QuietRunStep

\* The work ends with Complete.
LEMMA WorkEndsInv ==
  ASSUME IInv, RunInv, NEW w \in Workers, WorkEnds(w)
  PROVE  RunInv'
<1>0. /\ RunTypeOK /\ ControlTypeOK /\ clock \in Nat /\ run[w] \in RunRecord
      /\ run[w].key \in Keys /\ run[w].at = "work"
  BY DEF RunInv, IInv, TypeOK, ControlTypeOK, StoreTypeOK, RunTypeOK, StageInv, Stage,
     WorkEnds, Between
<1>1. PICK status \in {"completed", "failed"} :
        /\ OwnerStart(w, "Complete", run[w].key, run[w].fence, 0, status)
        /\ RunGoes(w, [run[w] EXCEPT !.at = "Complete", !.status = status])
  BY DEF WorkEnds
<1>2. PICK q \in RunRecord : q = run[w]
  BY <1>0
<1> DEFINE c == [NoCall EXCEPT !.op = "Complete", !.key = q.key, !.fence = q.fence,
                               !.lease = 0, !.status = status, !.now = clock]
           r == [q EXCEPT !.at = "Complete", !.status = status]
<1>3. Begin(w, "OwnerLoad", c) /\ RunGoes(w, r)
  BY <1>1, <1>2 DEF OwnerStart
<1>4. r \in RunRecord /\ r.at = "Complete" /\ r.key = q.key /\ r.status = status
  BY DEF RunRecord
<1>5. c.op = "Complete" /\ c.key = q.key /\ c.now = clock /\ c.status = status
  BY DEF NoCall
<1> HIDE DEF c, r
<1>6. /\ pc'[w] = "OwnerLoad" /\ call'[w] = c /\ UNCHANGED <<storeVars, grants>>
  BY <1>0, <1>3 DEF Begin, ControlTypeOK
<1>7. RunTypeOK' /\ run'[w] = r /\ nils' = nils
  BY <1>0, <1>3, <1>4, RunGoesTo
<1>8. Alone(w)
  <2>1. \E g \in grants : g[1] = run[w].key /\ g[2] = run[w].fence
    BY <1>0 DEF RunInv, TokenInv, Tokens
  <2>2. Start(w)
    BY <1>1, <2>1 DEF Start
  <2> QED
    BY <1>0, <1>3, <2>2, LedgerAlone DEF RunTypeOK, RunGoes
<1>9. Stage(run'[w], pc'[w], call'[w], clock)
  BY <1>0, <1>2, <1>4, <1>5, <1>6, <1>7 DEF Stage
<1>10. /\ Tokens(w, run'[w], pc'[w], ret'[w], grants)
       /\ ~Granted(run'[w], pc'[w], ret'[w]) /\ ~Finished(run'[w], pc'[w], ret'[w])
  BY <1>4, <1>6, <1>7 DEF Tokens, Granted, Finished
<1> QED
  BY <1>6, <1>7, <1>8, <1>9, <1>10, QuietRunStep

\* A Run that ends with an error.
LEMMA ErrorInv ==
  ASSUME IInv, RunInv, NEW w \in Workers, NEW err \in Errors \ {"nil"},
         RunEnds(w, err), UNCHANGED ledgerVars, pc[w] = "idle", run[w].at # "none"
  PROVE  RunInv'
<1>0. /\ RunTypeOK /\ ControlTypeOK /\ run[w].key \in Keys
  BY DEF RunInv, IInv, TypeOK, ControlTypeOK, RunTypeOK, StageInv, Stage
<1>1. RunTypeOK' /\ run'[w] = NoRun
  BY <1>0, RunEndsAt
<1>2. Alone(w)
  BY <1>0, LedgerAlone DEF RunTypeOK, RunEnds
<1>3. UNCHANGED <<storeVars, grants, nils, pc, call, ret>>
  BY DEF ledgerVars, storeVars, RunEnds
<1>4. Stage(run'[w], pc'[w], call'[w], clock)
  BY <1>1, <1>3 DEF Stage, NoRun
<1>5. /\ Tokens(w, run'[w], pc'[w], ret'[w], grants)
      /\ ~Granted(run'[w], pc'[w], ret'[w]) /\ ~Finished(run'[w], pc'[w], ret'[w])
  BY <1>1 DEF Tokens, Granted, Finished, NoRun
<1> QED
  BY <1>1, <1>2, <1>3, <1>4, <1>5, QuietRunStep

\* A Run that returns nil hands its claim to the task over to the count.
LEMMA NilReturnInv ==
  ASSUME IInv, RunInv, NEW w \in Workers, RunEnds(w, "nil"), UNCHANGED ledgerVars,
         Finished(run[w], pc[w], ret[w])
  PROVE  RunInv'
<1>0. /\ RunTypeOK /\ ControlTypeOK /\ StoreTypeOK /\ run[w].key \in Keys
  BY DEF RunInv, IInv, TypeOK, ControlTypeOK, RunTypeOK, StageInv, Stage, Finished
<1>1. RunTypeOK' /\ run'[w] = NoRun
  BY <1>0, RunEndsAt DEF Errors
<1>2. Alone(w)
  BY <1>0, LedgerAlone DEF RunTypeOK, RunEnds
<1>3. /\ UNCHANGED <<storeVars, grants, pc, call, ret>> /\ tasks' = tasks
      /\ clock' = clock /\ StoreTypeOK' /\ clock \in Nat
  BY <1>0 DEF ledgerVars, storeVars, StoreTypeOK
<1>4. /\ Stage(run'[w], pc'[w], call'[w], clock')
      /\ Tokens(w, run'[w], pc'[w], ret'[w], grants')
      /\ ~Granted(run'[w], pc'[w], ret'[w]) /\ ~Finished(run'[w], pc'[w], ret'[w])
  BY <1>1, <1>3 DEF Stage, Tokens, Granted, Finished, NoRun
<1>5. LeaseInv'
  <2>1. \A v \in Workers : Granted(run'[v], pc'[v], ret'[v]) =>
          /\ Granted(run[v], pc[v], ret[v]) /\ run'[v].key = run[v].key
          /\ run'[v].seq = run[v].seq /\ run'[v].until = run[v].until
    BY <1>2, <1>4 DEF Alone
  <2> QED
    BY <1>0, <1>1, <1>3, <2>1, LeasesKept DEF Succeeds, RunTypeOK
<1>6. NilInv'
  <2> SUFFICES ASSUME ~Evicting PROVE NilInv'
    BY DEF NilInv
  <2>1. PICK x \in Keys : x = run[w].key
    BY <1>0
  <2>2. /\ Completed(tasks[x]) /\ nils[x] = 0
        /\ \A v \in Workers \ {w} : Finished(run[v], pc[v], ret[v]) => run[v].key # x
    BY <2>1 DEF RunInv, NilInv
  <2>3. nils'[x] = 1 /\ \A k \in Keys \ {x} : nils'[k] = nils[k]
    BY <1>0, <2>1, <2>2 DEF RunEnds, RunTypeOK
  <2>4. \A k \in Keys : nils'[k] <= 1 /\ (nils'[k] = 1 => Completed(tasks'[k]))
    BY <1>3, <2>2, <2>3 DEF RunInv, NilInv
  <2>5. ASSUME NEW v \in Workers, Finished(run'[v], pc'[v], ret'[v])
        PROVE  /\ Completed(tasks'[run'[v].key]) /\ nils'[run'[v].key] = 0
               /\ \A u \in Workers \ {v} :
                    Finished(run'[u], pc'[u], ret'[u]) => run'[u].key # run'[v].key
    <3>1. v # w
      BY <1>4, <2>5
    <3>2. /\ Finished(run[v], pc[v], ret[v]) /\ run'[v] = run[v]
      BY <1>2, <2>5, <3>1 DEF Alone
    <3>3. run[v].key # x /\ run[v].key \in Keys
      BY <2>2, <3>1, <3>2 DEF RunInv, StageInv, Stage, Finished
    <3>4. /\ Completed(tasks[run[v].key]) /\ nils[run[v].key] = 0
          /\ \A u \in Workers \ {v} :
               Finished(run[u], pc[u], ret[u]) => run[u].key # run[v].key
      BY <3>2 DEF RunInv, NilInv
    <3>5. ASSUME NEW u \in Workers \ {v}, Finished(run'[u], pc'[u], ret'[u])
          PROVE  run'[u].key # run'[v].key
      BY <1>2, <1>4, <3>2, <3>4, <3>5 DEF Alone
    <3> QED
      BY <1>3, <2>3, <3>2, <3>3, <3>4, <3>5
  <2> QED
    BY <2>4, <2>5 DEF NilInv
<1>7. clock' >= clock /\ grants' = grants
  BY <1>3
<1> QED
  BY <1>1, <1>2, <1>3, <1>4, <1>5, <1>6, <1>7, RunInvStep

\* Every way a Run ends.
LEMMA EndsInv ==
  ASSUME IInv, RunInv, NEW w \in Workers,
         AdmitFails(w) \/ StateEnds(w) \/ ClaimFails(w) \/ RunReturns(w)
  PROVE  RunInv'
<1>0. /\ UNCHANGED ledgerVars /\ pc[w] = "idle" /\ run[w].at # "none"
      /\ ret[w] \in Results /\ run[w] \in RunRecord
  BY DEF AdmitFails, StateEnds, ClaimFails, RunReturns, Between, RunInv, RunTypeOK,
     IInv, TypeOK
<1>1. Results \subseteq Errors \ {"nil"}
  BY DEF Results, Errors
<1>2. CASE AdmitFails(w) \/ ClaimFails(w)
  <2>1. RunEnds(w, ret[w])
    BY <1>2 DEF AdmitFails, ClaimFails
  <2> QED
    BY <1>0, <1>1, <2>1, ErrorInv
<1>3. CASE StateEnds(w)
  <2>1. PICK err \in StateErrors(tasks[run[w].key]) : RunEnds(w, err)
    BY <1>3 DEF StateEnds
  <2>2. err \in Errors \ {"nil"}
    BY DEF StateErrors, TaskError, IsTerminal, Terminal, Errors, Results
  <2> QED
    BY <1>0, <2>1, <2>2, ErrorInv
<1>4. CASE RunReturns(w)
  <2>1. run[w].at = "Complete" /\ run[w].status \in {"completed", "failed"}
    BY <1>0, <1>4 DEF RunReturns, Between, RunRecord
  <2>2. CASE run[w].status = "failed"
    <3>1. RunEnds(w, "workErr")
      BY <1>4, <2>2 DEF RunReturns
    <3> QED
      BY <1>0, <3>1, ErrorInv DEF Errors
  <2>3. CASE run[w].status = "completed" /\ ret[w] = "ok"
    <3>1. RunEnds(w, "nil")
      BY <1>4, <2>3 DEF RunReturns
    <3> QED
      BY <1>0, <2>1, <2>3, <3>1, NilReturnInv DEF Finished
  <2>4. CASE run[w].status = "completed" /\ ret[w] # "ok"
    <3>1. RunEnds(w, ret[w])
      BY <1>4, <2>4 DEF RunReturns
    <3> QED
      BY <1>0, <1>1, <3>1, ErrorInv
  <2> QED
    BY <2>1, <2>2, <2>3, <2>4
<1> QED
  BY <1>2, <1>3, <1>4

-----------------------------------------------------------------------------
(* A store call inside a Run.                                              *)

\* The stage of a Run whose call goes on or returns.
LEMMA CallStage ==
  ASSUME IInv, RunInv, NEW w \in Workers, Step(w) \/ Abort(w),
         NEW r \in RunRecord, r.at = run[w].at, r.key = run[w].key,
         r.status = run[w].status
  PROVE  Stage(r, pc'[w], call'[w], clock)
<1>0. /\ Pre /\ run[w] \in RunRecord /\ Stage(run[w], pc[w], call[w], clock)
      /\ call[w] \in Call /\ CallInv(pc[w], call[w]) /\ pc[w] \in Labels
      /\ ControlTypeOK
  BY DEF IInv, TypeOK, Pre, ControlInv, ControlTypeOK, RunInv, RunTypeOK, StageInv
<1>1. pc[w] # "idle"
  BY <1>0 DEF Abort, Step, AdmitLoad, AdmitNeeds, AdmitCAS, RecheckNeeds, RecheckLoad,
     ClaimLoad, Walk, ClaimCAS, OwnerLoad, OwnerCAS, BlockDependents, BlockCAS, BlockLoad
<1>2. CASE pc'[w] = "idle"
  BY <1>0, <1>2 DEF Stage
<1>3. CASE pc'[w] # "idle"
  <2>1. ~Abort(w)
    BY <1>0, <1>3, ReturnMoves DEF Abort
  <2>2. GoesOn(pc[w], call[w], pc'[w], call'[w])
    BY <1>0, <1>3, <2>1, StepGoesOn
  <2>3. PICK p \in Labels, c \in Call, q \in RunRecord :
          p = pc[w] /\ c = call[w] /\ q = run[w]
    BY <1>0
  <2>4. /\ Stage(q, p, c, clock) /\ GoesOn(p, c, pc'[w], call'[w])
        /\ r.at = q.at /\ r.key = q.key /\ r.status = q.status /\ p # "idle"
    BY <1>0, <1>1, <2>2, <2>3
  <2>5. /\ r.at # "none" => r.key \in Keys
        /\ r.at \notin {"none", "work"}
        /\ call'[w].key = r.key /\ call'[w].now <= clock
        /\ r.at = "Admit" => call'[w].op = "Admit"
        /\ r.at = "Claim" => call'[w].op = "Claim"
        /\ r.at = "Complete" => call'[w].op = "Complete" /\ call'[w].status = r.status
    BY <2>4 DEF Stage, GoesOn, SameArgs
  <2>6. r.at = "Complete" /\ pc'[w] \notin {"OwnerLoad", "OwnerCAS"} =>
          call'[w].status = "failed"
    BY <2>4 DEF Stage, GoesOn, SameArgs
  <2>7. pc'[w] = "Walk" => ClaimVerdict(call'[w].op, call'[w].cur, call'[w].now) = "ok"
    BY <2>4 DEF Stage, GoesOn, SameArgs
  <2> QED
    BY <2>5, <2>6, <2>7 DEF Stage
<1> QED
  BY <1>2, <1>3

\* The records after a store call of w.
LEMMA CallRecords ==
  ASSUME IInv, BlockInv, RunInv, NEW w \in Workers, Step(w) \/ Abort(w), ~Evicting,
         StoreStep
  PROVE  /\ \A k \in Keys : Found(k) => Succeeds(tasks[k], tasks'[k], clock)
         /\ \A k \in Keys : Completed(tasks[k]) => tasks'[k] = tasks[k]
<1>0. /\ Pre /\ StoreTypeOK /\ run[w] \in RunRecord
      /\ Stage(run[w], pc[w], call[w], clock) /\ Holds(pc[w], call[w], tasks)
  BY DEF IInv, TypeOK, Pre, ControlInv, ControlTypeOK, RunInv, RunTypeOK, StageInv,
     BlockInv
<1>1. \A k \in Keys : Completed(tasks[k]) => tasks'[k] = tasks[k]
  BY <1>0, DoneStays DEF Completed, Found, IsTerminal, Terminal
<1>2. CASE Step(w)
  BY <1>0, <1>1, <1>2, RecordStep
<1>3. CASE Abort(w)
  BY <1>1, <1>3 DEF Abort, storeVars, Succeeds
<1> QED
  BY <1>2, <1>3

\* The swap of Claim lands: nobody else has the submission under lease, and
\* from now on w has.
LEMMA GrantInv ==
  ASSUME IInv, BlockInv, RunInv, NEW w \in Workers, LedgerStep(w), grants' # grants,
         StoreStep, StoreTypeOK'
  PROVE  RunInv'
<1>0. /\ Pre /\ StoreTypeOK /\ run[w] \in RunRecord /\ clock \in Nat
      /\ Stage(run[w], pc[w], call[w], clock) /\ RunTypeOK /\ ControlTypeOK
      /\ call[w] \in Call /\ CallInv(pc[w], call[w]) /\ FenceInv
      /\ ~Evicting => Holds(pc[w], call[w], tasks)
      /\ Step(w) \/ Abort(w)
      /\ grants \subseteq Keys \X Nat \X Workers
  BY DEF IInv, TypeOK, Pre, ControlInv, ControlTypeOK, RunInv, RunTypeOK, StageInv,
     BlockInv, StoreTypeOK, LedgerStep
<1>1. pc[w] = "Walk" /\ pc'[w] = "idle" /\ ret'[w] = "ok"
  BY <1>0, GrantReturns
<1>2. PICK c \in Call, q \in RunRecord : c = call[w] /\ q = run[w]
  BY <1>0
<1>3. /\ Matches(c.key, c.cur) /\ Write(c.key, Claimed(w, c))
      /\ grants' = grants \cup {<<c.key, c.cur.fence + 1, w>>}
  BY <1>0, <1>1, <1>2, StepReturns DEF Blocking
<1>4. /\ c.key \in Keys /\ c.op \in ClaimOps /\ IsLive(c.cur) /\ c.cur \in TaskState
      /\ c.key = q.key /\ c.now <= clock /\ ClaimVerdict(c.op, c.cur, c.now) = "ok"
  BY <1>0, <1>1, <1>2 DEF CallInv, Stage, Call, MaybeTask, IsLive
<1>5. q.at = "Claim"
  BY <1>0, <1>1, <1>2, <1>4 DEF Stage, RunRecord, ClaimOps
<1>6. PICK u \in Nat, n \in Nat : u = c.now + c.lease /\ n = c.cur.seq
  BY <1>4 DEF Call, TaskState
<1> DEFINE r == [q EXCEPT !.until = u, !.seq = n]
<1>7. RunGoes(w, r)
  BY <1>2, <1>6 DEF LedgerStep
<1>8. /\ r \in RunRecord /\ r.at = "Claim" /\ r.key = q.key /\ r.status = q.status
      /\ r.until = u /\ r.seq = n
  BY <1>5 DEF RunRecord
<1> HIDE DEF r
<1>9. RunTypeOK' /\ run'[w] = r /\ nils' = nils
  BY <1>0, <1>7, <1>8, RunGoesTo
<1>10. Alone(w)
  BY <1>0, <1>7, LedgerAlone DEF RunTypeOK, RunGoes
<1>11. /\ Claimed(w, c) \in TaskState /\ Claimed(w, c).status = "claimed"
       /\ Claimed(w, c).seq = n /\ Claimed(w, c).leaseUntil = u
  <2>1. c.cur.fence + 1 \in Nat
    BY <1>4 DEF TaskState
  <2> QED
    BY <1>4, <1>6, <2>1 DEF Claimed, TaskState, Status, Workers
<1>12. /\ clock' = clock /\ tasks'[c.key] # NoTask /\ tasks'[c.key].status = "claimed"
       /\ tasks'[c.key].seq = n /\ tasks'[c.key].leaseUntil = u
  BY <1>0, <1>3, <1>4, <1>11, WriteEffect, StoredFields
<1>13. Stage(run'[w], pc'[w], call'[w], clock')
  BY <1>0, <1>2, <1>5, <1>8, <1>9, <1>12, CallStage
<1>14. Tokens(w, run'[w], pc'[w], ret'[w], grants')
  <2> DEFINE g == <<c.key, c.cur.fence + 1, w>>
  <2>1. tasks[c.key] # NoTask /\ tasks[c.key].fence = c.cur.fence /\ c.cur.fence \in Nat
    BY <1>3, <1>4 DEF Matches, Found, IsLive, TaskState
  <2>2. ASSUME NEW h \in grants', h[1] = c.key
        PROVE  h[2] <= c.cur.fence + 1
    <3>1. CASE h \in grants
      <4>1. h[2] <= c.cur.fence /\ h[2] \in Nat
        BY <1>0, <2>1, <2>2, <3>1 DEF FenceInv, Found
      <4> QED
        BY <2>1, <4>1
    <3>2. CASE h = g
      BY <2>1, <3>2
    <3> QED
      BY <1>3, <3>1, <3>2
  <2>3. g \in grants' /\ g[1] = c.key /\ g[2] = c.cur.fence + 1 /\ g[3] = w
    BY <1>3
  <2>4. \E x \in grants' : /\ x[1] = r.key /\ x[3] = w
                           /\ \A h \in grants' : h[1] = r.key /\ h[3] = w => h[2] <= x[2]
    BY <1>4, <1>8, <2>2, <2>3
  <2> QED
    BY <1>8, <1>9, <2>4 DEF Tokens
<1>15. LeaseInv'
  <2> SUFFICES ASSUME ~Evicting PROVE LeaseInv'
    BY DEF LeaseInv
  <2>1. \A k \in Keys : Found(k) => Succeeds(tasks[k], tasks'[k], clock)
    BY <1>0, CallRecords
  <2>2. /\ c.cur = tasks[c.key]
        /\ \/ c.cur.status = "pending"
           \/ c.cur.status = "claimed" /\ c.cur.leaseUntil <= clock
    BY <1>0, <1>1, <1>2, <1>3, <1>4, MatchesSame, NotUnderLease DEF Holds, IsLive
  <2>3. Leased(run'[w], tasks'[run'[w].key], clock')
    BY <1>4, <1>8, <1>9, <1>12 DEF Leased
  <2>4. ASSUME NEW v \in Workers \ {w}, Granted(run'[v], pc'[v], ret'[v])
        PROVE  /\ Leased(run'[v], tasks'[run'[v].key], clock')
               /\ run'[v].key = run'[w].key /\ run'[v].seq = run'[w].seq =>
                    clock' >= run'[v].until
    <3>1. PICK o \in RunRecord : o = run[v]
      BY <1>0 DEF RunTypeOK
    <3>2. /\ Granted(o, pc[v], ret[v]) /\ run'[v] = o
      BY <1>10, <2>4, <3>1 DEF Alone
    <3>3. Leased(o, tasks[o.key], clock) /\ o.key \in Keys
      BY <3>1, <3>2 DEF RunInv, LeaseInv, StageInv, Stage, Granted
    <3>4. tasks[o.key] \in TaskState /\ tasks'[o.key] \in TaskState \cup {NoTask}
      BY <1>0, <3>3 DEF Leased, StoreTypeOK
    <3>5. Leased(o, tasks'[o.key], clock')
      BY <1>0, <1>12, <2>1, <3>3, <3>4, LeasedStays DEF Leased, Found
    <3>6. ASSUME o.key = c.key, o.seq = n
          PROVE  clock >= o.until
      <4>1. Leased(o, c.cur, clock) /\ c.cur.seq = o.seq
        BY <1>6, <2>2, <3>3, <3>6
      <4>2. ~IsTerminal(c.cur)
        BY <1>4 DEF IsLive
      <4>3. o.until \in Nat
        BY DEF RunRecord
      <4> QED
        BY <1>0, <2>2, <4>1, <4>2, <4>3 DEF Leased
    <3> QED
      BY <1>4, <1>8, <1>9, <1>12, <3>2, <3>5, <3>6
  <2>5. ASSUME NEW v \in Workers \ {w}, NEW o \in Workers \ {w}, v # o,
               run'[v].key = run'[o].key, run'[v].seq = run'[o].seq,
               Granted(run'[v], pc'[v], ret'[v]), Granted(run'[o], pc'[o], ret'[o])
        PROVE  clock' >= run'[v].until \/ clock' >= run'[o].until
    <3>1. /\ run[v].key = run[o].key /\ run[v].seq = run[o].seq
          /\ Granted(run[v], pc[v], ret[v]) /\ Granted(run[o], pc[o], ret[o])
      BY <1>10, <2>5 DEF Alone
    <3>2. clock >= run[v].until \/ clock >= run[o].until
      BY <2>5, <3>1 DEF RunInv, LeaseInv
    <3> QED
      BY <1>10, <1>12, <3>2 DEF Alone
  <2> QED
    BY <2>3, <2>4, <2>5 DEF LeaseInv
<1>16. NilInv'
  <2>1. \A v \in Workers : Finished(run'[v], pc'[v], ret'[v]) =>
          Finished(run[v], pc[v], ret[v]) /\ run'[v].key = run[v].key
    BY <1>8, <1>9, <1>10 DEF Alone, Finished
  <2>2. ~Evicting => \A k \in Keys : Completed(tasks[k]) => tasks'[k] = tasks[k]
    BY <1>0, CallRecords
  <2> QED
    BY <1>9, <2>1, <2>2, NilsKept
<1>17. /\ clock' >= clock /\ clock' \in Nat /\ grants \subseteq grants'
       /\ \A g \in grants' \ grants : g[3] = w
  BY <1>0, <1>3, <1>12
<1> QED
  BY <1>9, <1>10, <1>13, <1>14, <1>15, <1>16, <1>17, RunInvStep

\* A call that returns ok without a grant is a Complete.
LEMMA OkReturn ==
  ASSUME IInv, NEW w \in Workers, Step(w) \/ Abort(w), grants' = grants,
         pc'[w] = "idle", ret'[w] = "ok"
  PROVE  \/ /\ pc[w] = "OwnerCAS" /\ Matches(call[w].key, call[w].cur)
            /\ Write(call[w].key, OwnerWrites(call[w]))
         \/ /\ pc[w] \in {"Range"} \cup Blocking
            /\ call[w].op \notin {"Admit"} \cup ClaimOps
<1>0. Pre /\ call[w] \in Call /\ CallInv(pc[w], call[w]) /\ FenceInv
  BY DEF IInv, TypeOK, Pre, ControlInv, ControlTypeOK
<1>1. PICK c \in Call : c = call[w]
  BY <1>0
<1>2. ASSUME pc[w] = "Walk", Matches(c.key, c.cur),
             grants' = grants \cup {<<c.key, c.cur.fence + 1, w>>}
      PROVE  FALSE
  <2>1. <<c.key, c.cur.fence + 1, w>> \in grants
    BY <1>2
  <2>2. c.key \in Keys /\ IsLive(c.cur) /\ c.cur \in TaskState
    BY <1>0, <1>1, <1>2 DEF CallInv, Call, MaybeTask, IsLive
  <2>3. tasks[c.key] # NoTask /\ tasks[c.key].fence = c.cur.fence /\ c.cur.fence \in Nat
    BY <1>2, <2>2 DEF Matches, Found, IsLive, TaskState
  <2>4. c.cur.fence + 1 <= c.cur.fence
    BY <1>0, <2>1, <2>3 DEF FenceInv, Found
  <2> QED
    BY <2>3, <2>4
<1> QED
  BY <1>0, <1>1, <1>2, StepReturns

\* Any other store call.
LEMMA NoGrantInv ==
  ASSUME IInv, BlockInv, RunInv, NEW w \in Workers, LedgerStep(w), grants' = grants,
         StoreStep, StoreTypeOK'
  PROVE  RunInv'
<1>0. /\ Pre /\ StoreTypeOK /\ run[w] \in RunRecord /\ clock \in Nat
      /\ Stage(run[w], pc[w], call[w], clock) /\ RunTypeOK /\ ControlTypeOK
      /\ call[w] \in Call /\ CallInv(pc[w], call[w]) /\ FenceInv
      /\ Step(w) \/ Abort(w)
      /\ UNCHANGED <<run, runs, error, nils>>
      /\ grants \subseteq Keys \X Nat \X Workers
  BY DEF IInv, TypeOK, Pre, ControlInv, ControlTypeOK, RunInv, RunTypeOK, StageInv,
     StoreTypeOK, LedgerStep
<1>1. PICK c \in Call, q \in RunRecord, p \in Labels : c = call[w] /\ q = run[w] /\ p = pc[w]
  BY <1>0 DEF ControlTypeOK
<1>2. /\ CallInv(p, c) /\ Stage(q, p, c, clock) /\ p # "idle" /\ run'[w] = q
      /\ c.key \in Keys
  <2>1. pc[w] # "idle"
    BY <1>0 DEF Abort, Step, AdmitLoad, AdmitNeeds, AdmitCAS, RecheckNeeds, RecheckLoad,
       ClaimLoad, Walk, ClaimCAS, OwnerLoad, OwnerCAS, BlockDependents, BlockCAS, BlockLoad
  <2> QED
    BY <1>0, <1>1, <2>1 DEF CallInv
<1>3. Alone(w)
  BY <1>0, LedgerAlone DEF RunTypeOK
<1>4. clock' = clock
  BY <1>0 DEF Step, Abort, AdmitLoad, AdmitNeeds, AdmitCAS, RecheckNeeds, RecheckLoad,
     ClaimLoad, Walk, ClaimCAS, OwnerLoad, OwnerCAS, BlockDependents, BlockCAS, BlockLoad,
     storeVars, Write
<1>5. Stage(run'[w], pc'[w], call'[w], clock')
  BY <1>0, <1>1, <1>2, <1>4, CallStage
<1>6. ASSUME pc'[w] = "idle", ret'[w] = "ok"
      PROVE  \/ /\ p = "OwnerCAS" /\ Matches(c.key, c.cur)
                /\ Write(c.key, OwnerWrites(c))
             \/ p \in {"Range"} \cup Blocking /\ c.op \notin {"Admit"} \cup ClaimOps
  BY <1>0, <1>1, <1>6, OkReturn
<1>7. ~Granted(run'[w], pc'[w], ret'[w])
  <2>1. q.at # "work"
    BY <1>2 DEF Stage
  <2>2. ASSUME q.at = "Claim", pc'[w] = "idle", ret'[w] = "ok"
        PROVE  FALSE
    BY <1>2, <1>6, <2>2 DEF Stage, CallInv, OwnerOps, ClaimOps
  <2> QED
    BY <1>2, <2>1, <2>2 DEF Granted
<1>8. Tokens(w, run'[w], pc'[w], ret'[w], grants')
  BY <1>7 DEF Tokens, Granted
<1>9. ~Evicting => /\ \A k \in Keys : Found(k) => Succeeds(tasks[k], tasks'[k], clock)
                   /\ \A k \in Keys : Completed(tasks[k]) => tasks'[k] = tasks[k]
  BY <1>0, CallRecords
<1>10. LeaseInv'
  <2>1. \A v \in Workers : Granted(run'[v], pc'[v], ret'[v]) =>
          /\ Granted(run[v], pc[v], ret[v]) /\ run'[v].key = run[v].key
          /\ run'[v].seq = run[v].seq /\ run'[v].until = run[v].until
    BY <1>3, <1>7 DEF Alone
  <2>2. clock' \in Nat /\ clock' >= clock
    BY <1>0, <1>4
  <2> QED
    BY <1>0, <1>9, <2>1, <2>2, LeasesKept DEF RunTypeOK
<1>11. NilInv'
  <2>1. CASE ~Finished(run'[w], pc'[w], ret'[w])
    <3>1. \A v \in Workers : Finished(run'[v], pc'[v], ret'[v]) =>
            Finished(run[v], pc[v], ret[v]) /\ run'[v].key = run[v].key
      BY <1>3, <2>1 DEF Alone
    <3> QED
      BY <1>0, <1>9, <3>1, NilsKept
  <2>2. CASE Finished(run'[w], pc'[w], ret'[w]) /\ ~Evicting
    <3>1. q.at = "Complete" /\ q.status = "completed" /\ pc'[w] = "idle" /\ ret'[w] = "ok"
      BY <1>2, <2>2 DEF Finished
    <3>2. c.op = "Complete" /\ c.status = "completed" /\ p = "OwnerCAS" /\ c.key = q.key
      BY <1>2, <1>6, <3>1 DEF Stage, Blocking
    <3>3. Matches(c.key, c.cur) /\ Write(c.key, OwnerWrites(c))
      BY <1>6, <3>1, <3>2 DEF Blocking
    <3>4. c.cur # NoTask /\ c.cur \in TaskState /\ c.cur.status = "claimed"
      BY <1>2, <3>2 DEF CallInv, Call, MaybeTask
    <3>5. ~Completed(tasks[c.key])
      BY <3>3, <3>4 DEF Matches, Completed
    <3>6. OwnerWrites(c) \in TaskState /\ OwnerWrites(c).status = "completed"
      BY <3>2, <3>4 DEF OwnerWrites, TaskState, Status, Terminal
    <3>7. Completed(tasks'[c.key])
      BY <1>0, <1>2, <2>2, <3>3, <3>6, WriteKeeps DEF Completed
    <3>8. nils[c.key] = 0
      BY <1>0, <1>2, <2>2, <3>5 DEF RunInv, NilInv, RunTypeOK
    <3>9. \A v \in Workers \ {w} : Finished(run'[v], pc'[v], ret'[v]) =>
            Finished(run[v], pc[v], ret[v]) /\ run'[v] = run[v] /\ run[v].key \in Keys
      BY <1>3 DEF Alone, RunInv, StageInv, Stage, Finished
    <3>10. \A v \in Workers \ {w} : Finished(run[v], pc[v], ret[v]) => run[v].key # c.key
      BY <2>2, <3>5 DEF RunInv, NilInv
    <3>11. \A k \in Keys : nils'[k] <= 1 /\ (nils'[k] = 1 => Completed(tasks'[k]))
      BY <1>0, <1>9, <2>2 DEF RunInv, NilInv
    <3>12. ASSUME NEW v \in Workers \ {w}, Finished(run'[v], pc'[v], ret'[v])
           PROVE  /\ Completed(tasks'[run'[v].key]) /\ nils'[run'[v].key] = 0
                  /\ \A o \in Workers \ {v} :
                       Finished(run'[o], pc'[o], ret'[o]) => run'[o].key # run'[v].key
      <4>1. Finished(run[v], pc[v], ret[v]) /\ run'[v] = run[v] /\ run[v].key \in Keys
        BY <3>9, <3>12
      <4>2. /\ Completed(tasks[run[v].key]) /\ nils[run[v].key] = 0
            /\ \A o \in Workers \ {v} :
                 Finished(run[o], pc[o], ret[o]) => run[o].key # run[v].key
        BY <2>2, <4>1 DEF RunInv, NilInv
      <4>3. Completed(tasks'[run[v].key])
        BY <1>9, <2>2, <4>1, <4>2
      <4>4. run'[w].key # run[v].key
        BY <1>2, <3>2, <3>10, <4>1
      <4>5. \A o \in Workers \ {v} :
              Finished(run'[o], pc'[o], ret'[o]) => run'[o].key # run[v].key
        BY <3>9, <4>2, <4>4
      <4> QED
        BY <1>0, <4>1, <4>2, <4>3, <4>5
    <3>13. /\ Completed(tasks'[run'[w].key]) /\ nils'[run'[w].key] = 0
           /\ \A o \in Workers \ {w} :
                Finished(run'[o], pc'[o], ret'[o]) => run'[o].key # run'[w].key
      BY <1>0, <1>2, <3>2, <3>7, <3>8, <3>9, <3>10
    <3> QED
      BY <3>11, <3>12, <3>13 DEF NilInv
  <2> QED
    BY <2>1, <2>2 DEF NilInv
<1>12. RunTypeOK' /\ clock' \in Nat /\ clock' >= clock
  BY <1>0, <1>4 DEF RunTypeOK
<1> QED
  BY <1>3, <1>5, <1>8, <1>10, <1>11, <1>12, RunInvStep

-----------------------------------------------------------------------------
(* The invariant of Run is inductive.                                      *)

\* The invariant holds before any run.
LEMMA RunInitial == RunInit => RunIInv
<1> SUFFICES ASSUME RunInit PROVE RunIInv
  OBVIOUS
<1>1. IInv /\ BlockInv
  BY InitIInv, InitBlockInv DEF RunInit
<1>2. RunTypeOK
  BY NoRunType DEF RunInit, RunTypeOK, Errors, Results
<1>3. /\ \A w \in Workers : run[w] = NoRun /\ pc[w] = "idle"
      /\ \A k \in Keys : nils[k] = 0
  BY DEF RunInit, Init
<1>4. StageInv /\ TokenInv
  BY <1>3 DEF StageInv, TokenInv, Stage, Tokens, NoRun
<1>5. LeaseInv /\ NilInv
  BY <1>3 DEF LeaseInv, NilInv, Granted, Finished, NoRun
<1> QED
  BY <1>1, <1>2, <1>4, <1>5 DEF RunIInv, RunInv

\* Time passes.
LEMMA TickRunInv ==
  ASSUME IInv, RunInv, Passing, UNCHANGED <<run, runs, error, nils>>
  PROVE  RunInv'
<1>0. /\ clock' = clock + 1 /\ clock \in Nat /\ clock' \in Nat /\ tasks' = tasks
      /\ UNCHANGED <<pc, call, ret, grants, run, error, nils>> /\ StoreTypeOK
      /\ StoreTypeOK' /\ RunTypeOK /\ clock' >= clock
  BY DEF Passing, Tick, IInv, TypeOK, StoreTypeOK, RunInv
<1>1. RunTypeOK'
  BY <1>0 DEF RunTypeOK
<1>2. ASSUME NEW w \in Workers
      PROVE  /\ Stage(run'[w], pc'[w], call'[w], clock')
             /\ Tokens(w, run'[w], pc'[w], ret'[w], grants')
  <2>1. Stage(run[w], pc[w], call[w], clock) /\ call[w].now \in Nat
    BY DEF RunInv, StageInv, IInv, TypeOK, Call
  <2>2. call[w].now <= clock => call[w].now <= clock'
    BY <1>0, <2>1
  <2>3. Stage(run[w], pc[w], call[w], clock')
    BY <2>1, <2>2 DEF Stage
  <2>4. Tokens(w, run[w], pc[w], ret[w], grants)
    BY DEF RunInv, TokenInv
  <2> QED
    BY <1>0, <2>3, <2>4
<1>3. LeaseInv'
  BY <1>0, LeasesKept DEF Succeeds, RunTypeOK
<1>4. NilInv'
  BY <1>0, NilsKept
<1> QED
  BY <1>1, <1>2, <1>3, <1>4 DEF RunInv, StageInv, TokenInv

\* Every step of ledger.Run keeps it, one lemma per step above.
LEMMA RunStep == RunIInv /\ [RunNext]_runVars => RunIInv'
<1> SUFFICES ASSUME RunIInv, [RunNext]_runVars PROVE RunIInv'
  OBVIOUS
<1>0. IInv /\ BlockInv /\ RunInv
  BY DEF RunIInv
<1>1. [Next]_ledgerVars
  BY <1>0, RunIsLedgerStep
<1>2. IInv' /\ BlockInv'
  BY <1>0, <1>1, NextIInv, NextBlockInv
<1>3. StoreStep /\ StoreTypeOK'
  BY <1>0, <1>1, <1>2, StepEffect DEF IInv, TypeOK, Pre, ControlInv, ControlTypeOK
<1>4. CASE UNCHANGED runVars
  <2>1. RunInv'
    BY <1>0, <1>4 DEF runVars, ledgerVars, RunInv, RunTypeOK, StageInv, TokenInv, LeaseInv,
       NilInv
  <2> QED
    BY <1>2, <2>1 DEF RunIInv
<1>5. CASE Passing /\ UNCHANGED <<run, runs, error, nils>>
  BY <1>0, <1>2, <1>5, TickRunInv DEF RunIInv
<1>6. ASSUME NEW w \in Workers, NEW k \in Keys, NEW s \in 1..MaxSeq,
             NEW needs \in NeedsOf[k], RunStart(w, k, s, needs)
      PROVE  RunInv'
  BY <1>0, <1>6, RunStartInv
<1>7. ASSUME NEW w \in Workers, Proceed(w)
      PROVE  RunInv'
  BY <1>0, <1>3, <1>7, GrantInv, NoGrantInv, EndsInv, StateOpenInv, WorkBeginsInv,
     WorkEndsInv
  DEF Proceed
<1> QED
  BY <1>2, <1>4, <1>5, <1>6, <1>7 DEF RunNext, RunIInv

\* The ledger's invariant and that of ledger.Run hold in every reachable
\* state of workers that run tasks.
THEOREM RunInvariance == RunSpec => []RunIInv
  BY RunInitial, RunStep, PTL DEF RunSpec

\* ledger.Run takes only steps of the ledger: every call it makes is one a
\* caller with a granted token may make, so the ledger's theorems hold of it.
THEOREM RunUsesLedger == RunSpec => Spec
<1>1. RunInit => Init
  BY DEF RunInit
<1>2. RunIInv /\ [RunNext]_runVars => [Next]_ledgerVars
  BY RunIsLedgerStep DEF RunIInv
<1> QED
  BY <1>1, <1>2, RunInvariance, PTL DEF RunSpec, Spec

\* In a store that keeps its records, two Runs work on one submission at the
\* same time only when the lease of one has run out, for any number of
\* workers, keys and leases.
THEOREM WorkIsExclusive == RunSpec => []ExclusiveWork
<1>1. RunIInv => ExclusiveWork
  <2> SUFFICES ASSUME RunIInv, ~Evicting, NEW w \in Workers, NEW v \in Workers, w # v,
                      UnderLease(w), UnderLease(v), run[w].key = run[v].key,
                      run[w].seq = run[v].seq
               PROVE  FALSE
    BY DEF ExclusiveWork
  <2>1. clock >= run[w].until \/ clock >= run[v].until
    BY DEF RunIInv, RunInv, LeaseInv, Granted, UnderLease
  <2>2. clock \in Nat /\ run[w].until \in Nat /\ run[v].until \in Nat
    BY DEF RunIInv, RunInv, RunTypeOK, RunRecord, IInv, TypeOK, StoreTypeOK
  <2> QED
    BY <2>1, <2>2 DEF UnderLease
<1> QED
  BY <1>1, RunInvariance, PTL

\* In a store that keeps its records, at most one Run of a key returns nil,
\* and the record then reads completed for good.
THEOREM OneSuccess == RunSpec => []OneRunSucceeds
<1>1. RunIInv => OneRunSucceeds
  <2> SUFFICES ASSUME RunIInv, ~Evicting, NEW k \in Keys, nils[k] > 0
               PROVE  nils[k] = 1 /\ Found(k) /\ tasks[k].status = "completed"
    BY DEF OneRunSucceeds
  <2>1. nils[k] \in Nat /\ nils[k] <= 1 /\ (nils[k] = 1 => Completed(tasks[k]))
    BY DEF RunIInv, RunInv, RunTypeOK, NilInv
  <2> QED
    BY <2>1 DEF Completed, Found
<1> QED
  BY <1>1, RunInvariance, PTL

-----------------------------------------------------------------------------
(* The dispatch endpoint.  A request is served line by line; the line that *)
(* is running has a Run under the key of its message.                      *)

KeyOf(m) == ReplayKey(Mail[m])

Answers == {"ack", "replay", "error"}

RequestRecord ==
  [on : {TRUE}, body : Seq(Messages), reply : Seq(Answers), running : BOOLEAN,
   gone : BOOLEAN, todo : Seq(Messages)]

DispatchTypeOK ==
  /\ request \in [Workers -> RequestRecord \cup {NoRequest}]
  /\ taken \subseteq Messages
  /\ handled \in [Messages -> Seq(BOOLEAN)]
  /\ acks \in [Messages -> Nat]
  /\ told \in [Messages -> SUBSET Answers]

Busy(q) == q.on /\ q.running

\* The tasks of the endpoint need nothing, so that none is ever blocked.
PlainCall(p, c) ==
  /\ p \notin {"RecheckLoad"} \cup Blocking
  /\ c.needs = <<>> /\ c.queue = <<>>
  /\ c.cur # NoTask => c.cur.needs = <<>>
  /\ p = "AdmitNeeds" => c.blocker = NoKey

PlainTask(t) == t # NoTask => t.needs = <<>> /\ t.status # "blocked"

PlainInv ==
  /\ \A k \in Keys : PlainTask(tasks[k])
  /\ \A w \in Workers : PlainCall(pc[w], call[w])

\* The Run of a worker is that of the line it serves.
Serving(q, r) ==
  /\ r.at # "none" => Busy(q)
  /\ Busy(q) => /\ q.todo # <<>> /\ VerifySignature(Mail[Head(q.todo)])
                /\ r.at # "none" => r.key = KeyOf(Head(q.todo))

\* What a Run has seen of a task that somebody claimed.
Known(q, r, p, res, err, T) ==
  Busy(q) =>
    /\ r.at = "Admit" /\ p = "idle" => res \in {"true", "false", "ErrInvalid", "fault"}
    /\ r.at = "Claim" /\ p = "idle" /\ res \in ReplaySentinels \cup {"ok"} =>
         Head(q.todo) \in T
    /\ r.at \in {"work", "Complete"} => Head(q.todo) \in T
    /\ r.at = "none" /\ err \in ReplaySentinels => Head(q.todo) \in T

\* The lines answered and the lines to come make up the body.
Replies(q, T) ==
  q.on =>
    /\ Len(q.reply) + Len(q.todo) <= Len(q.body)
    /\ \A i \in 1..Len(q.todo) : q.todo[i] = q.body[Len(q.reply) + i]
    /\ \A i \in 1..Len(q.reply) : q.reply[i] = "replay" => q.body[i] \in T

\* A task that is not pending was claimed for a message that has its key.
Claims(k, T) == \E m \in T : VerifySignature(Mail[m]) /\ KeyOf(m) = k

TakenInv ==
  \A k \in Keys : tasks[k] # NoTask /\ tasks[k].status # "pending" => Claims(k, taken)

LineInv ==
  \A w \in Workers :
    /\ Serving(request[w], run[w])
    /\ Known(request[w], run[w], pc[w], ret[w], error[w], taken)
    /\ Replies(request[w], taken)

\* A Run that has returned nil and whose line is not answered yet.
Unanswered(q, r, err) == Busy(q) /\ r.at = "none" /\ err = "nil"

\* Every nil of a Run is good for one ack.
AckInv ==
  ~Evicting =>
    /\ \A m \in Messages :
         acks[m] <= 1 /\ (acks[m] = 1 => nils[KeyOf(m)] = 1 /\ handled[m] # <<>>)
    /\ \A w \in Workers : Unanswered(request[w], run[w], error[w]) =>
         /\ nils[KeyOf(Line(w))] = 1 /\ handled[Line(w)] # <<>>
         /\ \A m \in Messages : acks[m] = 1 => KeyOf(m) # KeyOf(Line(w))
         /\ \A v \in Workers \ {w} :
              Unanswered(request[v], run[v], error[v]) => KeyOf(Line(v)) # KeyOf(Line(w))

DispatchInv ==
  /\ DispatchTypeOK /\ PlainInv /\ TakenInv /\ LineInv /\ ReplayIsTruthful /\ AckInv

DispatchIInv == RunIInv /\ DispatchInv

-----------------------------------------------------------------------------
(* Calls of the ledger for tasks that need nothing.                        *)

\* What such a call does: it stays plain, writes plain records, and tells of
\* a task that is not pending only when it has seen one.
PlainStep(w) ==
  /\ PlainCall(pc'[w], call'[w])
  /\ \A k \in Keys : PlainTask(tasks'[k])
  /\ \A k \in Keys : tasks'[k] # NoTask /\ tasks'[k].status # "pending" =>
       \/ tasks[k] # NoTask /\ tasks[k].status # "pending"
       \/ /\ pc[w] = "Walk" /\ k = call[w].key
          /\ pc'[w] = "idle" /\ ret'[w] = "ok"
  /\ pc'[w] = "idle" /\ call[w].op = "Admit" =>
       ret'[w] \in {"true", "false", "ErrInvalid", "fault"}
  /\ pc'[w] = "idle" /\ call[w].op = "Claim" /\ ret'[w] \in ReplaySentinels =>
       /\ tasks[call[w].key] # NoTask /\ tasks[call[w].key].status # "pending"

\* A call that returns without a write.
LEMMA PlainReturn ==
  ASSUME Pre, PlainInv, NEW w \in Workers, NEW result, Return(w, result), tasks' = tasks,
         call[w].op = "Admit" => result \in {"true", "false", "ErrInvalid", "fault"},
         call[w].op = "Claim" /\ result \in ReplaySentinels =>
           tasks[call[w].key] # NoTask /\ tasks[call[w].key].status # "pending"
  PROVE  PlainStep(w)
<1>1. pc'[w] = "idle" /\ call'[w] = NoCall /\ ret'[w] = result
  BY ReturnMoves DEF Pre, ControlInv, ControlTypeOK, Return
<1>2. PlainCall("idle", NoCall)
  BY DEF PlainCall, NoCall, Blocking
<1> QED
  BY <1>1, <1>2 DEF PlainStep, PlainInv

\* A call that goes on without a write.
LEMMA PlainGoto ==
  ASSUME Pre, PlainInv, NEW w \in Workers, NEW label \in Labels \ {"idle"}, NEW c,
         Goto(w, label, c), tasks' = tasks, PlainCall(label, c)
  PROVE  PlainStep(w)
<1>1. pc'[w] = label /\ call'[w] = c
  BY GotoMoves DEF Pre, ControlInv
<1> QED
  BY <1>1 DEF PlainStep, PlainInv

\* What a write does to plain records.
LEMMA PlainWrite ==
  ASSUME StoreTypeOK, PlainInv, NEW x \in Keys, NEW new \in TaskState, Write(x, new),
         PlainTask(new)
  PROVE  /\ \A k \in Keys : PlainTask(tasks'[k])
         /\ \A k \in Keys : tasks'[k] # NoTask /\ tasks'[k].status # "pending" =>
              \/ tasks[k] # NoTask /\ tasks[k].status # "pending"
              \/ k = x /\ new.status # "pending"
<1>1. /\ tasks'[x] # NoTask /\ tasks'[x].status = new.status /\ tasks'[x].needs = new.needs
      /\ \A j \in Keys \ {x} : tasks'[j] = tasks[j] \/ tasks'[j] = NoTask
  BY WriteEffect, StoredFields
<1>2. PlainTask(tasks'[x])
  BY <1>1, NoTaskAssumption DEF PlainTask
<1>3. \A j \in Keys \ {x} : PlainTask(tasks'[j])
  BY <1>1 DEF PlainInv, PlainTask
<1> QED
  BY <1>1, <1>2, <1>3

\* Admit of a task without needs.
LEMMA PlainAdmit ==
  ASSUME Pre, PlainInv, NEW w \in Workers,
         \/ AdmitLoad(w) \/ AdmitNeeds(w) \/ AdmitCAS(w)
         \/ RecheckNeeds(w) \/ RecheckLoad(w)
  PROVE  PlainStep(w)
<1>0. /\ ControlTypeOK /\ StoreTypeOK /\ call[w] \in Call /\ CallInv(pc[w], call[w])
      /\ PlainCall(pc[w], call[w])
  BY Caller DEF Pre, ControlInv, PlainInv
<1>1. PICK c \in Call : c = call[w]
  BY <1>0
<1>2. ~AdmitNeeds(w) /\ ~RecheckLoad(w)
  BY <1>0 DEF AdmitNeeds, RecheckLoad, PlainCall
<1>3. CASE AdmitLoad(w)
  <2>1. tasks' = tasks /\ c.op = "Admit" /\ c.key \in Keys
    BY <1>0, <1>1, <1>3 DEF AdmitLoad, storeVars, CallInv
  <2>2. CASE Return(w, "false")
    BY <1>1, <2>1, <2>2, PlainReturn
  <2> DEFINE d == [c EXCEPT !.cur = tasks[c.key], !.queue = c.needs, !.blocker = NoKey]
  <2>3. CASE Goto(w, "AdmitNeeds", d)
    <3>1. c.needs = <<>> /\ PlainTask(tasks[c.key])
      BY <1>0, <1>1, <2>1 DEF PlainCall, PlainInv
    <3>2. PlainCall("AdmitNeeds", d)
      BY <3>1 DEF PlainCall, PlainTask, Call, Blocking
    <3> HIDE DEF d
    <3> QED
      BY <2>1, <2>3, <3>2, PlainGoto DEF Labels
  <2> QED
    BY <1>1, <1>3, <2>2, <2>3 DEF AdmitLoad
<1>4. CASE AdmitCAS(w)
  <2> DEFINE new == Admitted(c)
  <2>0. /\ pc[w] = "AdmitNeeds" /\ c.op = "Admit" /\ c.key \in Keys /\ c.blocker = NoKey
        /\ c.needs = <<>> /\ PlainCall("AdmitNeeds", c)
    BY <1>0, <1>1, <1>4 DEF AdmitCAS, CallInv, PlainCall
  <2>1. CASE Return(w, "ErrInvalid") /\ tasks' = tasks
    BY <1>1, <2>0, <2>1, PlainReturn
  <2>2. CASE Retry(w, "AdmitLoad") /\ tasks' = tasks
    <3> DEFINE d == [c EXCEPT !.cur = NoTask, !.queue = <<>>, !.seen = {},
                              !.blocker = NoKey]
    <3>1. Goto(w, "AdmitLoad", d)
      BY <1>1, <2>2 DEF Retry
    <3>2. PlainCall("AdmitLoad", d)
      BY <2>0 DEF PlainCall, Call, Blocking
    <3> HIDE DEF d
    <3> QED
      BY <2>2, <3>1, <3>2, PlainGoto DEF Labels
  <2>3. CASE Write(c.key, new) /\ Goto(w, "RecheckNeeds", [c EXCEPT !.queue = c.needs])
    <3> DEFINE d == [c EXCEPT !.queue = c.needs]
    <3>1. new \in TaskState /\ new.status = "pending" /\ new.needs = <<>>
      BY <2>0 DEF Admitted, Call, MaybeTask, TaskState, Status, Terminal
    <3>2. PlainTask(new)
      BY <3>1 DEF PlainTask
    <3>3. PlainCall("RecheckNeeds", d)
      BY <2>0 DEF PlainCall, Call, Blocking
    <3> HIDE DEF d, new
    <3>4. pc'[w] = "RecheckNeeds" /\ call'[w] = d
      BY <1>0, <2>3, GotoMoves DEF d
    <3>5. /\ \A k \in Keys : PlainTask(tasks'[k])
          /\ \A k \in Keys : tasks'[k] # NoTask /\ tasks'[k].status # "pending" =>
               tasks[k] # NoTask /\ tasks[k].status # "pending"
      BY <1>0, <2>0, <2>3, <3>1, <3>2, PlainWrite
    <3> QED
      BY <3>3, <3>4, <3>5 DEF PlainStep
  <2> QED
    BY <1>1, <1>4, <2>0, <2>1, <2>2, <2>3 DEF AdmitCAS, storeVars
<1>5. CASE RecheckNeeds(w)
  <2>1. c.queue = <<>> /\ Return(w, "true") /\ tasks' = tasks /\ c.op = "Admit"
    BY <1>0, <1>1, <1>5 DEF RecheckNeeds, PlainCall, storeVars, CallInv
  <2> QED
    BY <1>1, <2>1, PlainReturn
<1> QED
  BY <1>2, <1>3, <1>4, <1>5

\* Claim of a task without needs.
LEMMA PlainClaim ==
  ASSUME Pre, PlainInv, NEW w \in Workers, ClaimLoad(w) \/ Walk(w) \/ ClaimCAS(w)
  PROVE  PlainStep(w)
<1>0. /\ ControlTypeOK /\ StoreTypeOK /\ call[w] \in Call /\ CallInv(pc[w], call[w])
      /\ PlainCall(pc[w], call[w])
  BY Caller DEF Pre, ControlInv, PlainInv
<1>1. PICK c \in Call : c = call[w]
  BY <1>0
<1>2. ~Walk(w)
  BY <1>0 DEF Walk, PlainCall
<1>3. CASE ClaimLoad(w)
  <2>1. tasks' = tasks /\ c.op \in ClaimOps /\ c.key \in Keys
    BY <1>0, <1>1, <1>3 DEF ClaimLoad, storeVars, CallInv
  <2>2. tasks[c.key] \in TaskState \cup {NoTask}
    BY <1>0, <2>1 DEF StoreTypeOK
  <2> DEFINE verdict == ClaimVerdict(c.op, tasks[c.key], c.now)
  <2>3. CASE verdict # "ok" /\ Return(w, verdict)
    <3>1. c.op = "Claim" /\ verdict \in ReplaySentinels =>
            tasks[c.key] # NoTask /\ tasks[c.key].status # "pending"
      <4>1. tasks[c.key] = NoTask => verdict = "ErrNoKey"
        BY DEF ClaimVerdict
      <4>2. tasks[c.key] # NoTask /\ tasks[c.key].status = "pending" /\ c.op = "Claim" =>
              verdict = "ok"
        BY DEF ClaimVerdict, IsTerminal, Terminal
      <4> QED
        BY <2>3, <4>1, <4>2 DEF ReplaySentinels
    <3> QED
      BY <1>1, <2>1, <2>3, <3>1, PlainReturn DEF ClaimOps
  <2> DEFINE d == [c EXCEPT !.cur = tasks[c.key], !.queue = tasks[c.key].needs,
                            !.seen = {}]
  <2>4. CASE verdict = "ok" /\ Goto(w, "Walk", d)
    <3>1. tasks[c.key] # NoTask
      BY <2>4 DEF ClaimVerdict
    <3>2. tasks[c.key].needs = <<>> /\ c.needs = <<>>
      BY <1>0, <1>1, <2>1, <3>1 DEF PlainCall, PlainInv, PlainTask
    <3>3. PlainCall("Walk", d)
      BY <3>2 DEF PlainCall, Call, Blocking
    <3> HIDE DEF d
    <3> QED
      BY <2>1, <2>4, <3>3, PlainGoto DEF Labels
  <2> QED
    BY <1>1, <1>3, <2>3, <2>4 DEF ClaimLoad
<1>4. CASE ClaimCAS(w)
  <2>0. /\ pc[w] = "Walk" /\ c.op \in ClaimOps /\ c.key \in Keys /\ c.needs = <<>>
        /\ c.cur \in TaskState /\ c.cur.needs = <<>>
    BY <1>0, <1>1, <1>4 DEF ClaimCAS, CallInv, PlainCall, IsLive, Call, MaybeTask
  <2>1. CASE Retry(w, "ClaimLoad") /\ tasks' = tasks
    <3> DEFINE d == [c EXCEPT !.cur = NoTask, !.queue = <<>>, !.seen = {},
                              !.blocker = NoKey]
    <3>1. Goto(w, "ClaimLoad", d)
      BY <1>1, <2>1 DEF Retry
    <3>2. PlainCall("ClaimLoad", d)
      BY <2>0 DEF PlainCall, Call, Blocking
    <3> HIDE DEF d
    <3> QED
      BY <2>1, <3>1, <3>2, PlainGoto DEF Labels
  <2>2. CASE Write(c.key, Claimed(w, c)) /\ Return(w, "ok")
    <3>1. /\ Claimed(w, c) \in TaskState /\ Claimed(w, c).status = "claimed"
          /\ Claimed(w, c).needs = <<>>
      <4>1. c.cur.fence + 1 \in Nat /\ c.now + c.lease \in Nat
        BY <2>0 DEF TaskState, Call
      <4> QED
        BY <2>0, <4>1 DEF Claimed, TaskState, Status, Workers
    <3>2. PlainTask(Claimed(w, c))
      BY <3>1 DEF PlainTask
    <3>3. /\ \A k \in Keys : PlainTask(tasks'[k])
          /\ \A k \in Keys : tasks'[k] # NoTask /\ tasks'[k].status # "pending" =>
               \/ tasks[k] # NoTask /\ tasks[k].status # "pending"
               \/ k = c.key
      BY <1>0, <2>0, <2>2, <3>1, <3>2, PlainWrite
    <3>4. pc'[w] = "idle" /\ call'[w] = NoCall /\ ret'[w] = "ok"
      BY <1>0, <2>2, ReturnMoves DEF Return, ControlTypeOK
    <3>5. PlainCall("idle", NoCall)
      BY DEF PlainCall, NoCall, Blocking
    <3> QED
      BY <1>1, <2>0, <3>3, <3>4, <3>5 DEF PlainStep, ReplaySentinels, ClaimOps
  <2> QED
    BY <1>1, <1>4, <2>1, <2>2 DEF ClaimCAS, storeVars
<1> QED
  BY <1>2, <1>3, <1>4

\* A failed task without dependents blocks nothing.
LEMMA NoDependents ==
  ASSUME PlainInv, NEW k \in Keys
  PROVE  TransitiveDependents(tasks, k) = {}
<1> DEFINE recorded == {j \in Keys : tasks[j] # NoTask}
           Closed(S) == \A j \in recorded :
             ElementsOf(tasks[j].needs) \cap (S \cup {k}) # {} => j \in S
<1>1. \A j \in recorded : ElementsOf(tasks[j].needs) = {}
  BY DEF PlainInv, PlainTask, ElementsOf
<1>2. Closed({})
  BY <1>1
<1>3. TransitiveDependents(tasks, k)
        = {j \in recorded : \A S \in SUBSET recorded : Closed(S) => j \in S}
  BY DEF TransitiveDependents
<1>4. {} \in SUBSET recorded
  OBVIOUS
<1> HIDE DEF recorded, Closed
<1> QED
  BY <1>2, <1>3, <1>4

\* Complete of a task without needs.
LEMMA PlainOwner ==
  ASSUME Pre, PlainInv, NEW w \in Workers,
         \/ OwnerLoad(w) \/ OwnerCAS(w)
         \/ BlockDependents(w) \/ BlockCAS(w) \/ BlockLoad(w)
  PROVE  PlainStep(w)
<1>0. /\ ControlTypeOK /\ StoreTypeOK /\ call[w] \in Call /\ CallInv(pc[w], call[w])
      /\ PlainCall(pc[w], call[w])
  BY Caller DEF Pre, ControlInv, PlainInv
<1>1. PICK c \in Call : c = call[w]
  BY <1>0
<1>2. ~BlockCAS(w) /\ ~BlockLoad(w)
  BY <1>0 DEF BlockCAS, BlockLoad, PlainCall, Blocking
<1>3. CASE OwnerLoad(w)
  <2>1. tasks' = tasks /\ c.op \in OwnerOps /\ c.key \in Keys
    BY <1>0, <1>1, <1>3 DEF OwnerLoad, storeVars, CallInv
  <2>2. CASE \E result : Return(w, result)
    BY <1>1, <2>1, <2>2, PlainReturn DEF OwnerOps
  <2> DEFINE d == [c EXCEPT !.cur = tasks[c.key]]
  <2>3. CASE Goto(w, "OwnerCAS", d)
    <3>1. c.needs = <<>> /\ c.queue = <<>> /\ PlainTask(tasks[c.key])
      BY <1>0, <1>1, <2>1 DEF PlainCall, PlainInv
    <3>2. PlainCall("OwnerCAS", d)
      BY <3>1 DEF PlainCall, PlainTask, Call, Blocking
    <3> HIDE DEF d
    <3> QED
      BY <2>1, <2>3, <3>2, PlainGoto DEF Labels
  <2> QED
    BY <1>1, <1>3, <2>2, <2>3 DEF OwnerLoad
<1>4. CASE OwnerCAS(w)
  <2>0. /\ pc[w] = "OwnerCAS" /\ c.op \in OwnerOps /\ c.key \in Keys
        /\ c.needs = <<>> /\ c.queue = <<>> /\ CallInv("OwnerCAS", c)
        /\ c.cur \in TaskState /\ c.cur.needs = <<>> /\ c.cur.status = "claimed"
    BY <1>0, <1>1, <1>4 DEF OwnerCAS, CallInv, PlainCall, Call, MaybeTask
  <2>1. CASE Retry(w, "OwnerLoad") /\ tasks' = tasks
    <3> DEFINE d == [c EXCEPT !.cur = NoTask, !.queue = <<>>, !.seen = {},
                              !.blocker = NoKey]
    <3>1. Goto(w, "OwnerLoad", d)
      BY <1>1, <2>1 DEF Retry
    <3>2. PlainCall("OwnerLoad", d)
      BY <2>0 DEF PlainCall, Call, Blocking
    <3> HIDE DEF d
    <3> QED
      BY <2>1, <3>1, <3>2, PlainGoto DEF Labels
  <2>2. CASE /\ Matches(c.key, c.cur) /\ Write(c.key, OwnerWrites(c))
             /\ Goto(w, "Range", c) \/ Return(w, "ok")
    <3>1. /\ OwnerWrites(c) \in TaskState /\ OwnerWrites(c).needs = <<>>
          /\ OwnerWrites(c).status # "blocked"
      <4>1. c.now + c.lease \in Nat /\ c.status \in {"completed", "failed"}
        BY DEF Call
      <4> QED
        BY <2>0, <4>1 DEF OwnerWrites, OwnerOps, TaskState, Status, Terminal
    <3>2. PlainTask(OwnerWrites(c))
      BY <3>1 DEF PlainTask
    <3>3. tasks[c.key] # NoTask /\ tasks[c.key].status # "pending"
      BY <2>0, <2>2, NoTaskAssumption DEF Matches, Found
    <3>4. /\ \A k \in Keys : PlainTask(tasks'[k])
          /\ \A k \in Keys : tasks'[k] # NoTask /\ tasks'[k].status # "pending" =>
               tasks[k] # NoTask /\ tasks[k].status # "pending"
      BY <1>0, <2>0, <2>2, <3>1, <3>2, <3>3, PlainWrite
    <3>5. PlainCall(pc'[w], call'[w])
      <4>1. PlainCall("Range", c) /\ PlainCall("idle", NoCall)
        BY <2>0 DEF PlainCall, NoCall, Blocking
      <4> QED
        BY <1>0, <2>2, <4>1, GotoMoves, ReturnMoves
    <3> QED
      BY <1>1, <2>0, <3>4, <3>5 DEF PlainStep, OwnerOps
  <2> QED
    BY <1>1, <1>4, <2>1, <2>2 DEF OwnerCAS, storeVars
<1>5. CASE BlockDependents(w)
  <2>1. c.key \in Keys /\ c.op = "Complete" /\ tasks' = tasks
    BY <1>0, <1>1, <1>5 DEF BlockDependents, CallInv, storeVars
  <2> DEFINE d == [c EXCEPT !.blocker = c.key, !.todo = {}, !.list = tasks]
  <2>2. NextDependent(w, d, "ok")
    BY <1>1, <1>5, <2>1, NoDependents DEF BlockDependents
  <2>3. Return(w, "ok")
    BY <2>2 DEF NextDependent, Call
  <2> QED
    BY <1>1, <2>1, <2>3, PlainReturn
<1> QED
  BY <1>2, <1>3, <1>4, <1>5

\* Every store call of the endpoint.
LEMMA StepIsPlain ==
  ASSUME Pre, PlainInv, NEW w \in Workers, Step(w) \/ Abort(w)
  PROVE  PlainStep(w)
<1>1. CASE Abort(w)
  BY <1>1, PlainReturn DEF Abort, storeVars, ReplaySentinels
<1> QED
  BY <1>1, PlainAdmit, PlainClaim, PlainOwner DEF Step

-----------------------------------------------------------------------------
(* Lines and their keys.                                                   *)

\* The keys of two pairs of thread and ID differ.
LEMMA KeysDiffer ==
  ASSUME NEW a \in Nat, NEW b \in Nat, NEW i \in 1..IDs, NEW j \in 1..IDs, a < b,
         IDs \in Nat
  PROVE  a * IDs + i < b * IDs + j
<1>1. PICK d \in Nat : b = a + 1 + d
  <2>1. b - a - 1 \in Nat /\ b = a + 1 + (b - a - 1)
    OBVIOUS
  <2> QED
    BY <2>1
<1>2. b * IDs = a * IDs + IDs + d * IDs
  BY <1>1
<1>3. d * IDs \in Nat /\ a * IDs \in Nat
  BY <1>1
<1> QED
  BY <1>2, <1>3

\* replayKey: no two signed messages have the same key.
LEMMA KeyIsUnique ==
  ASSUME NEW m \in Messages, NEW n \in Messages, VerifySignature(Mail[m]),
         VerifySignature(Mail[n]), KeyOf(m) = KeyOf(n)
  PROVE  m = n
<1>0. IDs \in Nat
  BY RequestsAssumption
<1>1. PICK t \in Nat, u \in Nat : Mail[m].thread = t + 1 /\ Mail[n].thread = u + 1
  <2>1. /\ Mail[m].thread \in Nat \ {0} /\ Mail[n].thread \in Nat \ {0}
    BY MailAssumption
  <2>2. /\ Mail[m].thread - 1 \in Nat /\ Mail[m].thread = (Mail[m].thread - 1) + 1
        /\ Mail[n].thread - 1 \in Nat /\ Mail[n].thread = (Mail[n].thread - 1) + 1
    BY <2>1
  <2> QED
    BY <2>2
<1>2. PICK i \in 1..IDs, j \in 1..IDs : Mail[m].id = <<i>> /\ Mail[n].id = <<j>>
  BY MailAssumption
<1>3. KeyOf(m) = t * IDs + i /\ KeyOf(n) = u * IDs + j
  BY <1>0, <1>1, <1>2 DEF KeyOf, ReplayKey
<1>4. PICK x \in Nat, y \in Nat : x = t * IDs /\ y = u * IDs
  BY <1>0
<1>5. x + i = y + j
  BY <1>3, <1>4
<1>6. t = u
  <2>1. ASSUME t < u PROVE FALSE
    <3>1. t * IDs + i < u * IDs + j
      BY <1>0, <2>1, KeysDiffer
    <3>2. x + i < y + j
      BY <1>4, <3>1
    <3> QED
      BY <1>5, <3>2
  <2>2. ASSUME u < t PROVE FALSE
    <3>1. u * IDs + j < t * IDs + i
      BY <1>0, <2>2, KeysDiffer
    <3>2. y + j < x + i
      BY <1>4, <3>1
    <3> QED
      BY <1>5, <3>2
  <2> QED
    BY <2>1, <2>2
<1>7. i = j
  <2>1. x = y
    BY <1>4, <1>6
  <2> QED
    BY <1>5, <2>1
<1> QED
  BY <1>1, <1>2, <1>6, <1>7, MailAssumption

\* The line a worker serves is a message, and its key one of the ledger.
LEMMA LineIsMessage ==
  ASSUME DispatchTypeOK, NEW w \in Workers, request[w].on, request[w].todo # <<>>
  PROVE  /\ request[w] \in RequestRecord /\ Line(w) \in Messages
         /\ KeyOf(Line(w)) \in Keys /\ <<>> \in NeedsOf[KeyOf(Line(w))]
<1>1. request[w] \in RequestRecord
  BY DEF DispatchTypeOK, NoRequest
<1>2. request[w].todo \in Seq(Messages)
  BY <1>1 DEF RequestRecord
<1>3. Line(w) \in Messages
  BY <1>2 DEF Line
<1> QED
  BY <1>1, <1>3, MailAssumption DEF KeyOf

\* The endpoint takes steps of ledger.Run.
LEMMA DispatchIsRunStep ==
  ASSUME DispatchInv, [DispatchNext]_dispatchVars
  PROVE  [RunNext]_runVars
<1>1. CASE UNCHANGED runVars
  BY <1>1
<1>2. ASSUME NEW w \in Workers, ProcessLine(w)
      PROVE  RunNext \/ UNCHANGED runVars
  <2>1. request[w].on /\ request[w].todo # <<>>
    BY <1>2 DEF ProcessLine
  <2>2. /\ KeyOf(Line(w)) \in Keys /\ <<>> \in NeedsOf[KeyOf(Line(w))]
    BY <2>1, LineIsMessage DEF DispatchInv
  <2>3. 1 \in 1..MaxSeq
    BY MailAssumption, BoundsAssumption
  <2>4. RunStart(w, KeyOf(Line(w)), 1, <<>>) \/ UNCHANGED runVars
    BY <1>2 DEF ProcessLine, KeyOf
  <2> QED
    BY <2>2, <2>3, <2>4 DEF RunNext
<1>3. ASSUME NEW w \in Workers, RunLine(w)
      PROVE  RunNext
  BY <1>3 DEF RunLine, RunNext
<1>4. CASE Passing /\ UNCHANGED <<run, runs, error, nils, roomVars>>
  BY <1>4 DEF RunNext
<1>5. ASSUME NEW w \in Workers, LineDone(w) \/ RequestDone(w) \/ Disconnect(w)
      PROVE  UNCHANGED runVars
  BY <1>5 DEF LineDone, RequestDone, Disconnect
<1>6. ASSUME NEW w \in Workers, NEW msgs \in Requests, Post(w, msgs)
      PROVE  UNCHANGED runVars
  BY <1>6 DEF Post
<1> QED
  BY <1>1, <1>2, <1>3, <1>4, <1>5, <1>6 DEF DispatchNext, Serve, dispatchVars

-----------------------------------------------------------------------------
(* What a step of one worker leaves of the others.                         *)

LineAlone(w) ==
  \A v \in Workers \ {w} :
    /\ request'[v] = request[v] /\ run'[v] = run[v] /\ pc'[v] = pc[v]
    /\ ret'[v] = ret[v] /\ error'[v] = error[v]

\* Lines of other workers.
LEMMA LinesKept ==
  ASSUME LineInv, NEW w \in Workers, LineAlone(w), taken \subseteq taken',
         Serving(request'[w], run'[w]),
         Known(request'[w], run'[w], pc'[w], ret'[w], error'[w], taken'),
         Replies(request'[w], taken')
  PROVE  LineInv'
<1>1. ASSUME NEW v \in Workers \ {w}
      PROVE  /\ Serving(request'[v], run'[v])
             /\ Known(request'[v], run'[v], pc'[v], ret'[v], error'[v], taken')
             /\ Replies(request'[v], taken')
  <2>1. /\ Serving(request[v], run[v])
        /\ Known(request[v], run[v], pc[v], ret[v], error[v], taken)
        /\ Replies(request[v], taken)
    BY DEF LineInv
  <2>2. /\ Known(request[v], run[v], pc[v], ret[v], error[v], taken')
        /\ Replies(request[v], taken')
    BY <2>1 DEF Known, Replies
  <2> QED
    BY <2>1, <2>2 DEF LineAlone
<1> QED
  BY <1>1 DEF LineInv

\* Acks, when no Run returns nil and no line is acknowledged.
LEMMA AcksKept ==
  ASSUME AckInv, nils' = nils, acks' = acks,
         \A m \in Messages : handled[m] # <<>> => handled'[m] # <<>>,
         \A w \in Workers : Unanswered(request'[w], run'[w], error'[w]) =>
           /\ Unanswered(request[w], run[w], error[w])
           /\ Head(request'[w].todo) = Head(request[w].todo)
           /\ Line(w) \in Messages
  PROVE  AckInv'
<1> SUFFICES ASSUME ~Evicting PROVE AckInv'
  BY DEF AckInv
<1>1. \A m \in Messages :
        acks'[m] <= 1 /\ (acks'[m] = 1 => nils'[KeyOf(m)] = 1 /\ handled'[m] # <<>>)
  BY DEF AckInv
<1>2. ASSUME NEW w \in Workers, Unanswered(request'[w], run'[w], error'[w])
      PROVE  /\ nils'[KeyOf(Head(request'[w].todo))] = 1
             /\ handled'[Head(request'[w].todo)] # <<>>
             /\ \A m \in Messages : acks'[m] = 1 => KeyOf(m) # KeyOf(Head(request'[w].todo))
             /\ \A v \in Workers \ {w} :
                  Unanswered(request'[v], run'[v], error'[v]) =>
                    KeyOf(Head(request'[v].todo)) # KeyOf(Head(request'[w].todo))
  <2>1. /\ nils[KeyOf(Line(w))] = 1 /\ handled[Line(w)] # <<>>
        /\ \A m \in Messages : acks[m] = 1 => KeyOf(m) # KeyOf(Line(w))
        /\ \A v \in Workers \ {w} :
             Unanswered(request[v], run[v], error[v]) => KeyOf(Line(v)) # KeyOf(Line(w))
    BY <1>2 DEF AckInv
  <2>2. \A v \in Workers \ {w} : Unanswered(request'[v], run'[v], error'[v]) =>
          KeyOf(Head(request'[v].todo)) # KeyOf(Line(w))
    BY <2>1 DEF Line
  <2> QED
    BY <1>2, <2>1, <2>2 DEF Line
<1> QED
  BY <1>1, <1>2 DEF AckInv, Line

\* An answered line.
LEMMA AnswerEffect ==
  ASSUME DispatchTypeOK, NEW w \in Workers, request[w].on, request[w].todo # <<>>,
         NEW what \in Answers, Answer(w, what), Replies(request[w], taken),
         what = "replay" => Line(w) \in taken
  PROVE  /\ request' \in [Workers -> RequestRecord \cup {NoRequest}]
         /\ ~request'[w].running /\ Replies(request'[w], taken)
         /\ \A v \in Workers \ {w} : request'[v] = request[v]
<1>0. request[w] \in RequestRecord
  BY LineIsMessage
<1>1. PICK q \in RequestRecord : q = request[w]
  BY <1>0
<1> DEFINE d == [q EXCEPT !.reply = Append(q.reply, what), !.todo = Tail(q.todo),
                          !.running = FALSE]
<1>2. request' = [request EXCEPT ![w] = d]
  BY <1>0, <1>1 DEF Answer, DispatchTypeOK
<1>3. /\ q.reply \in Seq(Answers) /\ q.todo \in Seq(Messages) /\ q.body \in Seq(Messages)
      /\ q.todo # <<>> /\ q.on
  BY <1>1 DEF RequestRecord
<1>4. Append(q.reply, what) \in Seq(Answers) /\ Tail(q.todo) \in Seq(Messages)
  BY <1>3
<1>5. /\ d \in RequestRecord /\ d.reply = Append(q.reply, what) /\ d.todo = Tail(q.todo)
      /\ d.running = FALSE /\ d.body = q.body
  BY <1>4 DEF RequestRecord
<1> HIDE DEF d
<1>6. request'[w] = d /\ \A v \in Workers \ {w} : request'[v] = request[v]
  BY <1>2 DEF DispatchTypeOK
<1>7. request' \in [Workers -> RequestRecord \cup {NoRequest}]
  BY <1>2, <1>5 DEF DispatchTypeOK
<1>8. Replies(d, taken)
  <2>1. /\ Len(q.reply) + Len(q.todo) <= Len(q.body)
        /\ \A i \in 1..Len(q.todo) : q.todo[i] = q.body[Len(q.reply) + i]
        /\ \A i \in 1..Len(q.reply) : q.reply[i] = "replay" => q.body[i] \in taken
    BY <1>1, <1>3 DEF Replies
  <2>2. /\ Len(q.todo) \in Nat \ {0} /\ Len(q.reply) \in Nat /\ Len(q.body) \in Nat
        /\ Len(d.reply) = Len(q.reply) + 1 /\ Len(d.todo) = Len(q.todo) - 1
    BY <1>3, <1>5
  <2>3. /\ \A i \in 1..Len(d.todo) : d.todo[i] = q.todo[i + 1]
        /\ \A i \in 1..Len(q.reply) : d.reply[i] = q.reply[i]
        /\ d.reply[Len(q.reply) + 1] = what
        /\ q.todo[1] = Head(q.todo)
    BY <1>3, <1>5
  <2> DEFINE a == Len(q.reply)
             b == Len(q.todo)
  <2>0. /\ a \in Nat /\ b \in Nat \ {0} /\ Len(q.body) \in Nat /\ a + b <= Len(q.body)
        /\ Len(d.reply) = a + 1 /\ Len(d.todo) = b - 1
    BY <2>1, <2>2
  <2> HIDE DEF a, b
  <2>4. Len(d.reply) + Len(d.todo) <= Len(d.body)
    <3>1. PICK n \in Nat : n = Len(q.body)
      BY <2>0
    <3>2. (a + 1) + (b - 1) <= n
      BY <2>0, <3>1
    <3>3. Len(d.reply) + Len(d.todo) = (a + 1) + (b - 1) /\ Len(d.body) = n
      BY <1>5, <2>0, <3>1
    <3> QED
      BY <3>2, <3>3
  <2>5. ASSUME NEW i \in 1..Len(d.todo)
        PROVE  d.todo[i] = d.body[Len(d.reply) + i]
    <3>1. i \in 1..(b - 1)
      BY <2>0
    <3>2. i + 1 \in 1..b /\ (a + 1) + i = a + (i + 1)
      BY <2>0, <3>1
    <3>3. q.todo[i + 1] = q.body[a + (i + 1)]
      BY <2>1, <3>2 DEF a, b
    <3>4. Len(d.reply) + i = a + (i + 1)
      BY <2>0, <3>2
    <3> QED
      BY <1>5, <2>3, <3>3, <3>4
  <2>6. ASSUME NEW i \in 1..Len(d.reply), d.reply[i] = "replay"
        PROVE  d.body[i] \in taken
    <3>1. CASE i \in 1..Len(q.reply)
      BY <1>5, <2>1, <2>3, <2>6, <3>1
    <3>2. CASE i = Len(q.reply) + 1
      <4>1. what = "replay" /\ 1 \in 1..Len(q.todo)
        BY <2>2, <2>3, <2>6, <3>2
      <4>2. q.body[i] = Head(q.todo)
        BY <2>1, <2>3, <3>2, <4>1
      <4> QED
        BY <1>1, <1>5, <4>1, <4>2 DEF Line
    <3> QED
      BY <2>2, <3>1, <3>2
  <2> QED
    BY <2>4, <2>5, <2>6 DEF Replies
<1> QED
  BY <1>5, <1>6, <1>7, <1>8

-----------------------------------------------------------------------------
(* The steps of the endpoint.                                              *)

\* A busy worker serves a message that was signed.
LEMMA BusyLine ==
  ASSUME DispatchInv, NEW w \in Workers, Busy(request[w])
  PROVE  /\ request[w] \in RequestRecord /\ request[w].todo # <<>> /\ Line(w) \in Messages
         /\ KeyOf(Line(w)) \in Keys /\ VerifySignature(Mail[Line(w)])
         /\ run[w].at # "none" => run[w].key = KeyOf(Line(w))
<1>1. /\ request[w].on /\ request[w].todo # <<>> /\ VerifySignature(Mail[Line(w)])
      /\ run[w].at # "none" => run[w].key = KeyOf(Line(w))
  BY DEF DispatchInv, LineInv, Serving, Busy, Line
<1> QED
  BY <1>1, LineIsMessage DEF DispatchInv

\* A key whose task is not pending was taken by the message that has it.
LEMMA SeenIsTaken ==
  ASSUME DispatchInv, NEW w \in Workers, Busy(request[w]), run[w].at # "none",
         tasks[run[w].key] # NoTask, tasks[run[w].key].status # "pending"
  PROVE  Line(w) \in taken
<1>1. /\ Line(w) \in Messages /\ run[w].key = KeyOf(Line(w)) /\ KeyOf(Line(w)) \in Keys
      /\ VerifySignature(Mail[Line(w)])
  BY BusyLine
<1>2. Claims(KeyOf(Line(w)), taken)
  BY <1>1 DEF DispatchInv, TakenInv
<1>3. PICK m \in taken : VerifySignature(Mail[m]) /\ KeyOf(m) = KeyOf(Line(w))
  BY <1>2 DEF Claims
<1>4. m \in Messages
  BY DEF DispatchInv, DispatchTypeOK
<1> QED
  BY <1>1, <1>3, <1>4, KeyIsUnique

\* Nothing the invariant speaks of changes.
LEMMA NothingChanges ==
  ASSUME DispatchInv,
         UNCHANGED <<tasks, pc, call, ret, run, error, nils, request, taken, handled,
                     acks, told>>
  PROVE  DispatchInv'
<1>1. DispatchTypeOK' /\ ReplayIsTruthful'
  BY DEF DispatchInv, DispatchTypeOK, ReplayIsTruthful
<1>2. PlainInv' /\ TakenInv'
  BY DEF DispatchInv, PlainInv, TakenInv
<1>3. LineInv'
  BY DEF DispatchInv, LineInv
<1>4. AckInv'
  BY DEF DispatchInv, AckInv, Line
<1> QED
  BY <1>1, <1>2, <1>3, <1>4 DEF DispatchInv

\* Acks, when w neither sees its Run return nil nor answers such a line.
LEMMA OthersAcks ==
  ASSUME DispatchInv, NEW w \in Workers, LineAlone(w), nils' = nils, acks' = acks,
         \A m \in Messages : handled[m] # <<>> => handled'[m] # <<>>,
         Unanswered(request'[w], run'[w], error'[w]) =>
           /\ Unanswered(request[w], run[w], error[w])
           /\ Head(request'[w].todo) = Head(request[w].todo)
  PROVE  AckInv'
<1>1. ASSUME NEW v \in Workers, Unanswered(request'[v], run'[v], error'[v])
      PROVE  /\ Unanswered(request[v], run[v], error[v])
             /\ Head(request'[v].todo) = Head(request[v].todo)
  BY <1>1 DEF LineAlone
<1>2. ASSUME NEW v \in Workers, Unanswered(request'[v], run'[v], error'[v])
      PROVE  Line(v) \in Messages
  BY <1>1, <1>2, BusyLine DEF Unanswered
<1> QED
  BY <1>1, <1>2, AcksKept DEF DispatchInv

\* A step in which ledger.Run has no part.
LEMMA RequestStep ==
  ASSUME DispatchInv, NEW w \in Workers, UNCHANGED <<runVars, taken, handled>>,
         \A v \in Workers \ {w} : request'[v] = request[v],
         request' \in [Workers -> RequestRecord \cup {NoRequest}],
         acks' \in [Messages -> Nat], told' \in [Messages -> SUBSET Answers],
         Serving(request'[w], run[w]),
         Known(request'[w], run[w], pc[w], ret[w], error[w], taken),
         Replies(request'[w], taken), ReplayIsTruthful', AckInv'
  PROVE  DispatchInv'
<1>1. UNCHANGED <<tasks, pc, call, ret, run, error, nils>>
  BY DEF runVars, ledgerVars
<1>2. DispatchTypeOK'
  BY DEF DispatchInv, DispatchTypeOK
<1>3. PlainInv' /\ TakenInv'
  BY <1>1 DEF DispatchInv, PlainInv, TakenInv
<1>4. LineAlone(w)
  BY <1>1 DEF LineAlone
<1>5. LineInv'
  BY <1>1, <1>4, LinesKept DEF DispatchInv
<1> QED
  BY <1>2, <1>3, <1>5 DEF DispatchInv

\* A request comes in.
LEMMA PostInv ==
  ASSUME DispatchInv, NEW w \in Workers, NEW msgs \in Requests, Post(w, msgs)
  PROVE  DispatchInv'
<1> DEFINE q == [on |-> TRUE, body |-> msgs, reply |-> <<>>, running |-> FALSE,
                 gone |-> FALSE, todo |-> IF Len(msgs) > MaxLines THEN <<>> ELSE msgs]
<1>1. /\ UNCHANGED <<runVars, taken, handled, acks, told>> /\ ~request[w].on
      /\ request' = [request EXCEPT ![w] = q]
  BY DEF Post
<1>2. msgs \in Seq(Messages) /\ <<>> \in Seq(Messages) /\ <<>> \in Seq(Answers)
  BY RequestsAssumption
<1>3. /\ q \in RequestRecord /\ ~q.running /\ q.reply = <<>> /\ q.body = msgs
      /\ q.todo \in {<<>>, msgs}
  BY <1>2 DEF RequestRecord
<1> HIDE DEF q
<1>4. /\ request' \in [Workers -> RequestRecord \cup {NoRequest}] /\ request'[w] = q
      /\ \A v \in Workers \ {w} : request'[v] = request[v]
  BY <1>1, <1>3 DEF DispatchInv, DispatchTypeOK
<1>5. run[w].at = "none"
  BY <1>1 DEF DispatchInv, LineInv, Serving, Busy
<1>6. Serving(q, run[w]) /\ Known(q, run[w], pc[w], ret[w], error[w], taken)
  BY <1>3, <1>5 DEF Serving, Known, Busy
<1>7. Replies(q, taken)
  <2>1. Len(msgs) \in Nat /\ Len(<<>>) = 0
    BY <1>2
  <2>2. CASE q.todo = <<>>
    BY <1>3, <2>1, <2>2 DEF Replies
  <2>3. CASE q.todo = msgs
    <3>1. PICK n \in Nat : n = Len(msgs)
      BY <2>1
    <3>2. 0 + n <= n /\ \A i \in 1..n : 0 + i = i
      OBVIOUS
    <3> QED
      BY <1>3, <2>1, <2>3, <3>1, <3>2 DEF Replies
  <2> QED
    BY <1>3, <2>2, <2>3
<1>8. LineAlone(w) /\ run' = run /\ nils' = nils
  BY <1>1, <1>4 DEF LineAlone, runVars, ledgerVars
<1>9. AckInv'
  BY <1>1, <1>3, <1>4, <1>8, OthersAcks DEF Unanswered, Busy
<1>10. ReplayIsTruthful'
  BY <1>1 DEF DispatchInv, ReplayIsTruthful
<1>11. acks' \in [Messages -> Nat] /\ told' \in [Messages -> SUBSET Answers]
  BY <1>1 DEF DispatchInv, DispatchTypeOK
<1> QED
  BY <1>1, <1>4, <1>6, <1>7, <1>9, <1>10, <1>11, RequestStep

\* The client gives up.
LEMMA DisconnectInv ==
  ASSUME DispatchInv, NEW w \in Workers, Disconnect(w)
  PROVE  DispatchInv'
<1>1. /\ UNCHANGED <<runVars, taken, handled, acks, told>> /\ request[w].on
      /\ request' = [request EXCEPT ![w].gone = TRUE]
  BY DEF Disconnect
<1>2. request[w] \in RequestRecord
  BY <1>1 DEF DispatchInv, DispatchTypeOK, NoRequest
<1>3. PICK q \in RequestRecord : q = request[w]
  BY <1>2
<1> DEFINE d == [q EXCEPT !.gone = TRUE]
<1>4. /\ d \in RequestRecord /\ d.on = q.on /\ d.running = q.running /\ d.reply = q.reply
      /\ d.body = q.body /\ d.todo = q.todo
  BY DEF RequestRecord
<1>5. request' = [request EXCEPT ![w] = d]
  BY <1>1, <1>3 DEF DispatchInv, DispatchTypeOK
<1> HIDE DEF d
<1>6. /\ request' \in [Workers -> RequestRecord \cup {NoRequest}] /\ request'[w] = d
      /\ \A v \in Workers \ {w} : request'[v] = request[v]
  BY <1>4, <1>5 DEF DispatchInv, DispatchTypeOK
<1>7. /\ Serving(q, run[w]) /\ Known(q, run[w], pc[w], ret[w], error[w], taken)
      /\ Replies(q, taken)
  BY <1>3 DEF DispatchInv, LineInv
<1>8. /\ Serving(d, run[w]) /\ Known(d, run[w], pc[w], ret[w], error[w], taken)
      /\ Replies(d, taken)
  BY <1>4, <1>7 DEF Serving, Known, Replies, Busy
<1>9. LineAlone(w) /\ UNCHANGED <<run, error, nils>>
  BY <1>1, <1>6 DEF LineAlone, runVars, ledgerVars
<1>10. AckInv'
  BY <1>1, <1>3, <1>4, <1>6, <1>9, OthersAcks DEF Unanswered, Busy
<1>11. ReplayIsTruthful'
  BY <1>1 DEF DispatchInv, ReplayIsTruthful
<1>12. acks' \in [Messages -> Nat] /\ told' \in [Messages -> SUBSET Answers]
  BY <1>1 DEF DispatchInv, DispatchTypeOK
<1> QED
  BY <1>1, <1>6, <1>8, <1>10, <1>11, <1>12, RequestStep

\* A line that has no part in ledger.Run is answered.
LEMMA AnswerInv ==
  ASSUME DispatchInv, NEW w \in Workers, request[w].on, request[w].todo # <<>>,
         run[w].at = "none", NEW what \in Answers, Answer(w, what),
         what = "replay" => Line(w) \in taken, UNCHANGED <<runVars, taken, handled, told>>,
         acks' \in [Messages -> Nat], AckInv'
  PROVE  DispatchInv'
<1>0. Replies(request[w], taken) /\ DispatchTypeOK
  BY DEF DispatchInv, LineInv
<1>1. /\ request' \in [Workers -> RequestRecord \cup {NoRequest}]
      /\ ~request'[w].running /\ Replies(request'[w], taken)
      /\ \A v \in Workers \ {w} : request'[v] = request[v]
  BY <1>0, AnswerEffect
<1>2. /\ Serving(request'[w], run[w])
      /\ Known(request'[w], run[w], pc[w], ret[w], error[w], taken)
  BY <1>1 DEF Serving, Known, Busy
<1>3. ReplayIsTruthful'
  BY DEF DispatchInv, ReplayIsTruthful
<1>4. told' \in [Messages -> SUBSET Answers]
  BY <1>0 DEF DispatchTypeOK
<1> QED
  BY <1>1, <1>2, <1>3, <1>4, RequestStep

\* processLine answers the line, once ledger.Run has returned.
LEMMA LineDoneInv ==
  ASSUME DispatchInv, NEW w \in Workers, LineDone(w)
  PROVE  DispatchInv'
<1>0. /\ UNCHANGED <<runVars, taken, handled, told>> /\ Busy(request[w])
      /\ run[w].at = "none" /\ Answer(w, Reply(error[w])) /\ request[w].on
      /\ UNCHANGED <<run, error, nils>>
  BY DEF LineDone, Busy, runVars
<1>1. /\ Line(w) \in Messages /\ request[w].todo # <<>> /\ VerifySignature(Mail[Line(w)])
  BY <1>0, BusyLine
<1>2. Reply(error[w]) \in Answers
  BY DEF Reply, Answers
<1>3. Reply(error[w]) = "replay" => Line(w) \in taken
  BY <1>0 DEF Reply, DispatchInv, LineInv, Known, Line
<1>4. Replies(request[w], taken) /\ DispatchTypeOK
  BY DEF DispatchInv, LineInv
<1>5. ~request'[w].running /\ \A v \in Workers \ {w} : request'[v] = request[v]
  BY <1>0, <1>1, <1>2, <1>3, <1>4, AnswerEffect
<1>6. LineAlone(w)
  BY <1>0, <1>5 DEF LineAlone, runVars, ledgerVars
<1>7. acks' \in [Messages -> Nat]
  BY <1>1, <1>4 DEF LineDone, DispatchTypeOK
<1>8. AckInv'
  <2>1. CASE error[w] # "nil"
    <3>1. acks' = acks
      BY <2>1 DEF LineDone, Reply
    <3> QED
      BY <1>0, <1>5, <1>6, <3>1, OthersAcks DEF Unanswered, Busy
  <2>2. CASE error[w] = "nil"
    <3> SUFFICES ASSUME ~Evicting PROVE AckInv'
      BY DEF AckInv
    <3>1. PICK x \in Messages : x = Line(w)
      BY <1>1
    <3>2. /\ nils[KeyOf(x)] = 1 /\ handled[x] # <<>>
          /\ \A m \in Messages : acks[m] = 1 => KeyOf(m) # KeyOf(x)
          /\ \A v \in Workers \ {w} :
               Unanswered(request[v], run[v], error[v]) => KeyOf(Line(v)) # KeyOf(x)
      BY <1>0, <2>2, <3>1 DEF DispatchInv, AckInv, Unanswered
    <3>3. /\ acks[x] \in Nat /\ acks[x] <= 1 /\ acks[x] # 1
      BY <1>4, <3>2 DEF DispatchInv, AckInv, DispatchTypeOK
    <3>4. acks'[x] = 1 /\ \A m \in Messages \ {x} : acks'[m] = acks[m]
      BY <1>4, <2>2, <3>1, <3>3 DEF LineDone, Reply, DispatchTypeOK
    <3>5. \A m \in Messages :
            acks'[m] <= 1 /\ (acks'[m] = 1 => nils'[KeyOf(m)] = 1 /\ handled'[m] # <<>>)
      BY <1>0, <3>2, <3>4 DEF DispatchInv, AckInv
    <3>6. ASSUME NEW v \in Workers, Unanswered(request'[v], run'[v], error'[v])
          PROVE  /\ nils'[KeyOf(Head(request'[v].todo))] = 1
                 /\ handled'[Head(request'[v].todo)] # <<>>
                 /\ \A m \in Messages :
                      acks'[m] = 1 => KeyOf(m) # KeyOf(Head(request'[v].todo))
                 /\ \A u \in Workers \ {v} :
                      Unanswered(request'[u], run'[u], error'[u]) =>
                        KeyOf(Head(request'[u].todo)) # KeyOf(Head(request'[v].todo))
      <4>1. v # w
        BY <1>5, <3>6 DEF Unanswered, Busy
      <4>2. Unanswered(request[v], run[v], error[v]) /\ request'[v] = request[v]
        BY <1>6, <3>6, <4>1 DEF LineAlone
      <4>3. /\ nils[KeyOf(Line(v))] = 1 /\ handled[Line(v)] # <<>>
            /\ \A m \in Messages : acks[m] = 1 => KeyOf(m) # KeyOf(Line(v))
            /\ \A u \in Workers \ {v} : Unanswered(request[u], run[u], error[u]) =>
                 KeyOf(Line(u)) # KeyOf(Line(v))
        BY <4>2 DEF DispatchInv, AckInv
      <4>4. KeyOf(Line(v)) # KeyOf(x)
        BY <3>2, <4>1, <4>2
      <4>5. \A m \in Messages : acks'[m] = 1 => KeyOf(m) # KeyOf(Line(v))
        BY <3>4, <4>3, <4>4
      <4>6. ASSUME NEW u \in Workers \ {v}, Unanswered(request'[u], run'[u], error'[u])
            PROVE  KeyOf(Head(request'[u].todo)) # KeyOf(Line(v))
        <5>1. u # w
          BY <1>5, <4>6 DEF Unanswered, Busy
        <5>2. Unanswered(request[u], run[u], error[u]) /\ request'[u] = request[u]
          BY <1>6, <4>6, <5>1 DEF LineAlone
        <5> QED
          BY <4>3, <5>2 DEF Line
      <4> QED
        BY <1>0, <4>2, <4>3, <4>5, <4>6 DEF Line
    <3> QED
      BY <3>5, <3>6 DEF AckInv, Line
  <2> QED
    BY <2>1, <2>2
<1> QED
  BY <1>0, <1>1, <1>2, <1>3, <1>7, <1>8, AnswerInv

\* The reply goes out.
LEMMA RequestDoneInv ==
  ASSUME DispatchInv, NEW w \in Workers, RequestDone(w)
  PROVE  DispatchInv'
<1>0. /\ UNCHANGED <<runVars, taken, handled, acks>> /\ request[w].on
      /\ request[w].todo = <<>> /\ request' = [request EXCEPT ![w] = NoRequest]
      /\ UNCHANGED <<run, error, nils>>
  BY DEF RequestDone, runVars
<1>1. DispatchTypeOK /\ request[w] \in RequestRecord
  BY <1>0 DEF DispatchInv, DispatchTypeOK, NoRequest
<1>2. /\ request' \in [Workers -> RequestRecord \cup {NoRequest}]
      /\ request'[w] = NoRequest /\ \A v \in Workers \ {w} : request'[v] = request[v]
  BY <1>0, <1>1 DEF DispatchTypeOK
<1>3. ~Busy(request[w]) /\ run[w].at = "none"
  BY <1>0 DEF DispatchInv, LineInv, Serving
<1>4. /\ Serving(NoRequest, run[w]) /\ Replies(NoRequest, taken) /\ ~Busy(NoRequest)
      /\ Known(NoRequest, run[w], pc[w], ret[w], error[w], taken)
  BY <1>3 DEF Serving, Known, Replies, Busy, NoRequest
<1>5. LineAlone(w)
  BY <1>0, <1>2 DEF LineAlone, runVars, ledgerVars
<1>6. AckInv'
  BY <1>0, <1>2, <1>4, <1>5, OthersAcks DEF Unanswered
<1>7. PICK q \in RequestRecord : q = request[w]
  BY <1>1
<1> DEFINE Of(m) == {q.reply[i] : i \in {j \in DOMAIN q.reply : q.body[j] = m}}
<1>8. told' = IF q.gone THEN told ELSE [m \in Messages |-> told[m] \cup Of(m)]
  BY <1>7 DEF RequestDone
<1>9. ASSUME NEW m \in Messages
      PROVE  Of(m) \subseteq Answers /\ ("replay" \in Of(m) => m \in taken)
  <2>1. q.reply \in Seq(Answers)
    BY DEF RequestRecord
  <2>2. \A i \in 1..Len(q.reply) : q.reply[i] = "replay" => q.body[i] \in taken
    BY <1>0, <1>7 DEF DispatchInv, LineInv, Replies
  <2>3. DOMAIN q.reply = 1..Len(q.reply) /\ \A i \in DOMAIN q.reply : q.reply[i] \in Answers
    BY <2>1
  <2> QED
    BY <2>2, <2>3
<1> HIDE DEF Of
<1>10. told' \in [Messages -> SUBSET Answers]
  BY <1>1, <1>8, <1>9 DEF DispatchTypeOK
<1>11. ReplayIsTruthful'
  <2>1. ASSUME NEW m \in Messages, "replay" \in told'[m]
        PROVE  m \in taken
    <3>1. "replay" \in told[m] => m \in taken
      BY DEF DispatchInv, ReplayIsTruthful
    <3>2. "replay" \in told[m] \/ "replay" \in Of(m)
      BY <1>8, <2>1
    <3> QED
      BY <1>9, <3>1, <3>2
  <2> QED
    BY <1>0, <2>1 DEF ReplayIsTruthful
<1>12. acks' \in [Messages -> Nat]
  BY <1>0, <1>1 DEF DispatchTypeOK
<1> QED
  BY <1>0, <1>2, <1>4, <1>6, <1>10, <1>11, <1>12, RequestStep

\* What has to be shown of a step of ledger.Run in a line of w.
LEMMA RunLineStep ==
  ASSUME DispatchInv, NEW w \in Workers, LineAlone(w), Busy(request'[w]),
         \A v \in Workers \ {w} : call'[v] = call[v],
         request' \in [Workers -> RequestRecord \cup {NoRequest}],
         UNCHANGED <<acks, told>>, taken \subseteq taken', taken' \subseteq Messages,
         handled' \in [Messages -> Seq(BOOLEAN)],
         \A k \in Keys : PlainTask(tasks'[k]), PlainCall(pc'[w], call'[w]), TakenInv',
         Serving(request'[w], run'[w]), Replies(request'[w], taken),
         Known(request'[w], run'[w], pc'[w], ret'[w], error'[w], taken'), AckInv'
  PROVE  DispatchInv'
<1>1. DispatchTypeOK'
  BY DEF DispatchInv, DispatchTypeOK
<1>2. PlainInv'
  <2>1. \A v \in Workers \ {w} : PlainCall(pc'[v], call'[v])
    BY DEF DispatchInv, PlainInv, LineAlone
  <2> QED
    BY <2>1 DEF PlainInv
<1>3. Replies(request'[w], taken')
  BY DEF Replies
<1>4. LineInv'
  BY <1>3, LinesKept DEF DispatchInv
<1>5. ReplayIsTruthful'
  BY DEF DispatchInv, ReplayIsTruthful
<1> QED
  BY <1>1, <1>2, <1>4, <1>5 DEF DispatchInv

\* processLine up to ledger.Run.
LEMMA ProcessLineInv ==
  ASSUME RunIInv, DispatchInv, NEW w \in Workers, ProcessLine(w)
  PROVE  DispatchInv'
<1>0. /\ request[w].on /\ request[w].todo # <<>> /\ ~request[w].running
      /\ UNCHANGED <<taken, handled, acks, told>> /\ DispatchTypeOK /\ RunTypeOK
      /\ ControlTypeOK
  BY DEF ProcessLine, DispatchInv, RunIInv, RunInv, IInv, TypeOK, ControlTypeOK
<1>1. /\ request[w] \in RequestRecord /\ Line(w) \in Messages /\ KeyOf(Line(w)) \in Keys
  BY <1>0, LineIsMessage
<1>2. ~Busy(request[w]) /\ run[w].at = "none" /\ Replies(request[w], taken)
  BY <1>0 DEF DispatchInv, LineInv, Serving, Busy
<1>3. CASE Answer(w, "error") /\ UNCHANGED runVars
  <2>1. ~request'[w].running /\ \A v \in Workers \ {w} : request'[v] = request[v]
    BY <1>0, <1>2, <1>3, AnswerEffect DEF Answers
  <2>2. LineAlone(w) /\ UNCHANGED <<run, error, nils>>
    BY <1>3, <2>1 DEF LineAlone, runVars, ledgerVars
  <2>3. AckInv'
    BY <1>0, <2>1, <2>2, OthersAcks DEF Unanswered, Busy
  <2>4. acks' \in [Messages -> Nat]
    BY <1>0 DEF DispatchTypeOK
  <2> QED
    BY <1>0, <1>2, <1>3, <2>3, <2>4, AnswerInv DEF Answers
<1>4. CASE /\ VerifySignature(Mail[Line(w)]) /\ RunStart(w, KeyOf(Line(w)), 1, <<>>)
           /\ request' = [request EXCEPT ![w].running = TRUE]
  <2>1. PICK q \in RequestRecord : q = request[w]
    BY <1>1
  <2> DEFINE d == [q EXCEPT !.running = TRUE]
  <2>2. /\ d \in RequestRecord /\ d.on /\ d.running /\ d.todo = q.todo
        /\ d.reply = q.reply /\ d.body = q.body
    BY DEF RequestRecord
  <2>3. request' = [request EXCEPT ![w] = d]
    BY <1>0, <1>4, <2>1 DEF DispatchTypeOK
  <2> HIDE DEF d
  <2>4. /\ request' \in [Workers -> RequestRecord \cup {NoRequest}] /\ request'[w] = d
        /\ \A v \in Workers \ {w} : request'[v] = request[v]
    BY <1>0, <2>2, <2>3 DEF DispatchTypeOK
  <2> DEFINE r == [NoRun EXCEPT !.at = "Admit", !.key = KeyOf(Line(w))]
             c == [NoCall EXCEPT !.op = "Admit", !.key = KeyOf(Line(w)), !.seq = 1,
                                 !.needs = <<>>, !.now = clock]
  <2>5. /\ run' = [run EXCEPT ![w] = r] /\ error' = [error EXCEPT ![w] = "none"]
        /\ pc' = [pc EXCEPT ![w] = "AdmitLoad"] /\ call' = [call EXCEPT ![w] = c]
        /\ ret' = [ret EXCEPT ![w] = "none"] /\ UNCHANGED <<nils, tasks>>
    BY <1>4 DEF RunStart, AdmitStart, Begin, storeVars
  <2>6. /\ c.needs = <<>> /\ c.queue = <<>> /\ c.cur = NoTask
        /\ r.at = "Admit" /\ r.key = KeyOf(Line(w))
    BY DEF NoCall, NoRun
  <2> HIDE DEF r, c
  <2>7. run'[w] = r /\ pc'[w] = "AdmitLoad" /\ call'[w] = c /\ error'[w] = "none"
    BY <1>0, <2>5 DEF RunTypeOK, ControlTypeOK
  <2>8. LineAlone(w) /\ \A v \in Workers \ {w} : call'[v] = call[v]
    BY <1>0, <2>4, <2>5 DEF LineAlone, RunTypeOK, ControlTypeOK
  <2>9. PlainCall(pc'[w], call'[w])
    BY <2>6, <2>7 DEF PlainCall, Blocking
  <2>10. Busy(request'[w]) /\ Serving(request'[w], run'[w]) /\ Replies(request'[w], taken)
    <3>1. Busy(d)
      BY <2>2 DEF Busy
    <3>2. d.todo # <<>> /\ Head(d.todo) = Line(w)
      BY <1>0, <2>1, <2>2 DEF Line
    <3>3. Serving(d, r)
      BY <1>4, <2>6, <3>1, <3>2 DEF Serving
    <3>4. Replies(d, taken)
      BY <1>0, <1>2, <2>1, <2>2 DEF Replies
    <3> QED
      BY <2>4, <2>7, <3>1, <3>3, <3>4
  <2>11. Known(request'[w], run'[w], pc'[w], ret'[w], error'[w], taken')
    BY <2>6, <2>7 DEF Known
  <2>12. AckInv'
    BY <1>0, <2>5, <2>6, <2>7, <2>8, OthersAcks DEF Unanswered
  <2>13. /\ \A k \in Keys : PlainTask(tasks'[k])
         /\ TakenInv'
    BY <1>0, <2>5 DEF DispatchInv, PlainInv, TakenInv
  <2>14. taken' = taken /\ taken' \subseteq Messages /\ handled' \in [Messages -> Seq(BOOLEAN)]
    BY <1>0 DEF DispatchTypeOK
  <2> QED
    BY <1>0, <2>4, <2>8, <2>9, <2>10, <2>11, <2>12, <2>13, <2>14, RunLineStep
<1> QED
  BY <1>3, <1>4 DEF ProcessLine, KeyOf

\* A step of a Run that is under way: nothing returns, and it stays with the
\* task of its line.
LEMMA RunMoves ==
  ASSUME RunIInv, DispatchInv, NEW w \in Workers, RunLine(w), Alone(w),
         UNCHANGED <<error, nils>>, run'[w].at # "none", run'[w].key = run[w].key,
         \A k \in Keys : PlainTask(tasks'[k]), PlainCall(pc'[w], call'[w]), TakenInv',
         taken \subseteq taken', taken' \subseteq Messages,
         Known(request[w], run'[w], pc'[w], ret'[w], error[w], taken')
  PROVE  DispatchInv'
<1>0. /\ request' = request /\ UNCHANGED <<acks, told>> /\ Busy(request[w])
      /\ run[w].at # "none" /\ handled' = handled
  BY DEF RunLine, Busy
<1>1. Serving(request'[w], run'[w])
  BY <1>0 DEF DispatchInv, LineInv, Serving
<1>2. LineAlone(w) /\ \A v \in Workers \ {w} : call'[v] = call[v]
  BY <1>0 DEF Alone, LineAlone
<1>3. AckInv'
  BY <1>0, <1>2, OthersAcks DEF Unanswered
<1>4. Replies(request'[w], taken)
  BY <1>0 DEF DispatchInv, LineInv
<1>5. /\ request' \in [Workers -> RequestRecord \cup {NoRequest}]
      /\ handled' \in [Messages -> Seq(BOOLEAN)]
  BY <1>0 DEF DispatchInv, DispatchTypeOK
<1>6. Busy(request'[w]) /\ Known(request'[w], run'[w], pc'[w], ret'[w], error'[w], taken')
  BY <1>0
<1> QED
  BY <1>0, <1>1, <1>2, <1>3, <1>4, <1>5, <1>6, RunLineStep

\* A store call of the line.
LEMMA LedgerLineInv ==
  ASSUME RunIInv, DispatchInv, NEW w \in Workers, RunLine(w), LedgerStep(w)
  PROVE  DispatchInv'
<1>0. /\ IInv /\ Pre /\ ControlTypeOK /\ RunTypeOK /\ Busy(request[w]) /\ PlainInv
      /\ Step(w) \/ Abort(w)
  BY DEF RunIInv, RunInv, IInv, TypeOK, Pre, ControlInv, ControlTypeOK, RunLine, Busy,
     LedgerStep, DispatchInv
<1>1. PlainStep(w)
  BY <1>0, StepIsPlain
<1>2. /\ Line(w) \in Messages /\ run[w].key = KeyOf(Line(w)) /\ KeyOf(Line(w)) \in Keys
      /\ VerifySignature(Mail[Line(w)]) /\ run[w].at # "none" /\ taken \subseteq Messages
  BY <1>0, BusyLine DEF RunLine, DispatchInv, DispatchTypeOK
<1>3. /\ pc[w] # "idle" /\ Stage(run[w], pc[w], call[w], clock)
      /\ CallInv(pc[w], call[w]) /\ call[w].key = run[w].key
      /\ run[w] \in RunRecord
  <2>1. pc[w] # "idle"
    BY <1>0 DEF Step, Abort, AdmitLoad, AdmitNeeds, AdmitCAS, RecheckNeeds, RecheckLoad,
       ClaimLoad, Walk, ClaimCAS, OwnerLoad, OwnerCAS, BlockDependents, BlockCAS, BlockLoad
  <2> QED
    BY <1>0, <2>1 DEF RunIInv, RunInv, StageInv, Stage, RunTypeOK, Pre, ControlInv
<1>4. Known(request[w], run[w], pc[w], ret[w], error[w], taken)
  BY DEF DispatchInv, LineInv
<1>5. CASE grants' # grants
  <2>1. /\ pc[w] = "Walk" /\ pc'[w] = "idle" /\ ret'[w] = "ok"
    BY <1>0, <1>5, GrantReturns
  <2>2. run[w].at = "Claim"
    BY <1>3, <2>1 DEF Stage, CallInv, ClaimOps, RunRecord
  <2> DEFINE r == [run[w] EXCEPT !.until = call[w].now + call[w].lease,
                                 !.seq = call[w].cur.seq]
  <2>3. run' = [run EXCEPT ![w] = r] /\ UNCHANGED <<error, nils>>
    BY <1>5 DEF LedgerStep, RunGoes
  <2>4. r.at = run[w].at /\ r.key = run[w].key
    BY <1>3 DEF RunRecord
  <2> HIDE DEF r
  <2>5. run'[w] = r /\ Alone(w)
    BY <1>0, <2>3, LedgerAlone DEF RunTypeOK
  <2>6. taken' = taken \cup {Line(w)}
    BY <1>5 DEF RunLine
  <2>7. TakenInv'
    <3> SUFFICES ASSUME NEW k \in Keys, tasks'[k] # NoTask, tasks'[k].status # "pending"
                 PROVE  Claims(k, taken')
      BY DEF TakenInv
    <3>1. CASE tasks[k] # NoTask /\ tasks[k].status # "pending"
      BY <2>6, <3>1 DEF DispatchInv, TakenInv, Claims
    <3>2. CASE k = call[w].key
      BY <1>2, <1>3, <2>6, <3>2 DEF Claims
    <3> QED
      BY <1>1, <3>1, <3>2 DEF PlainStep
  <2>8. Known(request[w], run'[w], pc'[w], ret'[w], error[w], taken')
    BY <2>2, <2>4, <2>5, <2>6 DEF Known, Line
  <2>9. taken \subseteq taken' /\ taken' \subseteq Messages
    BY <1>2, <2>6
  <2>10. /\ \A k \in Keys : PlainTask(tasks'[k])
         /\ PlainCall(pc'[w], call'[w])
    BY <1>1 DEF PlainStep
  <2> QED
    BY <1>2, <2>3, <2>4, <2>5, <2>7, <2>8, <2>9, <2>10, RunMoves
<1>6. CASE grants' = grants
  <2>1. UNCHANGED <<run, error, nils>> /\ taken' = taken
    BY <1>6 DEF LedgerStep, RunLine
  <2>2. Alone(w)
    BY <1>0, <2>1, LedgerAlone DEF RunTypeOK
  <2>3. pc'[w] = "idle" /\ ret'[w] = "ok" => pc[w] # "Walk" /\ call[w].op # "Claim"
    <3> SUFFICES ASSUME pc'[w] = "idle", ret'[w] = "ok"
                 PROVE  pc[w] # "Walk" /\ call[w].op # "Claim"
      OBVIOUS
    <3>1. \/ pc[w] = "OwnerCAS"
          \/ pc[w] \in {"Range"} \cup Blocking /\ call[w].op \notin {"Admit"} \cup ClaimOps
      BY <1>0, <1>6, OkReturn
    <3> QED
      BY <1>3, <3>1 DEF CallInv, OwnerOps, ClaimOps, Blocking
  <2>4. TakenInv'
    BY <1>1, <2>1, <2>3 DEF PlainStep, DispatchInv, TakenInv
  <2>5. Known(request[w], run[w], pc'[w], ret'[w], error[w], taken)
    <3>1. run[w].at = "Admit" /\ pc'[w] = "idle" =>
            ret'[w] \in {"true", "false", "ErrInvalid", "fault"}
      BY <1>1, <1>3 DEF PlainStep, Stage
    <3>2. ASSUME run[w].at = "Claim", pc'[w] = "idle", ret'[w] \in ReplaySentinels \cup {"ok"}
          PROVE  Line(w) \in taken
      <4>1. call[w].op = "Claim"
        BY <1>3, <3>2 DEF Stage
      <4>2. ret'[w] \in ReplaySentinels
        BY <2>3, <3>2, <4>1
      <4>3. tasks[run[w].key] # NoTask /\ tasks[run[w].key].status # "pending"
        BY <1>1, <1>3, <3>2, <4>1, <4>2 DEF PlainStep
      <4> QED
        BY <1>0, <1>2, <4>3, SeenIsTaken
    <3> QED
      BY <1>2, <1>4, <3>1, <3>2 DEF Known, Line
  <2>6. /\ \A k \in Keys : PlainTask(tasks'[k])
        /\ PlainCall(pc'[w], call'[w])
    BY <1>1 DEF PlainStep
  <2> QED
    BY <1>2, <2>1, <2>2, <2>4, <2>5, <2>6, RunMoves
<1> QED
  BY <1>5, <1>6

\* Between two store calls the line goes on.
LEMMA LineGoesOnInv ==
  ASSUME RunIInv, DispatchInv, NEW w \in Workers, RunLine(w),
         StateOpen(w) \/ WorkBegins(w) \/ WorkEnds(w)
  PROVE  DispatchInv'
<1>0. /\ IInv /\ ControlTypeOK /\ RunTypeOK /\ Busy(request[w]) /\ pc[w] = "idle"
      /\ run[w] \in RunRecord /\ PlainCall(pc[w], call[w])
  BY DEF RunIInv, RunInv, RunTypeOK, IInv, TypeOK, ControlTypeOK, RunLine, Busy,
     StateOpen, WorkBegins, WorkEnds, Between, DispatchInv, PlainInv
<1>1. /\ UNCHANGED <<tasks, grants>> /\ taken' = taken /\ taken \subseteq Messages
  BY DEF StateOpen, WorkBegins, WorkEnds, ClaimStart, OwnerStart, Begin, storeVars,
     ledgerVars, RunLine, DispatchInv, DispatchTypeOK
<1>2. Known(request[w], run[w], pc[w], ret[w], error[w], taken)
  BY DEF DispatchInv, LineInv
<1>3. TakenInv' /\ \A k \in Keys : PlainTask(tasks'[k])
  BY <1>1 DEF DispatchInv, TakenInv, PlainInv
<1>4. ASSUME NEW r \in RunRecord, RunGoes(w, r), r.at # "none", r.key = run[w].key,
             Start(w) \/ UNCHANGED ledgerVars, PlainCall(pc'[w], call'[w]),
             Known(request[w], r, pc'[w], ret'[w], error[w], taken)
      PROVE  DispatchInv'
  <2>1. run'[w] = r /\ UNCHANGED <<error, nils>> /\ Alone(w)
    BY <1>0, <1>4, LedgerAlone DEF RunGoes, RunTypeOK
  <2> QED
    BY <1>1, <1>3, <1>4, <2>1, RunMoves
<1>5. ASSUME NEW label \in {"ClaimLoad", "OwnerLoad"}, NEW c, Begin(w, label, c),
             c.needs = <<>>, c.queue = <<>>, c.cur = NoTask
      PROVE  PlainCall(pc'[w], call'[w]) /\ pc'[w] = label
  <2>1. pc'[w] = label /\ call'[w] = c
    BY <1>0, <1>5 DEF Begin, ControlTypeOK
  <2> QED
    BY <1>5, <2>1 DEF PlainCall, Blocking
<1>6. CASE StateOpen(w)
  <2>1. PICK lease \in Leases : ClaimStart(w, "Claim", run[w].key, lease)
    BY <1>6 DEF StateOpen
  <2> DEFINE c == [NoCall EXCEPT !.op = "Claim", !.key = run[w].key, !.lease = lease,
                                 !.now = clock]
             r == [run[w] EXCEPT !.at = "Claim"]
  <2>2. Begin(w, "ClaimLoad", c) /\ RunGoes(w, r)
    BY <1>6, <2>1 DEF ClaimStart, StateOpen
  <2>3. /\ c.needs = <<>> /\ c.queue = <<>> /\ c.cur = NoTask
        /\ r \in RunRecord /\ r.at = "Claim" /\ r.key = run[w].key
    BY <1>0 DEF NoCall, RunRecord
  <2> HIDE DEF c, r
  <2>4. PlainCall(pc'[w], call'[w]) /\ pc'[w] = "ClaimLoad"
    BY <1>5, <2>2, <2>3
  <2>5. Known(request[w], r, pc'[w], ret'[w], error[w], taken)
    BY <2>3, <2>4 DEF Known
  <2>6. Start(w)
    <3>1. run[w].key \in Keys
      BY <1>6 DEF StateOpen, Between, RunIInv, RunInv, StageInv, Stage
    <3> QED
      BY <2>1, <3>1 DEF Start, ClaimOps
  <2> QED
    BY <1>4, <2>2, <2>3, <2>4, <2>5, <2>6
<1>7. CASE WorkBegins(w)
  <2> DEFINE r == [run[w] EXCEPT !.at = "work", !.fence = Token(w, run[w].key)]
  <2>1. /\ RunGoes(w, r) /\ UNCHANGED ledgerVars /\ run[w].at = "Claim" /\ ret[w] = "ok"
    BY <1>7 DEF WorkBegins, Between
  <2>2. r.at = "work" /\ r.key = run[w].key
    BY <1>0 DEF RunRecord
  <2> HIDE DEF r
  <2>3. Head(request[w].todo) \in taken
    BY <1>0, <1>2, <2>1 DEF Known
  <2>4. Known(request[w], r, pc'[w], ret'[w], error[w], taken)
    BY <2>2, <2>3 DEF Known
  <2>5. run'[w] = r /\ UNCHANGED <<error, nils>> /\ Alone(w)
    BY <1>0, <2>1, LedgerAlone DEF RunGoes, RunTypeOK
  <2>6. PlainCall(pc'[w], call'[w])
    BY <1>0, <2>1 DEF ledgerVars
  <2> QED
    BY <1>1, <1>3, <2>2, <2>4, <2>5, <2>6, RunMoves
<1>8. CASE WorkEnds(w)
  <2>1. PICK status \in {"completed", "failed"} :
          /\ OwnerStart(w, "Complete", run[w].key, run[w].fence, 0, status)
          /\ RunGoes(w, [run[w] EXCEPT !.at = "Complete", !.status = status])
    BY <1>8 DEF WorkEnds
  <2> DEFINE c == [NoCall EXCEPT !.op = "Complete", !.key = run[w].key,
                                 !.fence = run[w].fence, !.lease = 0,
                                 !.status = status, !.now = clock]
             r == [run[w] EXCEPT !.at = "Complete", !.status = status]
  <2>2. Begin(w, "OwnerLoad", c) /\ RunGoes(w, r)
    BY <2>1 DEF OwnerStart
  <2>3. /\ c.needs = <<>> /\ c.queue = <<>> /\ c.cur = NoTask
        /\ r \in RunRecord /\ r.at = "Complete" /\ r.key = run[w].key
    BY <1>0 DEF NoCall, RunRecord
  <2> HIDE DEF c, r
  <2>4. PlainCall(pc'[w], call'[w]) /\ pc'[w] = "OwnerLoad"
    BY <1>5, <2>2, <2>3
  <2>5. Head(request[w].todo) \in taken
    BY <1>0, <1>2, <1>8 DEF Known, WorkEnds, Between
  <2>6. Known(request[w], r, pc'[w], ret'[w], error[w], taken)
    BY <2>3, <2>5 DEF Known
  <2>7. Start(w)
    <3>1. PICK g \in grants : g[1] = run[w].key /\ g[2] = run[w].fence
      BY <1>8 DEF WorkEnds, Between, RunIInv, RunInv, TokenInv, Tokens
    <3> QED
      BY <2>1, <3>1 DEF Start
  <2> QED
    BY <1>4, <2>2, <2>3, <2>4, <2>6, <2>7
<1> QED
  BY <1>6, <1>7, <1>8

\* ledger.Run returns to the line.
LEMMA LineEnds ==
  ASSUME RunIInv, DispatchInv, NEW w \in Workers, RunLine(w), NEW err \in Errors,
         RunEnds(w, err), UNCHANGED ledgerVars,
         err \in ReplaySentinels => Line(w) \in taken,
         err = "nil" => Finished(run[w], pc[w], ret[w])
  PROVE  DispatchInv'
<1>0. /\ request' = request /\ UNCHANGED <<acks, told>> /\ Busy(request[w])
      /\ run[w].at # "none" /\ taken' = taken /\ DispatchTypeOK
      /\ UNCHANGED <<tasks, pc, call, ret>> /\ RunTypeOK /\ ControlTypeOK
  BY DEF RunLine, Busy, ledgerVars, DispatchInv, RunIInv, RunInv, IInv, TypeOK,
     ControlTypeOK
<1>1. PICK x \in Messages : x = Line(w)
  BY <1>0, BusyLine
<1>2. run[w].key = KeyOf(x) /\ KeyOf(x) \in Keys
  BY <1>0, <1>1, BusyLine
<1>3. run'[w] = NoRun /\ NoRun.at = "none"
  BY <1>0, <1>2, RunEndsAt DEF NoRun
<1>4. /\ error'[w] = err /\ \A v \in Workers \ {w} : error'[v] = error[v]
  BY <1>0 DEF RunEnds, RunTypeOK
<1>5. Alone(w)
  BY <1>0, LedgerAlone DEF RunEnds, RunTypeOK
<1>6. LineAlone(w) /\ \A v \in Workers \ {w} : call'[v] = call[v]
  BY <1>0, <1>4, <1>5 DEF Alone, LineAlone
<1>7. Serving(request'[w], run'[w]) /\ Replies(request'[w], taken)
  BY <1>0, <1>3 DEF DispatchInv, LineInv, Serving
<1>8. Known(request'[w], run'[w], pc'[w], ret'[w], error'[w], taken')
  BY <1>0, <1>3, <1>4 DEF Known, Line
<1>9. /\ handled' \in [Messages -> Seq(BOOLEAN)]
      /\ \A m \in Messages : handled[m] # <<>> => handled'[m] # <<>>
      /\ err = "nil" => handled'[x] # <<>>
  <2> DEFINE b == clock < run[w].until
             succeeds == run[w].at = "Complete" /\ run[w].status = "completed"
  <2>1. handled' = IF succeeds THEN [handled EXCEPT ![x] = Append(handled[x], b)]
                   ELSE handled
    BY <1>1, <1>3 DEF RunLine
  <2>2. handled \in [Messages -> Seq(BOOLEAN)] /\ b \in BOOLEAN
    BY <1>0 DEF DispatchTypeOK
  <2>3. handled[x] \in Seq(BOOLEAN)
    BY <2>2
  <2> HIDE DEF b
  <2>4. Append(handled[x], b) \in Seq(BOOLEAN) /\ Append(handled[x], b) # <<>>
    BY <2>2, <2>3
  <2>5. err = "nil" => succeeds
    BY DEF Finished
  <2> HIDE DEF succeeds
  <2> QED
    BY <2>1, <2>2, <2>4, <2>5
<1>10. AckInv'
  <2>1. CASE err # "nil"
    <3>1. nils' = nils
      BY <2>1 DEF RunEnds
    <3> QED
      BY <1>0, <1>4, <1>6, <1>9, <2>1, <3>1, OthersAcks DEF Unanswered
  <2>2. CASE err = "nil"
    <3> SUFFICES ASSUME ~Evicting PROVE AckInv'
      BY DEF AckInv
    <3>1. nils[KeyOf(x)] = 0
      BY <1>2, <2>2 DEF RunIInv, RunInv, NilInv
    <3>2. nils'[KeyOf(x)] = 1 /\ \A k \in Keys \ {KeyOf(x)} : nils'[k] = nils[k]
      BY <1>0, <1>2, <2>2, <3>1 DEF RunEnds, RunTypeOK
    <3>3. \A m \in Messages : acks[m] = 1 => KeyOf(m) # KeyOf(x)
      BY <3>1 DEF DispatchInv, AckInv
    <3>4. \A m \in Messages : KeyOf(m) \in Keys
      BY MailAssumption DEF KeyOf
    <3>5. \A m \in Messages :
            acks'[m] <= 1 /\ (acks'[m] = 1 => nils'[KeyOf(m)] = 1 /\ handled'[m] # <<>>)
      BY <1>0, <1>9, <3>2, <3>3, <3>4 DEF DispatchInv, AckInv
    <3>6. ASSUME NEW v \in Workers \ {w}, Unanswered(request'[v], run'[v], error'[v])
          PROVE  /\ request'[v] = request[v] /\ Unanswered(request[v], run[v], error[v])
                 /\ Line(v) \in Messages /\ nils[KeyOf(Line(v))] = 1
                 /\ KeyOf(Line(v)) # KeyOf(x) /\ handled[Line(v)] # <<>>
                 /\ \A m \in Messages : acks[m] = 1 => KeyOf(m) # KeyOf(Line(v))
                 /\ \A u \in Workers \ {v} : Unanswered(request[u], run[u], error[u]) =>
                      KeyOf(Line(u)) # KeyOf(Line(v))
      <4>1. Unanswered(request[v], run[v], error[v]) /\ request'[v] = request[v]
        BY <1>6, <3>6 DEF LineAlone
      <4>2. Line(v) \in Messages
        BY <4>1, BusyLine DEF Unanswered
      <4>3. /\ nils[KeyOf(Line(v))] = 1 /\ handled[Line(v)] # <<>>
            /\ \A m \in Messages : acks[m] = 1 => KeyOf(m) # KeyOf(Line(v))
            /\ \A u \in Workers \ {v} : Unanswered(request[u], run[u], error[u]) =>
                 KeyOf(Line(u)) # KeyOf(Line(v))
        BY <4>1 DEF DispatchInv, AckInv
      <4> QED
        BY <3>1, <4>1, <4>2, <4>3
    <3>7. ASSUME NEW v \in Workers, Unanswered(request'[v], run'[v], error'[v])
          PROVE  /\ nils'[KeyOf(Head(request'[v].todo))] = 1
                 /\ handled'[Head(request'[v].todo)] # <<>>
                 /\ \A m \in Messages :
                      acks'[m] = 1 => KeyOf(m) # KeyOf(Head(request'[v].todo))
                 /\ \A u \in Workers \ {v} :
                      Unanswered(request'[u], run'[u], error'[u]) =>
                        KeyOf(Head(request'[u].todo)) # KeyOf(Head(request'[v].todo))
      <4>1. CASE v = w
        <5>1. Head(request'[v].todo) = x
          BY <1>0, <1>1, <4>1 DEF Line
        <5>2. \A u \in Workers \ {w} : Unanswered(request'[u], run'[u], error'[u]) =>
                KeyOf(Head(request'[u].todo)) # KeyOf(x)
          BY <3>6 DEF Line
        <5> QED
          BY <1>0, <1>9, <2>2, <3>2, <3>3, <4>1, <5>1, <5>2
      <4>2. CASE v # w
        <5>1. Head(request'[v].todo) = Line(v)
          BY <3>6, <3>7, <4>2 DEF Line
        <5>2. nils'[KeyOf(Line(v))] = 1
          BY <3>2, <3>4, <3>6, <3>7, <4>2
        <5>3. handled'[Line(v)] # <<>>
          BY <1>9, <3>6, <3>7, <4>2
        <5>4. \A m \in Messages : acks'[m] = 1 => KeyOf(m) # KeyOf(Line(v))
          BY <1>0, <3>6, <3>7, <4>2
        <5>5. ASSUME NEW u \in Workers \ {v}, Unanswered(request'[u], run'[u], error'[u])
              PROVE  KeyOf(Head(request'[u].todo)) # KeyOf(Line(v))
          <6>1. CASE u = w
            BY <1>0, <1>1, <3>6, <3>7, <4>2, <6>1 DEF Line
          <6>2. CASE u # w
            BY <3>6, <3>7, <4>2, <5>5, <6>2 DEF Line
          <6> QED
            BY <6>1, <6>2
        <5> QED
          BY <5>1, <5>2, <5>3, <5>4, <5>5
      <4> QED
        BY <4>1, <4>2
    <3> QED
      BY <3>5, <3>7 DEF AckInv, Line
  <2> QED
    BY <2>1, <2>2
<1>11. /\ TakenInv' /\ PlainCall(pc'[w], call'[w])
       /\ \A k \in Keys : PlainTask(tasks'[k])
  BY <1>0 DEF DispatchInv, TakenInv, PlainInv
<1>12. request' \in [Workers -> RequestRecord \cup {NoRequest}] /\ taken' \subseteq Messages
  BY <1>0 DEF DispatchTypeOK
<1> QED
  BY <1>0, <1>6, <1>7, <1>8, <1>9, <1>10, <1>11, <1>12, RunLineStep

\* Every way ledger.Run returns.
LEMMA LineEndsInv ==
  ASSUME RunIInv, DispatchInv, NEW w \in Workers, RunLine(w),
         AdmitFails(w) \/ StateEnds(w) \/ ClaimFails(w) \/ RunReturns(w)
  PROVE  DispatchInv'
<1>0. /\ UNCHANGED ledgerVars /\ pc[w] = "idle" /\ run[w].at # "none"
      /\ ret[w] \in Results /\ run[w] \in RunRecord /\ Busy(request[w])
  BY DEF AdmitFails, StateEnds, ClaimFails, RunReturns, Between, RunIInv, RunInv,
     RunTypeOK, IInv, TypeOK, RunLine, Busy
<1>1. Results \subseteq Errors /\ "nil" \notin Results
  BY DEF Results, Errors
<1>2. Known(request[w], run[w], pc[w], ret[w], error[w], taken)
  BY DEF DispatchInv, LineInv
<1>3. CASE AdmitFails(w)
  <2>1. RunEnds(w, ret[w]) /\ ret[w] \notin ReplaySentinels
    BY <1>0, <1>2, <1>3 DEF AdmitFails, Between, Known, ReplaySentinels
  <2> QED
    BY <1>0, <1>1, <2>1, LineEnds
<1>4. CASE ClaimFails(w)
  <2>1. RunEnds(w, ret[w]) /\ (ret[w] \in ReplaySentinels => Line(w) \in taken)
    BY <1>0, <1>2, <1>4 DEF ClaimFails, Between, Known, Line
  <2> QED
    BY <1>0, <1>1, <2>1, LineEnds
<1>5. CASE StateEnds(w)
  <2>1. PICK err \in StateErrors(tasks[run[w].key]) : RunEnds(w, err)
    BY <1>5 DEF StateEnds
  <2>2. err \in Errors \ {"nil"}
    BY DEF StateErrors, TaskError, IsTerminal, Terminal, Errors, Results
  <2>3. err = "fault" \/ (/\ tasks[run[w].key] # NoTask
                          /\ tasks[run[w].key].status # "pending")
    BY DEF StateErrors, IsTerminal, Terminal
  <2>4. err \in ReplaySentinels => Line(w) \in taken
    BY <1>0, <2>3, SeenIsTaken DEF ReplaySentinels
  <2> QED
    BY <1>0, <2>1, <2>2, <2>4, LineEnds
<1>6. CASE RunReturns(w)
  <2>1. run[w].at = "Complete" /\ run[w].status \in {"completed", "failed"}
    BY <1>0, <1>6 DEF RunReturns, Between, RunRecord
  <2>2. Line(w) \in taken
    BY <1>0, <1>2, <2>1 DEF Known, Line
  <2>3. CASE run[w].status = "failed"
    <3>1. RunEnds(w, "workErr")
      BY <1>6, <2>3 DEF RunReturns
    <3> QED
      BY <1>0, <2>2, <3>1, LineEnds DEF Errors
  <2>4. CASE run[w].status = "completed" /\ ret[w] = "ok"
    <3>1. RunEnds(w, "nil")
      BY <1>6, <2>4 DEF RunReturns
    <3>2. Finished(run[w], pc[w], ret[w])
      BY <1>0, <2>1, <2>4 DEF Finished
    <3> QED
      BY <1>0, <2>2, <3>1, <3>2, LineEnds DEF Errors
  <2>5. CASE run[w].status = "completed" /\ ret[w] # "ok"
    <3>1. RunEnds(w, ret[w])
      BY <1>6, <2>5 DEF RunReturns
    <3> QED
      BY <1>0, <1>1, <2>2, <3>1, LineEnds
  <2> QED
    BY <2>1, <2>3, <2>4, <2>5
<1> QED
  BY <1>3, <1>4, <1>5, <1>6

-----------------------------------------------------------------------------
(* The invariant of the endpoint is inductive.                             *)

\* An endpoint that has served nothing.
LEMMA DispatchInitial == DispatchInit => DispatchIInv
<1> SUFFICES ASSUME DispatchInit PROVE DispatchIInv
  OBVIOUS
<1>1. RunIInv
  BY RunInitial DEF DispatchInit
<1>2. /\ \A w \in Workers : /\ request[w] = NoRequest /\ run[w] = NoRun
                            /\ pc[w] = "idle" /\ call[w] = NoCall
      /\ \A k \in Keys : tasks[k] = NoTask
      /\ \A m \in Messages : acks[m] = 0 /\ told[m] = {}
  BY DEF DispatchInit, RunInit, Init, StoreInit
<1>3. DispatchTypeOK
  <2>1. <<>> \in Seq(BOOLEAN)
    OBVIOUS
  <2> QED
    BY <2>1 DEF DispatchInit, DispatchTypeOK
<1>4. PlainInv /\ TakenInv
  BY <1>2 DEF PlainInv, TakenInv, PlainCall, PlainTask, NoCall, Blocking
<1>5. LineInv
  <2>1. ~Busy(NoRequest) /\ ~NoRequest.on /\ NoRun.at = "none"
    BY DEF Busy, NoRequest, NoRun
  <2> QED
    BY <1>2, <2>1 DEF LineInv, Serving, Known, Replies
<1>6. AckInv /\ ReplayIsTruthful
  BY <1>2 DEF AckInv, ReplayIsTruthful, Unanswered, Busy, NoRequest
<1> QED
  BY <1>1, <1>3, <1>4, <1>5, <1>6 DEF DispatchIInv, DispatchInv

\* Every step of the endpoint.
LEMMA DispatchStep == DispatchIInv /\ [DispatchNext]_dispatchVars => DispatchIInv'
<1> SUFFICES ASSUME DispatchIInv, [DispatchNext]_dispatchVars PROVE DispatchIInv'
  OBVIOUS
<1>0. RunIInv /\ DispatchInv
  BY DEF DispatchIInv
<1>1. RunIInv'
  BY <1>0, DispatchIsRunStep, RunStep
<1>2. ASSUME UNCHANGED <<tasks, pc, call, ret, run, error, nils>>, Others
      PROVE  DispatchInv'
  BY <1>0, <1>2, NothingChanges DEF Others
<1>3. CASE UNCHANGED dispatchVars
  BY <1>1, <1>2, <1>3 DEF dispatchVars, runVars, ledgerVars, Others, DispatchIInv
<1>4. CASE Passing /\ UNCHANGED <<run, runs, error, nils, roomVars>> /\ Others
  BY <1>1, <1>2, <1>4 DEF Passing, Tick, DispatchIInv
<1>5. CASE RoomStep /\ UNCHANGED runVars /\ Others
  BY <1>1, <1>2, <1>5 DEF runVars, ledgerVars, DispatchIInv
<1>6. ASSUME NEW w \in Workers, RunLine(w)
      PROVE  DispatchInv'
  <2>1. Proceed(w)
    BY <1>6 DEF RunLine
  <2> QED
    BY <1>0, <1>6, <2>1, LedgerLineInv, LineGoesOnInv, LineEndsInv DEF Proceed
<1>7. ASSUME NEW w \in Workers, Serve(w) \/ Disconnect(w) \/ \E msgs \in Requests : Post(w, msgs)
      PROVE  DispatchInv'
  BY <1>0, <1>6, <1>7, PostInv, DisconnectInv, ProcessLineInv, LineDoneInv, RequestDoneInv
  DEF Serve
<1> QED
  BY <1>0, <1>1, <1>3, <1>4, <1>5, <1>7 DEF DispatchNext, DispatchIInv

\* The invariants of the ledger, of ledger.Run and of the endpoint hold in
\* every reachable state, for any number of requests, lines and clients.
THEOREM DispatchInvariance == DispatchSpec => []DispatchIInv
  BY DispatchInitial, DispatchStep, PTL DEF DispatchSpec

\* The endpoint takes only steps of ledger.Run, under the keys of messages
\* it has verified.
THEOREM DispatchUsesRun == DispatchSpec => RunSpec
<1>1. DispatchInit => RunInit
  BY DEF DispatchInit
<1>2. DispatchIInv /\ [DispatchNext]_dispatchVars => [RunNext]_runVars
  BY DispatchIsRunStep DEF DispatchIInv
<1> QED
  BY <1>1, <1>2, DispatchInvariance, PTL DEF DispatchSpec, RunSpec

\* processLine: in a store that keeps its records a message is acknowledged
\* once at most, however often it is sent and however the requests
\* interleave, and only when the handler has accepted it.
THEOREM AcksAreUnique == DispatchSpec => []ConfirmedOnce
<1>1. DispatchIInv => ConfirmedOnce
  BY DEF DispatchIInv, DispatchInv, AckInv, ConfirmedOnce
<1> QED
  BY <1>1, DispatchInvariance, PTL

\* isReplay: a client is told "replay" only of a message that was claimed for
\* handling.
THEOREM ReplayTold == DispatchSpec => []ReplayIsTruthful
<1>1. DispatchIInv => ReplayIsTruthful
  BY DEF DispatchIInv, DispatchInv
<1> QED
  BY <1>1, DispatchInvariance, PTL

=============================================================================
