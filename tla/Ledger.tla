------------------------------- MODULE Ledger ------------------------------
(***************************************************************************)
(* The task ledger (src/ledger): Admit, Claim, Takeover, Renew, Release    *)
(* and Complete, called concurrently by several workers over one Store.    *)
(*                                                                         *)
(* Every method is a loop of store calls without a lock between them: it   *)
(* loads, decides on what it loaded, and compares-and-swaps; a lost swap   *)
(* starts the loop again.  A step of this module is one store call of one  *)
(* worker together with the local decision it leads to, so the steps of    *)
(* different workers interleave exactly where the code lets them.          *)
(*                                                                         *)
(* A caller passes now once per call, so a retry decides with the time the *)
(* call began at, however far the clock has moved.  Fence tokens travel    *)
(* freely: the code compares the token only, never the owner, so any       *)
(* worker may present any token that was ever granted.                     *)
(***************************************************************************)
EXTENDS Store

CONSTANTS
  NeedsOf,   \* per key, the Needs lists submissions name
  Leases,    \* lease durations callers ask for
  MaxSeq,    \* bound: highest submission sequence
  MaxCalls,  \* bound: calls the workers make in all
  Faults     \* TRUE when a store fault or a cancelled ctx may end a call

Workers == Owners

ASSUME NeedsAssumption == NeedsOf \in [Keys -> SUBSET Seq(Keys)]
ASSUME LeasesAssumption == Leases \subseteq Nat \ {0}
ASSUME BoundsAssumption ==
  MaxSeq \in Nat /\ MaxCalls \in Nat /\ Faults \in BOOLEAN

VARIABLES
  pc,      \* where each worker is in its call
  call,    \* arguments and locals of the call
  ret,     \* what the last call returned
  calls,   \* how many calls have begun
  grants   \* every <<key, fence, worker>> Claim and Takeover granted

ledgerVars == <<tasks, fenceFloor, clock, pc, call, ret, calls, grants>>

Labels == {"idle", "AdmitLoad", "AdmitNeeds", "RecheckNeeds", "RecheckLoad",
           "ClaimLoad", "Walk", "OwnerLoad", "OwnerCAS", "Range",
           "BlockCAS", "BlockLoad"}

ClaimOps == {"Claim", "Takeover"}

OwnerOps == {"Renew", "Release", "Complete"}

Ops == {"none", "Admit"} \cup ClaimOps \cup OwnerOps

Results == {"none", "true", "false", "ok", "ErrInvalid", "ErrNoKey",
            "ErrNotClaimed", "ErrLeaseActive", "ErrNotStale", "ErrFenced",
            "fault"}

MaybeTask == TaskState \cup {NoTask}

\* One call in progress: arguments, then the method's local variables.
Call ==
  [op : Ops, key : Keys \cup {NoKey}, seq : Nat, needs : Seq(Keys),
   fence : Nat, status : {"completed", "failed"}, lease : Nat, now : Nat,
   cur : MaybeTask,             \* record the method works on
   queue : Seq(Keys),           \* needs still to load
   seen : SUBSET Keys,          \* ancestors already loaded
   blocker : Keys \cup {NoKey}, \* failed or blocked key found
   target : Keys \cup {NoKey},  \* record blockOne writes
   todo : SUBSET Keys,          \* dependents blockDependents has left
   list : [Keys -> MaybeTask]]  \* its Range snapshot

NoCall ==
  [op |-> "none", key |-> NoKey, seq |-> 0, needs |-> <<>>, fence |-> 0,
   status |-> "completed", lease |-> 0, now |-> 0, cur |-> NoTask,
   queue |-> <<>>, seen |-> {}, blocker |-> NoKey, target |-> NoKey,
   todo |-> {}, list |-> [k \in Keys |-> NoTask]]

-----------------------------------------------------------------------------
(* Control.                                                                *)

Begin(w, label, c) ==
  /\ pc[w] = "idle"
  /\ calls < MaxCalls
  /\ calls' = calls + 1
  /\ pc' = [pc EXCEPT ![w] = label]
  /\ call' = [call EXCEPT ![w] = c]
  /\ ret' = [ret EXCEPT ![w] = "none"]
  /\ UNCHANGED <<storeVars, grants>>

\* The call goes on at label with locals c.
Goto(w, label, c) ==
  /\ pc' = [pc EXCEPT ![w] = label]
  /\ call' = [call EXCEPT ![w] = c]
  /\ UNCHANGED <<ret, calls>>

\* Mutant of Retry: the swap is tried again with the record loaded before.
RetryStale(w, label) == Goto(w, pc[w], call[w])

\* A lost swap: the loop starts over at label and its locals are gone.
Retry(w, label) ==
  Goto(w, label, [call[w] EXCEPT !.cur = NoTask, !.queue = <<>>, !.seen = {},
                                 !.blocker = NoKey])

Return(w, result) ==
  /\ pc' = [pc EXCEPT ![w] = "idle"]
  /\ call' = [call EXCEPT ![w] = NoCall]
  /\ ret' = [ret EXCEPT ![w] = result]
  /\ UNCHANGED calls

-----------------------------------------------------------------------------
(* Admit.                                                                  *)

AdmitStart(w, k, s, needs) ==
  Begin(w, "AdmitLoad",
        [NoCall EXCEPT !.op = "Admit", !.key = k, !.seq = s,
                       !.needs = needs, !.now = clock])

\* Mutant of AdmitEligible: a finished task is open to a new submission.
AdmitReopens(cur, seq) == cur # NoTask => seq > cur.seq

AdmitEligible(cur, seq) ==
  cur # NoTask => ~IsTerminal(cur) /\ seq > cur.seq

AdmitLoad(w) ==
  LET c == call[w]
      cur == tasks[c.key]
  IN /\ pc[w] = "AdmitLoad"
     /\ \/ /\ ~AdmitEligible(cur, c.seq)
           /\ Return(w, "false")
        \/ /\ AdmitEligible(cur, c.seq)
           /\ Goto(w, "AdmitNeeds",
                   [c EXCEPT !.cur = cur, !.queue = c.needs,
                             !.blocker = NoKey])
     /\ UNCHANGED <<storeVars, grants>>

\* Mutant of AdmitNeeds: any finished need blocks.
AdmitNeedsFinished(w) ==
  LET c == call[w]
      n == Head(c.queue)
  IN /\ pc[w] = "AdmitNeeds" /\ c.queue # <<>>
     /\ Goto(w, "AdmitNeeds",
             IF Found(n) /\ ~IsLive(tasks[n])
             THEN [c EXCEPT !.queue = <<>>, !.blocker = n]
             ELSE [c EXCEPT !.queue = Tail(@)])
     /\ UNCHANGED <<storeVars, grants>>

\* blockingNeed: one Load per need, in list order, up to the first bad one.
AdmitNeeds(w) ==
  LET c == call[w]
      n == Head(c.queue)
  IN /\ pc[w] = "AdmitNeeds" /\ c.queue # <<>>
     /\ Goto(w, "AdmitNeeds",
             IF IsBad(tasks[n])
             THEN [c EXCEPT !.queue = <<>>, !.blocker = n]
             ELSE [c EXCEPT !.queue = Tail(@)])
     /\ UNCHANGED <<storeVars, grants>>

\* Mutant of Admitted: a rebase starts its fences again.
AdmittedAtZero(c) ==
  [status |-> IF c.blocker = NoKey THEN "pending" ELSE "blocked",
   seq |-> c.seq, owner |-> NoOwner, fence |-> 0, leaseUntil |-> 0,
   needs |-> c.needs, blockedBy |-> c.blocker, rev |-> 0]

\* The record Admit writes: a rebase keeps the fence and drops the lease.
Admitted(c) ==
  [status |-> IF c.blocker = NoKey THEN "pending" ELSE "blocked",
   seq |-> c.seq, owner |-> NoOwner,
   fence |-> IF c.cur = NoTask THEN 0 ELSE c.cur.fence,
   leaseUntil |-> 0, needs |-> c.needs, blockedBy |-> c.blocker, rev |-> 0]

AdmitCAS(w) ==
  LET c == call[w]
      next == Admitted(c)
  IN /\ pc[w] = "AdmitNeeds" /\ c.queue = <<>>
     /\ UNCHANGED grants
     /\ \/ /\ ~Validate(c.key, next)
           /\ Return(w, "ErrInvalid") /\ UNCHANGED storeVars
        \/ /\ Validate(c.key, next)
           /\ Matches(c.key, c.cur) /\ Write(c.key, next)
           /\ IF c.blocker # NoKey
              THEN Return(w, "true")
              ELSE Goto(w, "RecheckNeeds", [c EXCEPT !.queue = c.needs])
        \/ /\ Validate(c.key, next)
           /\ ~Matches(c.key, c.cur)
           /\ Retry(w, "AdmitLoad") /\ UNCHANGED storeVars

\* Mutant of RecheckNeeds: no second look.
RecheckNothing(w) ==
  /\ pc[w] = "RecheckNeeds"
  /\ Return(w, "true")
  /\ UNCHANGED <<storeVars, grants>>

\* recheckNeeds: read every need again, now that the record is visible.
RecheckNeeds(w) ==
  LET c == call[w]
      n == Head(c.queue)
  IN /\ pc[w] = "RecheckNeeds"
     /\ \/ c.queue = <<>> /\ Return(w, "true")
        \/ /\ c.queue # <<>> /\ IsBad(tasks[n])
           /\ Goto(w, "RecheckLoad", [c EXCEPT !.blocker = n])
        \/ /\ c.queue # <<>> /\ ~IsBad(tasks[n])
           /\ Goto(w, "RecheckNeeds", [c EXCEPT !.queue = Tail(@)])
     /\ UNCHANGED <<storeVars, grants>>

RecheckLoad(w) ==
  LET c == call[w]
      cur == tasks[c.key]
  IN /\ pc[w] = "RecheckLoad"
     /\ \/ /\ ~IsLive(cur)
           /\ Return(w, "true")
        \/ /\ IsLive(cur)
           /\ Goto(w, "BlockCAS", [c EXCEPT !.cur = cur, !.target = c.key])
     /\ UNCHANGED <<storeVars, grants>>

-----------------------------------------------------------------------------
(* Claim and Takeover.                                                     *)

ClaimStart(w, op, k, lease) ==
  Begin(w, "ClaimLoad",
        [NoCall EXCEPT !.op = op, !.key = k, !.lease = lease,
                       !.now = clock])

\* Mutant of ClaimVerdict: a live lease is no obstacle.
ClaimIgnoresLease(op, cur, now) ==
  IF IsLive(cur) THEN "ok" ELSE "ErrNotClaimed"

\* Whether the loaded record may be claimed at time now, or why not.
ClaimVerdict(op, cur, now) ==
  CASE cur = NoTask -> "ErrNoKey"
    [] cur # NoTask /\ cur.status = "pending" ->
         IF op = "Claim" THEN "ok" ELSE "ErrNotClaimed"
    [] cur # NoTask /\ cur.status = "claimed" ->
         IF cur.leaseUntil <= now THEN "ok"
         ELSE IF op = "Claim" THEN "ErrLeaseActive" ELSE "ErrNotStale"
    [] cur # NoTask /\ IsTerminal(cur) -> "ErrNotClaimed"

ClaimLoad(w) ==
  LET c == call[w]
      cur == tasks[c.key]
      verdict == ClaimVerdict(c.op, cur, c.now)
  IN /\ pc[w] = "ClaimLoad"
     /\ \/ verdict # "ok" /\ Return(w, verdict)
        \/ /\ verdict = "ok"
           /\ Goto(w, "Walk", [c EXCEPT !.cur = cur, !.queue = cur.needs,
                                        !.seen = {}])
     /\ UNCHANGED <<storeVars, grants>>

\* Mutant of Walk: only the record's own needs are looked at.
WalkDirectNeeds(w) ==
  LET c == call[w]
      n == Head(c.queue)
  IN /\ pc[w] = "Walk" /\ c.queue # <<>>
     /\ IF IsBad(tasks[n])
        THEN Goto(w, "BlockCAS", [c EXCEPT !.blocker = n, !.target = c.key])
        ELSE Goto(w, "Walk", [c EXCEPT !.queue = Tail(@)])
     /\ UNCHANGED <<storeVars, grants>>

\* blockingAncestor: breadth first over the Needs closure, one Load per key.
\* A key is marked when it leaves the queue instead of when it enters: the
\* order of first visits is the same.
Walk(w) ==
  LET c == call[w]
      n == Head(c.queue)
      rest == [c EXCEPT !.queue = Tail(@), !.seen = @ \cup {n}]
  IN /\ pc[w] = "Walk" /\ c.queue # <<>>
     /\ \/ /\ n \notin c.seen /\ IsBad(tasks[n])
           /\ Goto(w, "BlockCAS", [c EXCEPT !.blocker = n, !.target = c.key])
        \/ /\ ~(n \notin c.seen /\ IsBad(tasks[n]))
           /\ Goto(w, "Walk",
                   IF n \notin c.seen /\ Found(n)
                   THEN [rest EXCEPT !.queue = @ \o tasks[n].needs]
                   ELSE rest)
     /\ UNCHANGED <<storeVars, grants>>

\* Mutant of Claimed: the grant reuses the fence it found.
ClaimedSameFence(w, c) ==
  [c.cur EXCEPT !.status = "claimed", !.owner = w,
                !.leaseUntil = c.now + c.lease]

Claimed(w, c) ==
  [c.cur EXCEPT !.status = "claimed", !.owner = w, !.fence = @ + 1,
                !.leaseUntil = c.now + c.lease]

ClaimCAS(w) ==
  LET c == call[w]
  IN /\ pc[w] = "Walk" /\ c.queue = <<>>
     /\ \/ /\ Matches(c.key, c.cur) /\ Write(c.key, Claimed(w, c))
           /\ grants' = grants \cup {<<c.key, c.cur.fence + 1, w>>}
           /\ Return(w, "ok")
        \/ /\ ~Matches(c.key, c.cur)
           /\ Retry(w, "ClaimLoad") /\ UNCHANGED <<storeVars, grants>>

-----------------------------------------------------------------------------
(* Renew, Release and Complete.                                            *)

OwnerStart(w, op, k, fence, lease, status) ==
  Begin(w, "OwnerLoad",
        [NoCall EXCEPT !.op = op, !.key = k, !.fence = fence,
                       !.lease = lease, !.status = status, !.now = clock])

\* Mutant of OwnerVerdict: any token will do.
OwnerUnfenced(op, cur, fence) ==
  IF cur = NoTask THEN "ErrNoKey"
  ELSE IF cur.status = "claimed" THEN "ok" ELSE "ErrNotClaimed"

\* Renew looks at the status first, Release and Complete at the fence.
OwnerVerdict(op, cur, fence) ==
  CASE cur = NoTask -> "ErrNoKey"
    [] cur # NoTask /\ cur.status = "claimed" ->
         IF cur.fence = fence THEN "ok" ELSE "ErrFenced"
    [] cur # NoTask /\ cur.status # "claimed" ->
         IF op = "Renew" \/ cur.fence = fence THEN "ErrNotClaimed"
         ELSE "ErrFenced"

OwnerLoad(w) ==
  LET c == call[w]
      cur == tasks[c.key]
      verdict == OwnerVerdict(c.op, cur, c.fence)
  IN /\ pc[w] = "OwnerLoad"
     /\ \/ verdict # "ok" /\ Return(w, verdict)
        \/ verdict = "ok" /\ Goto(w, "OwnerCAS", [c EXCEPT !.cur = cur])
     /\ UNCHANGED <<storeVars, grants>>

OwnerWrites(c) ==
  CASE c.op = "Renew" -> [c.cur EXCEPT !.leaseUntil = c.now + c.lease]
    [] c.op = "Release" -> [c.cur EXCEPT !.status = "pending",
                                         !.owner = NoOwner, !.leaseUntil = 0]
    [] c.op = "Complete" -> [c.cur EXCEPT !.status = c.status]

OwnerCAS(w) ==
  LET c == call[w]
  IN /\ pc[w] = "OwnerCAS"
     /\ \/ /\ Matches(c.key, c.cur) /\ Write(c.key, OwnerWrites(c))
           /\ IF c.op = "Complete" /\ c.status = "failed"
              THEN Goto(w, "Range", c) ELSE Return(w, "ok")
        \/ /\ ~Matches(c.key, c.cur)
           /\ Retry(w, "OwnerLoad") /\ UNCHANGED storeVars
     /\ UNCHANGED grants

-----------------------------------------------------------------------------
(* Blocking.                                                               *)

\* transitiveDependents: the least set of recorded keys that holds every
\* key whose Needs meet it or name the failed key.
TransitiveDependents(list, failed) ==
  LET recorded == {k \in Keys : list[k] # NoTask}
      Closed(S) == \A k \in recorded :
        ElementsOf(list[k].needs) \cap (S \cup {failed}) # {} => k \in S
  IN {k \in recorded : \A S \in SUBSET recorded : Closed(S) => k \in S}

\* sort.Slice: dependents are written in key order.
First(S) == CHOOSE k \in S : \A j \in S : k <= j

\* blockOne begins for the next dependent left, or the method returns.
NextDependent(w, c, result) ==
  IF c.todo = {}
  THEN Return(w, result)
  ELSE LET k == First(c.todo)
       IN Goto(w, "BlockCAS", [c EXCEPT !.target = k, !.cur = c.list[k],
                                        !.todo = @ \ {k}])

\* What the method that called blockOne returns after it.
BlockResult(op) ==
  CASE op = "Admit" -> "true"
    [] op \in ClaimOps -> "ErrNotClaimed"
    [] OTHER -> "ok"

\* blockDependents: one Range, then a blockOne per live dependent of it.
BlockDependents(w) ==
  LET c == call[w]
      live == {k \in TransitiveDependents(tasks, c.key) :
                 ~IsTerminal(tasks[k])}
  IN /\ pc[w] = "Range"
     /\ NextDependent(w, [c EXCEPT !.blocker = c.key, !.todo = live,
                                   !.list = tasks], "ok")
     /\ UNCHANGED <<storeVars, grants>>

Blocked(c) == [c.cur EXCEPT !.status = "blocked", !.blockedBy = c.blocker]

BlockCAS(w) ==
  LET c == call[w]
  IN /\ pc[w] = "BlockCAS"
     /\ \/ /\ Matches(c.target, c.cur) /\ Write(c.target, Blocked(c))
           /\ NextDependent(w, c, BlockResult(c.op))
        \/ /\ ~Matches(c.target, c.cur)
           /\ Goto(w, "BlockLoad", c) /\ UNCHANGED storeVars
     /\ UNCHANGED grants

BlockLoad(w) ==
  LET c == call[w]
      fresh == tasks[c.target]
  IN /\ pc[w] = "BlockLoad"
     /\ \/ /\ ~IsLive(fresh)
           /\ NextDependent(w, c, BlockResult(c.op))
        \/ /\ IsLive(fresh)
           /\ Goto(w, "BlockCAS", [c EXCEPT !.cur = fresh])
     /\ UNCHANGED <<storeVars, grants>>

-----------------------------------------------------------------------------
(* A store fault or a cancelled ctx ends the call between two store calls;  *)
(* so does the death of the process that made it.                          *)

Abort(w) ==
  /\ Faults /\ pc[w] # "idle"
  /\ Return(w, "fault")
  /\ UNCHANGED <<storeVars, grants>>

-----------------------------------------------------------------------------

Init ==
  /\ StoreInit
  /\ pc = [w \in Workers |-> "idle"]
  /\ call = [w \in Workers |-> NoCall]
  /\ ret = [w \in Workers |-> "none"]
  /\ calls = 0
  /\ grants = {}

Start(w) ==
  \/ \E k \in Keys, s \in 1..MaxSeq : \E needs \in NeedsOf[k] :
       AdmitStart(w, k, s, needs)
  \/ \E op \in ClaimOps, k \in Keys, lease \in Leases :
       ClaimStart(w, op, k, lease)
  \/ \E g \in grants, lease \in Leases :
       OwnerStart(w, "Renew", g[1], g[2], lease, "completed")
  \/ \E g \in grants : OwnerStart(w, "Release", g[1], g[2], 0, "completed")
  \/ \E g \in grants, status \in {"completed", "failed"} :
       OwnerStart(w, "Complete", g[1], g[2], 0, status)

\* What a worker does next inside its call.
Step(w) ==
  \/ AdmitLoad(w) \/ AdmitNeeds(w) \/ AdmitCAS(w)
  \/ RecheckNeeds(w) \/ RecheckLoad(w)
  \/ ClaimLoad(w) \/ Walk(w) \/ ClaimCAS(w)
  \/ OwnerLoad(w) \/ OwnerCAS(w)
  \/ BlockDependents(w) \/ BlockCAS(w) \/ BlockLoad(w)

Passing == Tick /\ UNCHANGED <<pc, call, ret, calls, grants>>

Next == Passing \/ \E w \in Workers : Start(w) \/ Step(w) \/ Abort(w)

Spec == Init /\ [][Next]_ledgerVars

-----------------------------------------------------------------------------
(* Properties.                                                             *)

TypeOK ==
  /\ StoreTypeOK
  /\ pc \in [Workers -> Labels]
  /\ call \in [Workers -> Call]
  /\ ret \in [Workers -> Results]
  /\ calls \in Nat
  /\ grants \subseteq Keys \X Nat \X Workers

\* Every stored record passes TaskState.Validate, whatever interleaving of
\* writers produced it: blockOne, Claim and the owner operations all build
\* their record from one that was loaded earlier.
RecordsValid == \A k \in Keys : Found(k) => Validate(k, tasks[k])

\* The token Claim or Takeover returns lies above every token ever granted
\* for the key, also when the record was rebased, or deleted and admitted
\* again, in between: a dispossessed owner can never match it.
TokensAreFresh ==
  [][\A w \in Workers :
       pc[w] = "Walk" /\ pc'[w] = "idle" /\ ret'[w] = "ok" =>
         LET k == call[w].key
         IN \A g \in grants : g[1] = k => g[2] < tasks'[k].fence]_ledgerVars

LatestToken(k, f) == \A g \in grants : g[1] = k => g[2] <= f

\* A claimed record is finished or released only by a call that presents
\* the last token granted for its key, never by a dispossessed owner.
OnlyLatestOwnerFinishes ==
  [][\A k \in Keys :
       /\ Found(k) /\ tasks[k].status = "claimed"
       /\ tasks'[k] # NoTask
       /\ tasks'[k].seq = tasks[k].seq
       /\ tasks'[k].status \in {"pending", "completed", "failed"}
       => \E w \in Workers :
            /\ pc[w] = "OwnerCAS" /\ call[w].key = k
            /\ LatestToken(k, call[w].fence)]_ledgerVars

\* A finished record is never written again: not by a late Admit, not by a
\* blocking walk that read it while it was still live.
TerminalIsFinal ==
  [][\A k \in Keys :
       Found(k) /\ IsTerminal(tasks[k]) =>
         tasks'[k] \in {tasks[k], NoTask}]_ledgerVars

\* In a store that keeps its records, a blocked record names a key that is
\* itself failed or blocked.
BlockersAreBad ==
  ~Evicting => \A k \in Keys :
    Found(k) /\ tasks[k].status = "blocked" => IsBad(tasks[tasks[k].blockedBy])

\* Once every call has returned, no live record names a failed key in its
\* Needs: the failure walk of Complete and the second look of Admit leave
\* no gap between them.
FailureReachesDependents ==
  (~Faults /\ ~Evicting /\ \A w \in Workers : pc[w] = "idle") =>
    \A k \in Keys : IsLive(tasks[k]) =>
      \A n \in ElementsOf(tasks[k].needs) :
        ~(Found(n) /\ tasks[n].status = "failed")

\* The store read as task lifecycles: an absent key stands at the floor.
Life == INSTANCE TaskLifecycle WITH
  Keys <- Keys, Forgetful <- Evicting,
  phase <- [k \in Keys |-> IF Found(k) THEN tasks[k].status ELSE "absent"],
  fence <- [k \in Keys |-> IF Found(k) THEN tasks[k].fence ELSE fenceFloor]

\* The concurrent methods implement the lifecycle: whatever a loop loaded
\* long ago, each store write is one legal step of the key it hits.
ImplementsLifecycle == Life!Spec

=============================================================================
