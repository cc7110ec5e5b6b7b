---------------------------- MODULE LedgerProofs ---------------------------
(***************************************************************************)
(* Proofs about modules Ledger and LedgerWalk, for any sets of keys and    *)
(* workers, any needs graphs, bounded and unbounded stores, with and       *)
(* without faults.                                                         *)
(***************************************************************************)
EXTENDS LedgerWalk, SequenceTheorems, WellFoundedInduction, TLAPS

-----------------------------------------------------------------------------
(* Control: what Begin, Goto and Return leave behind.                      *)

ControlTypeOK ==
  /\ pc \in [Workers -> Labels]
  /\ call \in [Workers -> Call]
  /\ ret \in [Workers -> Results]
  /\ calls \in Nat

\* The empty list is a list of keys.
LEMMA EmptyQueue == <<>> \in Seq(Keys)
  OBVIOUS

\* No call in progress is a well-typed value of call.
LEMMA NoCallType == NoCall \in Call
  BY DEF NoCall, Call, Ops, ClaimOps, OwnerOps, MaybeTask

\* A call that goes on keeps the control variables typed.
LEMMA GotoType ==
  ASSUME ControlTypeOK, NEW w \in Workers, NEW label \in Labels, NEW c \in Call,
         Goto(w, label, c)
  PROVE  ControlTypeOK'
  BY DEF ControlTypeOK, Goto

\* A lost swap keeps them typed.
LEMMA RetryType ==
  ASSUME ControlTypeOK, NEW w \in Workers, NEW label \in Labels,
         Retry(w, label)
  PROVE  ControlTypeOK'
<1>1. call[w] \in Call
  BY DEF ControlTypeOK
<1>2. ASSUME NEW c \in Call
      PROVE  [c EXCEPT !.cur = NoTask, !.queue = <<>>, !.seen = {},
                       !.blocker = NoKey] \in Call
  BY EmptyQueue DEF Call, MaybeTask
<1> QED
  BY <1>1, <1>2, GotoType DEF Retry

\* A call that returns keeps them typed.
LEMMA ReturnType ==
  ASSUME ControlTypeOK, NEW w \in Workers, NEW result \in Results,
         Return(w, result)
  PROVE  ControlTypeOK'
  BY NoCallType DEF ControlTypeOK, Return, Labels

-----------------------------------------------------------------------------
(* Store: what one CompareAndSwap leaves behind.                           *)

\* Stored fills in the revision, and on an insert the fence floor.
LEMMA StoredType ==
  ASSUME StoreTypeOK, NEW k \in Keys, NEW new \in TaskState
  PROVE  Stored(k, new) \in TaskState
<1>1. CASE Found(k)
  <2>1. tasks[k] \in TaskState
    BY <1>1 DEF StoreTypeOK, Found
  <2>2. tasks[k].rev + 1 \in Nat
    BY <2>1 DEF TaskState
  <2> QED
    BY <1>1, <2>2 DEF Stored, TaskState
<1>2. CASE ~Found(k)
  BY <1>2 DEF StoreTypeOK, Stored, TaskState
<1> QED
  BY <1>1, <1>2

\* A write sets its own key, deletes or keeps every other one, and keeps the
\* floor at or above every fence it deletes.
LEMMA WriteEffect ==
  ASSUME StoreTypeOK, NEW k \in Keys, NEW new \in TaskState, Write(k, new)
  PROVE  /\ StoreTypeOK'
         /\ tasks'[k] = Stored(k, new)
         /\ tasks'[k] # NoTask
         /\ clock' = clock
         /\ fenceFloor' >= fenceFloor
         /\ \A j \in Keys \ {k} :
              \/ tasks'[j] = tasks[j]
              \/ /\ Evicting
                 /\ Found(j) /\ ~HoldsLiveLease(tasks[j])
                 /\ tasks'[j] = NoTask
                 /\ fenceFloor' >= tasks[j].fence
         /\ ~Evicting => fenceFloor' = fenceFloor
<1>1. PICK gone \in Deletions(k) :
        /\ tasks' = [j \in Keys |-> IF j = k THEN Stored(k, new)
                                    ELSE IF j \in gone THEN NoTask
                                    ELSE tasks[j]]
        /\ fenceFloor' \in {fenceFloor} \cup {tasks[j].fence : j \in gone}
        /\ fenceFloor' >= fenceFloor
        /\ \A j \in gone : fenceFloor' >= tasks[j].fence
        /\ UNCHANGED clock
  BY DEF Write
<1>2. Stored(k, new) \in TaskState
  BY StoredType
<1>3. \A j \in gone : /\ j \in Keys \ {k} /\ Evicting
                      /\ Found(j) /\ ~HoldsLiveLease(tasks[j])
  BY <1>1 DEF Deletions, Evictable
<1>4. \A j \in gone : tasks[j] \in TaskState /\ tasks[j].fence \in Nat
  BY <1>3 DEF StoreTypeOK, Found, TaskState
<1>5. StoreTypeOK'
  BY <1>1, <1>2, <1>4 DEF StoreTypeOK
<1>6. tasks'[k] = Stored(k, new) /\ tasks'[k] # NoTask
  BY <1>1, <1>2, NoTaskAssumption
<1>7. \A j \in Keys \ {k} :
        \/ tasks'[j] = tasks[j]
        \/ /\ Evicting
           /\ Found(j) /\ ~HoldsLiveLease(tasks[j])
           /\ tasks'[j] = NoTask
           /\ fenceFloor' >= tasks[j].fence
  BY <1>1, <1>3
<1>8. ~Evicting => fenceFloor' = fenceFloor
  BY <1>1, <1>3
<1> QED
  BY <1>1, <1>5, <1>6, <1>7, <1>8

\* A swap whose compare matched replaces the record the caller had loaded,
\* as far as sequence, status, fence and revision go.
LEMMA MatchesLoaded ==
  ASSUME NEW k \in Keys, NEW old, old # NoTask, Matches(k, old)
  PROVE  /\ Found(k)
         /\ tasks[k].seq = old.seq /\ tasks[k].status = old.status
         /\ tasks[k].fence = old.fence
  BY DEF Matches

\* Insert-if-absent.
LEMMA MatchesAbsent ==
  ASSUME NEW k \in Keys, Matches(k, NoTask)
  PROVE  ~Found(k)
  BY DEF Matches

-----------------------------------------------------------------------------
(* The inductive invariant.  Each loop decides on a record it loaded some   *)
(* steps ago; CallInv keeps what it decided, which the compare of a later  *)
(* swap turns back into a fact about the stored record.                    *)

Blocking == {"BlockCAS", "BlockLoad"}

\* The record a loop holds and the checks it has passed.
CallInv(p, c) ==
  /\ p # "idle" => c.key \in Keys
  /\ p \in {"AdmitLoad", "AdmitNeeds", "RecheckNeeds", "RecheckLoad"} =>
       c.op = "Admit"
  /\ p \in {"ClaimLoad", "Walk"} => c.op \in ClaimOps /\ c.lease > 0
  /\ p \in {"OwnerLoad", "OwnerCAS"} =>
       c.op \in OwnerOps /\ (c.op = "Renew" => c.lease > 0)
  /\ p = "AdmitNeeds" => AdmitEligible(c.cur, c.seq)
  /\ p = "Walk" => IsLive(c.cur) /\ Validate(c.key, c.cur)
  /\ p = "OwnerCAS" => /\ c.cur # NoTask /\ Validate(c.key, c.cur)
                       /\ c.cur.status = "claimed" /\ c.cur.fence = c.fence
  /\ p = "Range" => c.op = "Complete"
  /\ p = "RecheckLoad" => c.blocker \in Keys
  /\ p \in Blocking =>
       /\ c.target \in Keys /\ c.blocker \in Keys
       /\ \A k \in c.todo : IsLive(c.list[k]) /\ Validate(k, c.list[k])
  /\ p = "BlockCAS" => IsLive(c.cur) /\ Validate(c.target, c.cur)
  /\ p \notin Blocking => c.todo = {}

\* No token lies above the fence of its key, or the floor its next life
\* starts from.
FenceInv ==
  \A g \in grants :
    g[2] <= IF Found(g[1]) THEN tasks[g[1]].fence ELSE fenceFloor

IInv ==
  /\ TypeOK
  /\ RecordsValid
  /\ \A w \in Workers : CallInv(pc[w], call[w])
  /\ FenceInv

ControlInv == ControlTypeOK /\ \A w \in Workers : CallInv(pc[w], call[w])

\* Going on at a label, with locals that fit it, keeps the control invariant.
LEMMA GotoInv ==
  ASSUME ControlInv, NEW w \in Workers, NEW label \in Labels, NEW c \in Call,
         CallInv(label, c), Goto(w, label, c)
  PROVE  ControlInv'
<1>1. ControlTypeOK'
  BY GotoType DEF ControlInv
<1>2. \A v \in Workers : CallInv(pc'[v], call'[v])
  BY DEF ControlInv, ControlTypeOK, Goto
<1> QED
  BY <1>1, <1>2 DEF ControlInv

\* An idle worker needs nothing of its locals.
LEMMA NoCallInv == CallInv("idle", NoCall)
  BY DEF CallInv, NoCall, Blocking

\* Returning from a call keeps the control invariant.
LEMMA ReturnInv ==
  ASSUME ControlInv, NEW w \in Workers, NEW result \in Results,
         Return(w, result)
  PROVE  ControlInv'
<1>1. ControlTypeOK'
  BY ReturnType DEF ControlInv
<1>2. \A v \in Workers : CallInv(pc'[v], call'[v])
  BY NoCallInv DEF ControlInv, ControlTypeOK, Return
<1> QED
  BY <1>1, <1>2 DEF ControlInv

\* Beginning a call keeps the control invariant and touches no record.
LEMMA BeginInv ==
  ASSUME ControlInv, NEW w \in Workers, NEW label \in Labels, NEW c \in Call,
         CallInv(label, c), Begin(w, label, c)
  PROVE  ControlInv' /\ UNCHANGED <<storeVars, grants>>
<1>1. ControlTypeOK'
  BY DEF ControlInv, ControlTypeOK, Begin, Results
<1>2. \A v \in Workers : CallInv(pc'[v], call'[v])
  BY DEF ControlInv, ControlTypeOK, Begin
<1> QED
  BY <1>1, <1>2 DEF ControlInv, Begin

\* The control part of a lost swap: back at the load, the record dropped.
LEMMA RetryInv ==
  ASSUME ControlInv, NEW w \in Workers,
         NEW label \in {"AdmitLoad", "ClaimLoad", "OwnerLoad"},
         pc[w] = IF label = "AdmitLoad" THEN "AdmitNeeds"
                 ELSE IF label = "ClaimLoad" THEN "Walk" ELSE "OwnerCAS",
         Retry(w, label)
  PROVE  ControlInv'
<1>1. ControlTypeOK'
  BY RetryType DEF ControlInv, Labels
<1>2. call[w] \in Call /\ CallInv(pc[w], call[w])
  BY DEF ControlInv, ControlTypeOK
<1>3. ASSUME NEW c \in Call, CallInv(pc[w], c)
      PROVE  CallInv(label, [c EXCEPT !.cur = NoTask, !.queue = <<>>,
                                      !.seen = {}, !.blocker = NoKey])
  BY <1>3 DEF CallInv, Call, Blocking
<1>4. \A v \in Workers : CallInv(pc'[v], call'[v])
  BY <1>2, <1>3 DEF ControlInv, ControlTypeOK, Retry, Goto
<1> QED
  BY <1>1, <1>4 DEF ControlInv

-----------------------------------------------------------------------------
(* The writes the methods make, whichever loop makes them.                 *)

Submits(k, new) ==
  /\ Found(k) => /\ IsLive(tasks[k]) /\ new.seq > tasks[k].seq
                 /\ new.fence = tasks[k].fence
  /\ new.status \in {"pending", "blocked"}

Grants(k, new) ==
  /\ IsLive(tasks[k]) /\ new.status = "claimed"
  /\ new.fence = tasks[k].fence + 1

Settles(k, new) ==
  /\ Found(k) /\ tasks[k].status = "claimed" /\ new.fence = tasks[k].fence
  /\ new.status \in {"pending", "claimed", "completed", "failed"}
  /\ \E w \in Workers : /\ pc[w] = "OwnerCAS" /\ call[w].key = k
                         /\ call[w].fence = tasks[k].fence

Blocks(k, new) ==
  /\ IsLive(tasks[k]) /\ new.status = "blocked" /\ new.fence = tasks[k].fence

LegalWrite(k, new) ==
  /\ new \in TaskState /\ Validate(k, new)
  /\ Submits(k, new) \/ Grants(k, new) \/ Settles(k, new) \/ Blocks(k, new)

\* What a step does to the store and to the granted tokens.
StoreStep ==
  \/ UNCHANGED <<tasks, fenceFloor, grants>> /\ clock' \in Nat
  \/ \E k \in Keys : \E new \in TaskState :
       /\ LegalWrite(k, new) /\ Write(k, new)
       /\ \/ grants' = grants
          \/ /\ Grants(k, new)
             /\ \E w \in Workers : grants' = grants \cup {<<k, new.fence, w>>}

-----------------------------------------------------------------------------
(* One lemma per group of actions.                                         *)

Pre == StoreTypeOK /\ RecordsValid /\ ControlInv

\* A step that only reads.
LEMMA ReadStep ==
  ASSUME Pre, UNCHANGED <<storeVars, grants>>
  PROVE  StoreStep
  BY DEF Pre, StoreStep, storeVars, StoreTypeOK

\* What the invariant says of the worker that takes the step.
LEMMA Caller ==
  ASSUME Pre, NEW w \in Workers
  PROVE  /\ call[w] \in Call /\ CallInv(pc[w], call[w])
         /\ pc[w] # "idle" => tasks[call[w].key] \in MaybeTask
  BY DEF Pre, ControlInv, ControlTypeOK, StoreTypeOK, MaybeTask, CallInv

\* Every way to begin a call keeps the control invariant.
LEMMA StartStep ==
  ASSUME Pre, grants \subseteq Keys \X Nat \X Workers,
         NEW w \in Workers, Start(w)
  PROVE  ControlInv' /\ StoreStep
<1>0. ControlInv /\ clock \in Nat
  BY DEF Pre, StoreTypeOK
<1>1. ASSUME NEW k \in Keys, NEW s \in 1..MaxSeq, NEW needs \in NeedsOf[k],
             AdmitStart(w, k, s, needs)
      PROVE  ControlInv' /\ StoreStep
  <2> DEFINE c == [NoCall EXCEPT !.op = "Admit", !.key = k, !.seq = s,
                                 !.needs = needs, !.now = clock]
  <2>1. needs \in Seq(Keys) /\ s \in Nat
    BY NeedsAssumption, BoundsAssumption
  <2>2. c \in Call
    BY <2>1, <1>0, NoCallType DEF Call, Ops
  <2>3. CallInv("AdmitLoad", c)
    BY NoCallType DEF CallInv, NoCall, Blocking
  <2>4. Begin(w, "AdmitLoad", c)
    BY <1>1 DEF AdmitStart
  <2> HIDE DEF c
  <2> QED
    BY <1>0, <2>2, <2>3, <2>4, BeginInv, ReadStep DEF Labels
<1>2. ASSUME NEW op \in ClaimOps, NEW k \in Keys, NEW lease \in Leases,
             ClaimStart(w, op, k, lease)
      PROVE  ControlInv' /\ StoreStep
  <2> DEFINE c == [NoCall EXCEPT !.op = op, !.key = k, !.lease = lease,
                                 !.now = clock]
  <2>1. lease \in Nat /\ lease > 0 /\ op \in Ops
    BY LeasesAssumption DEF Ops
  <2>2. c \in Call
    BY <2>1, <1>0, NoCallType DEF Call
  <2>3. CallInv("ClaimLoad", c)
    BY <2>1 DEF CallInv, NoCall, Blocking
  <2>4. Begin(w, "ClaimLoad", c)
    BY <1>2 DEF ClaimStart
  <2> HIDE DEF c
  <2> QED
    BY <1>0, <2>2, <2>3, <2>4, BeginInv, ReadStep DEF Labels
<1>3. ASSUME NEW op \in OwnerOps, NEW k \in Keys, NEW fence \in Nat,
             NEW lease \in Nat, NEW status \in {"completed", "failed"},
             op = "Renew" => lease > 0,
             OwnerStart(w, op, k, fence, lease, status)
      PROVE  ControlInv' /\ StoreStep
  <2> DEFINE c == [NoCall EXCEPT !.op = op, !.key = k, !.fence = fence,
                                 !.lease = lease, !.status = status,
                                 !.now = clock]
  <2>1. op \in Ops
    BY DEF Ops
  <2>2. c \in Call
    BY <2>1, <1>0, NoCallType DEF Call
  <2>3. CallInv("OwnerLoad", c)
    BY <1>3 DEF CallInv, NoCall, Blocking
  <2>4. Begin(w, "OwnerLoad", c)
    BY <1>3 DEF OwnerStart
  <2> HIDE DEF c
  <2> QED
    BY <1>0, <2>2, <2>3, <2>4, BeginInv, ReadStep DEF Labels
<1>4. \A g \in grants : g[1] \in Keys /\ g[2] \in Nat
  OBVIOUS
<1>5. \A lease \in Leases : lease \in Nat /\ lease > 0
  BY LeasesAssumption
<1> QED
  BY <1>1, <1>2, <1>3, <1>4, <1>5 DEF Start, OwnerOps

\* The loads of Admit and of its second look at the needs.
LEMMA AdmitReads ==
  ASSUME Pre, NEW w \in Workers,
         AdmitLoad(w) \/ AdmitNeeds(w) \/ RecheckNeeds(w) \/ RecheckLoad(w)
  PROVE  ControlInv' /\ StoreStep
<1> DEFINE c == call[w]
           cur == tasks[c.key]
           n == Head(c.queue)
<1>0. /\ ControlInv /\ c \in Call /\ CallInv(pc[w], c)
      /\ pc[w] # "idle" => cur \in MaybeTask /\ c.key \in Keys
  BY Caller DEF Pre, CallInv
<1>1. StoreStep
  BY ReadStep DEF AdmitLoad, AdmitNeeds, RecheckNeeds, RecheckLoad
<1>2. c.queue \in Seq(Keys) /\ c.needs \in Seq(Keys)
  BY <1>0 DEF Call
<1>3. c.queue # <<>> => n \in Keys /\ Tail(c.queue) \in Seq(Keys)
  BY <1>2, HeadTailProperties
<1> HIDE DEF c, cur, n
<1>4. CASE AdmitLoad(w)
  <2> DEFINE d == [c EXCEPT !.cur = cur, !.queue = c.needs, !.blocker = NoKey]
  <2>1. pc[w] = "AdmitLoad"
    BY <1>4 DEF AdmitLoad
  <2>2. CASE Return(w, "false")
    BY <1>0, <1>1, <2>2, ReturnInv DEF Results
  <2>3. CASE AdmitEligible(cur, c.seq) /\ Goto(w, "AdmitNeeds", d)
    <3>1. d \in Call
      BY <1>0, <1>2, <2>1 DEF Call
    <3>2. CallInv("AdmitNeeds", d)
      BY <1>0, <2>1, <2>3 DEF CallInv, Call, Blocking
    <3> HIDE DEF d
    <3> QED
      BY <1>0, <1>1, <2>3, <3>1, <3>2, GotoInv DEF Labels
  <2> QED
    BY <1>1, <1>4, <2>2, <2>3 DEF AdmitLoad, c, cur
<1>5. CASE AdmitNeeds(w)
  <2> DEFINE d == IF IsBad(tasks[n])
                  THEN [c EXCEPT !.queue = <<>>, !.blocker = n]
                  ELSE [c EXCEPT !.queue = Tail(@)]
  <2>1. pc[w] = "AdmitNeeds" /\ c.queue # <<>> /\ Goto(w, "AdmitNeeds", d)
    BY <1>5 DEF AdmitNeeds, c, n
  <2>2. d \in Call
    BY <1>0, <1>3, <2>1, EmptyQueue DEF Call
  <2>3. CallInv("AdmitNeeds", d)
    BY <1>0, <2>1 DEF CallInv, Call, Blocking
  <2> HIDE DEF d
  <2> QED
    BY <1>0, <1>1, <2>1, <2>2, <2>3, GotoInv DEF Labels
<1>6. CASE RecheckNeeds(w)
  <2> DEFINE d == [c EXCEPT !.blocker = n]
             e == [c EXCEPT !.queue = Tail(@)]
  <2>1. pc[w] = "RecheckNeeds"
    BY <1>6 DEF RecheckNeeds
  <2>2. CASE Return(w, "true")
    BY <1>0, <1>1, <2>2, ReturnInv DEF Results
  <2>3. CASE c.queue # <<>> /\ Goto(w, "RecheckLoad", d)
    <3>1. d \in Call /\ CallInv("RecheckLoad", d)
      BY <1>0, <1>3, <2>1, <2>3 DEF Call, CallInv, Blocking
    <3> HIDE DEF d
    <3> QED
      BY <1>0, <1>1, <2>3, <3>1, GotoInv DEF Labels
  <2>4. CASE c.queue # <<>> /\ Goto(w, "RecheckNeeds", e)
    <3>1. e \in Call /\ CallInv("RecheckNeeds", e)
      BY <1>0, <1>3, <2>1, <2>4 DEF Call, CallInv, Blocking
    <3> HIDE DEF e
    <3> QED
      BY <1>0, <1>1, <2>4, <3>1, GotoInv DEF Labels
  <2> QED
    BY <1>1, <1>6, <2>2, <2>3, <2>4 DEF RecheckNeeds, c, n
<1>7. CASE RecheckLoad(w)
  <2> DEFINE d == [c EXCEPT !.cur = cur, !.target = c.key]
  <2>1. pc[w] = "RecheckLoad"
    BY <1>7 DEF RecheckLoad
  <2>2. CASE Return(w, "true")
    BY <1>0, <1>1, <2>2, ReturnInv DEF Results
  <2>3. CASE IsLive(cur) /\ Goto(w, "BlockCAS", d)
    <3>1. Validate(c.key, cur)
      BY <1>0, <2>1, <2>3 DEF Pre, RecordsValid, Found, IsLive, cur
    <3>2. d \in Call
      BY <1>0, <2>1 DEF Call
    <3>3. CallInv("BlockCAS", d)
      BY <1>0, <2>1, <2>3, <3>1 DEF CallInv, Call, Blocking
    <3> HIDE DEF d
    <3> QED
      BY <1>0, <1>1, <2>3, <3>2, <3>3, GotoInv DEF Labels
  <2> QED
    BY <1>1, <1>7, <2>2, <2>3 DEF RecheckLoad, c, cur
<1> QED
  BY <1>4, <1>5, <1>6, <1>7

\* A record written by Admit: a first submission, or a rebase of the live
\* record the loop loaded, which the compare found unchanged.
LEMMA AdmitCASStep ==
  ASSUME Pre, NEW w \in Workers, AdmitCAS(w)
  PROVE  ControlInv' /\ StoreStep
<1> DEFINE c == call[w]
           next == Admitted(c)
           d == [c EXCEPT !.queue = c.needs]
<1>0. /\ ControlInv /\ c \in Call /\ CallInv(pc[w], c)
      /\ pc[w] = "AdmitNeeds" /\ c.key \in Keys
  BY Caller DEF Pre, CallInv, AdmitCAS
<1>1. AdmitEligible(c.cur, c.seq) /\ c.cur \in MaybeTask
  BY <1>0 DEF CallInv, Call
<1>2. next \in TaskState
  BY <1>0, <1>1 DEF Call, Admitted, TaskState, Status, Terminal, MaybeTask
<1>3. d \in Call /\ CallInv("RecheckNeeds", d)
  BY <1>0 DEF Call, CallInv, Blocking
<1>4. next.seq = c.seq /\ next.status \in {"pending", "blocked"}
  BY DEF Admitted
<1>5. next.fence = IF c.cur = NoTask THEN 0 ELSE c.cur.fence
  BY DEF Admitted
<1> HIDE DEF c, next, d
<1>6. CASE Return(w, "ErrInvalid") /\ UNCHANGED <<storeVars, grants>>
  BY <1>0, <1>6, ReturnInv, ReadStep DEF Results
<1>7. CASE Retry(w, "AdmitLoad") /\ UNCHANGED <<storeVars, grants>>
  BY <1>0, <1>7, RetryInv, ReadStep
<1>8. CASE /\ Validate(c.key, next)
           /\ Matches(c.key, c.cur) /\ Write(c.key, next) /\ UNCHANGED grants
           /\ Return(w, "true") \/ Goto(w, "RecheckNeeds", d)
  <2>1. ControlInv'
    BY <1>0, <1>3, <1>8, ReturnInv, GotoInv DEF Results, Labels
  <2>2. Submits(c.key, next)
    <3>1. CASE c.cur = NoTask
      BY <1>0, <1>4, <1>8, <3>1, MatchesAbsent DEF Submits
    <3>2. CASE c.cur # NoTask
      <4>1. /\ Found(c.key) /\ tasks[c.key].seq = c.cur.seq
            /\ tasks[c.key].status = c.cur.status
            /\ tasks[c.key].fence = c.cur.fence
        BY <1>0, <1>8, <3>2, MatchesLoaded
      <4>2. ~IsTerminal(c.cur) /\ c.seq > c.cur.seq
        BY <1>1, <3>2 DEF AdmitEligible
      <4> QED
        BY <1>4, <1>5, <3>2, <4>1, <4>2
        DEF Submits, IsLive, IsTerminal, Found
    <3> QED
      BY <3>1, <3>2
  <2> QED
    BY <1>0, <1>2, <1>8, <2>1, <2>2 DEF StoreStep, LegalWrite
<1> QED
  BY <1>6, <1>7, <1>8 DEF AdmitCAS, c, next, d

\* The load of Claim and Takeover and the walk over the ancestors.
LEMMA ClaimReads ==
  ASSUME Pre, NEW w \in Workers, ClaimLoad(w) \/ Walk(w)
  PROVE  ControlInv' /\ StoreStep
<1> DEFINE c == call[w]
           cur == tasks[c.key]
           n == Head(c.queue)
<1>0. /\ ControlInv /\ c \in Call /\ CallInv(pc[w], c)
      /\ pc[w] # "idle" => cur \in MaybeTask /\ c.key \in Keys
  BY Caller DEF Pre, CallInv
<1>1. StoreStep
  BY ReadStep DEF ClaimLoad, Walk
<1>2. c.queue \in Seq(Keys) /\ c.seen \subseteq Keys
  BY <1>0 DEF Call
<1> HIDE DEF c, cur, n
<1>3. CASE ClaimLoad(w)
  <2> DEFINE d == [c EXCEPT !.cur = cur, !.queue = cur.needs, !.seen = {}]
             verdict == ClaimVerdict(c.op, cur, c.now)
  <2>1. pc[w] = "ClaimLoad" /\ c.op \in ClaimOps
    BY <1>0, <1>3 DEF ClaimLoad, CallInv
  <2>2. \/ cur = NoTask
        \/ /\ cur \in TaskState /\ cur # NoTask
           /\ \/ cur.status = "pending" \/ cur.status = "claimed"
              \/ IsTerminal(cur) /\ cur.status \notin {"pending", "claimed"}
    BY <1>0, <2>1 DEF MaybeTask, TaskState, Status, IsTerminal, Terminal
  <2>3. /\ verdict \in Results
        /\ verdict = "ok" => cur \in TaskState /\ IsLive(cur)
    BY <2>1, <2>2 DEF ClaimVerdict, Results, IsLive, IsTerminal, Terminal,
       ClaimOps
  <2>4. CASE Return(w, verdict)
    BY <1>0, <1>1, <2>3, <2>4, ReturnInv
  <2>5. CASE verdict = "ok" /\ Goto(w, "Walk", d)
    <3>1. cur \in TaskState /\ cur.needs \in Seq(Keys)
      BY <2>3, <2>5 DEF TaskState
    <3>2. Validate(c.key, cur)
      BY <1>0, <2>1, <2>3, <2>5 DEF Pre, RecordsValid, Found, IsLive, cur
    <3>3. d \in Call
      BY <1>0, <3>1 DEF Call, MaybeTask
    <3>4. CallInv("Walk", d)
      BY <1>0, <2>1, <2>3, <2>5, <3>2 DEF CallInv, Call, Blocking
    <3> HIDE DEF d
    <3> QED
      BY <1>0, <1>1, <2>5, <3>3, <3>4, GotoInv DEF Labels
  <2> HIDE DEF verdict, d
  <2> QED
    BY <1>3, <2>4, <2>5 DEF ClaimLoad, c, cur, verdict, d
<1>4. CASE Walk(w)
  <2> DEFINE rest == [c EXCEPT !.queue = Tail(@), !.seen = @ \cup {n}]
             d == [c EXCEPT !.blocker = n, !.target = c.key]
             e == IF n \notin c.seen /\ Found(n)
                  THEN [rest EXCEPT !.queue = @ \o tasks[n].needs]
                  ELSE rest
  <2>1. pc[w] = "Walk" /\ c.queue # <<>>
    BY <1>4 DEF Walk, c
  <2>2. n \in Keys /\ Tail(c.queue) \in Seq(Keys)
    BY <1>2, <2>1, HeadTailProperties DEF n
  <2>3. rest \in Call /\ rest.queue = Tail(c.queue)
    BY <1>0, <1>2, <2>2 DEF Call
  <2>4. CallInv("Walk", rest)
    BY <1>0, <2>1 DEF CallInv, Call, Blocking
  <2>5. CASE Goto(w, "BlockCAS", d)
    <3>1. d \in Call /\ CallInv("BlockCAS", d)
      BY <1>0, <2>1, <2>2 DEF Call, CallInv, Blocking
    <3> HIDE DEF d
    <3> QED
      BY <1>0, <1>1, <2>5, <3>1, GotoInv DEF Labels
  <2> HIDE DEF rest
  <2>6. CASE Goto(w, "Walk", e)
    <3>1. Found(n) => tasks[n].needs \in Seq(Keys)
      BY <2>2 DEF Pre, StoreTypeOK, Found, TaskState
    <3>2. Found(n) => Tail(c.queue) \o tasks[n].needs \in Seq(Keys)
      BY <2>2, <3>1, ConcatProperties
    <3>3. e \in Call
      BY <2>3, <3>2 DEF Call
    <3>4. CallInv("Walk", e)
      BY <2>3, <2>4 DEF CallInv, Call, Blocking
    <3> HIDE DEF e
    <3> QED
      BY <1>0, <1>1, <2>6, <3>3, <3>4, GotoInv DEF Labels
  <2> QED
    BY <1>4, <2>5, <2>6 DEF Walk, c, n, rest
<1> QED
  BY <1>3, <1>4

\* The record a grant writes, field by field.
LEMMA ClaimedRecord ==
  ASSUME NEW w \in Workers, NEW c \in Call, c.cur \in TaskState
  PROVE  LET u == Claimed(w, c)
         IN /\ u \in TaskState /\ u.status = "claimed" /\ u.owner = w
            /\ u.fence = c.cur.fence + 1 /\ u.leaseUntil = c.now + c.lease
            /\ u.needs = c.cur.needs /\ u.blockedBy = c.cur.blockedBy
<1> DEFINE t == c.cur
           until == c.now + c.lease
           u == [t EXCEPT !.status = "claimed", !.owner = w, !.fence = @ + 1,
                          !.leaseUntil = until]
<1>1. w \in Owners \cup {NoOwner} /\ "claimed" \in Status
  BY DEF Workers, Status
<1>2. t \in TaskState /\ until \in Nat
  BY DEF Call
<1>3. Claimed(w, c) = u
  BY DEF Claimed
<1> HIDE DEF t, until
<1>4. t.fence + 1 \in Nat
  BY <1>2 DEF TaskState
<1>5. /\ u \in TaskState /\ u.status = "claimed" /\ u.owner = w
      /\ u.fence = t.fence + 1 /\ u.leaseUntil = until
      /\ u.needs = t.needs /\ u.blockedBy = t.blockedBy
  BY <1>1, <1>2, <1>4 DEF TaskState
<1> QED
  BY <1>3, <1>5 DEF t, until

\* The record Renew, Release and Complete write.
LEMMA OwnerRecord ==
  ASSUME NEW c \in Call, CallInv("OwnerCAS", c)
  PROVE  LET u == OwnerWrites(c)
         IN /\ u \in TaskState /\ Validate(c.key, u)
            /\ u.fence = c.cur.fence /\ u.seq = c.cur.seq
            /\ u.needs = c.cur.needs
            /\ u.status \in {"pending", "claimed", "completed", "failed"}
            /\ u.status = "failed" => c.op = "Complete" /\ c.status = "failed"
<1> DEFINE t == c.cur
           until == c.now + c.lease
           k == c.key
           status == c.status
<1>1. /\ t \in TaskState /\ Validate(k, t) /\ t.status = "claimed"
      /\ c.op \in {"Renew", "Release", "Complete"}
      /\ until \in Nat /\ (c.op = "Renew" => until # 0)
      /\ status \in {"completed", "failed"}
  BY DEF CallInv, Call, MaybeTask, OwnerOps
<1>2. CASE c.op = "Renew"
  <2> DEFINE u == [t EXCEPT !.leaseUntil = until]
  <2>1. OwnerWrites(c) = u
    BY <1>2 DEF OwnerWrites
  <2>2. until # 0
    BY <1>1, <1>2
  <2> HIDE DEF t, until, k
  <2>3. /\ u \in TaskState /\ u.leaseUntil = until /\ u.status = t.status
        /\ u.owner = t.owner /\ u.needs = t.needs /\ u.seq = t.seq
        /\ u.blockedBy = t.blockedBy /\ u.fence = t.fence
    BY <1>1 DEF TaskState
  <2> HIDE DEF u
  <2>4. Validate(k, u)
    BY <1>1, <2>2, <2>3 DEF Validate
  <2> QED
    BY <1>1, <2>1, <2>3, <2>4 DEF t, k
<1>3. CASE c.op = "Release"
  <2> DEFINE u == [t EXCEPT !.status = "pending", !.owner = NoOwner,
                            !.leaseUntil = 0]
  <2>1. OwnerWrites(c) = u
    BY <1>3 DEF OwnerWrites
  <2> HIDE DEF t, until, k
  <2>2. "pending" \in Status
    BY DEF Status
  <2>3. /\ u \in TaskState /\ u.status = "pending"
        /\ u.needs = t.needs /\ u.seq = t.seq
        /\ u.blockedBy = t.blockedBy /\ u.fence = t.fence
    BY <1>1, <2>2 DEF TaskState
  <2> HIDE DEF u
  <2>4. Validate(k, u)
    BY <1>1, <2>3 DEF Validate
  <2> QED
    BY <2>1, <2>3, <2>4 DEF t, k
<1>4. CASE c.op = "Complete"
  <2> DEFINE u == [t EXCEPT !.status = status]
  <2>1. OwnerWrites(c) = u
    BY <1>4 DEF OwnerWrites
  <2> HIDE DEF t, until, k, status
  <2>2. status \in Status
    BY <1>1 DEF Status, Terminal
  <2>3. /\ u \in TaskState /\ u.status = status
        /\ u.needs = t.needs /\ u.seq = t.seq
        /\ u.blockedBy = t.blockedBy /\ u.fence = t.fence
    BY <1>1, <2>2 DEF TaskState
  <2> HIDE DEF u
  <2>4. Validate(k, u)
    BY <1>1, <2>3 DEF Validate
  <2> QED
    BY <1>1, <1>4, <2>1, <2>3, <2>4 DEF t, k, status
<1> QED
  BY <1>1, <1>2, <1>3, <1>4

\* The record blockOne writes.
LEMMA BlockedRecord ==
  ASSUME NEW c \in Call, CallInv("BlockCAS", c)
  PROVE  LET u == Blocked(c)
         IN /\ u \in TaskState /\ Validate(c.target, u)
            /\ u.fence = c.cur.fence /\ u.status = "blocked"
            /\ u.blockedBy = c.blocker
<1> DEFINE t == c.cur
           k == c.target
           b == c.blocker
           u == [t EXCEPT !.status = "blocked", !.blockedBy = b]
<1>1. t \in TaskState /\ Validate(k, t) /\ b \in Keys
  BY DEF CallInv, Call, MaybeTask, IsLive, Blocking
<1>2. b # NoKey /\ "blocked" \in Status
  BY <1>1, KeysAssumption DEF Status, Terminal
<1>3. Blocked(c) = u
  BY DEF Blocked
<1> HIDE DEF t, k, b
<1>4. /\ u \in TaskState /\ u.status = "blocked" /\ u.blockedBy = b
      /\ u.needs = t.needs /\ u.fence = t.fence
  BY <1>1, <1>2 DEF TaskState
<1> HIDE DEF u
<1>5. Validate(k, u)
  BY <1>1, <1>2, <1>4 DEF Validate
<1> QED
  BY <1>3, <1>4, <1>5 DEF t, k, b

\* A grant: the compare makes the fence it adds one to the stored one.
LEMMA ClaimCASStep ==
  ASSUME Pre, NEW w \in Workers, ClaimCAS(w)
  PROVE  ControlInv' /\ StoreStep
<1> DEFINE c == call[w]
           new == Claimed(w, c)
<1>0. /\ ControlInv /\ c \in Call /\ CallInv(pc[w], c)
      /\ pc[w] = "Walk" /\ c.key \in Keys
  BY Caller DEF Pre, CallInv, ClaimCAS
<1>1. c.cur \in TaskState /\ c.cur # NoTask /\ IsLive(c.cur)
      /\ Validate(c.key, c.cur) /\ c.lease > 0
  BY <1>0 DEF CallInv, Call, MaybeTask, IsLive
<1>2. c.now \in Nat /\ c.lease \in Nat
  BY <1>0 DEF Call
<1>3. /\ new \in TaskState /\ new.status = "claimed" /\ new.owner = w
      /\ new.fence = c.cur.fence + 1 /\ new.leaseUntil = c.now + c.lease
      /\ new.needs = c.cur.needs /\ new.blockedBy = c.cur.blockedBy
  BY <1>0, <1>1, ClaimedRecord
<1>4. Validate(c.key, new)
  <2>1. new.owner # NoOwner /\ new.leaseUntil # 0
    BY <1>1, <1>2, <1>3, OwnersAssumption DEF Workers
  <2>2. c.cur.status # "blocked"
    BY <1>1 DEF IsLive, IsTerminal, Terminal
  <2> QED
    BY <1>1, <1>3, <2>1, <2>2 DEF Validate
<1> HIDE DEF c, new
<1>5. CASE Retry(w, "ClaimLoad") /\ UNCHANGED <<storeVars, grants>>
  BY <1>0, <1>5, RetryInv, ReadStep
<1>6. CASE /\ Matches(c.key, c.cur) /\ Write(c.key, new)
           /\ grants' = grants \cup {<<c.key, c.cur.fence + 1, w>>}
           /\ Return(w, "ok")
  <2>1. ControlInv'
    BY <1>0, <1>6, ReturnInv DEF Results
  <2>2. Grants(c.key, new)
    BY <1>0, <1>1, <1>3, <1>6, MatchesLoaded
    DEF Grants, IsLive, IsTerminal, Found
  <2> QED
    BY <1>0, <1>3, <1>4, <1>6, <2>1, <2>2 DEF StoreStep, LegalWrite
<1> QED
  BY <1>5, <1>6 DEF ClaimCAS, c, new

\* The load of Renew, Release and Complete.
LEMMA OwnerLoadStep ==
  ASSUME Pre, NEW w \in Workers, OwnerLoad(w)
  PROVE  ControlInv' /\ StoreStep
<1> DEFINE c == call[w]
           cur == tasks[c.key]
           d == [c EXCEPT !.cur = cur]
           verdict == OwnerVerdict(c.op, cur, c.fence)
<1>0. /\ ControlInv /\ c \in Call /\ CallInv(pc[w], c)
      /\ pc[w] = "OwnerLoad" /\ cur \in MaybeTask /\ c.key \in Keys
  BY Caller DEF Pre, CallInv, OwnerLoad
<1>1. StoreStep
  BY ReadStep DEF OwnerLoad
<1>2. /\ verdict \in Results
      /\ verdict = "ok" => cur # NoTask /\ cur.status = "claimed"
                           /\ cur.fence = c.fence
  BY DEF OwnerVerdict, Results
<1> HIDE DEF c, cur, verdict
<1>3. CASE Return(w, verdict)
  BY <1>0, <1>1, <1>2, <1>3, ReturnInv
<1>4. CASE verdict = "ok" /\ Goto(w, "OwnerCAS", d)
  <2>1. Validate(c.key, cur)
    BY <1>0, <1>2, <1>4 DEF Pre, RecordsValid, Found, cur
  <2>2. d \in Call
    BY <1>0 DEF Call
  <2>3. CallInv("OwnerCAS", d)
    BY <1>0, <1>2, <1>4, <2>1 DEF CallInv, Call, Blocking
  <2> HIDE DEF d
  <2> QED
    BY <1>0, <1>1, <1>4, <2>2, <2>3, GotoInv DEF Labels
<1> QED
  BY <1>3, <1>4 DEF OwnerLoad, c, cur, verdict

\* Renew, Release and Complete write a record that is still claimed under
\* the fence they present.
LEMMA OwnerCASStep ==
  ASSUME Pre, NEW w \in Workers, OwnerCAS(w)
  PROVE  ControlInv' /\ StoreStep
<1> DEFINE c == call[w]
           new == OwnerWrites(c)
<1>0. /\ ControlInv /\ c \in Call /\ CallInv(pc[w], c)
      /\ pc[w] = "OwnerCAS" /\ c.key \in Keys
  BY Caller DEF Pre, CallInv, OwnerCAS
<1>1. /\ c.cur \in TaskState /\ c.cur # NoTask /\ Validate(c.key, c.cur)
      /\ c.cur.status = "claimed" /\ c.cur.fence = c.fence
  BY <1>0 DEF CallInv, Call, MaybeTask
<1>3. /\ new \in TaskState /\ Validate(c.key, new)
      /\ new.fence = c.cur.fence
      /\ new.status \in {"pending", "claimed", "completed", "failed"}
  BY <1>0, OwnerRecord
<1>4. c.op = "Complete" => CallInv("Range", c)
  BY <1>0 DEF CallInv, Blocking
<1> HIDE DEF c, new
<1>5. CASE Retry(w, "OwnerLoad") /\ UNCHANGED <<storeVars, grants>>
  BY <1>0, <1>5, RetryInv, ReadStep
<1>6. CASE /\ Matches(c.key, c.cur) /\ Write(c.key, new) /\ UNCHANGED grants
           /\ IF c.op = "Complete" /\ c.status = "failed"
              THEN Goto(w, "Range", c) ELSE Return(w, "ok")
  <2>1. ControlInv'
    BY <1>0, <1>4, <1>6, ReturnInv, GotoInv DEF Results, Labels
  <2>2. Settles(c.key, new)
    BY <1>0, <1>1, <1>3, <1>6, MatchesLoaded DEF Settles, c
  <2> QED
    BY <1>0, <1>3, <1>6, <2>1, <2>2 DEF StoreStep, LegalWrite
<1> QED
  BY <1>5, <1>6 DEF OwnerCAS, c, new

-----------------------------------------------------------------------------
(* Blocking.                                                               *)

\* The next dependent in key order is one of those left.
LEMMA FirstIn ==
  ASSUME NEW S \in SUBSET Keys, S # {}
  PROVE  First(S) \in S
<1> DEFINE R == OpToRel(<, Nat)
<1>1. S \subseteq Nat
  BY KeysAssumption
<1>2. \E x \in S : \A y \in S : ~(<<y, x>> \in R)
  <2>1. IsWellFoundedOn(R, Nat)
    BY NatLessThanWellFounded
  <2> HIDE DEF R
  <2> QED
    BY <1>1, <2>1, WFMin
<1>3. ASSUME NEW x \in Nat, NEW y \in Nat, y < x
      PROVE  <<y, x>> \in R
  BY <1>3, Zenon DEF OpToRel
<1> HIDE DEF R
<1>4. \E x \in S : \A y \in S : x <= y
  <2>1. PICK x \in S : \A y \in S : ~(<<y, x>> \in R)
    BY <1>2
  <2>2. ASSUME NEW y \in S PROVE x <= y
    <3>1. x \in Nat /\ y \in Nat /\ ~(y < x)
      BY <1>1, <1>3, <2>1
    <3> QED
      BY <3>1
  <2> QED
    BY <2>2
<1> QED
  BY <1>4 DEF First

\* blockOne begins for the next dependent, with the record of the Range
\* snapshot, or the method returns.
LEMMA NextDependentInv ==
  ASSUME ControlInv, NEW w \in Workers, NEW c \in Call,
         NEW result \in Results,
         c.key \in Keys, c.blocker \in Keys,
         \A k \in c.todo : IsLive(c.list[k]) /\ Validate(k, c.list[k]),
         NextDependent(w, c, result)
  PROVE  ControlInv'
<1>1. CASE c.todo = {}
  BY <1>1, ReturnInv DEF NextDependent
<1>2. CASE c.todo # {}
  <2> DEFINE k == First(c.todo)
             d == [c EXCEPT !.target = k, !.cur = c.list[k], !.todo = @ \ {k}]
  <2>1. k \in c.todo /\ k \in Keys
    BY <1>2, FirstIn DEF Call
  <2>2. Goto(w, "BlockCAS", d)
    BY <1>2 DEF NextDependent
  <2> HIDE DEF k
  <2>3. c.list[k] \in MaybeTask
    BY <2>1 DEF Call
  <2>4. d \in Call
    BY <2>1, <2>3 DEF Call
  <2>5. CallInv("BlockCAS", d)
    BY <2>1 DEF CallInv, Call, Blocking
  <2> HIDE DEF d
  <2> QED
    BY <2>2, <2>4, <2>5, GotoInv DEF Labels
<1> QED
  BY <1>1, <1>2

\* The Range of blockDependents lists recorded, live dependents only.
LEMMA BlockDependentsStep ==
  ASSUME Pre, NEW w \in Workers, BlockDependents(w)
  PROVE  ControlInv' /\ StoreStep
<1> DEFINE c == call[w]
           live == {k \in TransitiveDependents(tasks, c.key) :
                      ~IsTerminal(tasks[k])}
           d == [c EXCEPT !.blocker = c.key, !.todo = live, !.list = tasks]
<1>0. /\ ControlInv /\ c \in Call /\ CallInv(pc[w], c)
      /\ pc[w] = "Range" /\ c.key \in Keys
  BY Caller DEF Pre, CallInv, BlockDependents
<1>1. StoreStep
  BY ReadStep DEF BlockDependents
<1>2. NextDependent(w, d, "ok")
  BY DEF BlockDependents
<1>3. \A k \in live : k \in Keys /\ IsLive(tasks[k]) /\ Validate(k, tasks[k])
  BY DEF TransitiveDependents, IsLive, Pre, RecordsValid, Found
<1>4. tasks \in [Keys -> MaybeTask]
  BY DEF Pre, StoreTypeOK, MaybeTask
<1> HIDE DEF c, live
<1>5. d \in Call
  BY <1>0, <1>3, <1>4 DEF Call
<1>6. /\ d.key \in Keys /\ d.blocker \in Keys
      /\ \A k \in d.todo : IsLive(d.list[k]) /\ Validate(k, d.list[k])
  BY <1>0, <1>3 DEF Call
<1> HIDE DEF d
<1> QED
  BY <1>0, <1>1, <1>2, <1>5, <1>6, NextDependentInv DEF Results

\* blockOne's swap: the record it replaces is still live.
LEMMA BlockCASStep ==
  ASSUME Pre, NEW w \in Workers, BlockCAS(w)
  PROVE  ControlInv' /\ StoreStep
<1> DEFINE c == call[w]
           new == Blocked(c)
<1>0. /\ ControlInv /\ c \in Call /\ CallInv(pc[w], c)
      /\ pc[w] = "BlockCAS" /\ c.key \in Keys
  BY Caller DEF Pre, CallInv, BlockCAS
<1>1. /\ IsLive(c.cur) /\ c.target \in Keys /\ c.blocker \in Keys
      /\ \A k \in c.todo : IsLive(c.list[k]) /\ Validate(k, c.list[k])
  BY <1>0 DEF CallInv, Blocking
<1>2. /\ new \in TaskState /\ Validate(c.target, new)
      /\ new.fence = c.cur.fence /\ new.status = "blocked"
  BY <1>0, BlockedRecord
<1>3. BlockResult(c.op) \in Results
  BY DEF BlockResult, Results
<1>4. CallInv("BlockLoad", c)
  BY <1>0, <1>1 DEF CallInv, Blocking
<1> HIDE DEF c, new
<1>5. CASE Goto(w, "BlockLoad", c) /\ UNCHANGED <<storeVars, grants>>
  BY <1>0, <1>4, <1>5, GotoInv, ReadStep DEF Labels
<1>6. CASE /\ Matches(c.target, c.cur) /\ Write(c.target, new)
           /\ NextDependent(w, c, BlockResult(c.op)) /\ UNCHANGED grants
  <2>1. ControlInv'
    BY <1>0, <1>1, <1>3, <1>6, NextDependentInv
  <2>2. Blocks(c.target, new)
    BY <1>1, <1>2, <1>6, MatchesLoaded
    DEF Blocks, IsLive, IsTerminal, Found
  <2> QED
    BY <1>1, <1>2, <1>6, <2>1, <2>2 DEF StoreStep, LegalWrite
<1> QED
  BY <1>5, <1>6 DEF BlockCAS, c, new

\* blockOne reloads after a lost swap and goes on with a live record only.
LEMMA BlockLoadStep ==
  ASSUME Pre, NEW w \in Workers, BlockLoad(w)
  PROVE  ControlInv' /\ StoreStep
<1> DEFINE c == call[w]
           fresh == tasks[c.target]
           d == [c EXCEPT !.cur = fresh]
<1>0. /\ ControlInv /\ c \in Call /\ CallInv(pc[w], c)
      /\ pc[w] = "BlockLoad" /\ c.key \in Keys
  BY Caller DEF Pre, CallInv, BlockLoad
<1>1. /\ c.target \in Keys /\ c.blocker \in Keys
      /\ \A k \in c.todo : IsLive(c.list[k]) /\ Validate(k, c.list[k])
  BY <1>0 DEF CallInv, Blocking
<1>2. StoreStep
  BY ReadStep DEF BlockLoad
<1>3. BlockResult(c.op) \in Results
  BY DEF BlockResult, Results
<1>4. fresh \in MaybeTask /\ (IsLive(fresh) => Validate(c.target, fresh))
  BY <1>1 DEF Pre, StoreTypeOK, MaybeTask, RecordsValid, Found, IsLive
<1> HIDE DEF c, fresh
<1>5. CASE NextDependent(w, c, BlockResult(c.op))
  BY <1>0, <1>1, <1>2, <1>3, <1>5, NextDependentInv
<1>6. CASE IsLive(fresh) /\ Goto(w, "BlockCAS", d)
  <2>1. d \in Call
    BY <1>0, <1>4 DEF Call
  <2>2. CallInv("BlockCAS", d)
    BY <1>0, <1>1, <1>4, <1>6 DEF CallInv, Call, Blocking
  <2> HIDE DEF d
  <2> QED
    BY <1>0, <1>2, <1>6, <2>1, <2>2, GotoInv DEF Labels
<1> QED
  BY <1>5, <1>6 DEF BlockLoad, c, fresh

\* A fault ends a call without a write.
LEMMA AbortStep ==
  ASSUME Pre, NEW w \in Workers, Abort(w)
  PROVE  ControlInv' /\ StoreStep
  BY ReturnInv, ReadStep DEF Pre, Abort, Results

-----------------------------------------------------------------------------
(* The invariant is inductive.                                             *)

\* Every step of the specification does one legal thing to the store.
LEMMA StepEffect ==
  ASSUME Pre, grants \subseteq Keys \X Nat \X Workers, [Next]_ledgerVars
  PROVE  ControlInv' /\ StoreStep
<1>1. CASE UNCHANGED ledgerVars
  BY <1>1 DEF ledgerVars, Pre, ControlInv, ControlTypeOK, StoreStep,
     StoreTypeOK
<1>2. CASE Passing
  BY <1>2 DEF Passing, Tick, Pre, ControlInv, ControlTypeOK, StoreStep,
     StoreTypeOK
<1>3. ASSUME NEW w \in Workers, Start(w) \/ Step(w) \/ Abort(w)
      PROVE  ControlInv' /\ StoreStep
  <2>1. CASE Step(w)
    BY <2>1, AdmitReads, AdmitCASStep, ClaimReads, ClaimCASStep,
       OwnerLoadStep, OwnerCASStep, BlockDependentsStep, BlockCASStep,
       BlockLoadStep
    DEF Step
  <2> QED
    BY <1>3, <2>1, StartStep, AbortStep
<1> QED
  BY <1>1, <1>2, <1>3 DEF Next

\* Stored changes the revision, and the fence only of an insert.
LEMMA StoredFields ==
  ASSUME StoreTypeOK, NEW k \in Keys, NEW new \in TaskState
  PROVE  LET t == Stored(k, new)
         IN /\ t.status = new.status /\ t.seq = new.seq /\ t.owner = new.owner
            /\ t.leaseUntil = new.leaseUntil /\ t.needs = new.needs
            /\ t.blockedBy = new.blockedBy
            /\ Found(k) => t.fence = new.fence
            /\ ~Found(k) => t.fence >= fenceFloor /\ t.fence >= new.fence
<1>1. CASE Found(k)
  BY <1>1 DEF Stored, TaskState
<1>2. CASE ~Found(k)
  BY <1>2 DEF Stored, TaskState, StoreTypeOK
<1> QED
  BY <1>1, <1>2

\* A legal write never lowers the fence of a recorded key.
LEMMA FencesRise ==
  ASSUME StoreTypeOK, NEW k \in Keys, NEW new \in TaskState,
         LegalWrite(k, new), Found(k)
  PROVE  new.fence >= tasks[k].fence
<1>1. tasks[k].fence \in Nat
  BY DEF StoreTypeOK, Found, TaskState
<1>2. new.fence = tasks[k].fence \/ new.fence = tasks[k].fence + 1
  BY DEF LegalWrite, Submits, Grants, Settles, Blocks
<1> QED
  BY <1>1, <1>2

\* The store half of the invariant survives every step.
LEMMA StoreInv ==
  ASSUME IInv, StoreStep
  PROVE  StoreTypeOK' /\ RecordsValid' /\ FenceInv'
         /\ grants' \subseteq Keys \X Nat \X Workers
<1>0. /\ StoreTypeOK /\ RecordsValid /\ FenceInv
      /\ grants \subseteq Keys \X Nat \X Workers
  BY DEF IInv, TypeOK
<1>1. CASE UNCHANGED <<tasks, fenceFloor, grants>> /\ clock' \in Nat
  BY <1>0, <1>1 DEF StoreTypeOK, RecordsValid, FenceInv, Found
<1>2. ASSUME NEW k \in Keys, NEW new \in TaskState,
             LegalWrite(k, new), Write(k, new),
             \/ grants' = grants
             \/ /\ Grants(k, new)
                /\ \E w \in Workers : grants' = grants \cup {<<k, new.fence, w>>}
      PROVE  StoreTypeOK' /\ RecordsValid' /\ FenceInv'
             /\ grants' \subseteq Keys \X Nat \X Workers
  <2>1. /\ StoreTypeOK' /\ tasks'[k] = Stored(k, new) /\ tasks'[k] # NoTask
        /\ fenceFloor' >= fenceFloor
        /\ \A j \in Keys \ {k} :
             \/ tasks'[j] = tasks[j]
             \/ Found(j) /\ tasks'[j] = NoTask /\ fenceFloor' >= tasks[j].fence
    BY <1>0, <1>2, WriteEffect
  <2>2. Validate(k, tasks'[k])
    BY <1>0, <1>2, <2>1, StoredFields DEF Validate, LegalWrite
  <2>3. RecordsValid'
    BY <1>0, <2>1, <2>2 DEF RecordsValid, Found
  <2>4. new.fence \in Nat /\ fenceFloor \in Nat /\ fenceFloor' \in Nat
    BY <1>0, <2>1 DEF TaskState, StoreTypeOK
  <2>5. \A g \in grants' : /\ g[1] \in Keys /\ g[2] \in Nat
                           /\ g \notin grants => g[1] = k /\ g[2] = new.fence
    BY <1>0, <1>2, <2>4
  <2>6. grants' \subseteq Keys \X Nat \X Workers
    BY <1>0, <1>2, <2>4
  <2>7. ASSUME NEW g \in grants'
        PROVE  g[2] <= IF (Found(g[1]))' THEN tasks'[g[1]].fence
                                         ELSE fenceFloor'
    <3>1. CASE g \notin grants
      <4>1. Found(k)
        BY <1>2, <3>1 DEF Grants, IsLive, Found
      <4> QED
        BY <1>0, <2>1, <2>4, <2>5, <3>1, <4>1, StoredFields DEF Found
    <3>2. CASE g \in grants /\ g[1] = k
      <4>1. CASE Found(k)
        <5>1. g[2] <= tasks[k].fence /\ tasks[k].fence \in Nat
          BY <1>0, <3>2, <4>1 DEF FenceInv, StoreTypeOK, Found, TaskState
        <5>2. tasks'[k].fence = new.fence /\ new.fence >= tasks[k].fence
          BY <1>0, <1>2, <2>1, <4>1, StoredFields, FencesRise
        <5> QED
          BY <2>1, <2>4, <2>5, <3>2, <5>1, <5>2 DEF Found
      <4>2. CASE ~Found(k)
        <5>1. g[2] <= fenceFloor
          BY <3>2, <4>2, <1>0 DEF FenceInv
        <5>2. tasks'[k].fence >= fenceFloor /\ tasks'[k].fence \in Nat
          BY <1>0, <2>1, <4>2, StoredFields, StoredType DEF TaskState
        <5> QED
          BY <2>1, <2>4, <2>5, <3>2, <5>1, <5>2 DEF Found
      <4> QED
        BY <4>1, <4>2
    <3>3. CASE g \in grants /\ g[1] # k
      <4>1. Found(g[1]) => tasks[g[1]].fence \in Nat
        BY <1>0, <2>5 DEF StoreTypeOK, Found, TaskState
      <4>2. g[2] <= IF Found(g[1]) THEN tasks[g[1]].fence ELSE fenceFloor
        BY <1>0, <3>3 DEF FenceInv
      <4> QED
        BY <2>1, <2>4, <2>5, <3>3, <4>1, <4>2 DEF Found
    <3> QED
      BY <2>5, <3>1, <3>2, <3>3
  <2> QED
    BY <2>1, <2>3, <2>6, <2>7 DEF FenceInv
<1> QED
  BY <1>1, <1>2 DEF StoreStep

\* The invariant holds initially.
LEMMA InitIInv == Init => IInv
<1> SUFFICES ASSUME Init PROVE IInv
  OBVIOUS
<1>1. StoreTypeOK /\ RecordsValid
  BY DEF Init, StoreInit, StoreTypeOK, RecordsValid, Found
<1>2. ControlInv
  BY NoCallType, NoCallInv
  DEF Init, ControlInv, ControlTypeOK, Labels, Results
<1> QED
  BY <1>1, <1>2 DEF Init, IInv, TypeOK, ControlInv, ControlTypeOK, FenceInv

\* Every step keeps the invariant.
LEMMA NextIInv == IInv /\ [Next]_ledgerVars => IInv'
<1> SUFFICES ASSUME IInv, [Next]_ledgerVars PROVE IInv'
  OBVIOUS
<1>1. Pre /\ grants \subseteq Keys \X Nat \X Workers
  BY DEF IInv, TypeOK, Pre, ControlInv, ControlTypeOK
<1>2. ControlInv' /\ StoreStep
  BY <1>1, StepEffect
<1>3. StoreTypeOK' /\ RecordsValid' /\ FenceInv'
      /\ grants' \subseteq Keys \X Nat \X Workers
  BY <1>2, StoreInv
<1> QED
  BY <1>2, <1>3 DEF IInv, TypeOK, ControlInv, ControlTypeOK

\* The invariant holds in every reachable state.
THEOREM Invariance == Spec => []IInv
  BY InitIInv, NextIInv, PTL DEF Spec

-----------------------------------------------------------------------------
(* Theorems.                                                               *)

\* Store, control and granted tokens keep their types, for every interleaving
\* of the six methods.
THEOREM TypeCorrect == Spec => []TypeOK
<1>1. IInv => TypeOK
  BY DEF IInv
<1> QED
  BY <1>1, Invariance, PTL

\* Every stored record passes TaskState.Validate, so the validation before
\* each later CompareAndSwap of Claim, Renew, Release, Complete and blockOne
\* never fails.
THEOREM RecordsStayValid == Spec => []RecordsValid
<1>1. IInv => RecordsValid
  BY DEF IInv
<1> QED
  BY <1>1, Invariance, PTL

\* A finished record is never written again, whichever loop read it while it
\* was live.
THEOREM TerminalStays == Spec => TerminalIsFinal
<1>1. IInv /\ [Next]_ledgerVars =>
        [\A k \in Keys : Found(k) /\ IsTerminal(tasks[k]) =>
            tasks'[k] \in {tasks[k], NoTask}]_ledgerVars
  <2> SUFFICES ASSUME IInv, [Next]_ledgerVars, NEW k \in Keys,
                      Found(k), IsTerminal(tasks[k])
               PROVE  tasks'[k] \in {tasks[k], NoTask}
    OBVIOUS
  <2>1. StoreStep /\ StoreTypeOK
    BY StepEffect DEF IInv, TypeOK, Pre, ControlInv, ControlTypeOK
  <2>2. ASSUME NEW j \in Keys, NEW new \in TaskState,
               LegalWrite(j, new), Write(j, new)
        PROVE  tasks'[k] \in {tasks[k], NoTask}
    <3>1. j # k
      BY <2>2 DEF LegalWrite, Submits, Grants, Settles, Blocks, IsLive,
         IsTerminal, Terminal
    <3> QED
      BY <2>1, <2>2, <3>1, WriteEffect
  <2> QED
    BY <2>1, <2>2 DEF StoreStep
<1> QED
  BY <1>1, Invariance, PTL DEF Spec, TerminalIsFinal

\* A claimed record is finished or released only under the last token that
\* was granted for its key.
THEOREM LatestOwnerFinishes == Spec => OnlyLatestOwnerFinishes
<1>1. IInv /\ [Next]_ledgerVars =>
        [\A k \in Keys :
           /\ Found(k) /\ tasks[k].status = "claimed"
           /\ tasks'[k] # NoTask
           /\ tasks'[k].seq = tasks[k].seq
           /\ tasks'[k].status \in {"pending", "completed", "failed"}
           => \E w \in Workers :
                /\ pc[w] = "OwnerCAS" /\ call[w].key = k
                /\ LatestToken(k, call[w].fence)]_ledgerVars
  <2> SUFFICES ASSUME IInv, [Next]_ledgerVars, NEW k \in Keys,
                      Found(k), tasks[k].status = "claimed",
                      tasks'[k] # NoTask, tasks'[k].seq = tasks[k].seq,
                      tasks'[k].status \in {"pending", "completed", "failed"}
               PROVE  \E w \in Workers :
                        /\ pc[w] = "OwnerCAS" /\ call[w].key = k
                        /\ LatestToken(k, call[w].fence)
    OBVIOUS
  <2>1. StoreStep /\ StoreTypeOK /\ FenceInv
    BY StepEffect DEF IInv, TypeOK, Pre, ControlInv, ControlTypeOK
  <2>2. LatestToken(k, tasks[k].fence)
    BY <2>1 DEF FenceInv, LatestToken
  <2>3. ASSUME NEW j \in Keys, NEW new \in TaskState,
               LegalWrite(j, new), Write(j, new)
        PROVE  \E w \in Workers : /\ pc[w] = "OwnerCAS" /\ call[w].key = k
                                  /\ call[w].fence = tasks[k].fence
    <3>1. j = k
      BY <2>1, <2>3, WriteEffect
    <3>2. tasks'[k].status = new.status /\ tasks'[k].seq = new.seq
      BY <2>1, <2>3, <3>1, WriteEffect, StoredFields
    <3>3. tasks[k].seq \in Nat /\ new.seq \in Nat
      BY <2>1, <2>3 DEF StoreTypeOK, Found, TaskState
    <3> QED
      BY <2>3, <3>1, <3>2, <3>3 DEF LegalWrite, Submits, Grants, Settles, Blocks
  <2> QED
    BY <2>1, <2>2, <2>3 DEF StoreStep
<1> QED
  BY <1>1, Invariance, PTL DEF Spec, OnlyLatestOwnerFinishes

\* A step of one worker leaves every other worker where it is.
LEMMA OneMoves ==
  ASSUME ControlTypeOK, NEW v \in Workers, NEW w \in Workers, v # w,
         Start(v) \/ Step(v) \/ Abort(v)
  PROVE  pc'[w] = pc[w]
<1>1. ASSUME NEW label, pc' = [pc EXCEPT ![v] = label]
      PROVE  pc'[w] = pc[w]
  BY <1>1 DEF ControlTypeOK
<1>2. \E label : pc' = [pc EXCEPT ![v] = label]
  <2>1. CASE Start(v)
    BY <2>1 DEF Start, AdmitStart, ClaimStart, OwnerStart, Begin
  <2>2. CASE Abort(v)
    BY <2>2 DEF Abort, Return
  <2>3. CASE AdmitLoad(v) \/ AdmitNeeds(v) \/ RecheckNeeds(v) \/ RecheckLoad(v)
    BY <2>3 DEF AdmitLoad, AdmitNeeds, RecheckNeeds, RecheckLoad, Goto, Return
  <2>4. CASE AdmitCAS(v)
    BY <2>4 DEF AdmitCAS, Goto, Return, Retry
  <2>5. CASE ClaimLoad(v) \/ Walk(v) \/ ClaimCAS(v)
    BY <2>5 DEF ClaimLoad, Walk, ClaimCAS, Goto, Return, Retry
  <2>6. CASE OwnerLoad(v) \/ OwnerCAS(v)
    BY <2>6 DEF OwnerLoad, OwnerCAS, Goto, Return, Retry
  <2>7. CASE BlockDependents(v) \/ BlockCAS(v) \/ BlockLoad(v)
    BY <2>7 DEF BlockDependents, BlockCAS, BlockLoad, NextDependent, Goto,
       Return
  <2> QED
    BY <2>1, <2>2, <2>3, <2>4, <2>5, <2>6, <2>7 DEF Step
<1> QED
  BY <1>1, <1>2

\* A worker leaves its walk with a token only through a successful swap.
LEMMA GrantIsClaimCAS ==
  ASSUME ControlTypeOK, [Next]_ledgerVars, NEW w \in Workers,
         pc[w] = "Walk", pc'[w] = "idle", ret'[w] = "ok"
  PROVE  /\ Matches(call[w].key, call[w].cur)
         /\ Write(call[w].key, Claimed(w, call[w]))
<1>1. ~UNCHANGED ledgerVars /\ ~Passing
  BY DEF ledgerVars, Passing
<1>2. Start(w) \/ Step(w) \/ Abort(w)
  BY <1>1, OneMoves DEF Next
<1>3. ~Start(w)
  BY DEF Start, AdmitStart, ClaimStart, OwnerStart, Begin
<1>4. ~Abort(w)
  BY DEF Abort, Return, ControlTypeOK
<1>5. ~Walk(w)
  BY DEF Walk, Goto, ControlTypeOK
<1>6. ClaimCAS(w)
  BY <1>2, <1>3, <1>4, <1>5
  DEF Step, AdmitLoad, AdmitNeeds, AdmitCAS, RecheckNeeds, RecheckLoad,
      ClaimLoad, OwnerLoad, OwnerCAS, BlockDependents, BlockCAS, BlockLoad
<1>7. ~Retry(w, "ClaimLoad")
  BY DEF Retry, Goto, ControlTypeOK
<1> QED
  BY <1>6, <1>7 DEF ClaimCAS

\* The token of a new grant lies above every token granted for the key
\* before, across rebases and deletions.
THEOREM FreshTokens == Spec => TokensAreFresh
<1>1. IInv /\ [Next]_ledgerVars =>
        [\A w \in Workers :
           pc[w] = "Walk" /\ pc'[w] = "idle" /\ ret'[w] = "ok" =>
             LET k == call[w].key
             IN \A g \in grants : g[1] = k => g[2] < tasks'[k].fence]_ledgerVars
  <2> SUFFICES ASSUME IInv, [Next]_ledgerVars, NEW w \in Workers,
                      pc[w] = "Walk", pc'[w] = "idle", ret'[w] = "ok",
                      NEW g \in grants, g[1] = call[w].key
               PROVE  g[2] < tasks'[call[w].key].fence
    OBVIOUS
  <2> DEFINE c == call[w]
             k == c.key
             new == Claimed(w, c)
  <2>1. /\ ControlTypeOK /\ StoreTypeOK /\ FenceInv
        /\ grants \subseteq Keys \X Nat \X Workers
        /\ c \in Call /\ CallInv("Walk", c) /\ k \in Keys
    BY DEF IInv, TypeOK, ControlTypeOK, CallInv
  <2>2. Matches(k, c.cur) /\ Write(k, new)
    BY <2>1, GrantIsClaimCAS
  <2>3. c.cur \in TaskState /\ c.cur # NoTask
    BY <2>1 DEF CallInv, Call, MaybeTask, IsLive
  <2>4. new \in TaskState /\ new.fence = c.cur.fence + 1
    BY <2>1, <2>3, ClaimedRecord
  <2>5. Found(k) /\ tasks[k].fence = c.cur.fence
    BY <2>1, <2>2, <2>3, MatchesLoaded
  <2>6. g[2] <= tasks[k].fence /\ g[2] \in Nat /\ tasks[k].fence \in Nat
    BY <2>1, <2>5 DEF FenceInv, StoreTypeOK, Found, TaskState
  <2> HIDE DEF c, k, new
  <2>7. tasks'[k].fence = new.fence
    BY <2>1, <2>2, <2>4, <2>5, WriteEffect, StoredFields
  <2> QED
    BY <2>4, <2>5, <2>6, <2>7 DEF k, c
<1> QED
  BY <1>1, Invariance, PTL DEF Spec, TokensAreFresh

-----------------------------------------------------------------------------
(* The ledger implements the task lifecycle.                               *)

phaseBar == [k \in Keys |-> IF Found(k) THEN tasks[k].status ELSE "absent"]

fenceBar == [k \in Keys |-> IF Found(k) THEN tasks[k].fence ELSE fenceFloor]

\* One write of the store is one step of the lifecycle of the key it hits,
\* and at most a deletion of every other.
LEMMA WriteIsLifecycleStep ==
  ASSUME StoreTypeOK, NEW k \in Keys, NEW new \in TaskState,
         LegalWrite(k, new), Write(k, new)
  PROVE  Life!Write(k)
<1>0. /\ StoreTypeOK' /\ tasks'[k] = Stored(k, new) /\ tasks'[k] # NoTask
      /\ fenceFloor' >= fenceFloor
      /\ \A j \in Keys \ {k} :
           \/ tasks'[j] = tasks[j]
           \/ /\ Evicting /\ Found(j) /\ tasks'[j] = NoTask
              /\ fenceFloor' >= tasks[j].fence
      /\ ~Evicting => fenceFloor' = fenceFloor
  BY WriteEffect
<1>1. /\ tasks'[k].status = new.status
      /\ Found(k) => tasks'[k].fence = new.fence
      /\ ~Found(k) => tasks'[k].fence >= fenceFloor
  BY <1>0, StoredFields
<1>2. /\ phaseBar[k] = IF Found(k) THEN tasks[k].status ELSE "absent"
      /\ fenceBar[k] = IF Found(k) THEN tasks[k].fence ELSE fenceFloor
      /\ phaseBar'[k] = new.status /\ fenceBar'[k] = tasks'[k].fence
  BY <1>0, <1>1 DEF phaseBar, fenceBar, Found
<1>3. Life!Submit(k) \/ Life!Grant(k) \/ Life!Settle(k) \/ Life!Block(k)
  <2>1. CASE Submits(k, new)
    <3>1. Found(k) => tasks[k].status \in {"pending", "claimed"}
      BY <2>1 DEF Submits, IsLive, IsTerminal, Terminal, Found, StoreTypeOK,
         TaskState, Status
    <3>2. Life!Submit(k)
      BY <1>1, <1>2, <2>1, <3>1
      DEF Life!Submit, Life!Open, Submits, phaseBar, fenceBar
    <3> QED
      BY <3>2
  <2>2. CASE Grants(k, new)
    <3>1. Found(k) /\ tasks[k].status \in {"pending", "claimed"}
      BY <2>2 DEF Grants, IsLive, IsTerminal, Terminal, Found, StoreTypeOK,
         TaskState, Status
    <3>2. Life!Grant(k)
      BY <1>1, <1>2, <2>2, <3>1
      DEF Life!Grant, Life!Open, Grants, phaseBar, fenceBar
    <3> QED
      BY <3>2
  <2>3. CASE Settles(k, new)
    <3>1. Life!Settle(k)
      BY <1>1, <1>2, <2>3 DEF Life!Settle, Settles, phaseBar, fenceBar
    <3> QED
      BY <3>1
  <2>4. CASE Blocks(k, new)
    <3>1. Found(k) /\ tasks[k].status \in {"pending", "claimed"}
      BY <2>4 DEF Blocks, IsLive, IsTerminal, Terminal, Found, StoreTypeOK,
         TaskState, Status
    <3>2. Life!Block(k)
      BY <1>1, <1>2, <2>4, <3>1
      DEF Life!Block, Life!Open, Blocks, phaseBar, fenceBar
    <3> QED
      BY <3>2
  <2> QED
    BY <2>1, <2>2, <2>3, <2>4 DEF LegalWrite
<1>4. ASSUME NEW j \in Keys \ {k}
      PROVE  Life!Bystander(j)
  <2>1. /\ phaseBar[j] = IF Found(j) THEN tasks[j].status ELSE "absent"
        /\ fenceBar[j] = IF Found(j) THEN tasks[j].fence ELSE fenceFloor
        /\ phaseBar'[j] = IF (Found(j))' THEN tasks'[j].status ELSE "absent"
        /\ fenceBar'[j] = IF (Found(j))' THEN tasks'[j].fence ELSE fenceFloor'
    BY DEF phaseBar, fenceBar
  <2>2. \/ phaseBar'[j] = phaseBar[j] /\ fenceBar'[j] = fenceBar[j]
        \/ Evicting /\ phaseBar'[j] = "absent" /\ fenceBar'[j] >= fenceBar[j]
    BY <1>0, <2>1, EvictingAssumption DEF Found
  <2> QED
    BY <2>2 DEF Life!Bystander, phaseBar, fenceBar
<1> QED
  BY <1>3, <1>4 DEF Life!Write

\* The concurrent methods over a store, bounded or not, implement the
\* lifecycle of module TaskLifecycle.
THEOREM LifecycleRefinement == Spec => ImplementsLifecycle
<1>1. Init => Life!Init
  BY DEF Init, StoreInit, Life!Init, Found
<1>2. IInv /\ [Next]_ledgerVars => [Life!Next]_(Life!lifeVars)
  <2> SUFFICES ASSUME IInv, [Next]_ledgerVars
               PROVE  [Life!Next]_(Life!lifeVars)
    OBVIOUS
  <2>1. StoreStep /\ StoreTypeOK
    BY StepEffect DEF IInv, TypeOK, Pre, ControlInv, ControlTypeOK
  <2>2. CASE UNCHANGED <<tasks, fenceFloor, grants>>
    BY <2>2 DEF Life!lifeVars, Found
  <2>3. ASSUME NEW k \in Keys, NEW new \in TaskState,
               LegalWrite(k, new), Write(k, new)
        PROVE  Life!Next
    BY <2>1, <2>3, WriteIsLifecycleStep DEF Life!Next
  <2> QED
    BY <2>1, <2>2, <2>3 DEF StoreStep
<1> QED
  BY <1>1, <1>2, Invariance, PTL DEF Spec, ImplementsLifecycle, Life!Spec

-----------------------------------------------------------------------------
(* Blocking without a gap.  In a store that keeps its records a bad record  *)
(* stays bad, so a blocker once seen is one for good; and while a live     *)
(* record names a failed key, some call is still on its way to block it.   *)

HasFailed(t) == t # NoTask /\ t.status = "failed"

\* A blocker that a call holds is bad, and so is the key whose dependents
\* Complete is about to block.
Suspects(p, c, records) ==
  /\ /\ p \in {"AdmitNeeds", "RecheckLoad"} \cup Blocking
     /\ c.blocker # NoKey
     => IsBad(records[c.blocker])
  /\ p = "Range" => IsBad(records[c.key])

\* A call that will still look at k because its need n has failed.
Reaches(p, c, k, n) ==
  \/ p = "Range" /\ c.key = n
  \/ p \in Blocking /\ (c.target = k \/ k \in c.todo)
  \/ p = "RecheckLoad" /\ c.key = k
  \/ p = "RecheckNeeds" /\ c.key = k /\ n \in ElementsOf(c.queue)

\* A record that was loaded once is the stored one, unless it was revised.
Loaded(old, t) ==
  old # NoTask => /\ t # NoTask /\ old.rev <= t.rev
                  /\ old.rev = t.rev => old = t

\* The records a call holds were loaded from the store.
Holds(p, c, records) ==
  /\ p \in {"AdmitNeeds", "Walk", "OwnerCAS"} => Loaded(c.cur, records[c.key])
  /\ p = "BlockCAS" => Loaded(c.cur, records[c.target])
  /\ p \in Blocking => \A k \in c.todo : Loaded(c.list[k], records[k])

BlockInv ==
  /\ BlockersAreBad
  /\ ~Evicting => \A w \in Workers : /\ Suspects(pc[w], call[w], tasks)
                                     /\ Holds(pc[w], call[w], tasks)
  /\ ~Evicting /\ ~Faults =>
       \A k \in Keys, n \in Keys :
         IsLive(tasks[k]) /\ n \in ElementsOf(tasks[k].needs) /\ HasFailed(tasks[n])
         => \E w \in Workers : Reaches(pc[w], call[w], k, n)

\* What a step of w does to the records and to its own call: it gives up no
\* dependent that must still be blocked, and vouches for what it writes.
Careful(w) ==
  /\ Suspects(pc'[w], call'[w], tasks')
  /\ \A k \in Keys, n \in Keys :
       /\ IsLive(tasks[k]) /\ IsLive(tasks'[k]) /\ HasFailed(tasks[n])
       /\ n \in ElementsOf(tasks[k].needs) /\ Reaches(pc[w], call[w], k, n)
       => Reaches(pc'[w], call'[w], k, n)
  /\ \A k \in Keys : IsLive(tasks'[k]) =>
       \/ IsLive(tasks[k]) /\ tasks'[k].needs = tasks[k].needs
       \/ \A n \in ElementsOf(tasks'[k].needs) : Reaches(pc'[w], call'[w], k, n)
  /\ \A n \in Keys : HasFailed(tasks'[n]) =>
       HasFailed(tasks[n]) \/ (pc'[w] = "Range" /\ call'[w].key = n)
  /\ \A k \in Keys : tasks'[k] # NoTask /\ tasks'[k].status = "blocked" =>
       tasks'[k] = tasks[k] \/ IsBad(tasks'[tasks'[k].blockedBy])

\* Where Goto and Return leave the worker that takes them, and the others.
LEMMA GotoMoves ==
  ASSUME ControlTypeOK, NEW w \in Workers, NEW label, NEW c, Goto(w, label, c)
  PROVE  pc'[w] = label /\ call'[w] = c
  BY DEF ControlTypeOK, Goto

\* A call that returns is over.
LEMMA ReturnMoves ==
  ASSUME ControlTypeOK, NEW w \in Workers, NEW result, Return(w, result)
  PROVE  pc'[w] = "idle" /\ call'[w] = NoCall
  BY DEF ControlTypeOK, Return

\* A step that writes nothing is careful if it keeps what it owes.
LEMMA ReadIsCareful ==
  ASSUME NEW w \in Workers, tasks' = tasks, Suspects(pc'[w], call'[w], tasks),
         \A k \in Keys, n \in Keys :
           /\ IsLive(tasks[k]) /\ HasFailed(tasks[n])
           /\ n \in ElementsOf(tasks[k].needs) /\ Reaches(pc[w], call[w], k, n)
           => Reaches(pc'[w], call'[w], k, n)
  PROVE  Careful(w)
  BY DEF Careful

\* A worker that owes nothing.
LEMMA OwesNothing ==
  ASSUME NEW p, NEW c, p \notin {"Range", "RecheckLoad", "RecheckNeeds"} \cup Blocking
  PROVE  \A k \in Keys, n \in Keys : ~Reaches(p, c, k, n)
  BY DEF Reaches

\* Only a scan, a recheck and the blocking that follows hold suspicions.
LEMMA SuspectsNothing ==
  ASSUME NEW p, NEW c, NEW records,
         p \notin {"Range", "AdmitNeeds", "RecheckLoad"} \cup Blocking
  PROVE  Suspects(p, c, records)
  BY DEF Suspects

\* What Admit reads.
LEMMA AdmitReadsCareful ==
  ASSUME Pre, NEW w \in Workers, Suspects(pc[w], call[w], tasks),
         AdmitLoad(w) \/ AdmitNeeds(w) \/ RecheckNeeds(w) \/ RecheckLoad(w)
  PROVE  Careful(w)
<1>0. /\ ControlTypeOK /\ call[w] \in Call /\ CallInv(pc[w], call[w])
      /\ tasks' = tasks
  BY Caller DEF Pre, ControlInv, AdmitLoad, AdmitNeeds, RecheckNeeds, RecheckLoad,
     storeVars
<1>1. PICK c \in Call : c = call[w]
  BY <1>0
<1>2. c.queue \in Seq(Keys) /\ c.needs \in Seq(Keys)
  BY DEF Call
<1>3. c.queue # <<>> => Head(c.queue) \in Keys
  BY <1>2
<1>4. CASE AdmitLoad(w)
  <2>1. pc[w] = "AdmitLoad"
    BY <1>4 DEF AdmitLoad
  <2>2. \A k \in Keys, n \in Keys : ~Reaches(pc[w], call[w], k, n)
    BY <2>1, OwesNothing DEF Blocking
  <2>3. Suspects(pc'[w], call'[w], tasks)
    <3>1. CASE Return(w, "false")
      BY <1>0, <3>1, ReturnMoves, SuspectsNothing DEF Blocking
    <3>2. ASSUME NEW d \in Call, d.blocker = NoKey, Goto(w, "AdmitNeeds", d)
          PROVE  Suspects(pc'[w], call'[w], tasks)
      BY <1>0, <3>2, GotoMoves DEF Suspects
    <3> DEFINE d == [c EXCEPT !.cur = tasks[c.key], !.queue = c.needs, !.blocker = NoKey]
    <3>3. d \in Call /\ d.blocker = NoKey
      <4>1. tasks[c.key] \in MaybeTask
        BY <1>1, <2>1, Caller
      <4> QED
        BY <1>2, <4>1 DEF Call
    <3>4. \/ Return(w, "false") \/ Goto(w, "AdmitNeeds", d)
      BY <1>1, <1>4 DEF AdmitLoad
    <3> HIDE DEF d
    <3> QED
      BY <3>1, <3>2, <3>3, <3>4
  <2> QED
    BY <1>0, <2>2, <2>3, ReadIsCareful
<1>5. CASE AdmitNeeds(w)
  <2>1. pc[w] = "AdmitNeeds"
    BY <1>5 DEF AdmitNeeds
  <2>2. \A k \in Keys, n \in Keys : ~Reaches(pc[w], call[w], k, n)
    BY <2>1, OwesNothing DEF Blocking
  <2>3. Suspects(pc'[w], call'[w], tasks)
    <3> DEFINE n == Head(c.queue)
               d == [c EXCEPT !.queue = <<>>, !.blocker = n]
               e == [c EXCEPT !.queue = Tail(@)]
    <3>1. d.blocker = n /\ e.blocker = c.blocker
      BY DEF Call
    <3>2. \/ IsBad(tasks[n]) /\ Goto(w, "AdmitNeeds", d)
          \/ Goto(w, "AdmitNeeds", e)
      BY <1>1, <1>5 DEF AdmitNeeds
    <3> HIDE DEF d, e, n
    <3>3. CASE IsBad(tasks[n]) /\ Goto(w, "AdmitNeeds", d)
      BY <1>0, <3>1, <3>3, GotoMoves DEF Suspects, Blocking
    <3>4. CASE Goto(w, "AdmitNeeds", e)
      BY <1>0, <1>1, <2>1, <3>1, <3>4, GotoMoves DEF Suspects, Blocking
    <3> QED
      BY <3>2, <3>3, <3>4
  <2> QED
    BY <1>0, <2>2, <2>3, ReadIsCareful
<1>6. CASE RecheckNeeds(w)
  <2>1. pc[w] = "RecheckNeeds"
    BY <1>6 DEF RecheckNeeds
  <2> DEFINE n == Head(c.queue)
             d == [c EXCEPT !.blocker = n]
             e == [c EXCEPT !.queue = Tail(@)]
  <2>2. d.blocker = n /\ d.key = c.key /\ e.key = c.key /\ e.queue = Tail(c.queue)
    BY DEF Call
  <2>3. \/ c.queue = <<>> /\ Return(w, "true")
        \/ c.queue # <<>> /\ IsBad(tasks[n]) /\ Goto(w, "RecheckLoad", d)
        \/ c.queue # <<>> /\ ~IsBad(tasks[n]) /\ Goto(w, "RecheckNeeds", e)
    BY <1>1, <1>6 DEF RecheckNeeds
  <2>4. c.queue # <<>> => \A m \in ElementsOf(c.queue) : m = n \/ m \in ElementsOf(Tail(c.queue))
    <3>1. SUFFICES ASSUME c.queue # <<>>, NEW i \in DOMAIN c.queue
                   PROVE  c.queue[i] = n \/ c.queue[i] \in ElementsOf(Tail(c.queue))
      BY DEF ElementsOf
    <3>2. i \in 1..Len(c.queue) /\ Len(c.queue) \in Nat /\ n = c.queue[1]
      BY <1>2, <3>1
    <3>3. CASE i = 1
      BY <3>2, <3>3
    <3>4. CASE i # 1
      <4>1. i - 1 \in DOMAIN Tail(c.queue) /\ Tail(c.queue)[i - 1] = c.queue[i]
        BY <1>2, <3>1, <3>2, <3>4
      <4> QED
        BY <4>1 DEF ElementsOf
    <3> QED
      BY <3>3, <3>4
  <2> HIDE DEF d, e, n
  <2>5. CASE c.queue = <<>> /\ Return(w, "true")
    <3>1. Suspects(pc'[w], call'[w], tasks)
      BY <1>0, <2>5, ReturnMoves, SuspectsNothing DEF Blocking
    <3>2. \A k \in Keys, m \in Keys : ~Reaches(pc[w], call[w], k, m)
      BY <1>1, <2>1, <2>5 DEF Reaches, ElementsOf, Blocking
    <3> QED
      BY <1>0, <3>1, <3>2, ReadIsCareful
  <2>6. CASE c.queue # <<>> /\ IsBad(tasks[n]) /\ Goto(w, "RecheckLoad", d)
    <3>0. pc'[w] = "RecheckLoad" /\ call'[w] = d
      BY <1>0, <2>6, GotoMoves
    <3>1. Suspects(pc'[w], call'[w], tasks)
      BY <2>2, <2>6, <3>0 DEF Suspects, Blocking
    <3>2. \A k \in Keys, m \in Keys : Reaches(pc[w], call[w], k, m)
            => Reaches(pc'[w], call'[w], k, m)
      BY <1>1, <2>1, <2>2, <3>0 DEF Reaches, Blocking
    <3> QED
      BY <1>0, <3>1, <3>2, ReadIsCareful
  <2>7. CASE c.queue # <<>> /\ ~IsBad(tasks[n]) /\ Goto(w, "RecheckNeeds", e)
    <3>0. pc'[w] = "RecheckNeeds" /\ call'[w] = e
      BY <1>0, <2>7, GotoMoves
    <3>1. Suspects(pc'[w], call'[w], tasks)
      BY <3>0, SuspectsNothing DEF Blocking
    <3>2. \A k \in Keys, m \in Keys : HasFailed(tasks[m]) /\ Reaches(pc[w], call[w], k, m)
            => Reaches(pc'[w], call'[w], k, m)
      <4>1. SUFFICES ASSUME NEW k \in Keys, NEW m \in Keys, HasFailed(tasks[m]),
                            Reaches(pc[w], call[w], k, m)
                     PROVE  Reaches(pc'[w], call'[w], k, m)
        OBVIOUS
      <4>2. m # n
        BY <2>7, <4>1 DEF HasFailed, IsBad
      <4>3. c.key = k /\ m \in ElementsOf(c.queue)
        BY <1>1, <2>1, <4>1 DEF Reaches, Blocking
      <4>4. m \in ElementsOf(e.queue)
        BY <2>2, <2>4, <2>7, <4>2, <4>3
      <4> QED
        BY <2>2, <3>0, <4>3, <4>4 DEF Reaches
    <3> QED
      BY <1>0, <3>1, <3>2, ReadIsCareful
  <2> QED
    BY <2>3, <2>5, <2>6, <2>7
<1>7. CASE RecheckLoad(w)
  <2>1. pc[w] = "RecheckLoad"
    BY <1>7 DEF RecheckLoad
  <2> DEFINE d == [c EXCEPT !.cur = tasks[c.key], !.target = c.key]
  <2>2. d.target = c.key /\ d.blocker = c.blocker
    BY DEF Call
  <2>3. \/ ~IsLive(tasks[c.key]) /\ Return(w, "true")
        \/ Goto(w, "BlockCAS", d)
    BY <1>1, <1>7 DEF RecheckLoad
  <2> HIDE DEF d
  <2>4. CASE ~IsLive(tasks[c.key]) /\ Return(w, "true")
    <3>1. Suspects(pc'[w], call'[w], tasks)
      BY <1>0, <2>4, ReturnMoves, SuspectsNothing DEF Blocking
    <3>2. \A k \in Keys, m \in Keys : ~(IsLive(tasks[k]) /\ Reaches(pc[w], call[w], k, m))
      BY <1>1, <2>1, <2>4 DEF Reaches, Blocking
    <3> QED
      BY <1>0, <3>1, <3>2, ReadIsCareful
  <2>5. CASE Goto(w, "BlockCAS", d)
    <3>0. pc'[w] = "BlockCAS" /\ call'[w] = d
      BY <1>0, <2>5, GotoMoves
    <3>1. Suspects(pc'[w], call'[w], tasks)
      BY <1>1, <2>1, <2>2, <3>0 DEF Suspects, Blocking
    <3>2. \A k \in Keys, m \in Keys : Reaches(pc[w], call[w], k, m)
            => Reaches(pc'[w], call'[w], k, m)
      BY <1>1, <2>1, <2>2, <3>0 DEF Reaches, Blocking
    <3> QED
      BY <1>0, <3>1, <3>2, ReadIsCareful
  <2> QED
    BY <2>3, <2>4, <2>5
<1> QED
  BY <1>4, <1>5, <1>6, <1>7

\* What Claim, Takeover and the owner's calls read.
LEMMA ClaimReadsCareful ==
  ASSUME Pre, NEW w \in Workers, ClaimLoad(w) \/ Walk(w) \/ OwnerLoad(w)
  PROVE  Careful(w)
<1>0. /\ ControlTypeOK /\ call[w] \in Call /\ tasks' = tasks
      /\ pc[w] \in {"ClaimLoad", "Walk", "OwnerLoad"}
  BY Caller DEF Pre, ControlInv, ClaimLoad, Walk, OwnerLoad, storeVars
<1>1. PICK c \in Call : c = call[w]
  BY <1>0
<1>2. \A k \in Keys, n \in Keys : ~Reaches(pc[w], call[w], k, n)
  BY <1>0, OwesNothing DEF Blocking
<1>3. Suspects(pc'[w], call'[w], tasks)
  <2>1. CASE \E result : Return(w, result)
    BY <1>0, <2>1, ReturnMoves, SuspectsNothing DEF Blocking
  <2>2. CASE \E d : Goto(w, "Walk", d) \/ Goto(w, "OwnerCAS", d)
    BY <1>0, <2>2, GotoMoves, SuspectsNothing DEF Blocking
  <2> DEFINE n == Head(c.queue)
             d == [c EXCEPT !.blocker = n, !.target = c.key]
  <2>3. CASE IsBad(tasks[n]) /\ Goto(w, "BlockCAS", d)
    <3>1. d.blocker = n
      BY DEF Call
    <3> HIDE DEF d, n
    <3> QED
      BY <1>0, <2>3, <3>1, GotoMoves DEF Suspects, Blocking
  <2> HIDE DEF d, n
  <2>4. \/ \E result : Return(w, result)
        \/ \E e : Goto(w, "Walk", e) \/ Goto(w, "OwnerCAS", e)
        \/ IsBad(tasks[n]) /\ Goto(w, "BlockCAS", d)
    <3>1. CASE ClaimLoad(w)
      BY <3>1 DEF ClaimLoad
    <3>2. CASE Walk(w)
      BY <1>1, <3>2 DEF Walk, d, n
    <3>3. CASE OwnerLoad(w)
      BY <3>3 DEF OwnerLoad
    <3> QED
      BY <3>1, <3>2, <3>3
  <2> QED
    BY <2>1, <2>2, <2>3, <2>4
<1> QED
  BY <1>0, <1>2, <1>3, ReadIsCareful

\* Between two dependents: the ones left are still owed, and the blocker is
\* the one there was.
LEMMA NextDependentCareful ==
  ASSUME ControlTypeOK, NEW w \in Workers, NEW c \in Call, NEW result,
         NextDependent(w, c, result), c.blocker \in Keys
  PROVE  /\ \A k \in c.todo, n \in Keys : Reaches(pc'[w], call'[w], k, n)
         /\ \A records : IsBad(records[c.blocker])
                         => Suspects(pc'[w], call'[w], records)
<1>1. CASE c.todo = {}
  <2>1. pc'[w] = "idle" /\ call'[w] = NoCall
    BY <1>1, ReturnMoves DEF NextDependent
  <2> QED
    BY <1>1, <2>1 DEF Suspects, Blocking
<1>2. CASE c.todo # {}
  <2> DEFINE k == First(c.todo)
             d == [c EXCEPT !.target = k, !.cur = c.list[k], !.todo = @ \ {k}]
  <2>1. Goto(w, "BlockCAS", d)
    BY <1>2 DEF NextDependent
  <2>2. d.target = k /\ d.blocker = c.blocker /\ d.todo = c.todo \ {k}
    BY DEF Call
  <2> HIDE DEF d, k
  <2>3. pc'[w] = "BlockCAS" /\ call'[w] = d
    BY <2>1, GotoMoves
  <2> QED
    BY <2>2, <2>3 DEF Reaches, Suspects, Blocking
<1> QED
  BY <1>1, <1>2

\* The Range of blockDependents misses no live record that needs the key.
LEMMA BlockDependentsCareful ==
  ASSUME Pre, NEW w \in Workers, Suspects(pc[w], call[w], tasks),
         BlockDependents(w)
  PROVE  Careful(w)
<1>0. /\ ControlTypeOK /\ call[w] \in Call /\ CallInv(pc[w], call[w])
      /\ tasks' = tasks /\ pc[w] = "Range"
  BY Caller DEF Pre, ControlInv, BlockDependents, storeVars
<1>1. PICK c \in Call : c = call[w] /\ c.key \in Keys
  BY <1>0 DEF CallInv
<1> DEFINE live == {k \in TransitiveDependents(tasks, c.key) : ~IsTerminal(tasks[k])}
           d == [c EXCEPT !.blocker = c.key, !.todo = live, !.list = tasks]
<1>2. NextDependent(w, d, "ok")
  BY <1>1 DEF BlockDependents
<1>3. live \subseteq Keys /\ tasks \in [Keys -> MaybeTask]
  BY DEF TransitiveDependents, Pre, StoreTypeOK, MaybeTask
<1>4. ASSUME NEW k \in Keys, IsLive(tasks[k]), c.key \in ElementsOf(tasks[k].needs)
      PROVE  k \in live
  <2>1. k \in TransitiveDependents(tasks, c.key)
    BY <1>4 DEF TransitiveDependents, IsLive
  <2> QED
    BY <1>4, <2>1 DEF IsLive
<1> HIDE DEF live
<1>5. d \in Call /\ d.blocker = c.key /\ d.todo = live
  BY <1>1, <1>3 DEF Call
<1> HIDE DEF d
<1>6. /\ \A k \in live, n \in Keys : Reaches(pc'[w], call'[w], k, n)
      /\ IsBad(tasks[c.key]) => Suspects(pc'[w], call'[w], tasks)
  BY <1>0, <1>1, <1>2, <1>5, NextDependentCareful
<1>7. IsBad(tasks[c.key])
  BY <1>0, <1>1 DEF Suspects
<1>8. ASSUME NEW k \in Keys, NEW n \in Keys, IsLive(tasks[k]),
             n \in ElementsOf(tasks[k].needs), Reaches(pc[w], call[w], k, n)
      PROVE  Reaches(pc'[w], call'[w], k, n)
  <2>1. n = c.key
    BY <1>0, <1>1, <1>8 DEF Reaches, Blocking
  <2> QED
    BY <1>4, <1>6, <1>8, <2>1
<1> QED
  BY <1>0, <1>6, <1>7, <1>8, ReadIsCareful

\* blockOne leaves a record only when it is not live any more.
LEMMA BlockLoadCareful ==
  ASSUME Pre, NEW w \in Workers, Suspects(pc[w], call[w], tasks), BlockLoad(w)
  PROVE  Careful(w)
<1>0. /\ ControlTypeOK /\ call[w] \in Call /\ CallInv(pc[w], call[w])
      /\ tasks' = tasks /\ pc[w] = "BlockLoad"
  BY Caller DEF Pre, ControlInv, BlockLoad, storeVars
<1>1. PICK c \in Call : c = call[w] /\ c.blocker \in Keys /\ c.target \in Keys
  BY <1>0 DEF CallInv, Blocking
<1>2. IsBad(tasks[c.blocker])
  BY <1>0, <1>1, KeysAssumption DEF Suspects, Blocking
<1>3. CASE ~IsLive(tasks[c.target]) /\ NextDependent(w, c, BlockResult(c.op))
  <2>1. /\ \A k \in c.todo, n \in Keys : Reaches(pc'[w], call'[w], k, n)
        /\ Suspects(pc'[w], call'[w], tasks)
    BY <1>0, <1>1, <1>2, <1>3, NextDependentCareful
  <2>2. ASSUME NEW k \in Keys, NEW n \in Keys, IsLive(tasks[k]),
               Reaches(pc[w], call[w], k, n)
        PROVE  k \in c.todo
    BY <1>0, <1>1, <1>3, <2>2 DEF Reaches, Blocking
  <2> QED
    BY <1>0, <2>1, <2>2, ReadIsCareful
<1> DEFINE d == [c EXCEPT !.cur = tasks[c.target]]
<1>4. CASE Goto(w, "BlockCAS", d)
  <2>1. d.blocker = c.blocker /\ d.target = c.target /\ d.todo = c.todo
    BY DEF Call
  <2> HIDE DEF d
  <2>2. pc'[w] = "BlockCAS" /\ call'[w] = d
    BY <1>0, <1>4, GotoMoves
  <2>3. Suspects(pc'[w], call'[w], tasks)
    BY <1>2, <2>1, <2>2 DEF Suspects
  <2>4. \A k \in Keys, n \in Keys : Reaches(pc[w], call[w], k, n)
          => Reaches(pc'[w], call'[w], k, n)
    BY <1>0, <1>1, <2>1, <2>2 DEF Reaches, Blocking
  <2> QED
    BY <1>0, <2>3, <2>4, ReadIsCareful
<1> QED
  BY <1>1, <1>3, <1>4 DEF BlockLoad

\* A write of a store that keeps its records: one record is replaced, by one
\* of the next revision.
LEMMA WriteKeeps ==
  ASSUME StoreTypeOK, ~Evicting, NEW x \in Keys, NEW new \in TaskState, Write(x, new)
  PROVE  /\ tasks'[x] # NoTask /\ tasks'[x].status = new.status
         /\ tasks'[x].needs = new.needs /\ tasks'[x].blockedBy = new.blockedBy
         /\ Found(x) => tasks'[x].rev = tasks[x].rev + 1
         /\ \A j \in Keys \ {x} : tasks'[j] = tasks[j]
<1>1. /\ tasks'[x] = Stored(x, new) /\ tasks'[x] # NoTask
      /\ \A j \in Keys \ {x} : tasks'[j] = tasks[j]
  BY WriteEffect
<1>2. Found(x) => Stored(x, new).rev = tasks[x].rev + 1
  BY DEF Stored, TaskState
<1> QED
  BY <1>1, <1>2, StoredFields

\* No record is lost, and a record that changes is revised.
Revised ==
  \A k \in Keys : tasks[k] # NoTask =>
    \/ tasks'[k] = tasks[k]
    \/ tasks'[k] # NoTask /\ tasks'[k].rev = tasks[k].rev + 1

\* Where nothing is evicted, a step of the store only revises records.
LEMMA StepRevises ==
  ASSUME StoreTypeOK, ~Evicting, StoreStep
  PROVE  Revised
<1>1. CASE tasks' = tasks
  BY <1>1 DEF Revised
<1>2. ASSUME NEW x \in Keys, NEW new \in TaskState, Write(x, new)
      PROVE  Revised
  BY <1>2, WriteKeeps DEF Revised, Found
<1> QED
  BY <1>1, <1>2 DEF StoreStep

\* What was loaded stays so.
LEMMA LoadedStays ==
  ASSUME StoreTypeOK, Revised, NEW k \in Keys, NEW old \in MaybeTask,
         Loaded(old, tasks[k])
  PROVE  Loaded(old, tasks'[k])
<1>1. SUFFICES ASSUME old # NoTask, tasks'[k] # tasks[k]
               PROVE  Loaded(old, tasks'[k])
  BY DEF Loaded
<1>2. /\ tasks[k] # NoTask /\ old.rev <= tasks[k].rev
      /\ tasks'[k] # NoTask /\ tasks'[k].rev = tasks[k].rev + 1
  BY <1>1 DEF Loaded, Revised
<1>3. old.rev \in Nat /\ tasks[k].rev \in Nat
  BY <1>1, <1>2 DEF StoreTypeOK, MaybeTask, TaskState
<1> QED
  BY <1>2, <1>3 DEF Loaded

\* A record that a call has loaded stays the stored one or an older one.
LEMMA HoldsStays ==
  ASSUME StoreTypeOK, Revised, NEW p \in Labels, NEW c \in Call, CallInv(p, c),
         Holds(p, c, tasks)
  PROVE  Holds(p, c, tasks')
<1>1. /\ c.cur \in MaybeTask /\ c.todo \subseteq Keys
      /\ \A k \in Keys : c.list[k] \in MaybeTask
      /\ p # "idle" => c.key \in Keys
      /\ p \in Blocking => c.target \in Keys
  BY DEF Call, CallInv
<1>2. p \in {"AdmitNeeds", "Walk", "OwnerCAS"} => Loaded(c.cur, tasks'[c.key])
  BY <1>1, LoadedStays DEF Holds
<1>3. p = "BlockCAS" => Loaded(c.cur, tasks'[c.target])
  BY <1>1, LoadedStays DEF Holds, Blocking
<1>4. p \in Blocking => \A k \in c.todo : Loaded(c.list[k], tasks'[k])
  BY <1>1, LoadedStays DEF Holds
<1> QED
  BY <1>2, <1>3, <1>4 DEF Holds

\* What is loaded now is loaded.
LEMMA LoadedNow ==
  ASSUME StoreTypeOK, NEW k \in Keys
  PROVE  Loaded(tasks[k], tasks[k])
<1>1. tasks[k] # NoTask => tasks[k].rev \in Nat
  BY DEF StoreTypeOK, TaskState
<1> QED
  BY <1>1 DEF Loaded

\* A compare that matches finds the very record that was loaded.
LEMMA MatchesSame ==
  ASSUME NEW k \in Keys, NEW old, old # NoTask, Matches(k, old),
         Loaded(old, tasks[k])
  PROVE  old = tasks[k]
  BY DEF Matches, Loaded

\* Between two dependents the next record is the one of the Range.
LEMMA NextDependentHolds ==
  ASSUME StoreTypeOK, Revised, ControlTypeOK, NEW w \in Workers, NEW c \in Call,
         NEW result, NextDependent(w, c, result),
         \A k \in c.todo : Loaded(c.list[k], tasks[k])
  PROVE  Holds(pc'[w], call'[w], tasks')
<1>0. c.todo \subseteq Keys /\ \A k \in Keys : c.list[k] \in MaybeTask
  BY DEF Call
<1>1. CASE c.todo = {}
  <2>1. pc'[w] = "idle" /\ call'[w] = NoCall
    BY <1>1, ReturnMoves DEF NextDependent
  <2> QED
    BY <2>1 DEF Holds, Blocking
<1>2. CASE c.todo # {}
  <2> DEFINE k == First(c.todo)
             d == [c EXCEPT !.target = k, !.cur = c.list[k], !.todo = @ \ {k}]
  <2>1. Goto(w, "BlockCAS", d) /\ k \in c.todo
    BY <1>0, <1>2, FirstIn DEF NextDependent
  <2>2. d.target = k /\ d.cur = c.list[k] /\ d.todo = c.todo \ {k} /\ d.list = c.list
    BY DEF Call
  <2> HIDE DEF d, k
  <2>3. pc'[w] = "BlockCAS" /\ call'[w] = d
    BY <2>1, GotoMoves
  <2>4. \A j \in c.todo : Loaded(c.list[j], tasks'[j])
    BY <1>0, LoadedStays
  <2> QED
    BY <2>1, <2>2, <2>3, <2>4 DEF Holds, Blocking
<1> QED
  BY <1>1, <1>2

\* Every step of a worker leaves it with records it loaded.
LEMMA StepHolds ==
  ASSUME Pre, ~Evicting, NEW w \in Workers, Step(w), Holds(pc[w], call[w], tasks),
         Revised
  PROVE  Holds(pc'[w], call'[w], tasks')
<1>0. /\ ControlTypeOK /\ StoreTypeOK /\ call[w] \in Call
      /\ CallInv(pc[w], call[w]) /\ pc[w] \in Labels
  BY Caller DEF Pre, ControlInv, ControlTypeOK
<1>1. PICK c \in Call : c = call[w]
  BY <1>0
<1>2. PICK p \in Labels : p = pc[w]
  BY <1>0
<1>3. CallInv(p, c) /\ Holds(p, c, tasks) /\ Holds(p, c, tasks')
  BY <1>0, <1>1, <1>2, HoldsStays
<1>4. CASE \E result : Return(w, result)
  BY <1>0, <1>4, ReturnMoves DEF Holds, Blocking
<1>5. ASSUME NEW label, NEW d, Goto(w, label, d),
             label \in {"AdmitLoad", "RecheckNeeds", "RecheckLoad", "ClaimLoad",
                       "OwnerLoad", "Range"}
      PROVE  Holds(pc'[w], call'[w], tasks')
  BY <1>0, <1>5, GotoMoves DEF Holds, Blocking
<1>6. ASSUME NEW label \in {"AdmitNeeds", "Walk", "OwnerCAS"}, NEW d \in Call,
             Goto(w, label, d), d.key = c.key, tasks' = tasks,
             \/ d.cur = tasks[c.key] /\ c.key \in Keys
             \/ label = p /\ d.cur = c.cur
      PROVE  Holds(pc'[w], call'[w], tasks')
  <2>1. pc'[w] = label /\ call'[w] = d
    BY <1>0, <1>6, GotoMoves
  <2>2. Loaded(d.cur, tasks[c.key])
    BY <1>0, <1>3, <1>6, LoadedNow DEF Holds
  <2> QED
    BY <1>6, <2>1, <2>2 DEF Holds, Blocking
<1>7. ASSUME NEW d \in Call, Goto(w, "BlockCAS", d), tasks' = tasks,
             d.todo = c.todo, d.list = c.list,
             \A k \in c.todo : Loaded(c.list[k], tasks[k]),
             Loaded(d.cur, tasks[d.target])
      PROVE  Holds(pc'[w], call'[w], tasks')
  <2>1. pc'[w] = "BlockCAS" /\ call'[w] = d
    BY <1>0, <1>7, GotoMoves
  <2> QED
    BY <1>7, <2>1 DEF Holds, Blocking
<1>8. c.queue \in Seq(Keys) /\ c.needs \in Seq(Keys) /\ c.seen \subseteq Keys
      /\ c.cur \in MaybeTask
  BY DEF Call
<1>9. CASE AdmitLoad(w)
  <2> DEFINE d == [c EXCEPT !.cur = tasks[c.key], !.queue = c.needs, !.blocker = NoKey]
  <2>0. p = "AdmitLoad" /\ c.key \in Keys /\ tasks[c.key] \in MaybeTask
    BY <1>1, <1>2, <1>3, <1>9, Caller DEF AdmitLoad, CallInv
  <2>1. d \in Call /\ d.key = c.key /\ d.cur = tasks[c.key]
    BY <1>8, <2>0 DEF Call
  <2>2. (Return(w, "false") \/ Goto(w, "AdmitNeeds", d)) /\ tasks' = tasks
    BY <1>1, <1>9 DEF AdmitLoad, storeVars
  <2> HIDE DEF d
  <2> QED
    BY <1>4, <1>6, <2>0, <2>1, <2>2
<1>10. CASE AdmitNeeds(w)
  <2> DEFINE n == Head(c.queue)
             d == [c EXCEPT !.queue = <<>>, !.blocker = n]
             e == [c EXCEPT !.queue = Tail(@)]
  <2>0. p = "AdmitNeeds" /\ c.queue # <<>> /\ tasks' = tasks
    BY <1>1, <1>2, <1>10 DEF AdmitNeeds, storeVars
  <2>1. d \in Call /\ e \in Call /\ d.key = c.key /\ e.key = c.key
        /\ d.cur = c.cur /\ e.cur = c.cur
    <3>1. n \in Keys /\ Tail(c.queue) \in Seq(Keys) /\ <<>> \in Seq(Keys)
      BY <1>8, <2>0, HeadTailProperties, EmptyQueue
    <3> QED
      BY <3>1 DEF Call
  <2>2. Goto(w, "AdmitNeeds", d) \/ Goto(w, "AdmitNeeds", e)
    BY <1>1, <1>10 DEF AdmitNeeds
  <2> HIDE DEF d, e
  <2> QED
    BY <1>6, <2>0, <2>1, <2>2
<1>11. CASE AdmitCAS(w)
  <2>1. \/ \E result : Return(w, result)
        \/ \E d : Goto(w, "RecheckNeeds", d) \/ Goto(w, "AdmitLoad", d)
    BY <1>11 DEF AdmitCAS, Retry
  <2> QED
    BY <1>4, <1>5, <2>1
<1>12. CASE RecheckNeeds(w)
  <2>1. \/ \E result : Return(w, result)
        \/ \E d : Goto(w, "RecheckNeeds", d) \/ Goto(w, "RecheckLoad", d)
    BY <1>12 DEF RecheckNeeds
  <2> QED
    BY <1>4, <1>5, <2>1
<1>13. CASE RecheckLoad(w)
  <2> DEFINE d == [c EXCEPT !.cur = tasks[c.key], !.target = c.key]
  <2>0. p = "RecheckLoad" /\ c.key \in Keys /\ tasks[c.key] \in MaybeTask /\ c.todo = {}
    BY <1>1, <1>2, <1>3, <1>13, Caller DEF RecheckLoad, CallInv, Blocking
  <2>1. d \in Call /\ d.target = c.key /\ d.cur = tasks[c.key] /\ d.todo = c.todo
        /\ d.list = c.list
    BY <2>0 DEF Call
  <2>2. (Return(w, "true") \/ Goto(w, "BlockCAS", d)) /\ tasks' = tasks
    BY <1>1, <1>13 DEF RecheckLoad, storeVars
  <2>3. Loaded(tasks[c.key], tasks[c.key])
    BY <1>0, <2>0, LoadedNow
  <2> HIDE DEF d
  <2> QED
    BY <1>4, <1>7, <2>0, <2>1, <2>2, <2>3
<1>14. CASE ClaimLoad(w)
  <2> DEFINE t == tasks[c.key]
             d == [c EXCEPT !.cur = t, !.queue = t.needs, !.seen = {}]
  <2>0. p = "ClaimLoad" /\ c.key \in Keys
    BY <1>1, <1>2, <1>3, <1>14 DEF ClaimLoad, CallInv
  <2>1. tasks' = tasks /\ ((\E result : Return(w, result)) \/ Goto(w, "Walk", d))
    BY <1>1, <1>14 DEF ClaimLoad, storeVars
  <2>2. d.cur = t /\ d.key = c.key
    BY DEF Call
  <2>3. CASE Goto(w, "Walk", d)
    <3>1. Loaded(t, t)
      BY <1>0, <2>0, LoadedNow
    <3> HIDE DEF d
    <3>2. pc'[w] = "Walk" /\ call'[w] = d
      BY <1>0, <2>3, GotoMoves
    <3> QED
      BY <2>1, <2>2, <3>1, <3>2 DEF Holds, Blocking
  <2> QED
    BY <1>4, <2>1, <2>3
<1>15. CASE Walk(w)
  <2> DEFINE n == Head(c.queue)
             d == [c EXCEPT !.blocker = n, !.target = c.key]
             rest == [c EXCEPT !.queue = Tail(@), !.seen = @ \cup {n}]
             e == [rest EXCEPT !.queue = @ \o tasks[n].needs]
  <2>0. p = "Walk" /\ c.queue # <<>> /\ tasks' = tasks /\ c.key \in Keys /\ c.todo = {}
    BY <1>1, <1>2, <1>3, <1>15 DEF Walk, storeVars, CallInv, Blocking
  <2>1. \/ Goto(w, "BlockCAS", d) \/ Goto(w, "Walk", rest) \/ Goto(w, "Walk", e)
    BY <1>1, <1>15 DEF Walk
  <2>2. n \in Keys
    BY <1>8, <2>0, HeadTailProperties
  <2>3. d \in Call /\ d.target = c.key /\ d.cur = c.cur /\ d.todo = c.todo
        /\ d.list = c.list
    BY <2>0, <2>2 DEF Call
  <2>4. rest.cur = c.cur /\ rest.key = c.key /\ e.cur = c.cur /\ e.key = c.key
    BY DEF Call
  <2>5. Loaded(c.cur, tasks[c.key])
    BY <1>3, <2>0 DEF Holds
  <2> HIDE DEF d, rest, e
  <2>6. CASE Goto(w, "BlockCAS", d)
    BY <1>7, <2>0, <2>3, <2>5, <2>6
  <2>7. CASE Goto(w, "Walk", rest) \/ Goto(w, "Walk", e)
    <3>1. PICK x \in {rest, e} : Goto(w, "Walk", x)
      BY <2>7
    <3>2. pc'[w] = "Walk" /\ call'[w] = x
      BY <1>0, <3>1, GotoMoves
    <3> QED
      BY <2>0, <2>4, <2>5, <3>2 DEF Holds, Blocking
  <2> QED
    BY <2>1, <2>6, <2>7
<1>16. CASE ClaimCAS(w)
  <2>1. (\E result : Return(w, result)) \/ (\E d : Goto(w, "ClaimLoad", d))
    BY <1>16 DEF ClaimCAS, Retry
  <2> QED
    BY <1>4, <1>5, <2>1
<1>17. CASE OwnerLoad(w)
  <2> DEFINE d == [c EXCEPT !.cur = tasks[c.key]]
  <2>0. p = "OwnerLoad" /\ c.key \in Keys /\ tasks[c.key] \in MaybeTask
    BY <1>1, <1>2, <1>3, <1>17, Caller DEF OwnerLoad, CallInv
  <2>1. d \in Call /\ d.key = c.key /\ d.cur = tasks[c.key]
    BY <2>0 DEF Call
  <2>2. ((\E result : Return(w, result)) \/ Goto(w, "OwnerCAS", d)) /\ tasks' = tasks
    BY <1>1, <1>17 DEF OwnerLoad, storeVars
  <2> HIDE DEF d
  <2> QED
    BY <1>4, <1>6, <2>0, <2>1, <2>2
<1>18. CASE OwnerCAS(w)
  <2>1. \/ \E result : Return(w, result)
        \/ \E d : Goto(w, "Range", d) \/ Goto(w, "OwnerLoad", d)
    BY <1>18 DEF OwnerCAS, Retry
  <2> QED
    BY <1>4, <1>5, <2>1
<1>19. CASE BlockDependents(w)
  <2> DEFINE live == {k \in TransitiveDependents(tasks, c.key) : ~IsTerminal(tasks[k])}
             d == [c EXCEPT !.blocker = c.key, !.todo = live, !.list = tasks]
  <2>1. NextDependent(w, d, "ok")
    BY <1>1, <1>19 DEF BlockDependents
  <2>2. live \subseteq Keys /\ tasks \in [Keys -> MaybeTask] /\ c.key \in Keys
    BY <1>0, <1>2, <1>3, <1>19 DEF TransitiveDependents, StoreTypeOK, MaybeTask,
       BlockDependents, CallInv
  <2> HIDE DEF live
  <2>3. d \in Call /\ d.todo = live /\ d.list = tasks
    BY <2>2 DEF Call
  <2> HIDE DEF d
  <2>4. \A k \in d.todo : Loaded(d.list[k], tasks[k])
    BY <1>0, <2>2, <2>3, LoadedNow
  <2> QED
    BY <1>0, <2>1, <2>3, <2>4, NextDependentHolds
<1>20. CASE BlockCAS(w)
  <2>0. p = "BlockCAS" /\ \A k \in c.todo : Loaded(c.list[k], tasks[k])
    BY <1>2, <1>3, <1>20 DEF BlockCAS, Holds, Blocking
  <2>1. NextDependent(w, c, BlockResult(c.op)) \/ Goto(w, "BlockLoad", c)
    BY <1>1, <1>20 DEF BlockCAS
  <2>2. CASE Goto(w, "BlockLoad", c)
    <3>1. pc'[w] = "BlockLoad" /\ call'[w] = c
      BY <1>0, <2>2, GotoMoves
    <3> QED
      BY <1>3, <2>0, <3>1 DEF Holds, Blocking
  <2> QED
    BY <1>0, <2>0, <2>1, <2>2, NextDependentHolds
<1>21. CASE BlockLoad(w)
  <2> DEFINE d == [c EXCEPT !.cur = tasks[c.target]]
  <2>0. p = "BlockLoad" /\ c.target \in Keys /\ tasks' = tasks
        /\ \A k \in c.todo : Loaded(c.list[k], tasks[k])
    BY <1>2, <1>3, <1>21 DEF BlockLoad, Holds, Blocking, CallInv, storeVars
  <2>1. NextDependent(w, c, BlockResult(c.op)) \/ Goto(w, "BlockCAS", d)
    BY <1>1, <1>21 DEF BlockLoad
  <2>2. tasks[c.target] \in MaybeTask /\ Loaded(tasks[c.target], tasks[c.target])
    BY <1>0, <2>0, LoadedNow DEF StoreTypeOK, MaybeTask
  <2>3. d \in Call /\ d.target = c.target /\ d.cur = tasks[c.target]
        /\ d.todo = c.todo /\ d.list = c.list
    BY <2>2 DEF Call
  <2> HIDE DEF d
  <2>4. CASE Goto(w, "BlockCAS", d)
    BY <1>7, <2>0, <2>2, <2>3, <2>4
  <2> QED
    BY <1>0, <2>0, <2>1, <2>4, NextDependentHolds
<1> QED
  BY <1>9, <1>10, <1>11, <1>12, <1>13, <1>14, <1>15, <1>16, <1>17, <1>18, <1>19,
     <1>20, <1>21 DEF Step

\* A record that Admit writes is blocked by a bad key, or its needs are
\* looked at again.
LEMMA AdmitCASCareful ==
  ASSUME Pre, ~Evicting, NEW w \in Workers, AdmitCAS(w),
         Suspects(pc[w], call[w], tasks)
  PROVE  Careful(w)
<1>0. /\ ControlTypeOK /\ StoreTypeOK /\ call[w] \in Call
      /\ CallInv(pc[w], call[w]) /\ pc[w] = "AdmitNeeds"
  BY Caller DEF Pre, ControlInv, AdmitCAS
<1>1. PICK c \in Call : c = call[w] /\ c.key \in Keys /\ AdmitEligible(c.cur, c.seq)
  BY <1>0 DEF CallInv
<1>2. \A k \in Keys, n \in Keys : ~Reaches(pc[w], call[w], k, n)
  BY <1>0, OwesNothing DEF Blocking
<1>3. ASSUME tasks' = tasks,
             (\E result : Return(w, result)) \/ (\E d : Goto(w, "AdmitLoad", d))
      PROVE  Careful(w)
  <2>1. Suspects(pc'[w], call'[w], tasks)
    BY <1>0, <1>3, ReturnMoves, GotoMoves, SuspectsNothing DEF Blocking
  <2> QED
    BY <1>2, <1>3, <2>1, ReadIsCareful
<1> DEFINE new == Admitted(c)
           d == [c EXCEPT !.queue = c.needs]
           x == c.key
<1>4. new \in TaskState
  BY <1>1 DEF Call, Admitted, TaskState, Status, Terminal, MaybeTask
<1>5. /\ new.status = IF c.blocker = NoKey THEN "pending" ELSE "blocked"
      /\ new.needs = c.needs /\ new.blockedBy = c.blocker
      /\ d.queue = c.needs /\ d.key = x /\ c.blocker \in Keys \cup {NoKey}
  BY DEF Admitted, Call
<1>6. \/ /\ tasks' = tasks
         /\ (\E result : Return(w, result)) \/ (\E e : Goto(w, "AdmitLoad", e))
      \/ /\ Matches(x, c.cur) /\ Write(x, new)
         /\ IF c.blocker # NoKey THEN Return(w, "true")
            ELSE Goto(w, "RecheckNeeds", d)
  BY <1>1 DEF AdmitCAS, Retry, storeVars
<1> HIDE DEF new, d
<1>7. ASSUME Matches(x, c.cur), Write(x, new),
             IF c.blocker # NoKey THEN Return(w, "true")
             ELSE Goto(w, "RecheckNeeds", d)
      PROVE  Careful(w)
  <2>1. /\ tasks'[x] # NoTask /\ tasks'[x].status = new.status
        /\ tasks'[x].needs = new.needs /\ tasks'[x].blockedBy = new.blockedBy
        /\ \A j \in Keys \ {x} : tasks'[j] = tasks[j]
    BY <1>0, <1>1, <1>4, <1>7, WriteKeeps
  <2>2. ~IsBad(tasks[x])
    BY <1>1, <1>7 DEF Matches, AdmitEligible, IsBad, IsTerminal, Terminal, Found
  <2>3. CASE c.blocker # NoKey
    <3>1. pc'[w] = "idle" /\ call'[w] = NoCall
      BY <1>0, <1>7, <2>3, ReturnMoves
    <3>2. tasks'[x].status = "blocked" /\ tasks'[x].blockedBy = c.blocker
      BY <1>5, <2>1, <2>3
    <3>3. IsBad(tasks[c.blocker]) /\ c.blocker \in Keys /\ c.blocker # x
      BY <1>0, <1>1, <1>5, <2>2, <2>3 DEF Suspects
    <3>4. IsBad(tasks'[tasks'[x].blockedBy])
      BY <2>1, <3>2, <3>3
    <3>5. ~IsLive(tasks'[x]) /\ ~HasFailed(tasks'[x])
      BY <3>2 DEF IsLive, IsTerminal, Terminal, HasFailed
    <3>6. Suspects(pc'[w], call'[w], tasks')
      BY <3>1, SuspectsNothing DEF Blocking
    <3> QED
      BY <1>1, <1>2, <2>1, <3>4, <3>5, <3>6 DEF Careful
  <2>4. CASE c.blocker = NoKey
    <3>1. pc'[w] = "RecheckNeeds" /\ call'[w] = d
      BY <1>0, <1>7, <2>4, GotoMoves
    <3>2. tasks'[x].status = "pending" /\ tasks'[x].needs = c.needs
      BY <1>5, <2>1, <2>4
    <3>3. \A n \in ElementsOf(tasks'[x].needs) : Reaches(pc'[w], call'[w], x, n)
      BY <1>5, <3>1, <3>2 DEF Reaches
    <3>4. Suspects(pc'[w], call'[w], tasks')
      BY <3>1, SuspectsNothing DEF Blocking
    <3>5. ~HasFailed(tasks'[x]) /\ tasks'[x].status # "blocked"
      BY <3>2 DEF HasFailed
    <3> HIDE DEF x
    <3> QED
      BY <1>1, <1>2, <2>1, <3>3, <3>4, <3>5 DEF Careful
  <2> QED
    BY <2>3, <2>4
<1> QED
  BY <1>3, <1>6, <1>7

\* A grant leaves the needs as they were.
LEMMA ClaimCASCareful ==
  ASSUME Pre, ~Evicting, NEW w \in Workers, ClaimCAS(w),
         Holds(pc[w], call[w], tasks)
  PROVE  Careful(w)
<1>0. /\ ControlTypeOK /\ StoreTypeOK /\ call[w] \in Call
      /\ CallInv(pc[w], call[w]) /\ pc[w] = "Walk"
  BY Caller DEF Pre, ControlInv, ClaimCAS
<1>1. PICK c \in Call : /\ c = call[w] /\ c.key \in Keys /\ IsLive(c.cur)
                        /\ Loaded(c.cur, tasks[c.key])
  BY <1>0 DEF CallInv, Holds
<1>2. \A k \in Keys, n \in Keys : ~Reaches(pc[w], call[w], k, n)
  BY <1>0, OwesNothing DEF Blocking
<1> DEFINE new == Claimed(w, c)
           x == c.key
<1>3. new \in TaskState /\ new.status = "claimed" /\ new.needs = c.cur.needs
  BY <1>1, ClaimedRecord DEF Call, MaybeTask, IsLive
<1>4. \/ tasks' = tasks /\ (\E d : Goto(w, "ClaimLoad", d))
      \/ Matches(x, c.cur) /\ Write(x, new) /\ Return(w, "ok")
  BY <1>1 DEF ClaimCAS, Retry, storeVars
<1> HIDE DEF new
<1>5. Suspects(pc'[w], call'[w], tasks')
  BY <1>0, <1>4, ReturnMoves, GotoMoves, SuspectsNothing DEF Blocking
<1>6. CASE tasks' = tasks
  BY <1>2, <1>5, <1>6, ReadIsCareful
<1>7. CASE Matches(x, c.cur) /\ Write(x, new)
  <2>1. /\ tasks'[x] # NoTask /\ tasks'[x].status = "claimed"
        /\ tasks'[x].needs = c.cur.needs
        /\ \A j \in Keys \ {x} : tasks'[j] = tasks[j]
    BY <1>0, <1>1, <1>3, <1>7, WriteKeeps
  <2>2. c.cur = tasks[x]
    BY <1>1, <1>7, MatchesSame DEF IsLive
  <2>3. IsLive(tasks[x]) /\ tasks'[x].needs = tasks[x].needs
        /\ ~HasFailed(tasks'[x]) /\ tasks'[x].status # "blocked"
    BY <1>1, <2>1, <2>2 DEF HasFailed
  <2> HIDE DEF x
  <2> QED
    BY <1>1, <1>2, <1>5, <2>1, <2>3 DEF Careful
<1> QED
  BY <1>4, <1>6, <1>7

\* A failed task sends its caller to the dependents.
LEMMA OwnerCASCareful ==
  ASSUME Pre, ~Evicting, NEW w \in Workers, OwnerCAS(w),
         Holds(pc[w], call[w], tasks)
  PROVE  Careful(w)
<1>0. /\ ControlTypeOK /\ StoreTypeOK /\ call[w] \in Call
      /\ CallInv(pc[w], call[w]) /\ pc[w] = "OwnerCAS"
  BY Caller DEF Pre, ControlInv, OwnerCAS
<1>1. PICK c \in Call : /\ c = call[w] /\ c.key \in Keys /\ c.cur # NoTask
                        /\ c.cur.status = "claimed" /\ CallInv("OwnerCAS", c)
                        /\ Loaded(c.cur, tasks[c.key])
  BY <1>0 DEF CallInv, Holds
<1>2. \A k \in Keys, n \in Keys : ~Reaches(pc[w], call[w], k, n)
  BY <1>0, OwesNothing DEF Blocking
<1> DEFINE new == OwnerWrites(c)
           x == c.key
<1>3. /\ new \in TaskState /\ new.needs = c.cur.needs
      /\ new.status \in {"pending", "claimed", "completed", "failed"}
      /\ new.status = "failed" => c.op = "Complete" /\ c.status = "failed"
      /\ c.op = "Complete" /\ c.status = "failed" => new.status = "failed"
  <2>1. c.op = "Complete" => new = [c.cur EXCEPT !.status = c.status]
    BY DEF OwnerWrites
  <2>2. c.cur \in TaskState
    BY <1>1 DEF Call, MaybeTask
  <2>3. c.op = "Complete" => new.status = c.status
    BY <2>1, <2>2 DEF TaskState
  <2> QED
    BY <1>1, <2>3, OwnerRecord
<1>4. \/ tasks' = tasks /\ (\E d : Goto(w, "OwnerLoad", d))
      \/ /\ Matches(x, c.cur) /\ Write(x, new)
         /\ IF c.op = "Complete" /\ c.status = "failed"
            THEN Goto(w, "Range", c) ELSE Return(w, "ok")
  BY <1>1 DEF OwnerCAS, Retry, storeVars
<1> HIDE DEF new
<1>5. CASE tasks' = tasks /\ (\E d : Goto(w, "OwnerLoad", d))
  <2>1. Suspects(pc'[w], call'[w], tasks)
    BY <1>0, <1>5, GotoMoves, SuspectsNothing DEF Blocking
  <2> QED
    BY <1>2, <1>5, <2>1, ReadIsCareful
<1>6. CASE /\ Matches(x, c.cur) /\ Write(x, new)
           /\ IF c.op = "Complete" /\ c.status = "failed"
              THEN Goto(w, "Range", c) ELSE Return(w, "ok")
  <2>1. /\ tasks'[x] # NoTask /\ tasks'[x].status = new.status
        /\ tasks'[x].needs = c.cur.needs
        /\ \A j \in Keys \ {x} : tasks'[j] = tasks[j]
    BY <1>0, <1>1, <1>3, <1>6, WriteKeeps
  <2>2. c.cur = tasks[x]
    BY <1>1, <1>6, MatchesSame
  <2>3. IsLive(tasks[x]) /\ tasks'[x].needs = tasks[x].needs
        /\ tasks'[x].status # "blocked"
    BY <1>1, <1>3, <2>1, <2>2 DEF IsLive, IsTerminal, Terminal
  <2>4. CASE new.status = "failed"
    <3>1. pc'[w] = "Range" /\ call'[w] = c
      BY <1>0, <1>3, <1>6, <2>4, GotoMoves
    <3>2. Suspects(pc'[w], call'[w], tasks')
      BY <2>1, <2>4, <3>1 DEF Suspects, IsBad, Blocking
    <3> QED
      BY <1>1, <1>2, <2>1, <2>3, <3>1, <3>2 DEF Careful
  <2>5. CASE new.status # "failed"
    <3>1. pc'[w] = "idle" /\ call'[w] = NoCall
      BY <1>0, <1>3, <1>6, <2>5, ReturnMoves
    <3>2. Suspects(pc'[w], call'[w], tasks')
      BY <3>1, SuspectsNothing DEF Blocking
    <3>3. ~HasFailed(tasks'[x])
      BY <2>1, <2>5 DEF HasFailed
    <3> HIDE DEF x
    <3> QED
      BY <1>1, <1>2, <2>1, <2>3, <3>2, <3>3 DEF Careful
  <2> QED
    BY <2>4, <2>5
<1> QED
  BY <1>4, <1>5, <1>6

\* A record that blockOne writes is blocked by a bad key.
LEMMA BlockCASCareful ==
  ASSUME Pre, ~Evicting, NEW w \in Workers, BlockCAS(w),
         Suspects(pc[w], call[w], tasks)
  PROVE  Careful(w)
<1>0. /\ ControlTypeOK /\ StoreTypeOK /\ call[w] \in Call
      /\ CallInv(pc[w], call[w]) /\ pc[w] = "BlockCAS"
  BY Caller DEF Pre, ControlInv, BlockCAS
<1>1. PICK c \in Call : /\ c = call[w] /\ c.target \in Keys /\ c.blocker \in Keys
                        /\ IsLive(c.cur) /\ CallInv("BlockCAS", c)
  BY <1>0 DEF CallInv, Blocking
<1>2. IsBad(tasks[c.blocker])
  BY <1>0, <1>1, KeysAssumption DEF Suspects, Blocking
<1> DEFINE new == Blocked(c)
           x == c.target
<1>3. new \in TaskState /\ new.status = "blocked" /\ new.blockedBy = c.blocker
  BY <1>1, BlockedRecord
<1>4. \/ tasks' = tasks /\ Goto(w, "BlockLoad", c)
      \/ /\ Matches(x, c.cur) /\ Write(x, new)
         /\ NextDependent(w, c, BlockResult(c.op))
  BY <1>1 DEF BlockCAS, storeVars
<1> HIDE DEF new
<1>5. CASE tasks' = tasks /\ Goto(w, "BlockLoad", c)
  <2>1. pc'[w] = "BlockLoad" /\ call'[w] = c
    BY <1>0, <1>5, GotoMoves
  <2>2. Suspects(pc'[w], call'[w], tasks)
    BY <1>2, <2>1 DEF Suspects
  <2>3. \A k \in Keys, n \in Keys : Reaches(pc[w], call[w], k, n)
          => Reaches(pc'[w], call'[w], k, n)
    BY <1>0, <1>1, <2>1 DEF Reaches, Blocking
  <2> QED
    BY <1>5, <2>2, <2>3, ReadIsCareful
<1>6. CASE /\ Matches(x, c.cur) /\ Write(x, new)
           /\ NextDependent(w, c, BlockResult(c.op))
  <2>1. /\ tasks'[x] # NoTask /\ tasks'[x].status = "blocked"
        /\ tasks'[x].blockedBy = c.blocker
        /\ \A j \in Keys \ {x} : tasks'[j] = tasks[j]
    BY <1>0, <1>1, <1>3, <1>6, WriteKeeps
  <2>2. c.blocker # x
    BY <1>1, <1>2, <1>6 DEF Matches, IsBad, IsLive, IsTerminal, Terminal, Found
  <2>3. IsBad(tasks'[c.blocker])
    BY <1>1, <1>2, <2>1, <2>2
  <2>4. /\ \A k \in c.todo, n \in Keys : Reaches(pc'[w], call'[w], k, n)
        /\ Suspects(pc'[w], call'[w], tasks')
    BY <1>0, <1>1, <1>6, <2>3, NextDependentCareful
  <2>5. ~IsLive(tasks'[x]) /\ ~HasFailed(tasks'[x])
    BY <2>1 DEF IsLive, IsTerminal, Terminal, HasFailed
  <2>6. ASSUME NEW k \in Keys, NEW n \in Keys, IsLive(tasks'[k]),
               Reaches(pc[w], call[w], k, n)
        PROVE  Reaches(pc'[w], call'[w], k, n)
    <3>1. k \in c.todo
      BY <1>0, <1>1, <2>5, <2>6 DEF Reaches, Blocking
    <3> QED
      BY <2>4, <3>1
  <2> HIDE DEF x
  <2> QED
    BY <2>1, <2>3, <2>4, <2>5, <2>6 DEF Careful
<1> QED
  BY <1>4, <1>5, <1>6

\* Every step of a worker is careful.
LEMMA StepCareful ==
  ASSUME Pre, ~Evicting, NEW w \in Workers, Step(w),
         Suspects(pc[w], call[w], tasks), Holds(pc[w], call[w], tasks)
  PROVE  Careful(w)
  BY AdmitReadsCareful, ClaimReadsCareful, BlockDependentsCareful,
     BlockLoadCareful, AdmitCASCareful, ClaimCASCareful, OwnerCASCareful,
     BlockCASCareful
  DEF Step

\* A call that begins, and one that is given up, leave a worker that holds
\* nothing and that has written nothing.
LEMMA OtherSteps ==
  ASSUME Pre, NEW w \in Workers, Start(w) \/ Abort(w)
  PROVE  /\ pc'[w] \in {"idle", "AdmitLoad", "ClaimLoad", "OwnerLoad"}
         /\ tasks' = tasks
         /\ pc[w] = "idle" \/ Faults
<1>0. ControlTypeOK
  BY DEF Pre, ControlInv
<1>1. CASE Abort(w)
  BY <1>0, <1>1 DEF Abort, Return, ControlTypeOK, storeVars
<1>2. CASE Start(w)
  <2>1. \E label \in {"AdmitLoad", "ClaimLoad", "OwnerLoad"} :
          \E c : Begin(w, label, c)
    BY <1>2 DEF Start, AdmitStart, ClaimStart, OwnerStart
  <2> QED
    BY <1>0, <2>1 DEF Begin, ControlTypeOK, storeVars
<1> QED
  BY <1>1, <1>2

\* Neither does such a step change what another call does.
LEMMA OthersKeepCalls ==
  ASSUME ControlTypeOK, NEW v \in Workers, NEW w \in Workers, v # w,
         Start(v) \/ Step(v) \/ Abort(v)
  PROVE  call'[w] = call[w]
<1>1. ASSUME NEW c, call' = [call EXCEPT ![v] = c]
      PROVE  call'[w] = call[w]
  BY <1>1 DEF ControlTypeOK
<1>2. \E c : call' = [call EXCEPT ![v] = c]
  <2>1. CASE Start(v)
    BY <2>1 DEF Start, AdmitStart, ClaimStart, OwnerStart, Begin
  <2>2. CASE Abort(v)
    BY <2>2 DEF Abort, Return
  <2>3. CASE AdmitLoad(v) \/ AdmitNeeds(v) \/ RecheckNeeds(v) \/ RecheckLoad(v)
    BY <2>3 DEF AdmitLoad, AdmitNeeds, RecheckNeeds, RecheckLoad, Goto, Return
  <2>4. CASE AdmitCAS(v)
    BY <2>4 DEF AdmitCAS, Goto, Return, Retry
  <2>5. CASE ClaimLoad(v) \/ Walk(v) \/ ClaimCAS(v)
    BY <2>5 DEF ClaimLoad, Walk, ClaimCAS, Goto, Return, Retry
  <2>6. CASE OwnerLoad(v) \/ OwnerCAS(v)
    BY <2>6 DEF OwnerLoad, OwnerCAS, Goto, Return, Retry
  <2>7. CASE BlockDependents(v) \/ BlockCAS(v) \/ BlockLoad(v)
    BY <2>7 DEF BlockDependents, BlockCAS, BlockLoad, NextDependent, Goto,
       Return
  <2> QED
    BY <2>1, <2>2, <2>3, <2>4, <2>5, <2>6, <2>7 DEF Step
<1> QED
  BY <1>1, <1>2

\* In a store that keeps its records a bad record stays what it is.
LEMMA BadStays ==
  ASSUME StoreTypeOK, ~Evicting, StoreStep, NEW k \in Keys, IsBad(tasks[k])
  PROVE  tasks'[k] = tasks[k]
<1>1. ASSUME NEW x \in Keys, NEW new \in TaskState,
             LegalWrite(x, new), Write(x, new)
      PROVE  tasks'[k] = tasks[k]
  <2>1. x # k
    BY <1>1 DEF LegalWrite, Submits, Grants, Settles, Blocks, IsLive,
       IsTerminal, Terminal, IsBad, Found
  <2> QED
    BY <1>1, <2>1, WriteKeeps
<1> QED
  BY <1>1 DEF StoreStep

\* What another worker suspects stays bad.
LEMMA SuspectsStay ==
  ASSUME StoreTypeOK, ~Evicting, StoreStep, NEW p \in Labels, NEW c \in Call,
         CallInv(p, c), Suspects(p, c, tasks)
  PROVE  Suspects(p, c, tasks')
<1>1. /\ c.blocker # NoKey => c.blocker \in Keys
      /\ p # "idle" => c.key \in Keys
  BY DEF Call, CallInv
<1>2. \A k \in Keys : IsBad(tasks[k]) => IsBad(tasks'[k])
  BY BadStays
<1> QED
  BY <1>1, <1>2 DEF Suspects

-----------------------------------------------------------------------------
(* The blocking invariant is inductive.                                    *)

\* A step of w, when w is careful or has only begun or given up a call.
LEMMA BlockStep ==
  ASSUME IInv, BlockInv, NEW w \in Workers, Start(w) \/ Step(w) \/ Abort(w),
         StoreStep, ControlInv', RecordsValid', StoreTypeOK'
  PROVE  BlockInv'
<1>0. /\ Pre /\ ControlTypeOK /\ StoreTypeOK
      /\ \A v \in Workers : /\ call[v] \in Call /\ CallInv(pc[v], call[v])
                            /\ pc[v] \in Labels
  BY DEF IInv, TypeOK, Pre, ControlInv, ControlTypeOK
<1>1. SUFFICES ASSUME ~Evicting PROVE BlockInv'
  BY DEF BlockInv, BlockersAreBad
<1>2. \A v \in Workers : /\ Suspects(pc[v], call[v], tasks)
                         /\ Holds(pc[v], call[v], tasks)
  BY <1>1 DEF BlockInv
<1>3. Revised /\ \A k \in Keys : IsBad(tasks[k]) => IsBad(tasks'[k])
  BY <1>0, <1>1, StepRevises, BadStays
<1>4. \A v \in Workers \ {w} : pc'[v] = pc[v] /\ call'[v] = call[v]
  BY <1>0, OneMoves, OthersKeepCalls
<1>5. ASSUME NEW v \in Workers \ {w}
      PROVE  Suspects(pc'[v], call'[v], tasks') /\ Holds(pc'[v], call'[v], tasks')
  <2>1. Suspects(pc[v], call[v], tasks') /\ Holds(pc[v], call[v], tasks')
    BY <1>0, <1>1, <1>2, <1>3, SuspectsStay, HoldsStays
  <2> QED
    BY <1>4, <2>1
<1>6. CASE Step(w)
  <2>1. Careful(w) /\ Holds(pc'[w], call'[w], tasks')
    BY <1>0, <1>1, <1>2, <1>3, <1>6, StepCareful, StepHolds
  <2>2. ASSUME NEW k \in Keys, tasks'[k] # NoTask, tasks'[k].status = "blocked"
        PROVE  IsBad(tasks'[tasks'[k].blockedBy])
    <3>1. CASE tasks'[k] = tasks[k]
      <4>1. IsBad(tasks[tasks[k].blockedBy])
        BY <1>1, <2>2, <3>1 DEF BlockInv, BlockersAreBad, Found
      <4>2. tasks[k].blockedBy \in Keys
        <5>1. Validate(k, tasks[k]) /\ tasks[k] \in TaskState
          BY <1>0, <2>2, <3>1 DEF Pre, RecordsValid, StoreTypeOK, Found
        <5> QED
          BY <2>2, <3>1, <5>1 DEF Validate, TaskState
      <4> QED
        BY <1>3, <3>1, <4>1, <4>2
    <3> QED
      BY <2>1, <2>2, <3>1 DEF Careful
  <2>3. ASSUME ~Faults, NEW k \in Keys, NEW n \in Keys, IsLive(tasks'[k]),
               n \in ElementsOf(tasks'[k].needs), HasFailed(tasks'[n])
        PROVE  \E v \in Workers : Reaches(pc'[v], call'[v], k, n)
    <3>1. CASE ~(IsLive(tasks[k]) /\ tasks'[k].needs = tasks[k].needs)
      BY <2>1, <2>3, <3>1 DEF Careful
    <3>2. CASE ~HasFailed(tasks[n])
      BY <2>1, <2>3, <3>2 DEF Careful, Reaches
    <3>3. CASE /\ IsLive(tasks[k]) /\ tasks'[k].needs = tasks[k].needs
               /\ HasFailed(tasks[n])
      <4>1. PICK v \in Workers : Reaches(pc[v], call[v], k, n)
        BY <1>1, <2>3, <3>3 DEF BlockInv
      <4>2. CASE v = w
        BY <2>1, <2>3, <3>3, <4>1, <4>2 DEF Careful
      <4>3. CASE v # w
        BY <1>4, <4>1, <4>3
      <4> QED
        BY <4>2, <4>3
    <3> QED
      BY <3>1, <3>2, <3>3
  <2>4. Suspects(pc'[w], call'[w], tasks')
    BY <2>1 DEF Careful
  <2> QED
    BY <1>5, <2>1, <2>2, <2>3, <2>4 DEF BlockInv, BlockersAreBad, Found
<1>7. CASE Start(w) \/ Abort(w)
  <2>1. /\ pc'[w] \in {"idle", "AdmitLoad", "ClaimLoad", "OwnerLoad"}
        /\ tasks' = tasks
        /\ pc[w] = "idle" \/ Faults
    BY <1>0, <1>7, OtherSteps
  <2>2. Suspects(pc'[w], call'[w], tasks') /\ Holds(pc'[w], call'[w], tasks')
    BY <2>1 DEF Suspects, Holds, Blocking
  <2>3. ASSUME ~Faults, NEW k \in Keys, NEW n \in Keys, IsLive(tasks[k]),
               n \in ElementsOf(tasks[k].needs), HasFailed(tasks[n])
        PROVE  \E v \in Workers : Reaches(pc'[v], call'[v], k, n)
    <3>1. PICK v \in Workers : Reaches(pc[v], call[v], k, n)
      BY <1>1, <2>3 DEF BlockInv
    <3>2. v # w
      BY <2>1, <2>3, <3>1 DEF Reaches, Blocking
    <3> QED
      BY <1>4, <3>1, <3>2
  <2>4. BlockersAreBad'
    BY <2>1 DEF BlockInv, BlockersAreBad, Found
  <2> QED
    BY <1>5, <2>1, <2>2, <2>3, <2>4 DEF BlockInv
<1> QED
  BY <1>6, <1>7

\* The blocking invariant holds while there are no records.
LEMMA InitBlockInv == Init => BlockInv
<1> SUFFICES ASSUME Init PROVE BlockInv
  OBVIOUS
<1>1. /\ \A k \in Keys : tasks[k] = NoTask
      /\ \A w \in Workers : pc[w] = "idle"
  BY DEF Init, StoreInit
<1>2. \A w \in Workers : /\ Suspects(pc[w], call[w], tasks)
                         /\ Holds(pc[w], call[w], tasks)
  BY <1>1 DEF Suspects, Holds, Blocking
<1> QED
  BY <1>1, <1>2 DEF BlockInv, BlockersAreBad, Found, IsLive

\* Every step keeps it.
LEMMA NextBlockInv == IInv /\ BlockInv /\ [Next]_ledgerVars => BlockInv'
<1> SUFFICES ASSUME IInv, BlockInv, [Next]_ledgerVars PROVE BlockInv'
  OBVIOUS
<1>1. StoreStep /\ ControlInv' /\ IInv'
  BY StepEffect, NextIInv DEF IInv, TypeOK, Pre, ControlInv, ControlTypeOK
<1>2. CASE UNCHANGED <<tasks, pc, call>>
  BY <1>2 DEF BlockInv, BlockersAreBad, Found
<1>3. CASE \E w \in Workers : Start(w) \/ Step(w) \/ Abort(w)
  BY <1>1, <1>3, BlockStep DEF IInv, TypeOK
<1> QED
  BY <1>2, <1>3 DEF Next, ledgerVars, Passing, Tick

\* The blocking invariant holds in every reachable state, together with the
\* one it rests on.
THEOREM BlockInvariance == Spec => [](IInv /\ BlockInv)
  BY InitBlockInv, NextBlockInv, InitIInv, NextIInv, PTL DEF Spec

\* In a store that keeps its records, a record that Admit, Claim, Takeover or
\* Complete blocked names a key that has failed or is blocked itself, however
\* long before the write the walk had read that key.
THEOREM BlockersStayBad == Spec => []BlockersAreBad
<1>1. BlockInv => BlockersAreBad
  BY DEF BlockInv
<1> QED
  BY <1>1, BlockInvariance, PTL

\* Once every call has returned, no live record needs a failed key: the Range
\* of blockDependents and the second look of Admit leave no window between
\* them, for any number of workers and any needs graph.
THEOREM FailureIsPropagated == Spec => []FailureReachesDependents
<1>1. IInv /\ BlockInv => FailureReachesDependents
  <2> SUFFICES ASSUME IInv, BlockInv, ~Faults, ~Evicting,
                      \A w \in Workers : pc[w] = "idle",
                      NEW k \in Keys, IsLive(tasks[k]),
                      NEW n \in ElementsOf(tasks[k].needs)
               PROVE  ~(Found(n) /\ tasks[n].status = "failed")
    BY DEF FailureReachesDependents
  <2>1. n \in Keys
    BY DEF IInv, TypeOK, StoreTypeOK, IsLive, TaskState, ElementsOf
  <2>2. \A w \in Workers : ~Reaches(pc[w], call[w], k, n)
    BY DEF Reaches, Blocking
  <2> QED
    BY <2>1, <2>2 DEF BlockInv, HasFailed, Found
<1> QED
  BY <1>1, BlockInvariance, PTL

-----------------------------------------------------------------------------
(* The ancestor walk.  While a claim is doomed, the walk has a failed or    *)
(* blocked key still before it: one it has not marked, and that every set  *)
(* of keys holds which holds the queue and, with a key the walk has not    *)
(* marked, the needs of that key.                                          *)

Ahead(records, c, b) ==
  \A S \in SUBSET Keys :
    /\ ElementsOf(c.queue) \subseteq S
    /\ \A k \in S \ c.seen :
         records[k] # NoTask => ElementsOf(records[k].needs) \subseteq S
    => b \in S

DoomInv ==
  \A w \in Workers : doomed[w] =>
    /\ pc[w] = "Walk"
    /\ \E b \in Keys : /\ IsBad(tasks[b])
                       /\ b \notin call[w].seen
                       /\ Ahead(tasks, call[w], b)

\* A queue is its head and its tail.
LEMMA QueueParts ==
  ASSUME NEW q \in Seq(Keys), q # <<>>
  PROVE  /\ Head(q) \in Keys /\ Tail(q) \in Seq(Keys)
         /\ ElementsOf(q) = {Head(q)} \cup ElementsOf(Tail(q))
<1>1. /\ Head(q) \in Keys /\ Tail(q) \in Seq(Keys)
      /\ Len(q) \in Nat \ {0} /\ Head(q) = q[1]
      /\ DOMAIN q = 1..Len(q) /\ DOMAIN Tail(q) = 1..(Len(q) - 1)
      /\ \A i \in 1..(Len(q) - 1) : Tail(q)[i] = q[i + 1]
  OBVIOUS
<1>2. ASSUME NEW i \in 1..Len(q)
      PROVE  q[i] \in {Head(q)} \cup ElementsOf(Tail(q))
  <2>1. CASE i = 1
    BY <1>1, <2>1
  <2>2. CASE i # 1
    <3>1. i - 1 \in 1..(Len(q) - 1) /\ Tail(q)[i - 1] = q[i]
      BY <1>1, <1>2, <2>2
    <3> QED
      BY <1>1, <3>1 DEF ElementsOf
  <2> QED
    BY <2>1, <2>2
<1>3. ASSUME NEW i \in 1..(Len(q) - 1)
      PROVE  Tail(q)[i] \in ElementsOf(q)
  <2>1. i + 1 \in 1..Len(q) /\ Tail(q)[i] = q[i + 1]
    BY <1>1, <1>3
  <2> QED
    BY <1>1, <2>1 DEF ElementsOf
<1>4. Head(q) \in ElementsOf(q)
  BY <1>1 DEF ElementsOf
<1>5. ElementsOf(q) \subseteq {Head(q)} \cup ElementsOf(Tail(q))
  BY <1>1, <1>2 DEF ElementsOf
<1>6. ElementsOf(Tail(q)) \subseteq ElementsOf(q)
  BY <1>1, <1>3 DEF ElementsOf
<1> QED
  BY <1>1, <1>4, <1>5, <1>6

\* A queue that is lengthened holds what it held and what was added.
LEMMA QueueGrows ==
  ASSUME NEW q \in Seq(Keys), NEW r \in Seq(Keys)
  PROVE  /\ q \o r \in Seq(Keys)
         /\ ElementsOf(q) \subseteq ElementsOf(q \o r)
         /\ ElementsOf(r) \subseteq ElementsOf(q \o r)
<1>1. /\ q \o r \in Seq(Keys) /\ Len(q) \in Nat /\ Len(r) \in Nat
      /\ DOMAIN (q \o r) = 1..(Len(q) + Len(r))
      /\ DOMAIN q = 1..Len(q) /\ DOMAIN r = 1..Len(r)
      /\ \A i \in 1..Len(q) : (q \o r)[i] = q[i]
      /\ \A i \in 1..Len(r) : (q \o r)[Len(q) + i] = r[i]
  OBVIOUS
<1>2. ASSUME NEW i \in 1..Len(q) PROVE q[i] \in ElementsOf(q \o r)
  <2>1. i \in 1..(Len(q) + Len(r)) /\ (q \o r)[i] = q[i]
    BY <1>1
  <2> QED
    BY <1>1, <2>1 DEF ElementsOf
<1>3. ASSUME NEW i \in 1..Len(r) PROVE r[i] \in ElementsOf(q \o r)
  <2>1. Len(q) + i \in 1..(Len(q) + Len(r)) /\ (q \o r)[Len(q) + i] = r[i]
    BY <1>1
  <2> QED
    BY <1>1, <2>1 DEF ElementsOf
<1> QED
  BY <1>1, <1>2, <1>3 DEF ElementsOf

\* A start is the first label of a method.
LEMMA StartBegins ==
  ASSUME NEW w \in Workers, Start(w)
  PROVE  \E label \in {"AdmitLoad", "ClaimLoad", "OwnerLoad"} :
           \E c : Begin(w, label, c)
  BY DEF Start, AdmitStart, ClaimStart, OwnerStart

\* The call that has loaded its record.
LEMMA LoadedCall ==
  ASSUME NEW c \in Call, NEW t \in MaybeTask, t.needs \in Seq(Keys)
  PROVE  [c EXCEPT !.cur = t, !.queue = t.needs, !.seen = {}] \in Call
  BY DEF Call

\* The claim that loads a record puts its Needs closure before the walk.
LEMMA ClosureIsAhead ==
  ASSUME StoreTypeOK, NEW c \in Call, c.cur \in TaskState,
         c.queue = c.cur.needs, c.seen = {}, HasBadAncestor(c.cur)
  PROVE  \E b \in Keys : /\ IsBad(tasks[b]) /\ b \notin c.seen
                         /\ Ahead(tasks, c, b)
<1>1. PICK b \in Keys :
        /\ IsBad(tasks[b])
        /\ \A S \in SUBSET Keys :
             /\ ElementsOf(c.cur.needs) \subseteq S
             /\ \A k \in S : Found(k) => ElementsOf(tasks[k].needs) \subseteq S
             => b \in S
  BY DEF HasBadAncestor, Closure
<1>2. Ahead(tasks, c, b)
  BY <1>1 DEF Ahead, Found
<1> QED
  BY <1>1, <1>2

\* A walk that goes on past a key leaves the bad key before it: the key it
\* passed was another one, and every set that holds the new queue holds the
\* old one with the key it passed added.
LEMMA WalkKeepsAhead ==
  ASSUME StoreTypeOK, ControlTypeOK, NEW w \in Workers, Walk(w),
         pc'[w] = "Walk", NEW b \in Keys, IsBad(tasks[b]),
         b \notin call[w].seen, Ahead(tasks, call[w], b)
  PROVE  b \notin call'[w].seen /\ Ahead(tasks, call'[w], b)
<1> DEFINE c == call[w]
           n == Head(c.queue)
           d == call'[w]
<1>1. c \in Call /\ c.queue \in Seq(Keys) /\ c.queue # <<>> /\ c.seen \subseteq Keys
  BY DEF ControlTypeOK, Call, Walk
<1>2. /\ n \in Keys /\ Tail(c.queue) \in Seq(Keys)
      /\ ElementsOf(c.queue) = {n} \cup ElementsOf(Tail(c.queue))
  BY <1>1, QueueParts
<1>3. /\ ~(n \notin c.seen /\ IsBad(tasks[n]))
      /\ d = IF n \notin c.seen /\ Found(n)
             THEN [[c EXCEPT !.queue = Tail(@), !.seen = @ \cup {n}]
                     EXCEPT !.queue = @ \o tasks[n].needs]
             ELSE [c EXCEPT !.queue = Tail(@), !.seen = @ \cup {n}]
  BY DEF Walk, Goto, ControlTypeOK
<1>4. /\ d.seen = c.seen \cup {n}
      /\ d.queue = IF n \notin c.seen /\ Found(n)
                   THEN Tail(c.queue) \o tasks[n].needs ELSE Tail(c.queue)
  BY <1>1, <1>3 DEF Call
<1>5. b # n
  BY <1>3
<1>6. Found(n) => tasks[n].needs \in Seq(Keys)
  BY <1>2 DEF StoreTypeOK, Found, TaskState
<1>7. /\ ElementsOf(Tail(c.queue)) \subseteq ElementsOf(d.queue)
      /\ n \notin c.seen /\ Found(n) =>
           ElementsOf(tasks[n].needs) \subseteq ElementsOf(d.queue)
  BY <1>2, <1>4, <1>6, QueueGrows
<1> HIDE DEF c, n, d
<1>8. ASSUME NEW S \in SUBSET Keys,
             ElementsOf(d.queue) \subseteq S,
             \A k \in S \ d.seen :
               tasks[k] # NoTask => ElementsOf(tasks[k].needs) \subseteq S
      PROVE  b \in S
  <2>1. S \cup {n} \in SUBSET Keys /\ ElementsOf(c.queue) \subseteq S \cup {n}
    BY <1>2, <1>7, <1>8
  <2>2. ASSUME NEW k \in (S \cup {n}) \ c.seen, tasks[k] # NoTask
        PROVE  ElementsOf(tasks[k].needs) \subseteq S \cup {n}
    BY <1>4, <1>7, <1>8, <2>2 DEF Found
  <2>3. b \in S \cup {n}
    BY <2>1, <2>2 DEF Ahead, c
  <2> QED
    BY <1>5, <2>3
<1> QED
  BY <1>4, <1>5, <1>8 DEF Ahead, c, d

\* What is before a walk stays there while no edge of the graph changes.
LEMMA AheadStays ==
  ASSUME ~Rewires, NEW c, NEW b, Ahead(tasks, c, b)
  PROVE  Ahead(tasks', c, b)
<1>1. \A k \in Keys : tasks[k] # NoTask =>
        tasks'[k] # NoTask /\ tasks'[k].needs = tasks[k].needs
  BY DEF Rewires, Found
<1> QED
  BY <1>1 DEF Ahead

\* A worker that is on its walk after a step was there before and kept its
\* call, has walked on, or has just loaded the record.
LEMMA OnTheWalk ==
  ASSUME ControlTypeOK, [Next]_ledgerVars, NEW w \in Workers, pc'[w] = "Walk"
  PROVE  \/ pc[w] = "Walk" /\ call'[w] = call[w]
         \/ Walk(w)
         \/ ClaimLoad(w)
<1>1. CASE UNCHANGED <<pc, call>>
  BY <1>1
<1>2. ASSUME NEW v \in Workers, v # w, Start(v) \/ Step(v) \/ Abort(v)
      PROVE  pc[w] = "Walk" /\ call'[w] = call[w]
  BY <1>2, OneMoves, OthersKeepCalls
<1>3. CASE Start(w) \/ Step(w) \/ Abort(w)
  <2>1. ~Start(w) /\ ~Abort(w)
    <3>1. ASSUME Start(w) PROVE FALSE
      <4>1. PICK label \in {"AdmitLoad", "ClaimLoad", "OwnerLoad"} :
              \E c : Begin(w, label, c)
        BY <3>1, StartBegins
      <4>2. pc' = [pc EXCEPT ![w] = label]
        BY <4>1 DEF Begin
      <4> QED
        BY <4>1, <4>2 DEF ControlTypeOK
    <3>2. ~Abort(w)
      BY DEF Abort, Return, ControlTypeOK
    <3> QED
      BY <3>1, <3>2
  <2>2. ~AdmitLoad(w) /\ ~AdmitNeeds(w) /\ ~RecheckNeeds(w) /\ ~RecheckLoad(w)
    BY DEF AdmitLoad, AdmitNeeds, RecheckNeeds, RecheckLoad, Goto, Return,
       ControlTypeOK
  <2>3. ~AdmitCAS(w) /\ ~ClaimCAS(w) /\ ~OwnerLoad(w) /\ ~OwnerCAS(w)
    BY DEF AdmitCAS, ClaimCAS, OwnerLoad, OwnerCAS, Retry, Goto, Return,
       ControlTypeOK
  <2>4. ~BlockDependents(w) /\ ~BlockCAS(w) /\ ~BlockLoad(w)
    BY DEF BlockDependents, BlockCAS, BlockLoad, NextDependent, Goto, Return,
       ControlTypeOK
  <2> QED
    BY <1>3, <2>1, <2>2, <2>3, <2>4 DEF Step
<1> QED
  BY <1>1, <1>2, <1>3 DEF Next, Passing, ledgerVars

\* A bad record stays bad unless it is deleted.
LEMMA BadOrGone ==
  ASSUME StoreTypeOK, StoreStep, NEW b \in Keys, IsBad(tasks[b]),
         tasks'[b] # NoTask
  PROVE  IsBad(tasks'[b])
<1>1. ASSUME NEW j \in Keys, NEW new \in TaskState,
             LegalWrite(j, new), Write(j, new)
      PROVE  IsBad(tasks'[b])
  <2>1. j # b
    BY <1>1 DEF LegalWrite, Submits, Grants, Settles, Blocks, IsLive,
       IsTerminal, Terminal, IsBad, Found
  <2> QED
    BY <1>1, <2>1, WriteEffect
<1> QED
  BY <1>1 DEF StoreStep

\* A doomed claim keeps a bad key before its walk.
LEMMA NextDoomInv == IInv /\ DoomInv /\ [WalkNext]_walkVars => DoomInv'
<1> SUFFICES ASSUME IInv, DoomInv, [WalkNext]_walkVars PROVE DoomInv'
  OBVIOUS
<1>0. /\ StoreTypeOK /\ ControlTypeOK /\ Pre
      /\ grants \subseteq Keys \X Nat \X Workers
  BY DEF IInv, TypeOK, Pre, ControlInv, ControlTypeOK
<1>1. CASE UNCHANGED walkVars
  BY <1>1 DEF walkVars, ledgerVars, DoomInv
<1>2. CASE WalkNext
  <2>1. [Next]_ledgerVars /\ StoreStep /\ StoreTypeOK'
    BY <1>0, <1>2, StepEffect, NextIInv DEF WalkNext, IInv, TypeOK
  <2> SUFFICES ASSUME NEW w \in Workers, doomed'[w]
               PROVE  /\ pc'[w] = "Walk"
                      /\ \E b \in Keys : /\ IsBad(tasks'[b])
                                         /\ b \notin call'[w].seen
                                         /\ Ahead(tasks', call'[w], b)
    BY DEF DoomInv
  <2>2. /\ pc'[w] = "Walk" /\ ~Rewires
        /\ IF pc[w] = "Walk" THEN doomed[w] ELSE HasBadAncestor(call'[w].cur)
    BY <1>2 DEF WalkNext
  <2>3. ASSUME NEW b \in Keys, IsBad(tasks[b]), b \notin call'[w].seen,
               Ahead(tasks, call'[w], b)
        PROVE  \E x \in Keys : /\ IsBad(tasks'[x])
                               /\ x \notin call'[w].seen
                               /\ Ahead(tasks', call'[w], x)
    <3>1. Ahead(tasks', call'[w], b)
      BY <2>2, <2>3, AheadStays
    <3>2. tasks'[b] # NoTask
      BY <2>2, <2>3 DEF Rewires, Found, IsBad
    <3>3. IsBad(tasks'[b])
      BY <1>0, <2>1, <2>3, <3>2, BadOrGone
    <3> QED
      BY <2>3, <3>1, <3>3
  <2>4. CASE pc[w] = "Walk" /\ call'[w] = call[w]
    BY <2>2, <2>3, <2>4 DEF DoomInv
  <2>5. CASE Walk(w)
    <3>1. pc[w] = "Walk"
      BY <2>5 DEF Walk
    <3>2. PICK b \in Keys : /\ IsBad(tasks[b]) /\ b \notin call[w].seen
                            /\ Ahead(tasks, call[w], b)
      BY <2>2, <3>1 DEF DoomInv
    <3>3. b \notin call'[w].seen /\ Ahead(tasks, call'[w], b)
      BY <1>0, <2>2, <2>5, <3>2, WalkKeepsAhead
    <3> QED
      BY <2>2, <2>3, <3>2, <3>3
  <2>6. CASE ClaimLoad(w)
    <3>1. pc[w] = "ClaimLoad" /\ call[w] \in Call /\ call[w].key \in Keys
      BY <1>0, <2>6 DEF ClaimLoad, ControlTypeOK, Pre, ControlInv, CallInv
    <3>2. /\ call'[w] = [call[w] EXCEPT !.cur = tasks[call[w].key],
                           !.queue = tasks[call[w].key].needs, !.seen = {}]
          /\ ClaimVerdict(call[w].op, tasks[call[w].key], call[w].now) = "ok"
      BY <1>0, <2>2, <2>6 DEF ClaimLoad, Goto, Return, ControlTypeOK
    <3>3. tasks[call[w].key] \in TaskState
      BY <1>0, <3>1, <3>2 DEF ClaimVerdict, StoreTypeOK
    <3>4. /\ call'[w] \in Call /\ call'[w].cur = tasks[call[w].key]
          /\ call'[w].queue = call'[w].cur.needs /\ call'[w].seen = {}
      <4>1. tasks[call[w].key].needs \in Seq(Keys)
        BY <3>3 DEF TaskState
      <4>2. tasks[call[w].key] \in MaybeTask
        BY <3>3 DEF MaybeTask
      <4> DEFINE t == tasks[call[w].key]
                 c == call[w]
                 d == call'[w]
      <4>3. c \in Call /\ t \in MaybeTask /\ t.needs \in Seq(Keys)
        BY <3>1, <4>1, <4>2
      <4>4. d = [c EXCEPT !.cur = t, !.queue = t.needs, !.seen = {}]
        BY <3>2
      <4> HIDE DEF c, t, d
      <4>5. d \in Call /\ d.cur = t /\ d.queue = t.needs /\ d.seen = {}
        <5>1. d.cur = t /\ d.queue = t.needs /\ d.seen = {}
          BY <4>3, <4>4 DEF Call
        <5>2. [c EXCEPT !.cur = t, !.queue = t.needs, !.seen = {}] \in Call
          BY <4>3, LoadedCall
        <5> QED
          BY <4>4, <5>1, <5>2
      <4> QED
        BY <4>5 DEF t, d
    <3>5. PICK b \in Keys : /\ IsBad(tasks[b]) /\ b \notin call'[w].seen
                            /\ Ahead(tasks, call'[w], b)
      BY <1>0, <2>2, <3>1, <3>3, <3>4, ClosureIsAhead
    <3> QED
      BY <2>2, <2>3, <3>5
  <2> QED
    BY <1>0, <2>1, <2>2, <2>4, <2>5, <2>6, OnTheWalk
<1> QED
  BY <1>1, <1>2

\* A claim is granted only with its queue run out.
LEMMA GrantEndsWalk ==
  ASSUME ControlTypeOK, [Next]_ledgerVars, NEW w \in Workers,
         pc[w] = "Walk", pc'[w] = "idle", ret'[w] = "ok"
  PROVE  call[w].queue = <<>>
<1>1. ~UNCHANGED ledgerVars /\ ~Passing
  BY DEF ledgerVars, Passing
<1>2. Start(w) \/ Step(w) \/ Abort(w)
  BY <1>1, OneMoves DEF Next
<1>3. ~Start(w)
  BY DEF Start, AdmitStart, ClaimStart, OwnerStart, Begin
<1>4. ~Abort(w)
  BY DEF Abort, Return, ControlTypeOK
<1>5. ~Walk(w)
  BY DEF Walk, Goto, ControlTypeOK
<1>6. ClaimCAS(w)
  BY <1>2, <1>3, <1>4, <1>5
  DEF Step, AdmitLoad, AdmitNeeds, AdmitCAS, RecheckNeeds, RecheckLoad,
      ClaimLoad, OwnerLoad, OwnerCAS, BlockDependents, BlockCAS, BlockLoad
<1> QED
  BY <1>6 DEF ClaimCAS

\* The walk's invariant holds in every reachable state.
THEOREM DoomInvariance == WalkSpec => [](IInv /\ DoomInv)
<1>1. WalkInit => IInv /\ DoomInv
  BY InitIInv DEF WalkInit, DoomInv
<1>2. [WalkNext]_walkVars => [Next]_ledgerVars
  BY DEF WalkNext, walkVars
<1> QED
  BY <1>1, <1>2, NextIInv, NextDoomInv, PTL DEF WalkSpec

\* Claim and Takeover grant no record that had a failed or blocked key in its
\* transitive Needs closure when they loaded it, for any graph, cyclic ones
\* included, any number of workers and any growth of the graph during the
\* walk of blockingAncestor.
THEOREM DoomedIsRefused == WalkSpec => NoDoomedGrant
<1>1. IInv /\ DoomInv /\ [WalkNext]_walkVars =>
        [\A w \in Workers :
           pc[w] = "Walk" /\ pc'[w] = "idle" /\ ret'[w] = "ok"
             => ~doomed[w]]_walkVars
  <2> SUFFICES ASSUME IInv, DoomInv, [WalkNext]_walkVars, NEW w \in Workers,
                      pc[w] = "Walk", pc'[w] = "idle", ret'[w] = "ok",
                      doomed[w]
               PROVE  FALSE
    OBVIOUS
  <2>1. [Next]_ledgerVars /\ ControlTypeOK
    BY DEF WalkNext, walkVars, IInv, TypeOK, ControlTypeOK
  <2>2. call[w].queue = <<>>
    BY <2>1, GrantEndsWalk
  <2>3. PICK b \in Keys : Ahead(tasks, call[w], b)
    BY DEF DoomInv
  <2>4. ElementsOf(call[w].queue) = {}
    BY <2>2 DEF ElementsOf
  <2>5. b \in {}
    BY <2>3, <2>4 DEF Ahead
  <2> QED
    BY <2>5
<1> QED
  BY <1>1, DoomInvariance, PTL DEF WalkSpec, NoDoomedGrant

=============================================================================
