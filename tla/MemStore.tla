------------------------------ MODULE MemStore -----------------------------
(***************************************************************************)
(* The shipped in-memory store (src/ledger/store.go, store_eviction.go)    *)
(* with a positive MaxEntries: every record's key sits in evictQueue, and  *)
(* a successful CompareAndSwap deletes from the head of the queue while    *)
(* the store is over its cap.  The mutex is held for the whole of          *)
(* CompareAndSwap, the eviction round included, so a call is one step.     *)
(***************************************************************************)
EXTENDS Store, FiniteSets, SequencesExt

CONSTANTS
  MaxEntries,       \* MemStoreOptions.MaxEntries
  EvictScanBudget,  \* evictScanBudget: 8 in the code
  MaxFence          \* bound: no key is granted past it

ASSUME CapAssumption ==
  /\ MaxEntries \in Nat \ {0} /\ EvictScanBudget \in Nat \ {0}
  /\ MaxFence \in Nat /\ Evicting /\ IsFiniteSet(Keys)

VARIABLE evictQueue

memVars == <<storeVars, evictQueue>>

Recorded == {k \in Keys : Found(k)}

\* Mutant of Protected: a live lease protects nothing.
ProtectedExempt(k, exempt) == k = exempt

\* A key the eviction round of a write to exempt may not delete.
Protected(k, exempt) == k = exempt \/ HoldsLiveLease(tasks[k])

\* One turn of evictOverCap's loop on r: the queue, the records left and
\* the rotations made so far.  A turn of a finished loop changes nothing.
EvictTurn(r, exempt) ==
  LET k == Head(r.queue)
      rest == Tail(r.queue)
  IN IF Cardinality(r.left) <= MaxEntries \/ r.rotations >= EvictScanBudget
     THEN r
     ELSE IF Protected(k, exempt)
          THEN [r EXCEPT !.queue = Append(rest, k), !.rotations = @ + 1]
          ELSE [r EXCEPT !.queue = rest, !.left = @ \ {k}]

\* Every turn deletes a key or spends a rotation, so the loop has ended
\* after as many turns as there are keys and rotations.
Turns == Cardinality(Keys) + EvictScanBudget

\* The loop's state after every number of turns.
EvictRound(exempt, queue, records) ==
  LET round[n \in 0..Turns] ==
        IF n = 0 THEN [queue |-> queue, left |-> records, rotations |-> 0]
        ELSE EvictTurn(round[n - 1], exempt)
  IN round

\* evictOverCap.
EvictOverCap(exempt, queue, records) ==
  EvictRound(exempt, queue, records)[Turns]

\* Mutant of Floor: a deletion leaves the floor alone.
FloorKept(gone) == fenceFloor

\* Raising the floor to the highest fence deleted.
Floor(gone) ==
  CHOOSE f \in {fenceFloor} \cup {tasks[j].fence : j \in gone} :
    \A j \in gone : f >= fenceFloor /\ f >= tasks[j].fence

\* A successful CompareAndSwap of key k, whose compare matched.
CompareAndSwap(k, new) ==
  LET records == Recorded \cup {k}
      queue == IF Found(k) THEN evictQueue ELSE Append(evictQueue, k)
      round == EvictOverCap(k, queue, records)
  IN /\ tasks' = [j \in Keys |-> IF j \notin round.left THEN NoTask
                                 ELSE IF j = k THEN Stored(k, new)
                                 ELSE tasks[j]]
     /\ evictQueue' = round.queue
     /\ fenceFloor' = IF records = round.left THEN fenceFloor
                      ELSE Floor(records \ round.left)
     /\ UNCHANGED clock

-----------------------------------------------------------------------------
(* Callers: the writes the ledger makes, with the fields that eviction does *)
(* not look at held still.                                                 *)

Fresh == [status |-> "pending", seq |-> 1, owner |-> NoOwner, fence |-> 0,
          leaseUntil |-> 0, needs |-> <<>>, blockedBy |-> NoKey, rev |-> 0]

Insert(k) == ~Found(k) /\ CompareAndSwap(k, Fresh)

Grant(k, w) ==
  /\ IsLive(tasks[k]) /\ ~HoldsLiveLease(tasks[k])
  /\ tasks[k].fence < MaxFence
  /\ CompareAndSwap(k, [tasks[k] EXCEPT !.status = "claimed", !.owner = w,
                                        !.fence = @ + 1,
                                        !.leaseUntil = clock + 1])

Finish(k) ==
  /\ Found(k) /\ tasks[k].status = "claimed"
  /\ CompareAndSwap(k, [tasks[k] EXCEPT !.status = "completed"])

Passing == Tick /\ UNCHANGED evictQueue

Init == StoreInit /\ evictQueue = <<>>

Next ==
  \/ Passing
  \/ \E k \in Keys : Insert(k) \/ Finish(k) \/ \E w \in Owners : Grant(k, w)

Spec == Init /\ [][Next]_memVars

-----------------------------------------------------------------------------
(* Properties.                                                             *)

\* MemStore implements the Store contract: it never deletes the record it
\* writes or one under a live lease, and the floor covers what it deletes.
ImplementsStore == StoreSpec

=============================================================================
