------------------------------- MODULE Store -------------------------------
(***************************************************************************)
(* The record store under the task ledger: the contract every Store        *)
(* implementation of package ledger offers (src/ledger/store.go).  Load,   *)
(* CompareAndSwap and Range are each atomic (MemStore takes its mutex,     *)
(* SQLiteStore runs one SQL statement), so one step of this module is one  *)
(* such call.  A bounded store may also delete records inside a successful *)
(* CompareAndSwap; which ones is left open here, and decided by the queue  *)
(* of module MemStore, which implements this contract.                     *)
(***************************************************************************)
EXTENDS Integers, Sequences

CONSTANTS
  Keys,      \* idempotency keys: positive numbers, so that sorting has a meaning
  Owners,    \* identities of claimants
  NoOwner,   \* the empty OwnerID
  NoTask,    \* what Load answers when the key has no record
  Evicting,  \* TRUE for a store with a positive MaxEntries
  MaxTime    \* bound on the clock

NoKey == 0   \* the empty IdempotencyKey

ASSUME KeysAssumption == Keys \subseteq Nat \ {NoKey}
ASSUME OwnersAssumption == NoOwner \notin Owners
ASSUME EvictingAssumption == Evicting \in BOOLEAN
ASSUME MaxTimeAssumption == MaxTime \in Nat

VARIABLES
  tasks,       \* the stored record of every key, or NoTask
  fenceFloor,  \* highest fence among deleted records
  clock        \* the wall clock; 0 stands for Go's zero time.Time

storeVars == <<tasks, fenceFloor, clock>>

-----------------------------------------------------------------------------
(* Records.                                                                *)

Terminal == {"completed", "failed", "blocked"}

Status == {"pending", "claimed"} \cup Terminal

\* Audit fields and the caller-owned Task payload are left out: no guard
\* of the package reads them.
TaskState ==
  [status : Status, seq : Nat, owner : Owners \cup {NoOwner}, fence : Nat,
   leaseUntil : Nat, needs : Seq(Keys), blockedBy : Keys \cup {NoKey},
   rev : Nat]

ASSUME NoTaskAssumption == NoTask \notin TaskState

ElementsOf(s) == {s[i] : i \in DOMAIN s}

\* TaskState.Validate for key k.
Validate(k, t) ==
  /\ k \notin ElementsOf(t.needs)
  /\ t.status = "blocked" <=> t.blockedBy # NoKey
  /\ t.status = "claimed" => t.owner # NoOwner /\ t.leaseUntil # 0

Found(k) == tasks[k] # NoTask

IsTerminal(t) == t.status \in Terminal

\* A record that may still be written: pending or claimed.
IsLive(t) == t # NoTask /\ ~IsTerminal(t)

\* A record that blocks its dependents.
IsBad(t) == t # NoTask /\ t.status \in {"failed", "blocked"}

-----------------------------------------------------------------------------
(* CompareAndSwap.                                                         *)

\* The compare: (Sequence, Status, Fence, Rev), and the zero value only
\* against an absent key.
Matches(k, old) ==
  IF old = NoTask
  THEN ~Found(k)
  ELSE /\ Found(k)
       /\ tasks[k].seq = old.seq
       /\ tasks[k].status = old.status
       /\ tasks[k].fence = old.fence
       /\ tasks[k].rev = old.rev

\* The record a successful compare leaves behind: an insert starts at Rev
\* zero and at or above the fence floor, an update bumps Rev.
Stored(k, new) ==
  IF Found(k)
  THEN [new EXCEPT !.rev = tasks[k].rev + 1]
  ELSE [new EXCEPT !.rev = 0,
                   !.fence = IF @ < fenceFloor THEN fenceFloor ELSE @]

HoldsLiveLease(t) == t.status = "claimed" /\ t.leaseUntil > clock

\* What a write to k may delete: never k itself, never a live lease.
Evictable(k) ==
  {j \in Keys \ {k} : Found(j) /\ ~HoldsLiveLease(tasks[j])}

Deletions(k) == IF Evicting THEN SUBSET Evictable(k) ELSE {{}}

\* The swap, with the deletions it triggers.
Write(k, new) ==
  \E gone \in Deletions(k) :
    /\ tasks' = [j \in Keys |-> IF j = k THEN Stored(k, new)
                                ELSE IF j \in gone THEN NoTask
                                ELSE tasks[j]]
    /\ fenceFloor' \in {fenceFloor} \cup {tasks[j].fence : j \in gone}
    /\ fenceFloor' >= fenceFloor
    /\ \A j \in gone : fenceFloor' >= tasks[j].fence
    /\ UNCHANGED clock

-----------------------------------------------------------------------------
(* The store on its own, driven by arbitrary callers.                      *)

StoreTypeOK ==
  /\ tasks \in [Keys -> TaskState \cup {NoTask}]
  /\ fenceFloor \in Nat
  /\ clock \in Nat

StoreInit ==
  /\ tasks = [k \in Keys |-> NoTask]
  /\ fenceFloor = 0
  /\ clock = 1

\* Some caller's CompareAndSwap succeeds on k: the record it leaves is one
\* that Stored produces.
Swap(k) == tasks'[k] \in TaskState /\ Write(k, tasks'[k])

Tick ==
  /\ clock < MaxTime
  /\ clock' = clock + 1
  /\ UNCHANGED <<tasks, fenceFloor>>

StoreNext == Tick \/ \E k \in Keys : Swap(k)

StoreSpec == StoreInit /\ [][StoreNext]_storeVars

=============================================================================
