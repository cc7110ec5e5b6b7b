----------------------------- MODULE ColdStart -----------------------------
(***************************************************************************)
(* A ledger that starts cold: Ledger.Snapshot of a ledger over a SQLite    *)
(* file, and Ledger.Restore into a ledger over a bounded MemStore, record  *)
(* by record, while others already use it (src/ledger/snapshot.go).        *)
(***************************************************************************)
EXTENDS SqlStore, MemStore

VARIABLES
  boot,    \* where the start stands, and the records left to insert
  fences   \* the fence of every restored key when the snapshot was taken

bootVars == <<boot, fences>>

coldVars == <<memVars, sqlVars, bootVars>>

\* Snapshot: what Range yields.  With it the file is put away.
TakeSnapshot(p) ==
  /\ boot.at = "file" /\ db[p].at = "open"
  /\ boot' = [at |-> "restoring", left |-> RangeRows]
  /\ columns' = {} /\ rows' = [k \in Keys |-> NoTask]
  /\ db' = [q \in Processes |-> NewProcess] /\ writer' = {} /\ writes' = 0
  /\ UNCHANGED <<memVars, fences>>

\* Restore's turn on the next record: validated, then inserted where there
\* is none.
RestoreStep ==
  LET k == Head(boot.left).key
      t == Head(boot.left).task
  IN /\ boot.at = "restoring" /\ boot.left # <<>>
     /\ IF Validate(k, t) /\ ~Found(k)
        THEN /\ CompareAndSwap(k, t)
             /\ boot' = [boot EXCEPT !.left = Tail(@)]
             /\ fences' = [fences EXCEPT ![k] = t.fence]
        ELSE /\ boot' = [at |-> "failed", left |-> <<>>]
             /\ UNCHANGED <<memVars, fences>>
     /\ UNCHANGED sqlVars

\* The insert fails with the context; earlier inserts stay.
RestoreFails ==
  /\ boot.at = "restoring" /\ boot.left # <<>>
  /\ boot' = [at |-> "failed", left |-> <<>>]
  /\ UNCHANGED <<memVars, sqlVars, fences>>

ColdInit ==
  /\ Init /\ SqlInit
  /\ boot = [at |-> "file", left |-> <<>>]
  /\ fences = [k \in Keys |-> 0]

ColdNext ==
  \/ boot.at = "file" /\ SqlNext /\ UNCHANGED <<memVars, bootVars>>
  \/ \E p \in Processes : TakeSnapshot(p)
  \/ RestoreStep \/ RestoreFails
  \/ boot.at # "file" /\ Next /\ UNCHANGED <<sqlVars, bootVars>>

ColdSpec == ColdInit /\ [][ColdNext]_coldVars

-----------------------------------------------------------------------------
(* Properties.                                                             *)

\* Every write to a row replaces the very record its writer had loaded,
\* through the columns and back: no process overwrites what another wrote in
\* between, and a migration changes no record.
NoLostUpdate ==
  [][boot'.at = "file" => \A k \in Keys : rows'[k] # rows[k] =>
       \E p \in Processes : /\ db[p].at = "loaded" /\ db'[p] # db[p]
                            /\ db[p].key = k /\ db[p].old = Read(k)]_coldVars

\* Of a key whose record Restore has inserted, no token granted before the
\* snapshot is granted again: its fence stays at or above the snapshot's, in
\* the record or, once that is evicted, in the floor a new record starts from.
TokensSurviveRestart ==
  \A k \in Keys :
    fences[k] <= IF Found(k) THEN tasks[k].fence ELSE fenceFloor

=============================================================================
