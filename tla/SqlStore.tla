------------------------------ MODULE SqlStore -----------------------------
(***************************************************************************)
(* The SQLite store of the ledger (src/ledger/sqlite_store.go,             *)
(* sqlite_schema.go): one file, opened by several processes, each of which *)
(* creates the table, adds the columns an older file lacks inside one      *)
(* transaction, and then loads and swaps records.  A statement is atomic;  *)
(* BEGIN IMMEDIATE holds the file's write lock until the transaction ends. *)
(* The engine is external: it may fail any statement, which leaves the     *)
(* file as it was.  No guard reads the payload of a task (any value, as    *)
(* JSON, which does not give every value back) or the audit values: they   *)
(* are left out, their columns are not.  A payload that JSON cannot encode *)
(* and a column that does not decode fail the call, which changes nothing. *)
(***************************************************************************)
EXTENDS Store, SequencesExt

CONSTANTS
  Processes,   \* processes that open the file
  MaxWrites    \* bound: swaps that succeed

ASSUME MaxWritesAssumption == MaxWrites \in Nat

VARIABLES
  columns,  \* columns of ledger_tasks; none when there is no table
  rows,     \* the row of every key, or NoTask
  writer,   \* the processes inside a BEGIN IMMEDIATE transaction
  db,       \* per process: where it stands, and what it holds
  writes    \* how many swaps have succeeded

sqlVars == <<columns, rows, writer, db, writes>>

AuditColumns == {"created_at", "updated_at", "created_by", "updated_by"}

TaskColumns == {"key", "status", "sequence", "owner", "fence", "lease_until",
                "needs", "blocked_by", "task", "rev"}

\* createLedgerTasksTable and selectLedgerTaskColumns name all of them.
Columns == TaskColumns \cup AuditColumns

NewProcess == [at |-> "closed", present |-> {}, added |-> {}, key |-> NoKey,
               old |-> NoTask]

\* What a row of the table holds.  A column that may be empty is a sequence
\* of at most one value.
Rows ==
  [status : Status, sequence : Nat, owner : Seq(Owners), fence : Nat,
   lease_until : Seq(Nat), needs : [json : Seq(Keys)],
   blocked_by : Seq(Keys), rev : Nat]

ASSUME NoRowAssumption == NoTask \notin Rows

At(p, s) == db' = [db EXCEPT ![p] = s]

-----------------------------------------------------------------------------
(* Rows.                                                                   *)

\* A zero time is the empty text.
EncodeTime(t) == IF t = 0 THEN <<>> ELSE <<t>>
ParseTime(text) == IF text = <<>> THEN 0 ELSE text[1]

\* The arguments of an INSERT or UPDATE: needs as JSON, no owner or blocker
\* as the empty text.
EncodeTask(t) ==
  [status |-> t.status, sequence |-> t.seq,
   owner |-> IF t.owner = NoOwner THEN <<>> ELSE <<t.owner>>,
   fence |-> t.fence, lease_until |-> EncodeTime(t.leaseUntil),
   needs |-> [json |-> t.needs],
   blocked_by |-> IF t.blockedBy = NoKey THEN <<>> ELSE <<t.blockedBy>>,
   rev |-> t.rev]

ScanTaskState(row) ==
  [status |-> row.status, seq |-> row.sequence,
   owner |-> IF row.owner = <<>> THEN NoOwner ELSE row.owner[1],
   fence |-> row.fence, leaseUntil |-> ParseTime(row.lease_until),
   needs |-> row.needs.json,
   blockedBy |-> IF row.blocked_by = <<>> THEN NoKey ELSE row.blocked_by[1],
   rev |-> row.rev]

\* What Load answers for k.
Read(k) == IF rows[k] = NoTask THEN NoTask ELSE ScanTaskState(rows[k])

-----------------------------------------------------------------------------
(* NewSQLiteStore.                                                         *)

\* No other process is in a transaction; a statement that waits longer than
\* busy_timeout fails.
Unlocked == writer = {}

\* CREATE TABLE IF NOT EXISTS.
CreateTable(p) ==
  /\ db[p].at = "closed" /\ Unlocked
  /\ columns' = IF columns = {} THEN Columns ELSE columns
  /\ At(p, [db[p] EXCEPT !.at = "created"])
  /\ UNCHANGED <<rows, writer, writes>>

\* Mutant of BeginImmediate: BEGIN alone, which takes no lock.
BeginDeferred(p) ==
  /\ db[p].at = "created"
  /\ At(p, [db[p] EXCEPT !.at = "begun"])
  /\ UNCHANGED <<columns, rows, writer, writes>>

\* BEGIN IMMEDIATE.
BeginImmediate(p) ==
  /\ db[p].at = "created" /\ Unlocked
  /\ writer' = {p}
  /\ At(p, [db[p] EXCEPT !.at = "begun"])
  /\ UNCHANGED <<columns, rows, writes>>

\* PRAGMA table_info.
TableInfo(p) ==
  /\ db[p].at = "begun"
  /\ At(p, [db[p] EXCEPT !.at = "migrating", !.present = columns])
  /\ UNCHANGED <<columns, rows, writer, writes>>

\* ALTER TABLE ADD COLUMN, for a column that was not listed; the engine
\* refuses one that the table has.
AddColumn(p) ==
  /\ db[p].at = "migrating"
  /\ \E c \in AuditColumns \ (db[p].present \cup db[p].added) :
       IF c \in columns
       THEN At(p, [NewProcess EXCEPT !.at = "duplicate column"])
       ELSE At(p, [db[p] EXCEPT !.added = @ \cup {c}])
  /\ UNCHANGED <<columns, rows, writer, writes>>

\* COMMIT: the columns become visible, empty in every row.
Commit(p) ==
  /\ db[p].at = "migrating"
  /\ AuditColumns \subseteq db[p].present \cup db[p].added
  /\ columns' = columns \cup db[p].added
  /\ writer' = writer \ {p}
  /\ At(p, [NewProcess EXCEPT !.at = "open"])
  /\ UNCHANGED <<rows, writes>>

\* A statement fails, or the process dies: the transaction is rolled back
\* and the handle closed.
OpenFails(p) ==
  /\ db[p].at \in {"created", "begun", "migrating"}
  /\ writer' = writer \ {p}
  /\ At(p, NewProcess)
  /\ UNCHANGED <<columns, rows, writes>>

-----------------------------------------------------------------------------
(* Load and CompareAndSwap of an open store.                               *)

Load(p, k) ==
  /\ db[p].at = "open" /\ Columns \subseteq columns
  /\ At(p, [db[p] EXCEPT !.at = "loaded", !.key = k, !.old = Read(k)])
  /\ UNCHANGED <<columns, rows, writer, writes>>

\* The record Admit makes of a submission that b blocks, if anything does.
Submission(seq, fence, needs, b) ==
  [status |-> IF b = NoKey THEN "pending" ELSE "blocked", seq |-> seq,
   owner |-> NoOwner, fence |-> fence, leaseUntil |-> 0, needs |-> needs,
   blockedBy |-> b, rev |-> 0]

\* A submission of k needs nothing, or the key before it.
Submissions(k, seq, fence) ==
  {Submission(seq, fence, <<>>, NoKey)}
  \cup {Submission(seq, fence, <<n>>, NoKey) : n \in Keys \cap {k - 1}}
  \cup {Submission(seq, fence, <<n>>, n) : n \in Keys \cap {k - 1}}

\* What Claim and Takeover make of a record.  Every caller has its own clock:
\* a lease in force for one is over for another.
Granted(old, w) ==
  [old EXCEPT !.status = "claimed", !.owner = w, !.fence = @ + 1,
              !.leaseUntil = @ + 1]

\* What the ledger writes over the record of k it has loaded: an admission,
\* a rebase, a block, a claim; and over a claimed one a takeover, a renewal,
\* a release or a completion.
WritesOver(k, old) ==
  CASE old = NoTask -> Submissions(k, 1, 0)
    [] IsLive(old) ->
         Submissions(k, old.seq + 1, old.fence)
         \cup {[old EXCEPT !.status = "blocked", !.blockedBy = n] :
                 n \in ElementsOf(old.needs)}
         \cup {Granted(old, w) : w \in Owners}
         \cup {new \in {[old EXCEPT !.leaseUntil = @ + 1],
                        [old EXCEPT !.status = "pending", !.owner = NoOwner,
                                    !.leaseUntil = 0],
                        [old EXCEPT !.status = "completed"],
                        [old EXCEPT !.status = "failed"]} :
                 old.status = "claimed"}
    [] OTHER -> {}

\* Mutant of RowMatches: the WHERE clause without rev.
RowMatchesNoRev(row, old) ==
  /\ row.sequence = old.seq /\ row.status = old.status
  /\ row.fence = old.fence

\* The WHERE clause of updateLedgerTask.
RowMatches(row, old) ==
  /\ row.sequence = old.seq /\ row.status = old.status
  /\ row.fence = old.fence /\ row.rev = old.rev

\* The row of insertLedgerTask.
Inserted(new) == [EncodeTask(new) EXCEPT !.rev = 0]

\* INSERT ... ON CONFLICT DO NOTHING for the zero value, a conditional
\* UPDATE that bumps rev for anything else: one row affected, or none.
SqlSwap(p, new) ==
  LET k == db[p].key
      old == db[p].old
      affected == IF old = NoTask THEN rows[k] = NoTask
                  ELSE rows[k] # NoTask /\ RowMatches(rows[k], old)
      stored == IF old = NoTask THEN Inserted(new)
                ELSE [EncodeTask(new) EXCEPT !.rev = rows[k].rev + 1]
  IN /\ db[p].at = "loaded" /\ Unlocked /\ writes < MaxWrites
     /\ rows' = IF affected THEN [rows EXCEPT ![k] = stored] ELSE rows
     /\ writes' = IF affected THEN writes + 1 ELSE writes
     /\ At(p, [NewProcess EXCEPT !.at = "open"])
     /\ UNCHANGED <<columns, writer>>

\* The caller gives up: its context ends, the record does not encode, or the
\* call fails.
CallFails(p) ==
  /\ db[p].at = "loaded"
  /\ At(p, [NewProcess EXCEPT !.at = "open"])
  /\ UNCHANGED <<columns, rows, writer, writes>>

\* Range gathers every row in one statement before it calls back.  The order
\* is undefined; no reader here tells one key from another, so that one
\* order stands for all.
RangeRows ==
  LET order == SetToSeq({k \in Keys : rows[k] # NoTask})
  IN [i \in DOMAIN order |-> [key |-> order[i], task |-> Read(order[i])]]

-----------------------------------------------------------------------------
\* A file that is new, or was written before the audit columns and holds a
\* claimed task under every key or none.
SqlInit ==
  /\ columns \in {{}, TaskColumns, TaskColumns \cup {"created_at"}}
  /\ \E held \in {{}, Keys}, w \in Owners :
       /\ columns = {} => held = {}
       /\ rows = [k \in Keys |-> IF k \notin held THEN NoTask ELSE
            EncodeTask([status |-> "claimed", seq |-> 1, owner |-> w,
                        fence |-> 1, leaseUntil |-> 2, needs |-> <<>>,
                        blockedBy |-> NoKey, rev |-> 1])]
  /\ writer = {} /\ writes = 0
  /\ db = [p \in Processes |-> NewProcess]

SqlNext ==
  \E p \in Processes :
    \/ CreateTable(p) \/ BeginImmediate(p) \/ TableInfo(p) \/ AddColumn(p)
    \/ Commit(p) \/ OpenFails(p) \/ CallFails(p)
    \/ \E k \in Keys : Load(p, k)
    \/ \E new \in WritesOver(db[p].key, db[p].old) : SqlSwap(p, new)

-----------------------------------------------------------------------------
(* Properties.                                                             *)

\* NewSQLiteStore: of several processes that open one file at once none adds
\* a column that another has added, and a store that was opened finds every
\* column its statements name.
MigratesOnce ==
  \A p \in Processes :
    /\ db[p].at # "duplicate column"
    /\ db[p].at \in {"open", "loaded"} => Columns \subseteq columns

=============================================================================
