--------------------------- MODULE ColdStartProofs --------------------------
(***************************************************************************)
(* Proofs about module ColdStart and the stores under it, for any finite   *)
(* set of keys and any owners, processes and bounds.                       *)
(***************************************************************************)
EXTENDS ColdStart, FiniteSetTheorems, WellFoundedInduction, TLAPS

-----------------------------------------------------------------------------
(* Types.                                                                  *)

Stages == {"closed", "created", "begun", "migrating", "open", "loaded",
           "duplicate column"}

Handles == [at : Stages, present : SUBSET Columns, added : SUBSET AuditColumns,
            key : Keys \cup {NoKey}, old : TaskState \cup {NoTask}]

SqlTypeOK ==
  /\ columns \in SUBSET Columns
  /\ rows \in [Keys -> Rows \cup {NoTask}]
  /\ writer \in SUBSET Processes
  /\ db \in [Processes -> Handles]

Entries == [key : Keys, task : TaskState]

ColdTypeOK ==
  /\ StoreTypeOK /\ SqlTypeOK
  /\ boot \in [at : {"file", "restoring", "failed"}, left : Seq(Entries)]
  /\ fences \in [Keys -> Nat]

\* What a process is when it starts and where OpenStore takes it from there.
LEMMA NewProcessType ==
  /\ NewProcess \in Handles
  /\ [NewProcess EXCEPT !.at = "open"] \in Handles
  /\ [NewProcess EXCEPT !.at = "duplicate column"] \in Handles
  BY DEF NewProcess, Handles, Stages

\* The columns carry a record there and back: no empty text stands for a
\* value, and no value is written as the empty text.
LEMMA EncodeType ==
  ASSUME NEW t \in TaskState
  PROVE  EncodeTask(t) \in Rows
<1>1. EncodeTime(t.leaseUntil) \in Seq(Nat)
  BY DEF EncodeTime, TaskState
<1>2. (IF t.owner = NoOwner THEN <<>> ELSE <<t.owner>>) \in Seq(Owners)
  BY DEF TaskState
<1>3. (IF t.blockedBy = NoKey THEN <<>> ELSE <<t.blockedBy>>) \in Seq(Keys)
  BY DEF TaskState
<1>4. /\ t.status \in Status /\ t.seq \in Nat /\ t.fence \in Nat
      /\ t.needs \in Seq(Keys) /\ t.rev \in Nat
  BY DEF TaskState
<1>5. [json |-> t.needs] \in [json : Seq(Keys)]
  BY <1>4
<1> QED
  BY <1>1, <1>2, <1>3, <1>4, <1>5 DEF EncodeTask, Rows

\* scanTaskState makes a record of the ledger of every row.
LEMMA ScanType ==
  ASSUME NEW row \in Rows
  PROVE  ScanTaskState(row) \in TaskState
<1>1. ParseTime(row.lease_until) \in Nat
  BY DEF ParseTime, Rows
<1>2. (IF row.owner = <<>> THEN NoOwner ELSE row.owner[1]) \in Owners \cup {NoOwner}
  BY DEF Rows
<1>3. (IF row.blocked_by = <<>> THEN NoKey ELSE row.blocked_by[1]) \in Keys \cup {NoKey}
  BY DEF Rows
<1>4. /\ row.status \in Status /\ row.sequence \in Nat /\ row.fence \in Nat
      /\ row.needs.json \in Seq(Keys) /\ row.rev \in Nat
  BY DEF Rows
<1> QED
  BY <1>1, <1>2, <1>3, <1>4 DEF ScanTaskState, TaskState

\* What Admit makes of a submission is a record.
LEMMA SubmissionsType ==
  ASSUME NEW k, NEW seq \in Nat, NEW fence \in Nat, NEW new \in Submissions(k, seq, fence)
  PROVE  new \in TaskState
<1>1. PICK needs \in Seq(Keys), b \in Keys \cup {NoKey} : new = Submission(seq, fence, needs, b)
  <2>1. <<>> \in Seq(Keys) /\ \A n \in Keys : <<n>> \in Seq(Keys)
    OBVIOUS
  <2>2. CASE new = Submission(seq, fence, <<>>, NoKey)
    BY <2>1, <2>2
  <2>3. CASE \E n \in Keys : \/ new = Submission(seq, fence, <<n>>, NoKey)
                             \/ new = Submission(seq, fence, <<n>>, n)
    BY <2>1, <2>3
  <2> QED  BY <2>2, <2>3 DEF Submissions
<1>2. (IF b = NoKey THEN "pending" ELSE "blocked") \in Status
  BY DEF Status, Terminal
<1> QED
  BY <1>1, <1>2 DEF TaskState, Submission

\* What the ledger writes over a record is a record.
LEMMA WritesType ==
  ASSUME NEW k, NEW old \in TaskState \cup {NoTask}, NEW new \in WritesOver(k, old)
  PROVE  new \in TaskState
<1>1. CASE old = NoTask
  <2>1. new \in Submissions(k, 1, 0)
    BY <1>1 DEF WritesOver, IsLive
  <2> QED
    BY <2>1, SubmissionsType
<1>2. CASE old # NoTask
  <2> DEFINE blocked(n) == [old EXCEPT !.status = "blocked", !.blockedBy = n]
             renewal == [old EXCEPT !.leaseUntil = @ + 1]
             release == [old EXCEPT !.status = "pending", !.owner = NoOwner,
                                    !.leaseUntil = 0]
             ended(s) == [old EXCEPT !.status = s]
  <2>1. old \in TaskState /\ old.needs \in Seq(Keys)
    BY <1>2 DEF TaskState
  <2>2. \/ new \in Submissions(k, old.seq + 1, old.fence)
        \/ \E n \in ElementsOf(old.needs) : new = blocked(n)
        \/ \E w \in Owners : new = Granted(old, w)
        \/ new = renewal \/ new = release \/ new = ended("completed") \/ new = ended("failed")
    BY <1>2 DEF WritesOver, IsLive
  <2>3. CASE new \in Submissions(k, old.seq + 1, old.fence)
    <3>1. old.seq + 1 \in Nat /\ old.fence \in Nat
      BY <2>1 DEF TaskState
    <3> QED
      BY <2>3, <3>1, SubmissionsType
  <2>4. ASSUME NEW n \in ElementsOf(old.needs)
        PROVE  blocked(n) \in TaskState
    <3>1. n \in Keys \cup {NoKey} /\ "blocked" \in Status
      BY <2>1 DEF ElementsOf, Status, Terminal
    <3> QED
      BY <2>1, <3>1 DEF TaskState
  <2>5. ASSUME NEW w \in Owners
        PROVE  Granted(old, w) \in TaskState
    <3>1. /\ old.fence + 1 \in Nat /\ old.leaseUntil + 1 \in Nat
          /\ w \in Owners \cup {NoOwner} /\ "claimed" \in Status
      BY <2>1 DEF TaskState, Status
    <3> QED
      BY <2>1, <3>1 DEF TaskState, Granted
  <2>6. renewal \in TaskState
    <3>1. old.leaseUntil + 1 \in Nat
      BY <2>1 DEF TaskState
    <3> QED
      BY <2>1, <3>1 DEF TaskState
  <2>7. release \in TaskState
    <3>1. "pending" \in Status /\ NoOwner \in Owners \cup {NoOwner}
      BY DEF Status
    <3> QED
      BY <2>1, <3>1 DEF TaskState
  <2>8. ended("completed") \in TaskState /\ ended("failed") \in TaskState
    <3>1. "completed" \in Status /\ "failed" \in Status
      BY DEF Status, Terminal
    <3> QED
      BY <2>1, <3>1 DEF TaskState
  <2> HIDE DEF blocked, renewal, release, ended
  <2> QED
    BY <2>2, <2>3, <2>4, <2>5, <2>6, <2>7, <2>8
<1> QED
  BY <1>1, <1>2

-----------------------------------------------------------------------------
(* Opening the file, and the records in it.                                *)

\* Where a process stands tells what it and the file hold: only the holder
\* of the write lock is in a migration, and it knows the columns there are.
Opening(p) ==
  /\ db[p].at \in {"begun", "migrating"} <=> p \in writer
  /\ db[p].at # "closed" => TaskColumns \subseteq columns
  /\ db[p].at = "migrating" => db[p].present = columns
  /\ db[p].at # "duplicate column"
  /\ db[p].at \in {"open", "loaded"} => Columns \subseteq columns

\* What a process has loaded is the record, unless the record has been
\* revised since.
Loaded(p) ==
  db[p].at = "loaded" =>
    LET k == db[p].key
    IN /\ k \in Keys
       /\ db[p].old # NoTask =>
            /\ rows[k] # NoTask
            /\ db[p].old.rev <= rows[k].rev
            /\ db[p].old.rev = rows[k].rev => db[p].old = Read(k)

OneWriter == \A p, q \in writer : p = q

\* A file holds no table or every column an older release created.
TableWhole == columns = {} \/ TaskColumns \subseteq columns

SqlInv ==
  /\ SqlTypeOK /\ OneWriter /\ TableWhole
  /\ \A p \in Processes : Opening(p) /\ Loaded(p)

\* What a process has loaded stays so while no row changes.
LEMMA LoadedKept ==
  ASSUME rows' = rows, NEW q \in Processes, Loaded(q),
         db'[q] = db[q] \/ db'[q].at # "loaded"
  PROVE  Loaded(q)'
  BY DEF Loaded, Read

\* One process moves: the others stand where they stood.
LEMMA AtOnly ==
  ASSUME SqlTypeOK, NEW p \in Processes, NEW h \in Handles, At(p, h)
  PROVE  /\ db' \in [Processes -> Handles] /\ db'[p] = h
         /\ \A q \in Processes \ {p} : db'[q] = db[q]
  BY DEF At, SqlTypeOK

\* A process that opens the file, or closes it, changes no row.
LEMMA OpeningStep ==
  ASSUME SqlInv, NEW p \in Processes,
         \/ CreateTable(p) \/ BeginImmediate(p) \/ TableInfo(p)
         \/ AddColumn(p) \/ Commit(p) \/ OpenFails(p) \/ CallFails(p)
  PROVE  SqlInv' /\ rows' = rows
<1>0. /\ SqlTypeOK /\ OneWriter /\ TableWhole /\ \A q \in Processes : Opening(q) /\ Loaded(q)
      /\ db[p] \in Handles /\ Opening(p)
  BY DEF SqlInv, SqlTypeOK
<1>1. CASE CreateTable(p)
  <2> DEFINE h == [db[p] EXCEPT !.at = "created"]
  <2>1. h \in Handles /\ h.at = "created"
    BY <1>0, NewProcessType DEF Handles, Stages, SqlTypeOK, NewProcess
  <2>2. At(p, h) /\ rows' = rows
    BY <1>1 DEF CreateTable
  <2> HIDE DEF h
  <2>3. /\ db' \in [Processes -> Handles] /\ db'[p] = h
        /\ \A q \in Processes \ {p} : db'[q] = db[q]
    BY <1>0, <2>1, <2>2, AtOnly
  <2>4. SqlTypeOK' /\ OneWriter' /\ TableWhole'
    BY <1>0, <1>1, <2>3 DEF CreateTable, SqlTypeOK, OneWriter, TableWhole, Columns
  <2>5. ASSUME NEW q \in Processes
        PROVE  Opening(q)'
    <3>0. (columns' = columns) \/ (columns = {} /\ columns' = Columns)
      BY <1>1 DEF CreateTable
    <3>1. CASE q = p
      BY <1>0, <1>1, <3>0, <2>1, <2>3, <3>1 DEF CreateTable, Opening, SqlTypeOK, OneWriter, TableWhole, Unlocked, Columns, TaskColumns, AuditColumns
    <3>2. CASE q # p
      <4>1. db'[q] = db[q] /\ Opening(q)
        BY <1>0, <2>3, <3>2
      <4> QED
        BY <1>0, <1>1, <3>0, <3>2, <4>1 DEF CreateTable, Opening, SqlTypeOK, OneWriter, TableWhole, Unlocked, Columns, TaskColumns, AuditColumns
    <3> QED
      BY <3>1, <3>2
  <2>6. ASSUME NEW q \in Processes
        PROVE  Loaded(q)'
    <3>1. (db'[q] = db[q]) \/ (db'[q].at # "loaded")
      BY <2>1, <2>3
    <3> QED
      BY <1>0, <2>2, <3>1, LoadedKept
  <2> QED
    BY <2>2, <2>4, <2>5, <2>6 DEF SqlInv
<1>2. CASE BeginImmediate(p)
  <2> DEFINE h == [db[p] EXCEPT !.at = "begun"]
  <2>1. h \in Handles /\ h.at = "begun"
    BY <1>0, NewProcessType DEF Handles, Stages, SqlTypeOK, NewProcess
  <2>2. At(p, h) /\ rows' = rows
    BY <1>2 DEF BeginImmediate
  <2> HIDE DEF h
  <2>3. /\ db' \in [Processes -> Handles] /\ db'[p] = h
        /\ \A q \in Processes \ {p} : db'[q] = db[q]
    BY <1>0, <2>1, <2>2, AtOnly
  <2>4. SqlTypeOK' /\ OneWriter' /\ TableWhole'
    BY <1>0, <1>2, <2>3 DEF BeginImmediate, SqlTypeOK, OneWriter, TableWhole
  <2>5. ASSUME NEW q \in Processes
        PROVE  Opening(q)'
    <3>1. CASE q = p
      BY <1>0, <1>2, <2>1, <2>3, <3>1 DEF BeginImmediate, Opening, SqlTypeOK, OneWriter, Unlocked
    <3>2. CASE q # p
      <4>1. db'[q] = db[q] /\ Opening(q)
        BY <1>0, <2>3, <3>2
      <4> QED
        BY <1>0, <1>2, <3>2, <4>1 DEF BeginImmediate, Opening, SqlTypeOK, OneWriter, Unlocked
    <3> QED
      BY <3>1, <3>2
  <2>6. ASSUME NEW q \in Processes
        PROVE  Loaded(q)'
    <3>1. (db'[q] = db[q]) \/ (db'[q].at # "loaded")
      BY <2>1, <2>3
    <3> QED
      BY <1>0, <2>2, <3>1, LoadedKept
  <2> QED
    BY <2>2, <2>4, <2>5, <2>6 DEF SqlInv
<1>3. CASE TableInfo(p)
  <2> DEFINE h == [db[p] EXCEPT !.at = "migrating", !.present = columns]
  <2>1. h \in Handles /\ h.at = "migrating" /\ h.present = columns
    BY <1>0, NewProcessType DEF Handles, Stages, SqlTypeOK, NewProcess
  <2>2. At(p, h) /\ rows' = rows
    BY <1>3 DEF TableInfo
  <2> HIDE DEF h
  <2>3. /\ db' \in [Processes -> Handles] /\ db'[p] = h
        /\ \A q \in Processes \ {p} : db'[q] = db[q]
    BY <1>0, <2>1, <2>2, AtOnly
  <2>4. SqlTypeOK' /\ OneWriter' /\ TableWhole'
    BY <1>0, <1>3, <2>3 DEF TableInfo, SqlTypeOK, OneWriter, TableWhole
  <2>5. ASSUME NEW q \in Processes
        PROVE  Opening(q)'
    <3>1. CASE q = p
      BY <1>0, <1>3, <2>1, <2>3, <3>1 DEF TableInfo, Opening, SqlTypeOK, OneWriter, TableWhole
    <3>2. CASE q # p
      <4>1. db'[q] = db[q] /\ Opening(q)
        BY <1>0, <2>3, <3>2
      <4> QED
        BY <1>0, <1>3, <3>2, <4>1 DEF TableInfo, Opening, SqlTypeOK, OneWriter, TableWhole
    <3> QED
      BY <3>1, <3>2
  <2>6. ASSUME NEW q \in Processes
        PROVE  Loaded(q)'
    <3>1. (db'[q] = db[q]) \/ (db'[q].at # "loaded")
      BY <2>1, <2>3
    <3> QED
      BY <1>0, <2>2, <3>1, LoadedKept
  <2> QED
    BY <2>2, <2>4, <2>5, <2>6 DEF SqlInv
<1>4. CASE Commit(p)
  <2> DEFINE h == [NewProcess EXCEPT !.at = "open"]
  <2>1. h \in Handles /\ h.at = "open"
    BY <1>0, NewProcessType DEF Handles, Stages, SqlTypeOK, Columns
  <2>2. At(p, h) /\ rows' = rows
    BY <1>4 DEF Commit
  <2> HIDE DEF h
  <2>3. /\ db' \in [Processes -> Handles] /\ db'[p] = h
        /\ \A q \in Processes \ {p} : db'[q] = db[q]
    BY <1>0, <2>1, <2>2, AtOnly
  <2>4. SqlTypeOK' /\ OneWriter' /\ TableWhole'
    <3>1. db[p].added \subseteq Columns /\ TaskColumns \subseteq columns
      BY <1>0, <1>4 DEF Commit, Handles, Columns, Opening
    <3>2. columns' = columns \cup db[p].added /\ writer' = writer \ {p} /\ rows' = rows
      BY <1>4 DEF Commit
    <3>3. columns' \in SUBSET Columns /\ TaskColumns \subseteq columns'
      BY <1>0, <3>1, <3>2 DEF SqlTypeOK
    <3> QED
      BY <1>0, <2>3, <3>2, <3>3 DEF SqlTypeOK, OneWriter, TableWhole
  <2>5. ASSUME NEW q \in Processes
        PROVE  Opening(q)'
    <3>1. CASE q = p
      BY <1>0, <1>4, <2>1, <2>3, <3>1 DEF Commit, Opening, SqlTypeOK, OneWriter, Columns
    <3>2. CASE q # p
      <4>1. db'[q] = db[q] /\ Opening(q)
        BY <1>0, <2>3, <3>2
      <4> QED
        BY <1>0, <1>4, <3>2, <4>1 DEF Commit, Opening, SqlTypeOK, OneWriter, Columns
    <3> QED
      BY <3>1, <3>2
  <2>6. ASSUME NEW q \in Processes
        PROVE  Loaded(q)'
    <3>1. (db'[q] = db[q]) \/ (db'[q].at # "loaded")
      BY <2>1, <2>3
    <3> QED
      BY <1>0, <2>2, <3>1, LoadedKept
  <2> QED
    BY <2>2, <2>4, <2>5, <2>6 DEF SqlInv
<1>5. CASE OpenFails(p)
  <2> DEFINE h == NewProcess
  <2>1. h \in Handles /\ h.at = "closed"
    BY <1>0, NewProcessType DEF Handles, Stages, SqlTypeOK, NewProcess
  <2>2. At(p, h) /\ rows' = rows
    BY <1>5 DEF OpenFails
  <2> HIDE DEF h
  <2>3. /\ db' \in [Processes -> Handles] /\ db'[p] = h
        /\ \A q \in Processes \ {p} : db'[q] = db[q]
    BY <1>0, <2>1, <2>2, AtOnly
  <2>4. SqlTypeOK' /\ OneWriter' /\ TableWhole'
    BY <1>0, <1>5, <2>3 DEF OpenFails, SqlTypeOK, OneWriter, TableWhole
  <2>5. ASSUME NEW q \in Processes
        PROVE  Opening(q)'
    <3>1. CASE q = p
      BY <1>0, <1>5, <2>1, <2>3, <3>1 DEF OpenFails, Opening, SqlTypeOK, OneWriter, TableWhole
    <3>2. CASE q # p
      <4>1. db'[q] = db[q] /\ Opening(q)
        BY <1>0, <2>3, <3>2
      <4> QED
        BY <1>0, <1>5, <3>2, <4>1 DEF OpenFails, Opening, SqlTypeOK, OneWriter, TableWhole
    <3> QED
      BY <3>1, <3>2
  <2>6. ASSUME NEW q \in Processes
        PROVE  Loaded(q)'
    <3>1. (db'[q] = db[q]) \/ (db'[q].at # "loaded")
      BY <2>1, <2>3
    <3> QED
      BY <1>0, <2>2, <3>1, LoadedKept
  <2> QED
    BY <2>2, <2>4, <2>5, <2>6 DEF SqlInv
<1>6. CASE CallFails(p)
  <2> DEFINE h == [NewProcess EXCEPT !.at = "open"]
  <2>1. h \in Handles /\ h.at = "open"
    BY <1>0, NewProcessType DEF Handles, Stages, SqlTypeOK, NewProcess
  <2>2. At(p, h) /\ rows' = rows
    BY <1>6 DEF CallFails
  <2> HIDE DEF h
  <2>3. /\ db' \in [Processes -> Handles] /\ db'[p] = h
        /\ \A q \in Processes \ {p} : db'[q] = db[q]
    BY <1>0, <2>1, <2>2, AtOnly
  <2>4. SqlTypeOK' /\ OneWriter' /\ TableWhole'
    BY <1>0, <1>6, <2>3 DEF CallFails, SqlTypeOK, OneWriter, TableWhole
  <2>5. ASSUME NEW q \in Processes
        PROVE  Opening(q)'
    <3>1. CASE q = p
      BY <1>0, <1>6, <2>1, <2>3, <3>1 DEF CallFails, Opening, SqlTypeOK, OneWriter, TableWhole
    <3>2. CASE q # p
      <4>1. db'[q] = db[q] /\ Opening(q)
        BY <1>0, <2>3, <3>2
      <4> QED
        BY <1>0, <1>6, <3>2, <4>1 DEF CallFails, Opening, SqlTypeOK, OneWriter, TableWhole
    <3> QED
      BY <3>1, <3>2
  <2>6. ASSUME NEW q \in Processes
        PROVE  Loaded(q)'
    <3>1. (db'[q] = db[q]) \/ (db'[q].at # "loaded")
      BY <2>1, <2>3
    <3> QED
      BY <1>0, <2>2, <3>1, LoadedKept
  <2> QED
    BY <2>2, <2>4, <2>5, <2>6 DEF SqlInv
<1>7. CASE AddColumn(p)
  <2>1. PICK c \in AuditColumns \ (db[p].present \cup db[p].added) :
          IF c \in columns
          THEN At(p, [NewProcess EXCEPT !.at = "duplicate column"])
          ELSE At(p, [db[p] EXCEPT !.added = @ \cup {c}])
    BY <1>7 DEF AddColumn
  <2>2. c \notin columns
    BY <1>0, <1>7, <2>1 DEF AddColumn, Opening
  <2> DEFINE h == [db[p] EXCEPT !.added = @ \cup {c}]
  <2>3. h \in Handles /\ h.at = db[p].at /\ h.present = db[p].present
        /\ h.at = "migrating"
    BY <1>0, <1>7, <2>1 DEF AddColumn, Handles
  <2>4. At(p, h) /\ UNCHANGED <<columns, rows, writer>>
    BY <1>7, <2>1, <2>2 DEF AddColumn
  <2> HIDE DEF h
  <2>5. /\ db' \in [Processes -> Handles] /\ db'[p] = h
        /\ \A q \in Processes \ {p} : db'[q] = db[q]
    BY <1>0, <2>3, <2>4, AtOnly
  <2>6. SqlTypeOK' /\ OneWriter' /\ TableWhole'
    BY <1>0, <2>4, <2>5 DEF SqlTypeOK, OneWriter, TableWhole
  <2>7. ASSUME NEW q \in Processes
        PROVE  Opening(q)' /\ Loaded(q)'
    <3>1. Opening(q)'
      BY <1>0, <2>3, <2>4, <2>5 DEF Opening
    <3>2. (db'[q] = db[q]) \/ (db'[q].at # "loaded")
      BY <2>3, <2>5
    <3> QED
      BY <1>0, <2>4, <3>1, <3>2, LoadedKept
  <2> QED
    BY <2>4, <2>6, <2>7 DEF SqlInv
<1> QED
  BY <1>1, <1>2, <1>3, <1>4, <1>5, <1>6, <1>7

\* What Load answers is a record, or that there is none, and it says which
\* revision it is of.
LEMMA ReadType ==
  ASSUME SqlTypeOK, NEW k \in Keys
  PROVE  /\ Read(k) \in TaskState \cup {NoTask}
         /\ Read(k) = NoTask <=> rows[k] = NoTask
         /\ rows[k] # NoTask => /\ rows[k] \in Rows
                                /\ Read(k).rev = rows[k].rev
<1>1. rows[k] \in Rows \cup {NoTask}
  BY DEF SqlTypeOK
<1>2. CASE rows[k] = NoTask
  BY <1>2 DEF Read
<1>3. CASE rows[k] # NoTask
  <2>1. rows[k] \in Rows /\ Read(k) = ScanTaskState(rows[k])
    BY <1>1, <1>3 DEF Read
  <2>2. Read(k) \in TaskState
    BY <2>1, ScanType
  <2>3. Read(k).rev = rows[k].rev
    BY <2>1 DEF ScanTaskState
  <2> QED
    BY <1>3, <2>1, <2>2, <2>3, NoTaskAssumption
<1> QED
  BY <1>2, <1>3

\* Load reads: the rows stay, and the process keeps a record of that time.
LEMMA LoadStep ==
  ASSUME SqlInv, NEW p \in Processes, NEW k \in Keys, Load(p, k)
  PROVE  SqlInv' /\ rows' = rows
<1>0. /\ SqlTypeOK /\ OneWriter /\ TableWhole
      /\ \A q \in Processes : Opening(q) /\ Loaded(q)
      /\ db[p] \in Handles /\ Opening(p)
  BY DEF SqlInv, SqlTypeOK
<1>1. PICK t \in TaskState \cup {NoTask} : t = Read(k)
  BY <1>0, ReadType
<1> DEFINE h == [db[p] EXCEPT !.at = "loaded", !.key = k, !.old = t]
<1>2. h \in Handles /\ h.at = "loaded" /\ h.key = k /\ h.old = t
  BY <1>0 DEF Handles, Stages
<1>3. At(p, h) /\ UNCHANGED <<columns, rows, writer>>
  BY <1>1 DEF Load
<1> HIDE DEF h
<1>4. /\ db' \in [Processes -> Handles] /\ db'[p] = h
      /\ \A q \in Processes \ {p} : db'[q] = db[q]
  BY <1>0, <1>2, <1>3, AtOnly
<1>5. SqlTypeOK' /\ OneWriter' /\ TableWhole'
  BY <1>0, <1>3, <1>4 DEF SqlTypeOK, OneWriter, TableWhole
<1>6. db[p].at = "open" /\ p \notin writer /\ Columns \subseteq columns
  BY <1>0 DEF Load, Opening
<1>7. ASSUME NEW q \in Processes
      PROVE  Opening(q)'
  <2>1. CASE q = p
    BY <1>2, <1>3, <1>4, <1>6, <2>1 DEF Opening, Columns
  <2>2. CASE q # p
    BY <1>0, <1>3, <1>4, <2>2 DEF Opening
  <2> QED
    BY <2>1, <2>2
<1>8. ASSUME NEW q \in Processes
      PROVE  Loaded(q)'
  <2>1. CASE q = p
    <3>1. Read(k)' = t /\ rows'[k] = rows[k]
      BY <1>1, <1>3 DEF Read
    <3>2. t # NoTask => rows[k] # NoTask /\ t.rev = rows[k].rev /\ rows[k].rev \in Nat
      BY <1>0, <1>1, ReadType DEF Rows
    <3> QED
      BY <1>2, <1>4, <2>1, <3>1, <3>2 DEF Loaded, Read
  <2>2. CASE q # p
    BY <1>0, <1>3, <1>4, <2>2, LoadedKept
  <2> QED
    BY <2>1, <2>2
<1> QED
  BY <1>3, <1>5, <1>7, <1>8 DEF SqlInv

\* A row with another rev is a row, with that rev.
LEMMA RevisedRow ==
  ASSUME NEW row \in Rows, NEW n \in Nat
  PROVE  [row EXCEPT !.rev = n] \in Rows /\ [row EXCEPT !.rev = n].rev = n
  BY DEF Rows

\* A swap that changes a row found what it had loaded, and revises it.
LEMMA SwapStep ==
  ASSUME StoreTypeOK, SqlInv, NEW p \in Processes,
         NEW new \in WritesOver(db[p].key, db[p].old), SqlSwap(p, new)
  PROVE  /\ SqlInv'
         /\ \A k \in Keys : rows'[k] # rows[k] =>
              /\ db[p].at = "loaded" /\ db'[p] # db[p]
              /\ db[p].key = k /\ db[p].old = Read(k)
<1>0. /\ SqlTypeOK /\ OneWriter /\ TableWhole
      /\ \A q \in Processes : Opening(q) /\ Loaded(q)
      /\ db[p] \in Handles /\ Opening(p) /\ Loaded(p)
      /\ db[p].at = "loaded" /\ db[p].key \in Keys
  BY DEF SqlInv, SqlTypeOK, SqlSwap, Loaded
<1>1. PICK k \in Keys : k = db[p].key
  BY <1>0
<1>2. PICK old \in TaskState \cup {NoTask} : old = db[p].old
  BY <1>0 DEF Handles
<1>3. new \in TaskState
  BY <1>2, WritesType
<1> DEFINE h == [NewProcess EXCEPT !.at = "open"]
           affected == IF old = NoTask THEN rows[k] = NoTask
                       ELSE rows[k] # NoTask /\ RowMatches(rows[k], old)
           stored == IF old = NoTask THEN Inserted(new)
                     ELSE [EncodeTask(new) EXCEPT !.rev = rows[k].rev + 1]
<1>4. /\ At(p, h) /\ UNCHANGED <<columns, writer>>
      /\ rows' = IF affected THEN [rows EXCEPT ![k] = stored] ELSE rows
  BY <1>1, <1>2 DEF SqlSwap
<1>5. h \in Handles /\ h.at = "open"
  BY NewProcessType DEF NewProcess
<1> HIDE DEF h
<1>6. /\ db' \in [Processes -> Handles] /\ db'[p] = h
      /\ \A q \in Processes \ {p} : db'[q] = db[q]
  BY <1>0, <1>4, <1>5, AtOnly
<1>7. ASSUME affected
      PROVE  /\ stored \in Rows /\ stored # NoTask /\ old = Read(k)
             /\ rows[k] # NoTask => rows[k].rev \in Nat /\ stored.rev = rows[k].rev + 1
  <2>1. EncodeTask(new) \in Rows
    BY <1>3, EncodeType
  <2>2. CASE old = NoTask
    <3>1. rows[k] = NoTask /\ Read(k) = NoTask /\ stored = [EncodeTask(new) EXCEPT !.rev = 0]
      BY <1>7, <2>2 DEF Read, Inserted
    <3>2. [EncodeTask(new) EXCEPT !.rev = 0] \in Rows
      BY <2>1 DEF Rows
    <3> QED
      BY <2>2, <3>1, <3>2, NoRowAssumption
  <2>3. CASE old # NoTask
    <3>1. rows[k] # NoTask /\ rows[k].rev = old.rev
      BY <1>7, <2>3 DEF RowMatches
    <3>2. old = Read(k)
      BY <1>0, <1>1, <1>2, <2>3, <3>1 DEF Loaded
    <3>3. rows[k].rev \in Nat
      BY <1>0, <3>1, ReadType DEF Rows
    <3>4. stored = [EncodeTask(new) EXCEPT !.rev = rows[k].rev + 1]
      BY <2>3
    <3>5. stored \in Rows /\ stored.rev = rows[k].rev + 1
      <4>1. rows[k].rev + 1 \in Nat
        BY <3>3
      <4> QED
        BY <2>1, <3>4, <4>1, RevisedRow
    <3> QED
      BY <3>2, <3>3, <3>5, NoRowAssumption
  <2> QED
    BY <2>2, <2>3
<1> HIDE DEF affected, stored
<1>8. SqlTypeOK' /\ OneWriter' /\ TableWhole'
  <2>1. rows' \in [Keys -> Rows \cup {NoTask}]
    BY <1>0, <1>4, <1>7 DEF SqlTypeOK
  <2> QED
    BY <1>0, <1>4, <1>6, <2>1 DEF SqlTypeOK, OneWriter, TableWhole
<1>9. ASSUME NEW q \in Processes
      PROVE  Opening(q)'
  <2>1. CASE q = p
    BY <1>0, <1>4, <1>5, <1>6, <2>1 DEF Opening
  <2>2. CASE q # p
    BY <1>0, <1>4, <1>6, <2>2 DEF Opening
  <2> QED
    BY <2>1, <2>2
<1>10. ASSUME NEW q \in Processes
       PROVE  Loaded(q)'
  <2>1. CASE q = p \/ ~affected
    <3>1. (db'[q] = db[q] /\ rows' = rows) \/ (db'[q].at # "loaded")
      BY <1>4, <1>5, <1>6, <2>1
    <3> QED
      BY <1>0, <3>1, LoadedKept DEF Loaded, Read
  <2>2. CASE q # p /\ affected
    <3>1. SUFFICES ASSUME db[q].at = "loaded", db[q].old # NoTask
                   PROVE  Loaded(q)'
      BY <1>0, <1>6, <2>2 DEF Loaded
    <3>2. PICK j \in Keys : j = db[q].key
      BY <1>0, <3>1 DEF Loaded
    <3>3. PICK t \in TaskState : t = db[q].old
      BY <1>0, <3>1 DEF SqlTypeOK, Handles
    <3>4. db'[q].at = "loaded" /\ db'[q].key = j /\ db'[q].old = t /\ t # NoTask
      BY <1>6, <2>2, <3>1, <3>2, <3>3
    <3>5. /\ rows[j] # NoTask /\ t.rev <= rows[j].rev
          /\ t.rev = rows[j].rev => t = Read(j)
      BY <1>0, <3>1, <3>2, <3>3 DEF Loaded
    <3>6. rows[j].rev \in Nat /\ t.rev \in Nat
      BY <1>0, <3>5, ReadType DEF Rows, TaskState
    <3>7. CASE j = k
      <4>1. rows'[j] = stored /\ rows'[j] # NoTask /\ rows'[j].rev = rows[j].rev + 1
        BY <1>0, <1>4, <1>7, <2>2, <3>5, <3>7 DEF SqlTypeOK
      <4> QED
        BY <3>4, <3>5, <3>6, <4>1 DEF Loaded
    <3>8. CASE j # k
      <4>1. rows'[j] = rows[j] /\ Read(j)' = Read(j)
        BY <1>0, <1>4, <2>2, <3>8 DEF SqlTypeOK, Read
      <4> QED
        BY <3>4, <3>5, <4>1 DEF Loaded, Read
    <3> QED
      BY <3>7, <3>8
  <2> QED
    BY <2>1, <2>2
<1>11. ASSUME NEW j \in Keys, rows'[j] # rows[j]
       PROVE  /\ db[p].at = "loaded" /\ db'[p] # db[p]
              /\ db[p].key = j /\ db[p].old = Read(j)
  <2>1. affected /\ j = k
    BY <1>0, <1>4, <1>11 DEF SqlTypeOK
  <2> QED
    BY <1>0, <1>1, <1>2, <1>5, <1>6, <1>7, <2>1
<1> QED
  BY <1>8, <1>9, <1>10, <1>11 DEF SqlInv

-----------------------------------------------------------------------------
(* Eviction.                                                               *)

\* Induction on the natural numbers, with the set of those that have the
\* property for the property.
LEMMA InductionInSet ==
  ASSUME NEW P, 0 \in P, \A n \in Nat : n \in P => n + 1 \in P
  PROVE  \A n \in Nat : n \in P
<1> DEFINE R == OpToRel(<, Nat)
           T == Nat \ P
<1>1. IsWellFoundedOn(R, Nat)
  BY NatLessThanWellFounded
<1>2. ASSUME NEW x \in Nat, NEW y \in Nat, y < x
      PROVE  <<y, x>> \in R
  BY <1>2, Zenon DEF OpToRel
<1> HIDE DEF R
<1>3. ASSUME T # {}
      PROVE  FALSE
  <2>1. PICK x \in T : \A y \in T : ~(<<y, x>> \in R)
    BY <1>1, <1>3, WFMin
  <2>2. x \in Nat /\ x # 0 /\ x - 1 \in Nat /\ x - 1 < x
    OBVIOUS
  <2>3. x - 1 \notin T
    BY <1>2, <2>1, <2>2
  <2>4. (x - 1) + 1 \in P
    BY <2>2, <2>3
  <2> QED
    BY <2>2, <2>4
<1> QED
  BY <1>3

\* The recursion behind evictOverCap's loop has a solution.
LEMMA RoundUnfolds ==
  ASSUME NEW exempt, NEW queue, NEW records
  PROVE  LET round == EvictRound(exempt, queue, records)
         IN /\ round[0] = [queue |-> queue, left |-> records, rotations |-> 0]
            /\ \A n \in 1..Turns : round[n] = EvictTurn(round[n - 1], exempt)
<1> DEFINE start == [queue |-> queue, left |-> records, rotations |-> 0]
           Runs(f, n) == f = [k \in 0..n |-> IF k = 0 THEN start
                                             ELSE EvictTurn(f[k - 1], exempt)]
           P == {n \in Nat : \E f : Runs(f, n)}
<1>1. Turns \in Nat
  BY CapAssumption, FS_CardinalityType DEF Turns
<1> HIDE DEF start
<1>2. 0 \in P
  <2>1. Runs([k \in 0..0 |-> start], 0)
    OBVIOUS
  <2> QED
    BY <2>1
<1>3. ASSUME NEW n \in Nat, n \in P
      PROVE  n + 1 \in P
  <2>1. PICK f : Runs(f, n)
    BY <1>3
  <2> DEFINE g == [k \in 0..(n + 1) |-> IF k = n + 1 THEN EvictTurn(f[n], exempt)
                                        ELSE f[k]]
  <2>2. ASSUME NEW k \in 0..(n + 1)
        PROVE  g[k] = IF k = 0 THEN start ELSE EvictTurn(g[k - 1], exempt)
    <3>1. CASE k = n + 1
      BY <3>1
    <3>2. CASE k # n + 1
      <4>1. k \in 0..n
        BY <3>2
      <4>2. f[k] = IF k = 0 THEN start ELSE EvictTurn(f[k - 1], exempt)
        BY <2>1, <4>1
      <4> QED
        BY <3>2, <4>1, <4>2
    <3> QED
      BY <3>1, <3>2
  <2>3. g = [k \in 0..(n + 1) |-> g[k]]
    OBVIOUS
  <2> HIDE DEF g
  <2>4. Runs(g, n + 1)
    BY <2>2, <2>3
  <2> QED
    BY <2>4
<1>4. Turns \in P
  <2> HIDE DEF P
  <2> QED
    BY <1>1, <1>2, <1>3, InductionInSet
<1> DEFINE F(h) == [k \in 0..Turns |-> IF k = 0 THEN start ELSE EvictTurn(h[k - 1], exempt)]
           g == CHOOSE h : h = F(h)
<1>5. EvictRound(exempt, queue, records) = g
  BY DEF EvictRound, start
<1>6. PICK f : f = F(f)
  BY <1>4
<1>7. g = F(g)
  BY <1>6
<1> HIDE DEF g
<1>8. g[0] = start /\ \A n \in 1..Turns : g[n] = EvictTurn(g[n - 1], exempt)
  BY <1>1, <1>7
<1> QED
  BY <1>5, <1>8 DEF start

\* An eviction round deletes only what it may: neither the key just written
\* nor one under a live lease.
LEMMA EvictsUnprotected ==
  ASSUME NEW exempt, NEW queue, NEW records
  PROVE  LET left == EvictOverCap(exempt, queue, records).left
         IN /\ left \subseteq records
            /\ \A j \in records \ left : ~Protected(j, exempt)
<1> DEFINE round == EvictRound(exempt, queue, records)
           Fine(r) == /\ "left" \in DOMAIN r /\ r.left \subseteq records
                      /\ \A j \in records \ r.left : ~Protected(j, exempt)
           P == {n \in Nat : n <= Turns => Fine(round[n])}
<1>1. Turns \in Nat
  BY CapAssumption, FS_CardinalityType DEF Turns
<1>2. /\ round[0] = [queue |-> queue, left |-> records, rotations |-> 0]
      /\ \A n \in 1..Turns : round[n] = EvictTurn(round[n - 1], exempt)
  BY RoundUnfolds
<1> HIDE DEF round
<1>3. ASSUME NEW r, Fine(r)
      PROVE  Fine(EvictTurn(r, exempt))
  <2> DEFINE k == Head(r.queue)
             rest == Tail(r.queue)
             rotated == [r EXCEPT !.queue = Append(rest, k), !.rotations = @ + 1]
             shrunk == [r EXCEPT !.queue = rest, !.left = @ \ {k}]
  <2>1. \/ EvictTurn(r, exempt) = r
        \/ EvictTurn(r, exempt) = rotated
        \/ ~Protected(k, exempt) /\ EvictTurn(r, exempt) = shrunk
    BY DEF EvictTurn
  <2> HIDE DEF k, rest
  <2>2. DOMAIN rotated = DOMAIN r /\ rotated.left = r.left
    OBVIOUS
  <2>3. DOMAIN shrunk = DOMAIN r /\ shrunk.left = r.left \ {k}
    BY <1>3
  <2> HIDE DEF rotated, shrunk
  <2> QED
    BY <1>3, <2>1, <2>2, <2>3
<1>4. 0 \in P
  BY <1>2
<1>5. ASSUME NEW n \in Nat, n \in P
      PROVE  n + 1 \in P
  <2> HIDE DEF Fine
  <2>1. SUFFICES ASSUME n + 1 <= Turns
                 PROVE  Fine(round[n + 1])
    OBVIOUS
  <2>2. Fine(round[n])
    BY <1>1, <1>5, <2>1
  <2>3. round[n + 1] = EvictTurn(round[n], exempt)
    BY <1>1, <1>2, <2>1
  <2> QED
    BY <1>3, <2>2, <2>3
<1>6. Turns \in P
  <2> HIDE DEF P
  <2> QED
    BY <1>1, <1>4, <1>5, InductionInSet
<1> QED
  BY <1>1, <1>6 DEF EvictOverCap, round

\* Of finitely many numbers and a bound below, one is the highest.
LEMMA Highest ==
  ASSUME NEW S, IsFiniteSet(S), NEW v \in [S -> Nat], NEW b \in Nat
  PROVE  \E m \in {b} \cup {v[j] : j \in S} : m >= b /\ \A j \in S : m >= v[j]
<1> DEFINE N == Cardinality(S)
<1>1. N \in Nat /\ ExistsBijection(1..N, S)
  BY FS_CardinalityType
<1> HIDE DEF N
<1>2. PICK f \in [1..N -> S] : \A j \in S : \E i \in 1..N : f[i] = j
  BY <1>1 DEF ExistsBijection, Bijection, Injection, Surjection
<1> DEFINE w == [i \in 1..N |-> v[f[i]]]
           High(m, n) == m >= b /\ \A i \in 1..n : m >= w[i]
           W == {b} \cup {w[i] : i \in 1..N}
           P == {n \in Nat : n <= N => \E m \in W : High(m, n)}
<1>3. w \in [1..N -> Nat]
  BY <1>2
<1>4. 0 \in P
  BY <1>1
<1>5. ASSUME NEW n \in Nat, n \in P
      PROVE  n + 1 \in P
  <2>1. SUFFICES ASSUME n + 1 <= N
                 PROVE  \E m \in W : High(m, n + 1)
    <3> HIDE DEF W, High
    <3> QED
      OBVIOUS
  <2>2. n <= N /\ n + 1 \in 1..N
    BY <1>1, <2>1
  <2>3. PICK m \in W : High(m, n)
    BY <1>5, <2>2
  <2> HIDE DEF w
  <2>4. m \in Nat /\ w[n + 1] \in Nat
    BY <1>3, <2>2, <2>3
  <2>5. \A i \in 1..(n + 1) : i = n + 1 \/ i \in 1..n
    OBVIOUS
  <2>6. \A i \in 1..n : w[i] \in Nat
    BY <1>1, <1>3, <2>2
  <2>7. CASE m >= w[n + 1]
    BY <2>3, <2>5, <2>7
  <2>8. CASE w[n + 1] > m
    <3>1. High(w[n + 1], n + 1)
      BY <2>3, <2>4, <2>5, <2>6, <2>8
    <3> QED
      BY <2>2, <3>1
  <2> QED
    BY <2>4, <2>7, <2>8
<1>6. N \in P
  <2> HIDE DEF P
  <2> QED
    BY <1>1, <1>4, <1>5, InductionInSet
<1>7. PICK m \in W : High(m, N)
  <2> HIDE DEF W, High
  <2>1. N <= N
    BY <1>1
  <2> QED
    BY <1>6, <2>1
<1>8. m \in {b} \cup {v[j] : j \in S}
  BY <1>2, <1>7
<1>9. \A j \in S : m >= v[j]
  BY <1>2, <1>7
<1> QED
  BY <1>7, <1>8, <1>9

\* The floor covers every fence that a round deletes, and is one of them or
\* what it was.
LEMMA FloorCovers ==
  ASSUME StoreTypeOK, NEW gone \in SUBSET Keys, \A j \in gone : Found(j)
  PROVE  /\ Floor(gone) \in {fenceFloor} \cup {tasks[j].fence : j \in gone}
         /\ Floor(gone) >= fenceFloor
         /\ \A j \in gone : Floor(gone) >= tasks[j].fence
<1> DEFINE v == [j \in gone |-> tasks[j].fence]
           m == Floor(gone)
<1>1. IsFiniteSet(gone)
  BY CapAssumption, FS_Subset
<1>2. fenceFloor \in Nat /\ v \in [gone -> Nat]
  <2>1. ASSUME NEW j \in gone
        PROVE  tasks[j].fence \in Nat
    <3>1. tasks[j] \in TaskState
      BY DEF StoreTypeOK, Found
    <3> QED
      BY <3>1 DEF TaskState
  <2> QED
    BY <2>1 DEF StoreTypeOK
<1>3. \E f \in {fenceFloor} \cup {v[j] : j \in gone} :
        f >= fenceFloor /\ \A j \in gone : f >= v[j]
  <2> HIDE DEF v
  <2> QED
    BY <1>1, <1>2, Highest
<1>4. {v[j] : j \in gone} = {tasks[j].fence : j \in gone}
      /\ \A j \in gone : v[j] = tasks[j].fence
  OBVIOUS
<1>5. \E f \in {fenceFloor} \cup {tasks[j].fence : j \in gone} :
        \A j \in gone : f >= fenceFloor /\ f >= tasks[j].fence
  BY <1>3, <1>4
<1>6. /\ m \in {fenceFloor} \cup {tasks[j].fence : j \in gone}
      /\ \A j \in gone : m >= fenceFloor /\ m >= tasks[j].fence
  BY <1>5 DEF Floor
<1> HIDE DEF m
<1>7. m >= fenceFloor
  BY <1>2, <1>6
<1> QED
  BY <1>6, <1>7 DEF m

\* CompareAndSwap with its eviction round is a Write of the contract.
LEMMA SwapIsWrite ==
  ASSUME StoreTypeOK, NEW k \in Keys, NEW new, CompareAndSwap(k, new)
  PROVE  Write(k, new)
<1> DEFINE records == Recorded \cup {k}
           queue == IF Found(k) THEN evictQueue ELSE Append(evictQueue, k)
           left == EvictOverCap(k, queue, records).left
           gone == records \ left
<1>1. left \subseteq records /\ \A j \in gone : ~Protected(j, k)
  BY EvictsUnprotected
<1>2. /\ tasks' = [j \in Keys |-> IF j \notin left THEN NoTask
                                  ELSE IF j = k THEN Stored(k, new)
                                  ELSE tasks[j]]
      /\ fenceFloor' = IF records = left THEN fenceFloor ELSE Floor(gone)
      /\ clock' = clock
  BY DEF CompareAndSwap
<1>3. records \subseteq Keys /\ \A j \in records \ {k} : Found(j)
  BY DEF Recorded
<1>4. \A j \in Keys \ records : tasks[j] = NoTask
  BY DEF Recorded, Found
<1> HIDE DEF left, records
<1>5. gone \in SUBSET Evictable(k) /\ k \notin gone /\ k \in left
  <2>1. \A j \in gone : j # k /\ ~HoldsLiveLease(tasks[j])
    BY <1>1 DEF Protected
  <2>2. k \in records
    BY DEF records
  <2> QED
    BY <1>3, <2>1, <2>2 DEF Evictable
<1>6. gone \in Deletions(k)
  BY <1>5, CapAssumption DEF Deletions
<1>7. tasks' = [j \in Keys |-> IF j = k THEN Stored(k, new)
                               ELSE IF j \in gone THEN NoTask
                               ELSE tasks[j]]
  <2>1. ASSUME NEW j \in Keys
        PROVE  (IF j \notin left THEN NoTask
                ELSE IF j = k THEN Stored(k, new) ELSE tasks[j])
               = (IF j = k THEN Stored(k, new)
                  ELSE IF j \in gone THEN NoTask ELSE tasks[j])
    BY <1>1, <1>4, <1>5
  <2> QED
    BY <1>2, <2>1
<1>8. gone \in SUBSET Keys /\ \A j \in gone : Found(j)
  BY <1>5 DEF Evictable
<1> HIDE DEF gone
<1>9. /\ fenceFloor' \in {fenceFloor} \cup {tasks[j].fence : j \in gone}
      /\ fenceFloor' >= fenceFloor
      /\ \A j \in gone : fenceFloor' >= tasks[j].fence
  <2>1. CASE records = left
    BY <1>2, <2>1 DEF gone, StoreTypeOK
  <2>2. CASE records # left
    BY <1>2, <1>8, <2>2, FloorCovers
  <2> QED
    BY <2>1, <2>2
<1> QED
  BY <1>2, <1>6, <1>7, <1>9 DEF Write

-----------------------------------------------------------------------------
(* Writes.                                                                 *)

\* The fence that the next grant of k exceeds.
Token(k) == IF Found(k) THEN tasks[k].fence ELSE fenceFloor

\* Stored fills in the revision, and on an insert the fence floor.
LEMMA StoredType ==
  ASSUME StoreTypeOK, NEW k \in Keys, NEW new \in TaskState
  PROVE  Stored(k, new) \in TaskState
<1>1. CASE Found(k)
  <2>1. tasks[k] \in TaskState
    BY <1>1 DEF StoreTypeOK, Found
  <2>2. tasks[k].rev + 1 \in Nat
    BY <2>1 DEF TaskState
  <2> QED
    BY <1>1, <2>2 DEF Stored, TaskState
<1>2. CASE ~Found(k)
  BY <1>2 DEF StoreTypeOK, Stored, TaskState
<1> QED
  BY <1>1, <1>2

\* A write stores its record at or above the token of its key, deletes or
\* keeps every other record, and lowers no token.
LEMMA WriteKeepsTokens ==
  ASSUME StoreTypeOK, NEW k \in Keys, NEW new \in TaskState, Write(k, new),
         Found(k) => new.fence >= tasks[k].fence
  PROVE  /\ StoreTypeOK'
         /\ tasks'[k] = Stored(k, new) /\ tasks'[k] \in TaskState
         /\ Token(k)' >= new.fence
         /\ \A j \in Keys : Token(j)' >= Token(j)
<1>1. PICK gone \in Deletions(k) :
        /\ tasks' = [j \in Keys |-> IF j = k THEN Stored(k, new)
                                    ELSE IF j \in gone THEN NoTask
                                    ELSE tasks[j]]
        /\ fenceFloor' \in {fenceFloor} \cup {tasks[j].fence : j \in gone}
        /\ fenceFloor' >= fenceFloor
        /\ \A j \in gone : fenceFloor' >= tasks[j].fence
        /\ UNCHANGED clock
  BY DEF Write
<1>2. Stored(k, new) \in TaskState
  BY StoredType
<1>3. gone \subseteq Keys \ {k} /\ \A j \in gone : Found(j)
  BY <1>1 DEF Deletions, Evictable
<1>4. \A j \in Keys : Found(j) => tasks[j] \in TaskState /\ tasks[j].fence \in Nat
  BY DEF StoreTypeOK, Found, TaskState
<1>5. fenceFloor \in Nat /\ fenceFloor' \in Nat
  BY <1>1, <1>3, <1>4 DEF StoreTypeOK
<1>6. StoreTypeOK'
  BY <1>1, <1>2, <1>5 DEF StoreTypeOK
<1>7. tasks'[k] = Stored(k, new) /\ tasks'[k] \in TaskState /\ Found(k)'
  BY <1>1, <1>2, NoTaskAssumption DEF Found
<1>8. Token(k)' >= new.fence /\ Token(k)' >= Token(k)
  <2>0. new.fence \in Nat
    BY DEF TaskState
  <2>1. CASE Found(k)
    <3>1. Stored(k, new).fence = new.fence
      BY <2>1 DEF Stored, TaskState
    <3> QED
      BY <1>4, <1>7, <2>0, <2>1, <3>1 DEF Token
  <2>2. CASE ~Found(k)
    <3>1. Stored(k, new).fence = IF new.fence < fenceFloor THEN fenceFloor ELSE new.fence
      BY <2>2 DEF Stored, TaskState
    <3> QED
      BY <1>5, <1>7, <2>0, <2>2, <3>1 DEF Token
  <2> QED
    BY <2>1, <2>2
<1>9. ASSUME NEW j \in Keys \ {k}
      PROVE  Token(j)' >= Token(j)
  <2>1. CASE j \in gone
    <3>1. tasks'[j] = NoTask /\ Found(j) /\ fenceFloor' >= tasks[j].fence
      BY <1>1, <1>3, <2>1
    <3> QED
      BY <3>1 DEF Token, Found
  <2>2. CASE j \notin gone
    <3>1. tasks'[j] = tasks[j]
      BY <1>1, <2>2
    <3> QED
      BY <1>1, <1>4, <1>5, <3>1 DEF Token, Found
  <2> QED
    BY <2>1, <2>2
<1> QED
  BY <1>6, <1>7, <1>8, <1>9

\* The record a write leaves is one that Stored leaves alone.
LEMMA StoredTwice ==
  ASSUME StoreTypeOK, NEW k \in Keys, NEW new \in TaskState
  PROVE  Stored(k, Stored(k, new)) = Stored(k, new)
<1>1. CASE Found(k)
  BY <1>1 DEF Stored, TaskState
<1>2. CASE ~Found(k)
  <2>1. fenceFloor \in Nat /\ new.fence \in Nat
    BY DEF StoreTypeOK, TaskState
  <2> DEFINE f == IF new.fence < fenceFloor THEN fenceFloor ELSE new.fence
  <2>2. f \in Nat /\ ~(f < fenceFloor)
    BY <2>1
  <2>3. Stored(k, new) = [new EXCEPT !.rev = 0, !.fence = f]
    BY <1>2 DEF Stored
  <2> HIDE DEF f
  <2> QED
    BY <1>2, <2>2, <2>3 DEF Stored, TaskState
<1> QED
  BY <1>1, <1>2

\* What CompareAndSwap of the memory store writes is the swap that module
\* Store promises.
LEMMA WriteIsSwap ==
  ASSUME StoreTypeOK, NEW k \in Keys, NEW new \in TaskState, Write(k, new),
         tasks'[k] = Stored(k, new), tasks'[k] \in TaskState
  PROVE  Swap(k)
<1>1. Stored(k, tasks'[k]) = Stored(k, new)
  BY StoredTwice
<1>2. Write(k, tasks'[k])
  BY <1>1 DEF Write
<1> QED
  BY <1>2 DEF Swap

\* What the callers of the in-memory store write are records, and none
\* lowers a fence.
LEMMA CallerStep ==
  ASSUME StoreTypeOK, Next
  PROVE  StoreTypeOK' /\ StoreNext /\ \A j \in Keys : Token(j)' >= Token(j)
<1>0. \A k \in Keys : Found(k) => tasks[k] \in TaskState /\ tasks[k].fence \in Nat
  BY DEF StoreTypeOK, Found, TaskState
<1>1. ASSUME NEW k \in Keys, NEW new \in TaskState, CompareAndSwap(k, new),
             Found(k) => new.fence >= tasks[k].fence
      PROVE  StoreTypeOK' /\ StoreNext /\ \A j \in Keys : Token(j)' >= Token(j)
  <2>1. Write(k, new)
    BY <1>1, SwapIsWrite
  <2>2. /\ StoreTypeOK' /\ \A j \in Keys : Token(j)' >= Token(j)
        /\ tasks'[k] = Stored(k, new) /\ tasks'[k] \in TaskState
    BY <1>1, <2>1, WriteKeepsTokens
  <2>3. Swap(k)
    BY <2>1, <2>2, WriteIsSwap
  <2> QED
    BY <2>2, <2>3 DEF StoreNext
<1>2. CASE Passing
  <2>1. StoreTypeOK' /\ StoreNext
    BY <1>2 DEF Passing, Tick, StoreTypeOK, StoreNext
  <2>2. \A j \in Keys : Token(j)' = Token(j) /\ Token(j) \in Nat
    BY <1>0, <1>2 DEF Passing, Tick, Token, Found, StoreTypeOK
  <2> QED
    BY <2>1, <2>2
<1>3. ASSUME NEW k \in Keys, Insert(k)
      PROVE  StoreTypeOK' /\ StoreNext /\ \A j \in Keys : Token(j)' >= Token(j)
  <2>1. Fresh \in TaskState
    BY DEF Fresh, TaskState, Status
  <2> QED
    BY <1>1, <1>3, <2>1 DEF Insert
<1>4. ASSUME NEW k \in Keys, Finish(k)
      PROVE  StoreTypeOK' /\ StoreNext /\ \A j \in Keys : Token(j)' >= Token(j)
  <2>1. tasks[k] \in TaskState /\ tasks[k].fence \in Nat
    BY <1>0, <1>4 DEF Finish
  <2> DEFINE new == [tasks[k] EXCEPT !.status = "completed"]
  <2>2. new \in TaskState /\ new.fence >= tasks[k].fence
    BY <2>1 DEF TaskState, Status, Terminal
  <2>3. CompareAndSwap(k, new)
    BY <1>4 DEF Finish
  <2> HIDE DEF new
  <2> QED
    BY <1>1, <2>2, <2>3
<1>5. ASSUME NEW k \in Keys, NEW w \in Owners, Grant(k, w)
      PROVE  StoreTypeOK' /\ StoreNext /\ \A j \in Keys : Token(j)' >= Token(j)
  <2>1. tasks[k] \in TaskState /\ tasks[k].fence \in Nat
    BY <1>0, <1>5 DEF Grant, IsLive, Found
  <2> DEFINE until == clock + 1
             fence == tasks[k].fence + 1
             new == [tasks[k] EXCEPT !.status = "claimed", !.owner = w,
                                     !.fence = fence, !.leaseUntil = until]
  <2>2. until \in Nat /\ fence \in Nat /\ fence >= tasks[k].fence
        /\ w \in Owners \cup {NoOwner} /\ "claimed" \in Status
    BY <2>1 DEF StoreTypeOK, Status
  <2>3. CompareAndSwap(k, new)
    BY <1>5 DEF Grant
  <2> HIDE DEF until, fence
  <2>4. new \in TaskState /\ new.fence >= tasks[k].fence
    BY <2>1, <2>2 DEF TaskState
  <2> HIDE DEF new
  <2> QED
    BY <1>1, <2>3, <2>4
<1> QED
  BY <1>2, <1>3, <1>4, <1>5 DEF Next

-----------------------------------------------------------------------------
(* The start.                                                              *)

ColdInv == ColdTypeOK /\ SqlInv /\ TokensSurviveRestart

\* Range yields every record it finds.
LEMMA RangeType ==
  ASSUME SqlTypeOK
  PROVE  RangeRows \in Seq(Entries)
<1> DEFINE S == {k \in Keys : rows[k] # NoTask}
           order == SetToSeq(S)
           N == Cardinality(S)
<1>1. IsFiniteSet(S)
  BY CapAssumption, FS_Subset
<1>2. N \in Nat /\ ExistsBijection(1..N, S)
  BY <1>1, FS_CardinalityType
<1>3. \E f \in [1..N -> S] : IsInjective(f)
  BY <1>2 DEF ExistsBijection, Bijection, Injection
<1>4. order \in [1..N -> S]
  BY <1>3 DEF SetToSeq
<1>5. RangeRows = [i \in DOMAIN order |-> [key |-> order[i], task |-> Read(order[i])]]
  BY DEF RangeRows
<1> HIDE DEF order, N
<1>6. ASSUME NEW i \in 1..N
      PROVE  [key |-> order[i], task |-> Read(order[i])] \in Entries
  <2>1. PICK k \in Keys : k = order[i] /\ rows[k] # NoTask
    BY <1>4
  <2>2. Read(k) \in TaskState
    BY <2>1, ReadType
  <2> QED
    BY <2>1, <2>2 DEF Entries
<1>7. RangeRows = [i \in 1..N |-> [key |-> order[i], task |-> Read(order[i])]]
  BY <1>4, <1>5
<1> QED
  BY <1>2, <1>6, <1>7

\* The invariant holds before any process has opened the file.
LEMMA ColdInitial == ColdInit => ColdInv
<1> SUFFICES ASSUME ColdInit
             PROVE  ColdInv
  OBVIOUS
<1> USE DEF ColdInit, Init, SqlInit
<1>1. StoreTypeOK /\ fences \in [Keys -> Nat]
      /\ boot \in [at : {"file", "restoring", "failed"}, left : Seq(Entries)]
  BY DEF StoreInit, StoreTypeOK
<1>2. TokensSurviveRestart
  <2>1. fenceFloor = 0 /\ \A k \in Keys : tasks[k] = NoTask /\ fences[k] = 0
    BY DEF StoreInit
  <2> HIDE DEF ColdInit, Init, SqlInit
  <2>2. ASSUME NEW k \in Keys
        PROVE  fences[k] <= Token(k)
    <3>1. fences[k] = 0 /\ Token(k) = 0
      BY <2>1 DEF Token, Found
    <3> QED
      BY <3>1
  <2> QED
    BY <2>2 DEF TokensSurviveRestart, Token
<1>3. rows \in [Keys -> Rows \cup {NoTask}]
  <2>1. PICK held \in {{}, Keys}, w \in Owners :
          rows = [k \in Keys |-> IF k \notin held THEN NoTask ELSE
            EncodeTask([status |-> "claimed", seq |-> 1, owner |-> w,
                        fence |-> 1, leaseUntil |-> 2, needs |-> <<>>,
                        blockedBy |-> NoKey, rev |-> 1])]
    OBVIOUS
  <2> DEFINE t == [status |-> "claimed", seq |-> 1, owner |-> w,
                   fence |-> 1, leaseUntil |-> 2, needs |-> <<>>,
                   blockedBy |-> NoKey, rev |-> 1]
  <2>2. t \in TaskState
    BY DEF TaskState, Status
  <2> HIDE DEF t
  <2>3. EncodeTask(t) \in Rows
    BY <2>2, EncodeType
  <2> QED
    BY <2>1, <2>3 DEF t
<1>4. columns \in SUBSET Columns /\ TableWhole
  BY DEF Columns, AuditColumns, TableWhole
<1>5. db \in [Processes -> Handles] /\ writer = {}
      /\ \A p \in Processes : db[p] = NewProcess /\ db[p].at = "closed"
  BY NewProcessType DEF NewProcess
<1>6. SqlTypeOK /\ OneWriter
  BY <1>3, <1>4, <1>5 DEF SqlTypeOK, OneWriter
<1>7. \A p \in Processes : Opening(p) /\ Loaded(p)
  BY <1>5 DEF Opening, Loaded
<1> QED
  BY <1>1, <1>2, <1>4, <1>6, <1>7 DEF ColdInv, ColdTypeOK, SqlInv

\* What a step of the start and of the stores keeps, and that it is a step of
\* the Store contract or none.
LEMMA ColdStep ==
  ASSUME ColdInv, ColdNext
  PROVE  /\ ColdInv'
         /\ StoreNext \/ UNCHANGED storeVars
         /\ boot'.at = "file" => \A k \in Keys : rows'[k] # rows[k] =>
              \E p \in Processes : /\ db[p].at = "loaded" /\ db'[p] # db[p]
                                   /\ db[p].key = k /\ db[p].old = Read(k)
<1> DEFINE Lost == \A k \in Keys : rows'[k] # rows[k] =>
              \E p \in Processes : /\ db[p].at = "loaded" /\ db'[p] # db[p]
                                   /\ db[p].key = k /\ db[p].old = Read(k)
<1>0. /\ ColdTypeOK /\ StoreTypeOK /\ SqlTypeOK /\ SqlInv
      /\ boot \in [at : {"file", "restoring", "failed"}, left : Seq(Entries)]
      /\ fences \in [Keys -> Nat] /\ \A k \in Keys : fences[k] <= Token(k)
  BY DEF ColdInv, ColdTypeOK, TokensSurviveRestart, Token
<1>1. \A k \in Keys : Token(k) \in Nat
  BY <1>0 DEF Token, StoreTypeOK, Found, TaskState
<1>3. CASE boot.at = "file" /\ SqlNext /\ UNCHANGED <<memVars, bootVars>>
  <2>1. UNCHANGED storeVars /\ UNCHANGED bootVars
    BY <1>3 DEF memVars
  <2>2. StoreTypeOK' /\ TokensSurviveRestart' /\ fences' \in [Keys -> Nat]
        /\ boot' \in [at : {"file", "restoring", "failed"}, left : Seq(Entries)]
    BY <1>0, <2>1 DEF storeVars, bootVars, StoreTypeOK, Token, Found,
       TokensSurviveRestart
  <2>3. SqlInv' /\ Lost
    <3>1. PICK p \in Processes :
            \/ CreateTable(p) \/ BeginImmediate(p) \/ TableInfo(p) \/ AddColumn(p)
            \/ Commit(p) \/ OpenFails(p) \/ CallFails(p)
            \/ \E k \in Keys : Load(p, k)
            \/ \E new \in WritesOver(db[p].key, db[p].old) : SqlSwap(p, new)
      BY <1>3 DEF SqlNext
    <3>2. CASE \/ CreateTable(p) \/ BeginImmediate(p) \/ TableInfo(p)
               \/ AddColumn(p) \/ Commit(p) \/ OpenFails(p) \/ CallFails(p)
      <4>1. SqlInv' /\ rows' = rows
        BY <1>0, <3>2, OpeningStep
      <4> QED
        BY <4>1
    <3>3. CASE \E k \in Keys : Load(p, k)
      <4>1. SqlInv' /\ rows' = rows
        BY <1>0, <3>3, LoadStep
      <4> QED
        BY <4>1
    <3>4. ASSUME NEW new \in WritesOver(db[p].key, db[p].old), SqlSwap(p, new)
          PROVE  SqlInv' /\ Lost
      BY <1>0, <3>4, SwapStep
    <3> QED
      BY <3>1, <3>2, <3>3, <3>4
  <2> QED
    BY <2>1, <2>2, <2>3 DEF ColdInv, ColdTypeOK, SqlInv
<1>4. ASSUME NEW p \in Processes, TakeSnapshot(p)
      PROVE  ColdInv' /\ UNCHANGED storeVars /\ boot'.at # "file"
  <2>1. UNCHANGED storeVars /\ fences' = fences /\ boot'.at = "restoring"
        /\ boot' \in [at : {"file", "restoring", "failed"}, left : Seq(Entries)]
    <3>1. boot' = [at |-> "restoring", left |-> RangeRows]
      BY <1>4 DEF TakeSnapshot
    <3>2. RangeRows \in Seq(Entries)
      BY <1>0, RangeType
    <3> QED
      BY <1>4, <3>1, <3>2 DEF TakeSnapshot, memVars
  <2>2. StoreTypeOK' /\ TokensSurviveRestart' /\ fences' \in [Keys -> Nat]
    BY <1>0, <2>1 DEF storeVars, StoreTypeOK, Token, Found, TokensSurviveRestart
  <2>3. /\ columns' = {} /\ writer' = {} /\ rows' \in [Keys -> Rows \cup {NoTask}]
        /\ db' \in [Processes -> Handles]
        /\ \A q \in Processes : db'[q].at = "closed"
    BY <1>4, NewProcessType DEF TakeSnapshot, NewProcess
  <2>4. SqlInv'
    BY <2>3 DEF SqlInv, SqlTypeOK, OneWriter, TableWhole, Opening, Loaded
  <2> QED
    BY <2>1, <2>2, <2>4 DEF ColdInv, ColdTypeOK, SqlInv
<1>5. ASSUME UNCHANGED sqlVars
      PROVE  SqlInv' /\ Lost
  <2>1. rows' = rows /\ db' = db /\ columns' = columns /\ writer' = writer
    BY <1>5 DEF sqlVars
  <2>2. \A p \in Processes : Opening(p)' /\ Loaded(p)'
    <3>1. ASSUME NEW p \in Processes
          PROVE  Opening(p)' /\ Loaded(p)'
      BY <1>0, <2>1, LoadedKept DEF SqlInv, Opening
    <3> QED
      BY <3>1
  <2> QED
    BY <1>0, <2>1, <2>2 DEF SqlInv, SqlTypeOK, OneWriter, TableWhole
<1>6. CASE RestoreStep
  <2>1. boot.at = "restoring" /\ boot.left # <<>> /\ UNCHANGED sqlVars
    BY <1>6 DEF RestoreStep
  <2>2. PICK e \in Entries : e = Head(boot.left)
    BY <1>0, <2>1
  <2>3. PICK k \in Keys, t \in TaskState : e.key = k /\ e.task = t
    BY DEF Entries
  <2>4. CASE Validate(k, t) /\ ~Found(k)
    <3>1. /\ CompareAndSwap(k, t)
          /\ boot' = [boot EXCEPT !.left = Tail(@)]
          /\ fences' = [fences EXCEPT ![k] = t.fence]
      BY <1>6, <2>2, <2>3, <2>4 DEF RestoreStep
    <3>2. Write(k, t)
      BY <1>0, <3>1, SwapIsWrite
    <3>3. /\ StoreTypeOK' /\ Token(k)' >= t.fence
          /\ \A j \in Keys : Token(j)' >= Token(j)
          /\ tasks'[k] = Stored(k, t) /\ tasks'[k] \in TaskState
      BY <1>0, <2>4, <3>2, WriteKeepsTokens
    <3>4. Swap(k)
      BY <1>0, <3>2, <3>3, WriteIsSwap
    <3>5. boot' \in [at : {"file", "restoring", "failed"}, left : Seq(Entries)]
          /\ boot'.at # "file"
      <4>1. boot.left \in Seq(Entries)
        BY <1>0
      <4>2. Tail(boot.left) \in Seq(Entries)
        BY <2>1, <4>1
      <4> QED
        BY <1>0, <2>1, <3>1, <4>2
    <3>6. t.fence \in Nat
      BY DEF TaskState
    <3>7. \A j \in Keys : Token(j)' \in Nat
      BY <3>3 DEF Token, StoreTypeOK, Found, TaskState
    <3>8. fences' \in [Keys -> Nat]
      BY <1>0, <3>1, <3>6
    <3>9. \A j \in Keys : fences'[j] <= Token(j)'
      <4>1. ASSUME NEW j \in Keys
            PROVE  fences'[j] <= Token(j)'
        <5>1. CASE j = k
          BY <1>0, <3>1, <3>3, <3>6, <3>7, <5>1
        <5>2. CASE j # k
          <6>1. fences'[j] = fences[j] /\ fences[j] \in Nat /\ fences[j] <= Token(j)
            BY <1>0, <3>1, <5>2
          <6>2. Token(j)' >= Token(j) /\ Token(j) \in Nat /\ Token(j)' \in Nat
            BY <1>1, <3>3, <3>7
          <6> QED
            BY <6>1, <6>2
        <5> QED
          BY <5>1, <5>2
      <4> QED
        BY <4>1
    <3>10. TokensSurviveRestart'
      BY <3>9 DEF TokensSurviveRestart, Token
    <3> QED
      BY <1>5, <2>1, <3>3, <3>4, <3>5, <3>8, <3>10
         DEF ColdInv, ColdTypeOK, SqlInv, StoreNext
  <2>5. CASE ~(Validate(k, t) /\ ~Found(k))
    <3>1. boot' = [at |-> "failed", left |-> <<>>] /\ UNCHANGED <<memVars, fences>>
      BY <1>6, <2>2, <2>3, <2>5 DEF RestoreStep
    <3>2. StoreTypeOK' /\ TokensSurviveRestart' /\ fences' \in [Keys -> Nat]
          /\ UNCHANGED storeVars
      BY <1>0, <3>1 DEF memVars, storeVars, StoreTypeOK, Token, Found,
         TokensSurviveRestart
    <3>3. boot' \in [at : {"file", "restoring", "failed"}, left : Seq(Entries)]
          /\ boot'.at # "file"
      BY <3>1
    <3> QED
      BY <1>5, <2>1, <3>2, <3>3 DEF ColdInv, ColdTypeOK, SqlInv
  <2> QED
    BY <2>4, <2>5
<1>7. CASE RestoreFails
  <2>1. boot' = [at |-> "failed", left |-> <<>>] /\ UNCHANGED <<memVars, sqlVars, fences>>
    BY <1>7 DEF RestoreFails
  <2>2. StoreTypeOK' /\ TokensSurviveRestart' /\ fences' \in [Keys -> Nat]
        /\ UNCHANGED storeVars
    BY <1>0, <2>1 DEF memVars, storeVars, StoreTypeOK, Token, Found,
       TokensSurviveRestart
  <2>3. boot' \in [at : {"file", "restoring", "failed"}, left : Seq(Entries)]
        /\ boot'.at # "file"
    BY <2>1
  <2> QED
    BY <1>5, <2>1, <2>2, <2>3 DEF ColdInv, ColdTypeOK, SqlInv
<1>8. CASE boot.at # "file" /\ Next /\ UNCHANGED <<sqlVars, bootVars>>
  <2>1. StoreTypeOK' /\ StoreNext /\ \A j \in Keys : Token(j)' >= Token(j)
    BY <1>0, <1>8, CallerStep
  <2>2. fences' = fences /\ boot' = boot
    BY <1>8 DEF bootVars
  <2>3. \A j \in Keys : Token(j)' \in Nat
    BY <2>1 DEF Token, StoreTypeOK, Found, TaskState
  <2>4. \A j \in Keys : fences'[j] <= Token(j)'
    <3>1. ASSUME NEW j \in Keys
          PROVE  fences'[j] <= Token(j)'
      <4>1. fences[j] \in Nat /\ fences[j] <= Token(j) /\ Token(j) \in Nat
            /\ Token(j)' \in Nat /\ Token(j)' >= Token(j)
        BY <1>0, <1>1, <2>1, <2>3
      <4> QED
        BY <2>2, <4>1
    <3> QED
      BY <3>1
  <2>5. TokensSurviveRestart'
    BY <2>4 DEF TokensSurviveRestart, Token
  <2> QED
    BY <1>0, <1>5, <1>8, <2>1, <2>2, <2>5 DEF ColdInv, ColdTypeOK, SqlInv
<1> QED
  BY <1>3, <1>4, <1>6, <1>7, <1>8 DEF ColdNext

\* A step that changes nothing.
LEMMA ColdStutter ==
  ASSUME ColdInv, UNCHANGED coldVars
  PROVE  ColdInv' /\ UNCHANGED storeVars
<1>1. /\ UNCHANGED storeVars /\ UNCHANGED sqlVars /\ UNCHANGED bootVars
  BY DEF coldVars, memVars
<1>2. StoreTypeOK' /\ TokensSurviveRestart' /\ fences' \in [Keys -> Nat]
      /\ boot' \in [at : {"file", "restoring", "failed"}, left : Seq(Entries)]
  BY <1>1 DEF storeVars, bootVars, StoreTypeOK, Found, TokensSurviveRestart,
     ColdInv, ColdTypeOK
<1>3. rows' = rows /\ db' = db /\ columns' = columns /\ writer' = writer
  BY <1>1 DEF sqlVars
<1>4. ASSUME NEW p \in Processes
      PROVE  Opening(p)' /\ Loaded(p)'
  BY <1>3, LoadedKept DEF ColdInv, SqlInv, Opening
<1> QED
  BY <1>1, <1>2, <1>3, <1>4 DEF ColdInv, ColdTypeOK, SqlInv, SqlTypeOK,
     OneWriter, TableWhole

-----------------------------------------------------------------------------
(* Theorems.                                                               *)

\* The types of the file, the handles, the store and the start, and what the
\* lock, the loaded records and the floor are worth, hold throughout.
THEOREM ColdInvariance == ColdSpec => []ColdInv
<1>1. ASSUME ColdInv, [ColdNext]_coldVars
      PROVE  ColdInv'
  BY <1>1, ColdStep, ColdStutter
<1> QED
  BY <1>1, ColdInitial, PTL DEF ColdSpec

\* However many processes open one file at once, none fails on a column that
\* another has added, and an open store finds every column it names
\* (sqlite_schema.go: BEGIN IMMEDIATE before PRAGMA table_info).
THEOREM MigrationIsExclusive == ColdSpec => []MigratesOnce
<1>1. ColdInv => MigratesOnce
  BY DEF ColdInv, SqlInv, Opening, MigratesOnce
<1> QED
  BY <1>1, ColdInvariance, PTL

\* A swap of the SQLite store replaces the very record that was loaded
\* (updateLedgerTask's WHERE clause: rev tells apart what the other columns
\* may not).
THEOREM UpdatesAreNotLost == ColdSpec => NoLostUpdate
<1>1. ASSUME ColdInv, [ColdNext]_coldVars
      PROVE  [boot'.at = "file" => \A k \in Keys : rows'[k] # rows[k] =>
               \E p \in Processes :
                 /\ db[p].at = "loaded" /\ db'[p] # db[p]
                 /\ db[p].key = k /\ db[p].old = Read(k)]_coldVars
  BY <1>1, ColdStep
<1> QED
  BY <1>1, ColdInvariance, PTL DEF ColdSpec, NoLostUpdate

\* A token granted before a snapshot is never granted again by the store it
\* is restored into, whatever that store evicts meanwhile (snapshot.go,
\* store_eviction.go: the fence floor).
THEOREM TokensSurvive == ColdSpec => []TokensSurviveRestart
<1>1. ColdInv => TokensSurviveRestart
  BY DEF ColdInv
<1> QED
  BY <1>1, ColdInvariance, PTL

\* The bounded in-memory store, its eviction loop included, implements the
\* Store contract the ledger is proved over.
THEOREM MemStoreRefines == ColdSpec => ImplementsStore
<1>1. ColdInit => StoreInit
  BY DEF ColdInit, Init
<1>2. ASSUME ColdInv, [ColdNext]_coldVars
      PROVE  [StoreNext]_storeVars
  BY <1>2, ColdStep, ColdStutter
<1> QED
  BY <1>1, <1>2, ColdInvariance, PTL DEF ColdSpec, ImplementsStore, StoreSpec

=============================================================================
