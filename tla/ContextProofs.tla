---------------------------- MODULE ContextProofs ---------------------------
(***************************************************************************)
(* Proofs about module ContextSession and the modules under it, for any    *)
(* sessions, clients, keys, contents, agents and bounds.                   *)
(***************************************************************************)
EXTENDS ContextSession, FiniteSetTheorems, SequenceTheorems,
        WellFoundedInduction, TLAPS

-----------------------------------------------------------------------------
(* Types.                                                                  *)

Revisions == [session : Nat, durable : Nat, source : Nat]

\* "none" stands where a client names a session that is not its own.
Named == Sessions \cup {"none"}

SourceEvents == [seq : Nat, session : Sessions, content : Contents, kind : Kinds]

Records ==
  [session : Named, subject : Principals, retention : {"session", "compliance"},
   revoked : BOOLEAN, data : BOOLEAN]

Entries == [content : Contents, record : Records]

Checkpoints ==
  [session : Named, from : Nat, to : Nat, revision : Revisions, binding : Nat,
   active : Nat, turn : Nat]

Requests ==
  [key : Keys, session : Sessions, expected : Revisions, expectedBinding : Nat,
   events : Seq(SourceEvents), payloads : Seq(Entries), new : Revisions,
   newBinding : Nat, turn : Nat, checkpoint : Checkpoints]

SessionStates ==
  [revision : Revisions, binding : Nat, active : Checkpoints,
   events : Seq(SourceEvents)]

\* What a client has read, built or been answered.
ClientTyped(c) ==
  \/ c = Resting
  \/ c \in [at : {"read"}, session : Sessions, revision : Revisions, binding : Nat]
  \/ c \in [at : {"ready"}, req : Requests]
  \/ c \in [at : {"answered"}, req : Requests,
            answer : {"ok", "conflict", "invalid", "over", "stale"}]

StateTypeOK ==
  /\ payloads \in [Contents -> Records \cup {NoPayload}]
  /\ sessions \in [Sessions -> SessionStates \cup {NoSession}]
  /\ ops \in [Keys -> Requests \cup {NoRequest}]
  /\ DOMAIN client = Clients /\ \A c \in Clients : ClientTyped(client[c])

\* A request is never the mark of an unused key, a session never the mark of
\* an unknown one.
LEMMA MarksApart == NoRequest \notin Requests /\ NoSession \notin SessionStates
<1>1. ASSUME NoRequest \in Requests PROVE FALSE
  BY <1>1 DEF NoRequest, Requests
<1>2. ASSUME NoSession \in SessionStates PROVE FALSE
  BY <1>2 DEF NoSession, SessionStates
<1> QED
  BY <1>1, <1>2

\* Min of two numbers.
LEMMA MinTwo ==
  ASSUME NEW a \in Nat, NEW b \in Nat
  PROVE  /\ Min({a, b}) \in Nat
         /\ a <= b => Min({a, b}) = a
         /\ b <= a => Min({a, b}) = b
<1>1. \E x \in {a, b} : \A y \in {a, b} : x <= y
  OBVIOUS
<1>2. /\ Min({a, b}) \in {a, b}
      /\ \A y \in {a, b} : Min({a, b}) <= y
  BY <1>1 DEF Min
<1> QED
  BY <1>2

\* NewCommitRequest builds a request.
LEMMA BuiltType ==
  ASSUME NEW key \in Keys, NEW s \in Sessions, NEW expected \in Revisions,
         NEW binding \in Nat, NEW newBinding \in Nat,
         NEW events \in Seq(SourceEvents), NEW records \in Seq(Entries)
  PROVE  NewCommitRequest(key, s, expected, binding, events, records, newBinding)
           \in Requests
<1> DEFINE n == expected.source + Len(events)
           new == [session |-> expected.session + 1,
                   durable |-> expected.durable + 1, source |-> n]
<1>1. n \in Nat /\ expected.source + 1 \in Nat /\ Len(events) \in Nat
  BY DEF Revisions
<1>2. new \in Revisions
  BY <1>1 DEF Revisions
<1>3. Min({expected.source + 1, n}) \in Nat
  BY <1>1, MinTwo
<1>4. s \in Named
  BY DEF Named
<1> HIDE DEF new, n
<1>5. [session |-> s, from |-> Min({expected.source + 1, n}),
       to |-> n, revision |-> new, binding |-> newBinding,
       active |-> 1, turn |-> 1] \in Checkpoints
  BY <1>1, <1>2, <1>3, <1>4 DEF Checkpoints
<1> QED
  BY <1>2, <1>5 DEF NewCommitRequest, Requests, new, n

\* What the slips do to the events and the payloads of a request.
LEMMA RenumberedType ==
  ASSUME NEW events \in Seq(SourceEvents)
  PROVE  Renumbered(events) \in Seq(SourceEvents)
<1>1. \A i \in 1..Len(events) : [events[i] EXCEPT !.seq = @ + 1] \in SourceEvents
  <2> TAKE i \in 1..Len(events)
  <2>1. events[i] \in SourceEvents
    OBVIOUS
  <2> HIDE DEF SourceEvents
  <2> QED
    BY <2>1 DEF SourceEvents
<1>2. DOMAIN events = 1..Len(events) /\ Len(events) \in Nat
  OBVIOUS
<1> QED
  BY <1>1, <1>2 DEF Renumbered

\* A client that gives the wrong owner still sends a list of records.
LEMMA DisownedType ==
  ASSUME NEW records \in Seq(Entries)
  PROVE  Disowned(records) \in Seq(Entries) /\ Len(Disowned(records)) = Len(records)
<1>1. \A i \in 1..Len(records) :
        [records[i] EXCEPT !.record.session = NoRequest.key] \in Entries
  <2> TAKE i \in 1..Len(records)
  <2>1. records[i] \in Entries
    OBVIOUS
  <2> QED
    BY <2>1 DEF Entries, Records, Named, NoRequest
<1>2. DOMAIN records = 1..Len(records) /\ Len(records) \in Nat
  OBVIOUS
<1> QED
  BY <1>1, <1>2 DEF Disowned

\* A slip leaves a request a request, and its key, session and expectations
\* alone.
LEMMA SlippedType ==
  ASSUME NEW r \in Requests, NEW slip \in Mistakes
  PROVE  /\ Slipped(r, slip) \in Requests
         /\ Slipped(r, slip).key = r.key
         /\ Slipped(r, slip).session = r.session
         /\ Slipped(r, slip).expected = r.expected
         /\ Slipped(r, slip).expectedBinding = r.expectedBinding
         /\ Len(Slipped(r, slip).payloads) = Len(r.payloads)
<1>1. CASE slip = "none"
  BY <1>1 DEF Slipped
<1>2. CASE slip = "revision"
  <2>1. Slipped(r, slip) = [r EXCEPT !.new.session = @ + 1]
    BY <1>2 DEF Slipped
  <2>2. r.new \in Revisions
    BY DEF Requests
  <2>3. [r.new EXCEPT !.session = @ + 1] \in Revisions
    BY <2>2 DEF Revisions
  <2> HIDE DEF Revisions
  <2> QED
    BY <2>1, <2>3 DEF Requests
<1>3. CASE slip = "sequence"
  BY <1>3, RenumberedType DEF Slipped, Requests
<1>4. CASE slip = "range"
  <2>1. Slipped(r, slip) = [r EXCEPT !.checkpoint.to = @ + 1]
    BY <1>4 DEF Slipped
  <2>2. r.checkpoint \in Checkpoints
    BY DEF Requests
  <2>3. [r.checkpoint EXCEPT !.to = @ + 1] \in Checkpoints
    BY <2>2 DEF Checkpoints
  <2> QED
    BY <2>1, <2>3 DEF Requests
<1>5. CASE slip = "turn"
  BY <1>5 DEF Slipped, Requests
<1>6. CASE slip = "owner"
  BY <1>6, DisownedType DEF Slipped, Requests
<1>7. CASE slip = "foreign"
  BY <1>7 DEF Slipped, Requests, Checkpoints, Named, NoRequest
<1>8. CASE slip = "wide"
  <2>1. Slipped(r, slip) = [r EXCEPT !.checkpoint.from = 0]
    BY <1>8 DEF Slipped
  <2>2. [r.checkpoint EXCEPT !.from = 0] \in Checkpoints
    BY DEF Requests, Checkpoints
  <2> QED
    BY <2>1, <2>2 DEF Requests
<1> QED
  BY <1>1, <1>2, <1>3, <1>4, <1>5, <1>6, <1>7, <1>8 DEF Mistakes

-----------------------------------------------------------------------------
(* Sequences.                                                              *)

\* Where the elements of a concatenation come from.
LEMMA Concat ==
  ASSUME NEW S, NEW a \in Seq(S), NEW b \in Seq(S)
  PROVE  /\ a \o b \in Seq(S) /\ Len(a \o b) = Len(a) + Len(b)
         /\ \A i \in 1..Len(a) : (a \o b)[i] = a[i]
         /\ \A i \in 1..Len(b) : (a \o b)[Len(a) + i] = b[i]
         /\ \A i \in 1..Len(a \o b) \ 1..Len(a) :
              i - Len(a) \in 1..Len(b) /\ (a \o b)[i] = b[i - Len(a)]
  OBVIOUS

\* A part of a sequence is still there when the sequence has grown, and what
\* was appended is the part behind it.
LEMMA ConcatParts ==
  ASSUME NEW S, NEW a \in Seq(S), NEW b \in Seq(S)
  PROVE  /\ \A i \in Nat \ {0} : \A j \in 0..Len(a) :
              SubSeq(a \o b, i, j) = SubSeq(a, i, j)
         /\ SubSeq(a \o b, Len(a) + 1, Len(a) + Len(b)) = b
<1>1. ASSUME NEW i \in Nat \ {0}, NEW j \in 0..Len(a)
      PROVE  SubSeq(a \o b, i, j) = SubSeq(a, i, j)
  BY Concat
<1>2. SubSeq(a \o b, Len(a) + 1, Len(a) + Len(b)) = b
  BY Concat
<1> QED
  BY <1>1, <1>2

-----------------------------------------------------------------------------
(* Commits.                                                                *)

\* What a client has read of a session is its state or an older one.
Behind(s, revision, binding) ==
  IF sessions[s] = NoSession THEN revision = ZeroRevision
  ELSE /\ revision.session <= sessions[s].revision.session
       /\ revision.session = sessions[s].revision.session
            => revision = sessions[s].revision /\ binding = sessions[s].binding

\* A session has moved on since a request was built.
Overtaken(r) ==
  /\ sessions[r.session] # NoSession
  /\ r.expected.session < sessions[r.session].revision.session

\* A request that no sending of it will ever commit.
Refused(r) ==
  \/ ops[r.key] # NoRequest /\ ops[r.key] # r
  \/ ops[r.key] = NoRequest /\ (~ValidCommit(r) \/ OverLimit(r) \/ Overtaken(r))

ClientInv(c) ==
  /\ c.at = "read" => Behind(c.session, c.revision, c.binding)
  /\ c.at \in {"ready", "answered"} =>
       /\ Behind(c.req.session, c.req.expected, c.req.expectedBinding)
       /\ Len(c.req.payloads) <= 1
  /\ c.at = "answered" => IF c.answer = "ok" THEN ops[c.req.key] = c.req
                          ELSE Refused(c.req)

\* SessionIsItsCommits for one session, and what makes it inductive: the
\* requests are valid and end within the log, the newest one at its head.
History(now, s, mine) ==
  /\ Made(now, s, mine)
  /\ now # NoSession =>
       /\ IsFiniteSet(mine)
       /\ \A r \in mine :
            /\ ValidCommit(r) /\ r.new.source <= Len(now.events)
            /\ r.new.session = now.revision.session => r.new = now.revision

StateIInv ==
  /\ StateTypeOK
  /\ \A c \in Clients : ClientInv(client[c])
  /\ \A s \in Sessions : History(sessions[s], s, Committed(s))

\* A commit that Checkpoint takes: the effect of Apply.
Taken(r) ==
  /\ ops[r.key] = NoRequest
  /\ ValidCommit(r) /\ ~OverLimit(r) /\ ~Stale(r)
  /\ ops' = [ops EXCEPT ![r.key] = r]
  /\ sessions' = [sessions EXCEPT ![r.session] =
       [revision |-> r.new, binding |-> r.newBinding,
        active |-> r.checkpoint, events |-> Events(r.session) \o r.events]]

\* Apply either takes the request as a whole or leaves the store as it is.
LEMMA ApplyTakes ==
  ASSUME NEW r \in Requests, Apply(r)
  PROVE  Taken(r) \/ UNCHANGED <<payloads, sessions, ops>>
  BY DEF Apply, Taken, Verdict

\* What a session is after a commit.
LEMMA NewState ==
  ASSUME StateTypeOK, NEW r \in Requests
  PROVE  [revision |-> r.new, binding |-> r.newBinding, active |-> r.checkpoint,
          events |-> Events(r.session) \o r.events] \in SessionStates
<1>1. r.session \in Sessions /\ r.key \in Keys /\ r.new \in Revisions
      /\ r.newBinding \in Nat /\ r.checkpoint \in Checkpoints
      /\ r.events \in Seq(SourceEvents)
  BY DEF Requests
<1>2. Events(r.session) \in Seq(SourceEvents)
  BY <1>1 DEF Events, StateTypeOK, SessionStates
<1> QED
  BY <1>1, <1>2 DEF SessionStates

\* A commit moves its session on and no other, so what was behind stays
\* behind and what was refused stays refused.
LEMMA CommitMoves ==
  ASSUME StateTypeOK, NEW r \in Requests, Taken(r)
  PROVE  /\ sessions'[r.session] # NoSession
         /\ sessions'[r.session].revision = r.new
         /\ r.new.session = r.expected.session + 1
         /\ sessions[r.session] = NoSession => r.expected = ZeroRevision
         /\ sessions[r.session] # NoSession =>
              /\ r.expected = sessions[r.session].revision
              /\ r.expectedBinding = sessions[r.session].binding
         /\ \A s \in Sessions \ {r.session} : sessions'[s] = sessions[s]
<1>1. r.session \in Sessions /\ r.key \in Keys
  BY DEF Requests
<1>2. sessions'[r.session] =
        [revision |-> r.new, binding |-> r.newBinding, active |-> r.checkpoint,
         events |-> Events(r.session) \o r.events]
  BY <1>1 DEF Taken, StateTypeOK
<1>3. sessions'[r.session].revision = r.new
  BY <1>2
<1>4. sessions'[r.session] # NoSession
  BY <1>2, NewState, MarksApart
<1>5. r.new.session = r.expected.session + 1
  BY DEF Taken, ValidCommit, ValidRevision
<1>6. /\ sessions[r.session] = NoSession => r.expected = ZeroRevision
      /\ sessions[r.session] # NoSession =>
           /\ r.expected = sessions[r.session].revision
           /\ r.expectedBinding = sessions[r.session].binding
  BY DEF Taken, Stale
<1>7. \A s \in Sessions \ {r.session} : sessions'[s] = sessions[s]
  BY <1>1 DEF Taken, StateTypeOK
<1> QED
  BY <1>3, <1>4, <1>5, <1>6, <1>7

\* A client that is behind its session stays behind, whatever is taken.
LEMMA BehindStays ==
  ASSUME StateTypeOK, NEW r \in Requests, Taken(r),
         NEW s \in Sessions, NEW revision \in Revisions, NEW binding \in Nat,
         Behind(s, revision, binding)
  PROVE  Behind(s, revision, binding)'
<1>1. CASE s # r.session
  BY <1>1, CommitMoves DEF Behind
<1>2. CASE s = r.session
  <2>1. r.expected.session \in Nat /\ revision.session \in Nat
    BY DEF Requests, Revisions
  <2>2. revision.session <= r.expected.session
    BY <1>2, <2>1, CommitMoves DEF Behind, ZeroRevision
  <2> QED
    BY <1>2, <2>1, <2>2, CommitMoves DEF Behind
<1> QED
  BY <1>1, <1>2

\* A request the store would refuse for good is refused ever after.
LEMMA RefusedStays ==
  ASSUME StateTypeOK, NEW r \in Requests, Taken(r), NEW q \in Requests, Refused(q)
  PROVE  Refused(q)'
<1>1. q.key \in Keys /\ r.key \in Keys /\ q.session \in Sessions
      /\ r.expected.session \in Nat
  BY DEF Requests, Revisions
<1>2. ops'[r.key] = r /\ r # NoRequest
  BY <1>1, MarksApart DEF Taken, StateTypeOK
<1>3. CASE q.key # r.key
  <2>1. ops'[q.key] = ops[q.key]
    BY <1>1, <1>3 DEF Taken, StateTypeOK
  <2>2. (ValidCommit(q) <=> ValidCommit(q)') /\ (OverLimit(q) <=> OverLimit(q)')
    OBVIOUS
  <2>3. Overtaken(q) => Overtaken(q)'
    <3>1. CASE q.session # r.session
      BY <1>1, <3>1, CommitMoves DEF Overtaken
    <3>2. CASE q.session = r.session
      <4>1. q.expected.session \in Nat
        BY DEF Requests, Revisions
      <4> QED
        BY <1>1, <3>2, <4>1, CommitMoves DEF Overtaken
    <3> QED
      BY <3>1, <3>2
  <2> QED
    BY <2>1, <2>2, <2>3 DEF Refused
<1>4. CASE q.key = r.key
  <2>1. ~ValidCommit(q) \/ OverLimit(q) \/ Overtaken(q)
    BY <1>4 DEF Refused, Taken
  <2>2. ~Overtaken(r)
    BY <1>1, CommitMoves DEF Overtaken
  <2>3. q # r
    BY <2>1, <2>2 DEF Taken
  <2> QED
    BY <1>2, <1>4, <2>3 DEF Refused
<1> QED
  BY <1>3, <1>4

\* A commit keeps what every client knows.
LEMMA ClientsKnow ==
  ASSUME StateIInv, NEW r \in Requests, Taken(r), NEW c \in Clients,
         client'[c] = client[c]
  PROVE  ClientInv(client[c])'
<1>1. ClientTyped(client[c]) /\ ClientInv(client[c]) /\ StateTypeOK
  BY DEF StateIInv, StateTypeOK
<1>2. ASSUME client[c].at = "read"
      PROVE  Behind(client[c].session, client[c].revision, client[c].binding)'
  BY <1>1, <1>2, BehindStays DEF ClientTyped, ClientInv, Resting
<1>3. ASSUME client[c].at \in {"ready", "answered"}
      PROVE  /\ client[c].req \in Requests
             /\ Behind(client[c].req.session, client[c].req.expected,
                       client[c].req.expectedBinding)'
             /\ Len(client[c].req.payloads) <= 1
  <2>1. client[c].req \in Requests
    BY <1>1, <1>3 DEF ClientTyped, Resting
  <2>2. /\ client[c].req.session \in Sessions
        /\ client[c].req.expected \in Revisions
        /\ client[c].req.expectedBinding \in Nat
    BY <2>1 DEF Requests
  <2> QED
    BY <1>1, <1>3, <2>1, <2>2, BehindStays DEF ClientInv
<1>4. ASSUME client[c].at = "answered", client[c].answer = "ok"
      PROVE  ops'[client[c].req.key] = client[c].req
  <2>1. client[c].req \in Requests /\ client[c].req # NoRequest
    BY <1>3, <1>4, MarksApart
  <2>2. client[c].req.key \in Keys /\ ops[client[c].req.key] = client[c].req
    BY <1>1, <1>4, <2>1 DEF ClientInv, Requests
  <2> QED
    BY <2>1, <2>2 DEF Taken, StateTypeOK, StateIInv
<1>5. ASSUME client[c].at = "answered", client[c].answer # "ok"
      PROVE  Refused(client[c].req)'
  BY <1>1, <1>3, <1>5, RefusedStays DEF ClientInv
<1> QED
  BY <1>2, <1>3, <1>4, <1>5 DEF ClientInv

\* The requests committed to a session after a commit.
LEMMA CommittedAfter ==
  ASSUME StateTypeOK, NEW r \in Requests, Taken(r), NEW s \in Sessions
  PROVE  Committed(s)' = IF s = r.session THEN Committed(s) \cup {r} ELSE Committed(s)
<1>1. r.key \in Keys /\ r # NoRequest
  BY MarksApart DEF Requests
<1>2. \A k \in Keys : ops'[k] = IF k = r.key THEN r ELSE ops[k]
  BY <1>1 DEF Taken, StateTypeOK
<1>3. ops[r.key] = NoRequest
  BY DEF Taken
<1> QED
  BY <1>1, <1>2, <1>3 DEF Committed

\* A commit is the next entry of its session's history.
LEMMA HistoryGrows ==
  ASSUME StateTypeOK, NEW r \in Requests, Taken(r),
         History(sessions[r.session], r.session, Committed(r.session))
  PROVE  History(sessions[r.session], r.session, Committed(r.session))'
<1> DEFINE s == r.session
           old == Committed(s)
           now == [revision |-> r.new, binding |-> r.newBinding,
                   active |-> r.checkpoint, events |-> Events(s) \o r.events]
           n == r.expected.session
<1>1. /\ s \in Sessions /\ r.key \in Keys /\ r.expected \in Revisions
      /\ r.new \in Revisions /\ r.events \in Seq(SourceEvents)
      /\ n \in Nat
  BY DEF Requests, Revisions
<1>2. /\ ValidCommit(r) /\ r.new.session = n + 1
      /\ r.new.durable = r.expected.durable + 1
      /\ r.new.source = r.expected.source + Len(r.events)
      /\ \A i \in DOMAIN r.events :
           r.events[i].session = s /\ r.events[i].seq = r.expected.source + i
  BY DEF Taken, ValidCommit, ValidRevision, ValidEvents
<1>3. sessions'[s] = now /\ now # NoSession
  BY <1>1, NewState, MarksApart DEF Taken, StateTypeOK
<1>4. Committed(s)' = old \cup {r}
  BY <1>1, CommittedAfter
<1>5. old \subseteq Requests
  BY DEF Committed, StateTypeOK
<1>6. /\ Events(s) \in Seq(SourceEvents)
      /\ Len(Events(s)) = r.expected.source
      /\ r.expected.durable = n
      /\ \A i \in DOMAIN Events(s) : Events(s)[i].seq = i /\ Events(s)[i].session = s
      /\ IsFiniteSet(old) /\ Cardinality(old) = n
      /\ {q.new.session : q \in old} = 1..n
  <2>1. CASE sessions[s] = NoSession
    <3>1. old = {} /\ Events(s) = <<>> /\ r.expected = ZeroRevision
      BY <2>1, CommitMoves DEF History, Made, Events
    <3> QED
      BY <3>1, FS_EmptySet DEF ZeroRevision
  <2>2. CASE sessions[s] # NoSession
    <3>1. r.expected = sessions[s].revision /\ Events(s) = sessions[s].events
      BY <2>2, CommitMoves DEF Events
    <3>2. sessions[s] \in SessionStates
      BY <1>1, <2>2 DEF StateTypeOK
    <3> QED
      BY <2>2, <3>1, <3>2 DEF History, Made, SessionStates
  <2> QED
    BY <2>1, <2>2
<1>7. \A q \in old :
        /\ ValidCommit(q) /\ q.new.source <= Len(Events(s))
        /\ SubSeq(Events(s), q.expected.source + 1, q.new.source) = q.events
        /\ q.new.session = n => q.new = r.expected /\ q.newBinding = r.expectedBinding
        /\ \A p \in old : p.expected.session = q.new.session
             => p.expected = q.new /\ p.expectedBinding = q.newBinding
  <2>1. CASE sessions[s] = NoSession
    BY <2>1 DEF History, Made
  <2>2. CASE sessions[s] # NoSession
    BY <2>2, CommitMoves DEF History, Made, Events
  <2> QED
    BY <2>1, <2>2
<1>8. \A q \in old : /\ q.new.session \in 1..n
                      /\ q.new.session = q.expected.session + 1
                      /\ q.expected.session \in Nat
  BY <1>5, <1>6, <1>7 DEF ValidCommit, ValidRevision, Requests, Revisions
<1>9. r \notin old
  BY <1>1, <1>2, <1>8
<1> HIDE DEF old, s, n
<1>10. /\ IsFiniteSet(old \cup {r}) /\ Cardinality(old \cup {r}) = r.new.session
  <2>1. IsFiniteSet(old) /\ Cardinality(old) = n /\ r.new.session = n + 1
    BY <1>2, <1>6
  <2>2. IsFiniteSet(old \cup {r}) /\ Cardinality(old \cup {r}) = Cardinality(old) + 1
    BY <1>9, <2>1, FS_AddElement
  <2> QED
    BY <2>1, <2>2
<1>11. {q.new.session : q \in old \cup {r}} = 1..r.new.session
  <2>1. {q.new.session : q \in old \cup {r}}
          = {q.new.session : q \in old} \cup {r.new.session}
    OBVIOUS
  <2>2. (1..n) \cup {n + 1} = 1..(n + 1)
    BY <1>1
  <2> QED
    BY <1>2, <1>6, <2>1, <2>2
<1>12. /\ now.events \in Seq(SourceEvents)
       /\ Len(now.events) = r.new.source
       /\ \A i \in DOMAIN now.events :
            now.events[i].seq = i /\ now.events[i].session = s
  <2> DEFINE a == Events(s)
             b == r.events
  <2>1. now.events = a \o b
    OBVIOUS
  <2>2. a \in Seq(SourceEvents) /\ b \in Seq(SourceEvents)
        /\ DOMAIN a = 1..Len(a) /\ DOMAIN b = 1..Len(b) /\ Len(a) \in Nat
        /\ Len(a) = r.expected.source
    BY <1>1, <1>6
  <2>3. \A i \in 1..Len(a) : a[i].seq = i /\ a[i].session = s
    BY <1>6, <2>2
  <2>4. \A i \in 1..Len(b) : b[i].seq = Len(a) + i /\ b[i].session = s
    BY <1>2, <2>2 DEF s
  <2> HIDE DEF a, b, now
  <2>5. /\ a \o b \in Seq(SourceEvents) /\ Len(a \o b) = Len(a) + Len(b)
        /\ DOMAIN (a \o b) = 1..Len(a \o b)
    BY <2>2
  <2>6. ASSUME NEW i \in 1..Len(a \o b)
        PROVE  (a \o b)[i].seq = i /\ (a \o b)[i].session = s
    <3>1. CASE i \in 1..Len(a)
      BY <2>2, <2>3, <3>1, Concat
    <3>2. CASE i \notin 1..Len(a)
      <4>1. i - Len(a) \in 1..Len(b) /\ (a \o b)[i] = b[i - Len(a)]
        BY <2>2, <3>2, Concat
      <4>2. b[i - Len(a)].seq = Len(a) + (i - Len(a)) /\ b[i - Len(a)].session = s
        BY <2>4, <4>1
      <4> QED
        BY <2>2, <2>5, <4>1, <4>2
    <3> QED
      BY <3>1, <3>2
  <2> QED
    BY <1>2, <2>1, <2>2, <2>5, <2>6 DEF b
<1>13. \A q \in old \cup {r} :
         /\ ValidCommit(q) /\ q.new.source <= Len(now.events)
         /\ SubSeq(now.events, q.expected.source + 1, q.new.source) = q.events
  <2>1. ASSUME NEW q \in old
        PROVE  /\ ValidCommit(q) /\ q.new.source <= Len(now.events)
               /\ SubSeq(now.events, q.expected.source + 1, q.new.source) = q.events
    <3>1. q.expected.source \in Nat /\ q.new.source \in Nat
      BY <1>5, <2>1 DEF Requests, Revisions
    <3>2. /\ ValidCommit(q) /\ q.new.source <= Len(Events(s))
          /\ SubSeq(Events(s), q.expected.source + 1, q.new.source) = q.events
      BY <1>7, <2>1
    <3>3. q.new.source \in 0..Len(Events(s)) /\ q.expected.source + 1 \in Nat \ {0}
      BY <1>1, <1>6, <3>1, <3>2 DEF Revisions
    <3>4. SubSeq(Events(s) \o r.events, q.expected.source + 1, q.new.source)
            = SubSeq(Events(s), q.expected.source + 1, q.new.source)
      <4> DEFINE i == q.expected.source + 1
                 j == q.new.source
      <4>1. i \in Nat \ {0} /\ j \in 0..Len(Events(s))
        BY <3>3
      <4> HIDE DEF i, j
      <4>2. SubSeq(Events(s) \o r.events, i, j) = SubSeq(Events(s), i, j)
        BY <1>1, <1>6, <4>1, ConcatParts
      <4> QED
        BY <4>2 DEF i, j
    <3>5. Len(Events(s)) <= Len(Events(s) \o r.events)
          /\ Len(Events(s)) \in Nat /\ Len(Events(s) \o r.events) \in Nat
      BY <1>1, <1>6, Concat
    <3> QED
      BY <3>1, <3>2, <3>4, <3>5
  <2>2. SubSeq(now.events, r.expected.source + 1, r.new.source) = r.events
    <3>1. SubSeq(Events(s) \o r.events, Len(Events(s)) + 1,
                 Len(Events(s)) + Len(r.events)) = r.events
      BY <1>1, <1>6, ConcatParts
    <3> QED
      BY <1>2, <1>6, <3>1
  <2>3. r.new.source <= Len(now.events)
    BY <1>1, <1>12 DEF Revisions
  <2> QED
    BY <1>2, <2>1, <2>2, <2>3
<1>14. \A q \in old \cup {r} :
         /\ q.new.session = r.new.session =>
              /\ q.new = r.new /\ q.checkpoint = r.checkpoint
              /\ q.newBinding = r.newBinding
         /\ \A p \in old \cup {r} : p.expected.session = q.new.session
              => p.expected = q.new /\ p.expectedBinding = q.newBinding
  BY <1>1, <1>2, <1>7, <1>8 DEF n
<1> QED
  <2>1. now.revision = r.new /\ now.active = r.checkpoint
        /\ now.binding = r.newBinding
    OBVIOUS
  <2>2. r.new.durable = r.new.session
    BY <1>2, <1>6
  <2>3. sessions'[r.session] = now /\ Committed(r.session)' = old \cup {r}
    BY <1>3, <1>4 DEF s
  <2>4. \A i \in DOMAIN now.events :
          now.events[i].seq = i /\ now.events[i].session = r.session
    BY <1>12 DEF s
  <2> HIDE DEF now
  <2> QED
    BY <1>3, <2>1, <2>2, <2>3, <2>4, <1>10, <1>11, <1>12, <1>13, <1>14 DEF History, Made

-----------------------------------------------------------------------------
(* Payloads.  The clients' requests carry one payload or none.             *)

\* Written as the recursive function the fold stands for.
LEMMA WrittenFold ==
  ASSUME NEW r
  PROVE  Written(r) =
           (CHOOSE f : f = [s \in SUBSET DOMAIN r.payloads |->
              IF s = {} THEN payloads
              ELSE Stored(f[s \ {Max(s)}], r.payloads[Max(s)].content,
                          r.payloads[Max(s)].record)])[DOMAIN r.payloads]
  BY DEF Written, FoldLeft, MapThenFoldSet

PayloadMaps == [Contents -> Records \cup {NoPayload}]

\* What was revoked stays revoked.
KeepsRevoked(ps, qs) ==
  \A c \in Contents : ps[c] # NoPayload /\ ps[c].revoked
                        => qs[c] # NoPayload /\ qs[c].revoked

\* Storing a payload brings no revoked content back.
LEMMA StoredKeeps ==
  ASSUME NEW ps \in PayloadMaps, NEW c \in Contents, NEW record \in Records
  PROVE  Stored(ps, c, record) \in PayloadMaps
         /\ KeepsRevoked(ps, Stored(ps, c, record))
  BY DEF PayloadMaps, KeepsRevoked, Stored

\* Nor do the payloads of a whole request.
LEMMA WrittenKeeps ==
  ASSUME payloads \in PayloadMaps, NEW r \in Requests, Len(r.payloads) <= 1
  PROVE  Written(r) \in PayloadMaps /\ KeepsRevoked(payloads, Written(r))
<1>2. r.payloads \in Seq(Entries) /\ Len(r.payloads) \in Nat
  BY DEF Requests
<1>5. Len(r.payloads) = 0 \/ Len(r.payloads) = 1
  <2>1. \A n \in Nat : n <= 1 => n = 0 \/ n = 1
    OBVIOUS
  <2> QED
    BY <1>2, <2>1
<1>6. ASSUME Len(r.payloads) = 1
      PROVE  /\ r.payloads[1] \in Entries
             /\ r.payloads[1].content \in Contents
             /\ r.payloads[1].record \in Records
  <2>1. r.payloads[1] \in Entries
    BY <1>2, <1>6
  <2> QED
    BY <2>1 DEF Entries
<1> DEFINE D == DOMAIN r.payloads
           F(f) == [s \in SUBSET D |->
                      IF s = {} THEN payloads
                      ELSE Stored(f[s \ {Max(s)}], r.payloads[Max(s)].content,
                                  r.payloads[Max(s)].record)]
           g == CHOOSE f : f = F(f)
<1>1. Written(r) = g[D]
  BY WrittenFold
<1>3. CASE Len(r.payloads) = 0
  <2>1. D = {}
    BY <1>2, <1>3
  <2> DEFINE h == [s \in SUBSET D |-> payloads]
  <2>2. h = F(h)
    BY <2>1
  <2> HIDE DEF h, D
  <2>3. g = F(g)
    BY <2>2
  <2> HIDE DEF g
  <2>4. g[D] = payloads
    BY <2>1, <2>3
  <2> QED
    BY <1>1, <2>4 DEF KeepsRevoked
<1>4. CASE Len(r.payloads) = 1
  <2> DEFINE p == r.payloads[1]
             w == Stored(payloads, p.content, p.record)
             h == [s \in SUBSET D |-> IF s = {} THEN payloads ELSE w]
  <2>1. D = {1}
    BY <1>2, <1>4
  <2>2. Max({1}) = 1
    BY DEF Max
  <2>3. h = F(h)
    <3>1. \A s \in SUBSET D : s = {} \/ s = {1}
      BY <2>1
    <3>2. h[{}] = payloads /\ {1} \ {Max({1})} = {}
      BY <2>1, <2>2
    <3> HIDE DEF D, w, p
    <3>3. Stored(payloads, r.payloads[1].content, r.payloads[1].record) = w
      BY DEF w, p
    <3>4. ASSUME NEW s \in SUBSET D
          PROVE  (IF s = {} THEN payloads ELSE w) =
                 (IF s = {} THEN payloads
                  ELSE Stored(h[s \ {Max(s)}], r.payloads[Max(s)].content,
                              r.payloads[Max(s)].record))
      BY <2>2, <3>1, <3>2, <3>3
    <3> HIDE DEF h
    <3>5. F(h) = [s \in SUBSET D |-> IF s = {} THEN payloads ELSE w]
      BY <3>4
    <3> QED
      BY <3>5 DEF h
  <2> HIDE DEF h, D, w
  <2>4. g = F(g)
    BY <2>3
  <2> HIDE DEF g
  <2>5. g[{}] = payloads
    BY <2>1, <2>4
  <2>6. g[D] = w
    <3>1. D \ {Max(D)} = {} /\ D # {} /\ D \in SUBSET D /\ Max(D) = 1
      BY <2>1, <2>2
    <3>2. g[D] = Stored(g[D \ {Max(D)}], r.payloads[Max(D)].content,
                        r.payloads[Max(D)].record)
      BY <2>4, <3>1
    <3> QED
      BY <2>5, <3>1, <3>2 DEF w
  <2>7. p \in Entries /\ p.content \in Contents /\ p.record \in Records
    BY <1>4, <1>6
  <2> QED
    BY <1>1, <2>6, <2>7, StoredKeeps DEF w
<1> QED
  BY <1>3, <1>4, <1>5

-----------------------------------------------------------------------------
(* Every step of the store and its clients keeps StateIInv.                *)

\* The parts of StateIInv that speak of the store and not of the clients.
StoreFacts ==
  /\ payloads \in PayloadMaps
  /\ sessions \in [Sessions -> SessionStates \cup {NoSession}]
  /\ ops \in [Keys -> Requests \cup {NoRequest}]
  /\ \A s \in Sessions : History(sessions[s], s, Committed(s))

ClientFacts(c) == ClientTyped(client[c]) /\ ClientInv(client[c])

\* The invariant is about the store and about each client by itself.
LEMMA Parts ==
  StateIInv <=> /\ StoreFacts /\ DOMAIN client = Clients
                /\ \A c \in Clients : ClientFacts(c)
  BY DEF StateIInv, StateTypeOK, StoreFacts, ClientFacts, PayloadMaps

\* The same for the next state.
LEMMA PartsNext ==
  StoreFacts' /\ DOMAIN client' = Clients /\ (\A c \in Clients : ClientFacts(c)')
    => StateIInv'
  BY DEF StateIInv, StateTypeOK, StoreFacts, ClientFacts, PayloadMaps

\* What a client knows depends on sessions, ops and its own state alone.
LEMMA SameClient ==
  ASSUME UNCHANGED <<sessions, ops>>, NEW c \in Clients,
         client'[c] = client[c], ClientFacts(c)
  PROVE  ClientFacts(c)'
  BY DEF ClientFacts, ClientTyped, ClientInv, Behind, Refused, Overtaken

\* The facts of the store do not depend on the payloads' contents.
LEMMA SameStore ==
  ASSUME UNCHANGED <<sessions, ops>>, payloads' \in PayloadMaps, StoreFacts
  PROVE  StoreFacts'
<1>1. \A s \in Sessions : Committed(s)' = Committed(s)
  BY DEF Committed
<1>2. \A s \in Sessions : History(sessions[s], s, Committed(s))'
  BY <1>1 DEF StoreFacts
<1> QED
  BY <1>2 DEF StoreFacts

\* A step of one client that leaves the store alone.
LEMMA OneClient ==
  ASSUME StateIInv, UNCHANGED <<payloads, sessions, ops>>,
         NEW c \in Clients, NEW new,
         client' = [client EXCEPT ![c] = new],
         ClientTyped(new), ClientInv(new)
  PROVE  StateIInv'
<1>1. StoreFacts'
  BY Parts, SameStore DEF StoreFacts
<1>2. DOMAIN client = Clients /\ \A d \in Clients : ClientFacts(d)
  BY Parts
<1>3. ASSUME NEW d \in Clients
      PROVE  ClientFacts(d)'
  <2>1. CASE d # c
    BY <1>2, <2>1, SameClient
  <2>2. CASE d = c
    <3>1. client'[d] = new
      BY <1>2, <2>2
    <3>2. ClientTyped(new)' /\ ClientInv(new)'
      BY DEF ClientTyped, ClientInv, Behind, Refused, Overtaken
    <3> QED
      BY <3>1, <3>2 DEF ClientFacts
  <2> QED
    BY <2>1, <2>2
<1>4. DOMAIN client' = Clients
  BY <1>2
<1> QED
  BY <1>1, <1>3, <1>4, PartsNext

\* A client reads its session.
LEMMA ReadStep ==
  ASSUME StateIInv, NEW c \in Clients, ReadSession(c)
  PROVE  StateIInv'
<1>1. PICK s \in Sessions :
        client' = [client EXCEPT ![c] =
          [at |-> "read", session |-> s,
           revision |-> IF sessions[s] = NoSession THEN ZeroRevision
                        ELSE sessions[s].revision,
           binding |-> IF sessions[s] = NoSession THEN 1 ELSE sessions[s].binding]]
  BY DEF ReadSession
<1> DEFINE revision == IF sessions[s] = NoSession THEN ZeroRevision
                       ELSE sessions[s].revision
           binding == IF sessions[s] = NoSession THEN 1 ELSE sessions[s].binding
           new == [at |-> "read", session |-> s, revision |-> revision,
                   binding |-> binding]
<1>2. revision \in Revisions /\ binding \in Nat
  BY DEF StateIInv, StateTypeOK, SessionStates, ZeroRevision, Revisions
<1>3. Behind(s, revision, binding)
  BY <1>2 DEF Behind, Revisions
<1> HIDE DEF revision, binding
<1>4. ClientTyped(new)
  BY <1>2 DEF ClientTyped
<1>5. ClientInv(new)
  BY <1>3 DEF ClientInv
<1>6. client' = [client EXCEPT ![c] = new]
  BY <1>1 DEF revision, binding
<1>7. UNCHANGED <<payloads, sessions, ops>>
  BY DEF ReadSession
<1> HIDE DEF new
<1> QED
  BY <1>4, <1>5, <1>6, <1>7, OneClient

\* A client makes a request, right or with one of the mistakes.
LEMMA BuildStep ==
  ASSUME StateIInv, NEW c \in Clients, BuildRequest(c)
  PROVE  StateIInv'
<1>1. PICK key \in Keys, slip \in Slips, offer \in Offers,
           with \in BOOLEAN, n \in 0..1, rebind \in 0..1 :
        client' = [client EXCEPT ![c] =
          [at |-> "ready",
           req |-> Slipped(Drafted(client[c], key, offer, with, n, rebind), slip)]]
  BY DEF BuildRequest
<1> DEFINE s == client[c].session
           expected == client[c].revision
           binding == client[c].binding
           event == [seq |-> expected.source + 1, session |-> s,
                     content |-> offer.content, kind |-> offer.kind]
           record == Record(s, CHOOSE u \in Principals : TRUE, "session", FALSE, TRUE)
           events == SubSeq(<<event>>, 1, n)
           records == IF with THEN <<[content |-> offer.content, record |-> record]>>
                      ELSE <<>>
           r == NewCommitRequest(key, s, expected, binding, events, records,
                                 binding + rebind)
           new == [at |-> "ready", req |-> Slipped(r, slip)]
<1>2. client' = [client EXCEPT ![c] = new]
  BY <1>1 DEF Drafted
<1>3. /\ s \in Sessions /\ expected \in Revisions /\ binding \in Nat
      /\ Behind(s, expected, binding)
  <2>1. client[c].at = "read" /\ ClientTyped(client[c]) /\ ClientInv(client[c])
    BY DEF BuildRequest, StateIInv, StateTypeOK
  <2> QED
    BY <2>1 DEF ClientTyped, ClientInv, Resting
<1>4. offer.content \in Contents /\ offer.kind \in Kinds /\ slip \in Mistakes
  BY OffersAssumption
<1>5. event \in SourceEvents
  BY <1>3, <1>4 DEF SourceEvents, Revisions
<1>6. events \in Seq(SourceEvents)
  <2> HIDE DEF event
  <2>1. <<event>> \in Seq(SourceEvents) /\ Len(<<event>>) = 1
    BY <1>5
  <2>2. n = 0 \/ n = 1
    OBVIOUS
  <2>3. SubSeq(<<event>>, 1, 1) \in Seq(SourceEvents)
        /\ SubSeq(<<event>>, 1, 0) \in Seq(SourceEvents)
    BY <2>1
  <2> QED
    BY <2>2, <2>3
<1>7. record \in Records
  <2>1. (CHOOSE u \in Principals : TRUE) \in Principals
    BY ContentAssumption
  <2> QED
    BY <1>3, <2>1 DEF Record, Records, Named
<1>8. records \in Seq(Entries) /\ Len(records) <= 1
  <2> HIDE DEF record
  <2>1. [content |-> offer.content, record |-> record] \in Entries
    BY <1>4, <1>7 DEF Entries
  <2> QED
    BY <2>1
<1>9. binding + rebind \in Nat
  BY <1>3
<1> HIDE DEF events, records, s, expected, binding
<1>10. r \in Requests
  BY <1>3, <1>6, <1>8, <1>9, BuiltType
<1>11. /\ r.session = s /\ r.expected = expected /\ r.expectedBinding = binding
       /\ r.payloads = records
  BY DEF NewCommitRequest
<1> HIDE DEF r
<1>12. /\ Slipped(r, slip) \in Requests
       /\ Slipped(r, slip).session = s
       /\ Slipped(r, slip).expected = expected
       /\ Slipped(r, slip).expectedBinding = binding
       /\ Len(Slipped(r, slip).payloads) <= 1
  BY <1>4, <1>8, <1>10, <1>11, SlippedType
<1>13. ClientTyped(new)
  BY <1>12 DEF ClientTyped
<1>14. ClientInv(new)
  BY <1>3, <1>12 DEF ClientInv
<1>15. UNCHANGED <<payloads, sessions, ops>>
  BY DEF BuildRequest
<1> HIDE DEF new
<1> QED
  BY <1>2, <1>13, <1>14, <1>15, OneClient

\* Sending a request, whatever becomes of the answer.
LEMMA CommitStep ==
  ASSUME StateIInv, NEW c \in Clients, Commit(c)
  PROVE  StateIInv'
<1>1. StoreFacts /\ DOMAIN client = Clients /\ \A d \in Clients : ClientFacts(d)
  BY Parts
<1>2. client[c].at = "ready" /\ client[c].req \in Requests
  BY <1>1 DEF Commit, ClientFacts, ClientTyped, Resting
<1>3. PICK r \in Requests : r = client[c].req
  BY <1>2
<1>4. /\ Len(r.payloads) <= 1 /\ Behind(r.session, r.expected, r.expectedBinding)
      /\ Apply(r)
  BY <1>1, <1>2, <1>3 DEF Commit, ClientFacts, ClientInv
<1>5. r.key \in Keys /\ r.session \in Sessions /\ r # NoRequest
      /\ r.expected \in Revisions /\ r.expectedBinding \in Nat
  BY MarksApart DEF Requests
<1>6. PICK answer \in {"ok", "conflict", "invalid", "over", "stale"} :
        answer = Verdict(r)
  BY DEF Verdict
<1> DEFINE new == [at |-> "answered", req |-> r, answer |-> answer]
<1>7. ClientTyped(new) /\ (client' = [client EXCEPT ![c] = new] \/ client' = client)
  BY <1>3, <1>6 DEF ClientTyped, Commit
\* The answer is true of the store as the call leaves it.
<1>8. answer = "ok" => ops'[r.key] = r
  BY <1>1, <1>4, <1>5, <1>6 DEF Apply, Verdict, StoreFacts
<1>9. answer # "ok" => Refused(r)
  <2>1. ASSUME Stale(r)
        PROVE  Overtaken(r)
    <3>1. sessions[r.session] # NoSession
      BY <1>4, <2>1 DEF Stale, Behind
    <3>2. sessions[r.session] \in SessionStates
      BY <1>1, <1>5, <3>1 DEF StoreFacts
    <3>3. r.expected.session \in Nat /\ sessions[r.session].revision.session \in Nat
      BY <1>5, <3>2 DEF SessionStates, Revisions
    <3> QED
      BY <1>4, <2>1, <3>1, <3>3 DEF Stale, Behind, Overtaken
  <2> QED
    BY <1>6, <2>1 DEF Verdict, Refused
<1>10. CASE ~Taken(r)
  <2>1. UNCHANGED <<payloads, sessions, ops>>
    BY <1>4, <1>10, ApplyTakes
  <2>2. ClientInv(new)
    BY <1>4, <1>8, <1>9, <2>1 DEF ClientInv
  <2>3. CASE client' = [client EXCEPT ![c] = new]
    <3> HIDE DEF new
    <3> QED
      BY <1>7, <2>1, <2>2, <2>3, OneClient
  <2>4. CASE client' = client
    <3>1. StoreFacts'
      BY <1>1, <2>1, SameStore DEF StoreFacts
    <3>2. \A d \in Clients : ClientFacts(d)'
      BY <1>1, <2>1, <2>4, SameClient
    <3> QED
      BY <1>1, <2>4, <3>1, <3>2, PartsNext
  <2> QED
    BY <1>7, <2>3, <2>4
<1>11. CASE Taken(r)
  <2>1. StateTypeOK
    BY DEF StateIInv
  <2>2. payloads' = Written(r) \/ payloads' = payloads
    BY <1>4 DEF Apply
  <2>3. payloads' \in PayloadMaps
    BY <1>1, <1>4, <2>2, WrittenKeeps DEF StoreFacts
  <2>4. /\ sessions' \in [Sessions -> SessionStates \cup {NoSession}]
        /\ ops' \in [Keys -> Requests \cup {NoRequest}]
    BY <1>1, <1>5, <1>11, <2>1, NewState DEF Taken, StoreFacts
  <2>5. ASSUME NEW s \in Sessions
        PROVE  History(sessions[s], s, Committed(s))'
    <3>1. CASE s = r.session
      BY <1>1, <1>11, <2>1, <3>1, HistoryGrows DEF StoreFacts
    <3>2. CASE s # r.session
      <4>1. Committed(s)' = Committed(s) /\ sessions'[s] = sessions[s]
        BY <1>11, <2>1, <3>2, CommittedAfter, CommitMoves
      <4> QED
        BY <1>1, <4>1 DEF StoreFacts
    <3> QED
      BY <3>1, <3>2
  <2>6. StoreFacts'
    BY <2>3, <2>4, <2>5 DEF StoreFacts
  <2>7. ASSUME NEW d \in Clients, client'[d] = client[d]
        PROVE  ClientFacts(d)'
    BY <1>1, <1>11, <2>7, ClientsKnow DEF ClientFacts, ClientTyped
  <2>8. ClientInv(new)'
    <3>1. Behind(r.session, r.expected, r.expectedBinding)'
      BY <1>4, <1>5, <1>11, <2>1, BehindStays
    <3>2. answer = "ok"
      BY <1>6, <1>11 DEF Taken, Verdict
    <3> QED
      BY <1>4, <1>8, <3>1, <3>2 DEF ClientInv
  <2>9. ASSUME NEW d \in Clients
        PROVE  ClientFacts(d)'
    <3>1. client'[d] = client[d] \/ client'[d] = new
      BY <1>1, <1>7
    <3>2. ASSUME client'[d] = new
          PROVE  ClientFacts(d)'
      <4>1. ClientTyped(new)'
        BY <1>7 DEF ClientTyped
      <4> QED
        BY <2>8, <3>2, <4>1 DEF ClientFacts
    <3> QED
      BY <2>7, <3>1, <3>2
  <2>10. DOMAIN client' = Clients
    BY <1>1, <1>7
  <2> QED
    BY <2>6, <2>9, <2>10, PartsNext
<1> QED
  BY <1>10, <1>11

\* A client that has its answer goes on.
LEMMA RestStep ==
  ASSUME StateIInv, NEW c \in Clients, NextRequest(c)
  PROVE  StateIInv'
<1>1. ClientTyped(Resting) /\ ClientInv(Resting)
  BY DEF ClientTyped, ClientInv, Resting
<1> QED
  BY <1>1, OneClient DEF NextRequest

\* A step that leaves sessions, ops and clients alone.
LEMMA PayloadStep ==
  ASSUME StateIInv, UNCHANGED <<sessions, ops, client>>, payloads' \in PayloadMaps
  PROVE  StateIInv'
<1>1. StoreFacts /\ DOMAIN client = Clients /\ \A d \in Clients : ClientFacts(d)
  BY Parts
<1>2. StoreFacts'
  BY <1>1, SameStore
<1>3. \A d \in Clients : ClientFacts(d)'
  BY <1>1, SameClient
<1> QED
  BY <1>1, <1>2, <1>3, PartsNext

\* PutPayload leaves sessions and revocations alone.
LEMMA PutStep ==
  ASSUME StateIInv, NEW c \in Contents, PutPayload(c)
  PROVE  StateIInv' /\ KeepsRevoked(payloads, payloads')
<1>1. payloads \in PayloadMaps
  BY DEF StateIInv, StateTypeOK, PayloadMaps
<1>2. PICK s \in Sessions, u \in Principals, retention \in {"session", "compliance"},
           data \in BOOLEAN :
        payloads' = Stored(payloads, c, Record(s, u, retention, FALSE, data))
  BY DEF PutPayload
<1>3. Record(s, u, retention, FALSE, data) \in Records
  BY DEF Record, Records, Named
<1>4. payloads' \in PayloadMaps /\ KeepsRevoked(payloads, payloads')
  BY <1>1, <1>2, <1>3, StoredKeeps
<1> QED
  BY <1>4, PayloadStep DEF PutPayload

\* Revoke leaves sessions alone and takes no revocation back.
LEMMA RevokeStep ==
  ASSUME StateIInv, NEW c \in Contents, Revoke(c)
  PROVE  StateIInv' /\ KeepsRevoked(payloads, payloads')
<1>1. payloads \in PayloadMaps
  BY DEF StateIInv, StateTypeOK, PayloadMaps
<1>2. payloads[c] \in Records /\ payloads' = [payloads EXCEPT ![c].revoked = TRUE]
  BY <1>1 DEF Revoke, PayloadMaps
<1>3. [payloads[c] EXCEPT !.revoked = TRUE] \in Records
      /\ [payloads[c] EXCEPT !.revoked = TRUE].revoked
  BY <1>2 DEF Records
<1>4. NoPayload \notin Records
  BY DEF NoPayload, Records
<1>5. \A d \in Contents : payloads'[d] =
        IF d = c THEN [payloads[c] EXCEPT !.revoked = TRUE] ELSE payloads[d]
  BY <1>1, <1>2 DEF PayloadMaps
<1>6. payloads' \in PayloadMaps
  BY <1>1, <1>2, <1>3 DEF PayloadMaps
<1>7. KeepsRevoked(payloads, payloads')
  BY <1>3, <1>4, <1>5 DEF KeepsRevoked
<1> QED
  BY <1>6, <1>7, PayloadStep DEF Revoke

\* A step of anyone keeps the store's invariant, and what was revoked stays
\* revoked.
LEMMA StateStep ==
  ASSUME StateIInv, [Next]_vars
  PROVE  StateIInv' /\ KeepsRevoked(payloads, payloads')
<1>1. payloads \in PayloadMaps
  BY DEF StateIInv, StateTypeOK, PayloadMaps
<1>2. KeepsRevoked(payloads, payloads)
  BY DEF KeepsRevoked
<1>3. CASE UNCHANGED stateVars
  BY <1>1, <1>2, <1>3, PayloadStep DEF stateVars
<1>4. ASSUME NEW c \in Clients, ReadSession(c) \/ BuildRequest(c) \/ NextRequest(c)
      PROVE  StateIInv' /\ KeepsRevoked(payloads, payloads')
  <2>1. payloads' = payloads
    BY <1>4 DEF ReadSession, BuildRequest, NextRequest
  <2> QED
    BY <1>2, <1>4, <2>1, ReadStep, BuildStep, RestStep
<1>5. ASSUME NEW c \in Clients, Commit(c)
      PROVE  StateIInv' /\ KeepsRevoked(payloads, payloads')
  <2>1. client[c].req \in Requests /\ Len(client[c].req.payloads) <= 1
    BY <1>5, Parts DEF Commit, ClientFacts, ClientTyped, ClientInv, Resting
  <2>2. payloads' = payloads \/ payloads' = Written(client[c].req)
    BY <1>5 DEF Commit, Apply
  <2> QED
    BY <1>1, <1>2, <1>5, <2>1, <2>2, WrittenKeeps, CommitStep
<1>6. CASE StateNext
  BY <1>4, <1>5, <1>6, PutStep, RevokeStep DEF StateNext, ClientStep
<1>7. (SpoolNext /\ UNCHANGED stateVars) \/ PlanNext => UNCHANGED stateVars
  BY DEF PlanNext, PlanBegin, PlanMissing, PlanDenied, PlanStatus, PlanReasoning,
         PlanKeep, PlanElide, PlanGrant, PlanAgain
<1> QED
  BY <1>3, <1>6, <1>7 DEF Next, vars

\* The invariant holds of the empty store.
LEMMA InitStateIInv == Init => StateIInv
<1> SUFFICES ASSUME Init PROVE StateIInv
  OBVIOUS
<1>1. payloads \in PayloadMaps
  BY DEF Init, StateInit, PayloadMaps
<1>2. StateTypeOK
  BY <1>1 DEF Init, StateInit, StateTypeOK, PayloadMaps, ClientTyped
<1>3. \A c \in Clients : ClientInv(client[c])
  BY DEF Init, StateInit, ClientInv, Resting
<1>4. \A s \in Sessions : History(sessions[s], s, Committed(s))
  BY DEF Init, StateInit, History, Made, Committed
<1> QED
  BY <1>2, <1>3, <1>4 DEF StateIInv

\* The inductive invariant of the store holds in every reachable state: what
\* Apply took is what sessions hold, and a client knows no more than that.
THEOREM StoreInvariance == Spec => []StateIInv
<1>1. StateIInv /\ [Next]_vars => StateIInv'
  BY StateStep
<1> QED
  BY <1>1, InitStateIInv, PTL DEF Spec

\* AnswersAreTruthful: an answer that reaches a client says whether its request
\* is in the store, for any clients, keys and commits, lost answers included
\* (contextstate/store.go Checkpoint).
THEOREM TruthfulAnswers == Spec => []AnswersAreTruthful
<1>1. StateIInv => AnswersAreTruthful
  <2> SUFFICES ASSUME StateIInv, NEW c \in Clients, client[c].at = "answered"
               PROVE  client[c].answer = "ok"
                        <=> ops[client[c].req.key] = client[c].req
    BY DEF AnswersAreTruthful
  <2>1. client[c].req \in Requests
    BY DEF StateIInv, StateTypeOK, ClientTyped, Resting
  <2>2. client[c].req # NoRequest
    BY <2>1, MarksApart
  <2> QED
    BY <2>2 DEF StateIInv, ClientInv, Refused
<1> QED
  BY <1>1, StoreInvariance, PTL

\* SessionIsItsCommits: a session is its committed operations, each once and on
\* top of the one it expected, for any number of clients, keys and sessions
\* (contextstate/store.go Checkpoint, sessionFor).
THEOREM SessionsAreCommits == Spec => []SessionIsItsCommits
<1>1. StateIInv => SessionIsItsCommits
  BY DEF StateIInv, SessionIsItsCommits, History
<1> QED
  BY <1>1, StoreInvariance, PTL

-----------------------------------------------------------------------------
(* Pages.  The offset a reader is told ends what it has read, and only the *)
(* end of the content ends the reading; blobs and grants come and go.      *)

Readers ==
  [at : {"holding", "loading"}, ref : Contents, got : SUBSET Int, told : Nat,
   done : BOOLEAN]

AgentTyped(x) ==
  \/ x = Idle
  \/ x \in [at : {"grant"}, ref : Contents, expires : {"never", "live"}]
  \/ x \in Readers

ReadSoFar(x) ==
  /\ x.told <= Size[x.ref]
  /\ x.got = 0..(x.told - 1)
  /\ x.done => x.told = Size[x.ref]

AgentInv(a, x) ==
  /\ AgentTyped(x)
  /\ x.at \in {"holding", "loading"} /\ a \notin ThroughLoop => ReadSoFar(x)

SpoolIInv ==
  DOMAIN agent = Agents /\ \A a \in Agents : AgentInv(a, agent[a])

\* A page ends within the content, at or behind where it began.
LEMMA PageEnds ==
  ASSUME NEW c \in Contents, NEW offset \in Nat, NEW limit \in Nat
  PROVE  /\ PageEnd(c, offset, limit) \in Nat
         /\ PageEnd(c, offset, limit) <= Size[c]
         /\ offset <= Size[c] => offset <= PageEnd(c, offset, limit)
<1> DEFINE step == IF limit = 0 \/ limit > MaxPageBytes THEN MaxPageBytes ELSE limit
<1>1. step \in Nat /\ offset + step \in Nat /\ offset <= offset + step
      /\ Size[c] \in Nat
  BY SpoolAssumption, ContentAssumption
<1>2. PageEnd(c, offset, limit) = Min({Size[c], offset + step})
  BY DEF PageEnd
<1> HIDE DEF step
<1> QED
  BY <1>1, <1>2, MinTwo

\* What a reader has seen ends where its page ended, unless the loop cut it.
LEMMA SeenEnds ==
  ASSUME NEW a \in Agents, NEW offset \in Nat, NEW end \in Nat, NEW length
  PROVE  /\ SeenEnd(a, offset, end, length) \in Nat
         /\ a \notin ThroughLoop => SeenEnd(a, offset, end, length) = end
<1> DEFINE room == IF MaxPageBytes < MarkerBytes THEN MaxPageBytes
                   ELSE MaxPageBytes - MarkerBytes
<1>1. room \in Nat /\ offset + room \in Nat
  BY SpoolAssumption
<1>2. SeenEnd(a, offset, end, length)
        = IF Cut(a, length) THEN Min({end, offset + room}) ELSE end
  BY DEF SeenEnd
<1> HIDE DEF room
<1>3. a \notin ThroughLoop => ~Cut(a, length)
  BY DEF Cut
<1> QED
  BY <1>1, <1>2, <1>3, MinTwo

\* What an agent holds after one more page.
LEMMA NextPage ==
  ASSUME NEW a \in Agents, NEW x \in Readers, AgentInv(a, x), x.at = "loading",
         NEW limit \in Nat, NEW end, NEW seen, NEW length, NEW done \in BOOLEAN,
         end = PageEnd(x.ref, x.told, limit),
         seen = SeenEnd(a, x.told, end, length),
         a \notin ThroughLoop /\ done => ~(end < Size[x.ref])
  PROVE  AgentInv(a, Holding(x.ref, x.got \union x.told..(seen - 1), end, done))
<1> DEFINE y == Holding(x.ref, x.got \union x.told..(seen - 1), end, done)
<1>1. x.ref \in Contents /\ x.told \in Nat /\ x.got \in SUBSET Int
      /\ Size[x.ref] \in Nat
  BY ContentAssumption DEF Readers
<1>2. end \in Nat /\ end <= Size[x.ref] /\ (x.told <= Size[x.ref] => x.told <= end)
  BY <1>1, PageEnds
<1>3. seen \in Nat /\ (a \notin ThroughLoop => seen = end)
  BY <1>1, <1>2, SeenEnds
<1>4. y \in Readers
  BY <1>1, <1>2, <1>3 DEF Holding, Readers
<1>5. ASSUME a \notin ThroughLoop
      PROVE  ReadSoFar(y)
  <2>1. x.told <= end /\ x.got = 0..(x.told - 1)
    BY <1>2, <1>5 DEF AgentInv, ReadSoFar
  <2>2. x.got \union x.told..(end - 1) = 0..(end - 1)
    BY <1>1, <1>2, <2>1
  <2>3. done => end = Size[x.ref]
    BY <1>1, <1>2, <1>5
  <2> QED
    BY <1>2, <1>3, <1>5, <2>2, <2>3 DEF ReadSoFar, Holding
<1> QED
  BY <1>4, <1>5 DEF AgentInv, AgentTyped

\* Every step keeps the pages of every reader together.
LEMMA SpoolStep ==
  ASSUME SpoolIInv, [Next]_vars
  PROVE  SpoolIInv'
<1>1. CASE UNCHANGED agent
  BY <1>1 DEF SpoolIInv
<1>2. ASSUME NEW a \in Agents, NEW new, AgentInv(a, new),
             agent' = [agent EXCEPT ![a] = new]
      PROVE  SpoolIInv'
  BY <1>2 DEF SpoolIInv
<1>3. \A a \in Agents : AgentInv(a, Idle)
  BY DEF AgentInv, AgentTyped, Idle
<1>4. \A a \in Agents, c \in Contents : AgentInv(a, Holding(c, {}, 0, FALSE))
  <2> TAKE a \in Agents, c \in Contents
  <2>1. Size[c] \in Nat
    BY ContentAssumption
  <2> QED
    BY <2>1 DEF AgentInv, AgentTyped, ReadSoFar, Holding, Readers
<1>5. ASSUME NEW a \in Agents, RunSpoolTool(a)
      PROVE  SpoolIInv'
  <2>1. PICK c \in Contents, expires \in {"never", "live"} :
          agent' = [agent EXCEPT ![a] = [at |-> "grant", ref |-> c, expires |-> expires]]
    BY <1>5 DEF RunSpoolTool
  <2>2. AgentInv(a, [at |-> "grant", ref |-> c, expires |-> expires])
    BY DEF AgentInv, AgentTyped
  <2> QED
    BY <1>2, <2>1, <2>2
<1>6. ASSUME NEW a \in Agents, FinishSpool(a)
      PROVE  SpoolIInv'
  <2>1. agent[a].ref \in Contents
    BY <1>6 DEF FinishSpool, SpoolIInv, AgentInv, AgentTyped, Idle, Readers
  <2>2. \/ agent' = [agent EXCEPT ![a] = Idle]
        \/ agent' = [agent EXCEPT ![a] = Holding(agent[a].ref, {}, 0, FALSE)]
    BY <1>6 DEF FinishSpool
  <2> QED
    BY <1>2, <1>3, <1>4, <2>1, <2>2
<1>7. ASSUME NEW a \in Agents, TakeRef(a)
      PROVE  SpoolIInv'
  BY <1>2, <1>4, <1>7 DEF TakeRef
<1>8. ASSUME NEW a \in Agents, LoadGrant(a)
      PROVE  SpoolIInv'
  <2>1. agent[a] \in Readers /\ AgentInv(a, agent[a])
    BY <1>8 DEF LoadGrant, SpoolIInv, AgentInv, AgentTyped, Idle
  <2>2. AgentInv(a, [agent[a] EXCEPT !.at = "loading"])
    BY <2>1 DEF AgentInv, AgentTyped, ReadSoFar, Readers
  <2>3. \/ agent' = [agent EXCEPT ![a] = Idle]
        \/ agent' = [agent EXCEPT ![a] = [agent[a] EXCEPT !.at = "loading"]]
    BY <1>8 DEF LoadGrant
  <2> QED
    BY <1>2, <1>3, <2>2, <2>3
<1>9. ASSUME NEW a \in Agents, ReadPage(a)
      PROVE  SpoolIInv'
  <2>1. /\ agent[a] \in Readers /\ AgentInv(a, agent[a]) /\ agent[a].at = "loading"
    BY <1>9 DEF ReadPage, SpoolIInv, AgentInv, AgentTyped, Idle
  <2> DEFINE c == agent[a].ref
             offset == agent[a].told
             end(limit) == PageEnd(c, offset, limit)
             more(limit) == end(limit) < Size[c]
             length(limit) == (end(limit) - offset)
                                + (IF more(limit) THEN MarkerBytes ELSE 0)
             seen(limit) == SeenEnd(a, offset, end(limit), length(limit))
  <2>2. CASE agent' = [agent EXCEPT ![a] = Idle]
    BY <1>2, <1>3, <2>2
  <2>3. CASE \E limit \in 0..MaxPageBytes :
               agent' = [agent EXCEPT ![a] =
                 Holding(c, agent[a].got \union offset..(seen(limit) - 1), end(limit),
                         ~more(limit) \/ Cut(a, length(limit)))]
    <3>1. PICK limit \in 0..MaxPageBytes :
               agent' = [agent EXCEPT ![a] =
                 Holding(c, agent[a].got \union offset..(seen(limit) - 1), end(limit),
                         ~more(limit) \/ Cut(a, length(limit)))]
      BY <2>3
    <3>2. limit \in Nat /\ (a \notin ThroughLoop => ~Cut(a, length(limit)))
      BY SpoolAssumption DEF Cut
    <3> DEFINE done == ~more(limit) \/ Cut(a, length(limit))
    <3>3. done \in BOOLEAN /\ (a \notin ThroughLoop /\ done => ~(end(limit) < Size[c]))
      BY <3>2
    <3>4. AgentInv(a, Holding(c, agent[a].got \union offset..(seen(limit) - 1),
                              end(limit), done))
      <4> HIDE DEF done
      <4> QED
        BY <2>1, <3>2, <3>3, NextPage
    <3> QED
      BY <1>2, <3>1, <3>4
  <2> QED
    BY <1>9, <2>2, <2>3 DEF ReadPage
<1>10. ASSUME NEW a \in Agents, LetGo(a)
       PROVE  SpoolIInv'
  BY <1>2, <1>3, <1>10 DEF LetGo
<1>11. ASSUME NEW c \in Contents, ExpireGrant(c)
       PROVE  UNCHANGED agent
  BY <1>11 DEF ExpireGrant
<1>12. PlanNext => UNCHANGED agent
  BY DEF PlanNext, PlanBegin, PlanMissing, PlanDenied, PlanStatus, PlanReasoning,
         PlanKeep, PlanElide, PlanGrant, PlanAgain, spoolVars
<1> QED
  BY <1>1, <1>5, <1>6, <1>7, <1>8, <1>9, <1>10, <1>11, <1>12
     DEF Next, vars, spoolVars, SpoolNext, AgentStep

\* PagesCoverContent: a reader that follows the offsets its pages name misses no
\* byte and reads none twice, for any contents, page sizes and budgets, whatever
\* is evicted, spooled again or expires between two pages (memory/readtool.go Run).
THEOREM PagesCover == Spec => []PagesCoverContent
<1>1. Init => SpoolIInv
  BY DEF Init, SpoolInit, SpoolIInv, AgentInv, AgentTyped, Idle
<1>2. SpoolIInv /\ [Next]_vars => SpoolIInv'
  BY SpoolStep
<1>3. SpoolIInv => PagesCoverContent
  BY DEF SpoolIInv, AgentInv, ReadSoFar, PagesCoverContent
<1> QED
  BY <1>1, <1>2, <1>3, PTL DEF Spec

-----------------------------------------------------------------------------
(* What a plan charges.                                                    *)

\* Induction over the numbers in a set.
LEMMA InductionInSet ==
  ASSUME NEW P, 0 \in P, \A n \in Nat : n \in P => n + 1 \in P
  PROVE  \A n \in Nat : n \in P
<1> DEFINE R == OpToRel(<, Nat)
           T == Nat \ P
<1>1. IsWellFoundedOn(R, Nat)
  BY NatLessThanWellFounded
<1>2. ASSUME NEW x \in Nat, NEW y \in Nat, y < x
      PROVE  <<y, x>> \in R
  BY <1>2, Zenon DEF OpToRel
<1> HIDE DEF R
<1>3. ASSUME T # {}
      PROVE  FALSE
  <2>1. PICK x \in T : \A y \in T : ~(<<y, x>> \in R)
    BY <1>1, <1>3, WFMin
  <2>2. x \in Nat /\ x # 0 /\ x - 1 \in Nat /\ x - 1 < x
    OBVIOUS
  <2>3. x - 1 \notin T
    BY <1>2, <2>1, <2>2
  <2>4. (x - 1) + 1 \in P
    BY <2>2, <2>3
  <2> QED
    BY <2>2, <2>4
<1> QED
  BY <1>3

Msgs == [i : Nat, size : Nat, full : BOOLEAN]

\* The recursion behind Charge has a solution, and it counts in Nat.
LEMMA ChargeUnfolds ==
  ASSUME NEW msgs \in Seq(Msgs)
  PROVE  /\ ChargeOfLast(msgs) \in [0..Len(msgs) -> Nat]
         /\ ChargeOfLast(msgs)[0] = 0
         /\ \A n \in 1..Len(msgs) :
              ChargeOfLast(msgs)[n]
                = ChargeOfLast(msgs)[n - 1] + msgs[Len(msgs) + 1 - n].size
<1> DEFINE L == Len(msgs)
           size(n) == msgs[L + 1 - n].size
           Sums(f, n) == /\ f \in [0..n -> Nat]
                         /\ f = [k \in 0..n |-> IF k = 0 THEN 0
                                                ELSE f[k - 1] + size(k)]
           P == {n \in Nat : n <= L => \E f : Sums(f, n)}
<1>1. L \in Nat /\ \A n \in 1..L : size(n) \in Nat
  <2>1. L \in Nat
    OBVIOUS
  <2>2. ASSUME NEW n \in 1..L
        PROVE  size(n) \in Nat
    <3>1. L + 1 - n \in 1..L
      BY <2>1
    <3>2. msgs[L + 1 - n] \in Msgs
      BY <3>1
    <3> QED
      BY <3>2 DEF Msgs
  <2> QED
    BY <2>1, <2>2
<1> HIDE DEF L, size
<1>2. 0 \in P
  <2>1. Sums([k \in 0..0 |-> 0], 0)
    OBVIOUS
  <2> QED
    BY <2>1
<1>3. ASSUME NEW n \in Nat, n \in P
      PROVE  n + 1 \in P
  <2>1. SUFFICES ASSUME n + 1 <= L
                 PROVE  \E f : Sums(f, n + 1)
    OBVIOUS
  <2>2. \E f : Sums(f, n)
    <3>1. n <= L
      BY <1>1, <2>1
    <3> HIDE DEF Sums
    <3> QED
      BY <1>3, <3>1
  <2>3. PICK f : Sums(f, n)
    BY <2>2
  <2> DEFINE g == [k \in 0..(n + 1) |-> IF k = n + 1 THEN f[n] + size(n + 1) ELSE f[k]]
  <2>4. size(n + 1) \in Nat /\ f[n] \in Nat
    BY <1>1, <2>1, <2>3
  <2>5. g \in [0..(n + 1) -> Nat]
    BY <2>3, <2>4
  <2>6. ASSUME NEW k \in 0..(n + 1)
        PROVE  g[k] = IF k = 0 THEN 0 ELSE g[k - 1] + size(k)
    <3>1. CASE k = n + 1
      BY <3>1
    <3>2. CASE k # n + 1
      <4>1. k \in 0..n
        BY <3>2
      <4>2. f[k] = IF k = 0 THEN 0 ELSE f[k - 1] + size(k)
        BY <2>3, <4>1
      <4> QED
        BY <3>2, <4>1, <4>2
    <3> QED
      BY <3>1, <3>2
  <2> HIDE DEF g
  <2>7. Sums(g, n + 1)
    BY <2>5, <2>6
  <2> QED
    BY <2>7
<1>4. \A n \in Nat : n \in P
  <2> HIDE DEF P
  <2> QED
    BY <1>2, <1>3, InductionInSet
<1>5. PICK f : Sums(f, L)
  <2> HIDE DEF Sums
  <2>1. L <= L
    BY <1>1
  <2>2. L \in P
    <3> HIDE DEF P
    <3> QED
      BY <1>1, <1>4
  <2> QED
    BY <2>1, <2>2
<1> DEFINE F(h) == [k \in 0..L |-> IF k = 0 THEN 0 ELSE h[k - 1] + size(k)]
           g == CHOOSE h : h = F(h)
<1>6. ChargeOfLast(msgs) = g
  BY DEF ChargeOfLast, L, size
<1>7. f = F(f)
  BY <1>5
<1>8. g = F(g)
  BY <1>7
<1> HIDE DEF g
<1>9. DOMAIN g = 0..L /\ g[0] = 0 /\ \A n \in 1..L : g[n] = g[n - 1] + size(n)
  BY <1>1, <1>8
<1> DEFINE Q == {n \in Nat : n <= L => g[n] \in Nat}
<1>10. \A n \in Nat : n \in Q
  <2>1. 0 \in Q
    BY <1>9
  <2>2. ASSUME NEW n \in Nat, n \in Q
        PROVE  n + 1 \in Q
    BY <1>1, <1>9, <2>2
  <2> HIDE DEF Q
  <2> QED
    BY <2>1, <2>2, InductionInSet
<1>11. g \in [0..L -> Nat]
  <2>1. g = [k \in 0..L |-> g[k]]
    BY <1>8
  <2> QED
    BY <1>1, <1>10, <2>1
<1> QED
  BY <1>6, <1>9, <1>11 DEF L, size

\* No message is charged nothing.
LEMMA ChargeEmpty == Charge(<<>>) = 0
<1>1. <<>> \in Seq(Msgs) /\ Len(<<>>) = 0
  OBVIOUS
<1> QED
  BY <1>1, ChargeUnfolds DEF Charge

\* A message put in front is charged on top of the others.
LEMMA ChargePrepend ==
  ASSUME NEW msgs \in Seq(Msgs), NEW m \in Msgs
  PROVE  /\ Charge(msgs) \in Nat
         /\ Charge(<<m>> \o msgs) = Charge(msgs) + m.size
<1> DEFINE L == Len(msgs)
           more == <<m>> \o msgs
           f == ChargeOfLast(msgs)
           g == ChargeOfLast(more)
           P == {n \in Nat : n <= L => g[n] = f[n]}
<1>1. /\ L \in Nat /\ more \in Seq(Msgs) /\ Len(more) = L + 1 /\ more[1] = m
      /\ \A n \in 1..L : more[n + 1] = msgs[n]
  OBVIOUS
<1> HIDE DEF more
<1>3. /\ f \in [0..L -> Nat] /\ f[0] = 0
      /\ \A n \in 1..L : f[n] = f[n - 1] + msgs[L + 1 - n].size
  BY ChargeUnfolds
<1>4. /\ g[0] = 0
      /\ \A n \in 1..(L + 1) : g[n] = g[n - 1] + more[(L + 1) + 1 - n].size
  BY <1>1, ChargeUnfolds
<1> HIDE DEF f, g, L
<1>5. ASSUME NEW n \in Nat, n \in P
      PROVE  n + 1 \in P
  <2>1. SUFFICES ASSUME n + 1 <= L
                 PROVE  g[n + 1] = f[n + 1]
    OBVIOUS
  <2>2. g[n] = f[n] /\ n + 1 \in 1..L /\ n + 1 \in 1..(L + 1) /\ L - n \in 1..L
    BY <1>1, <1>5, <2>1
  <2>3. f[n + 1] = f[n] + msgs[L - n].size
    <3>1. f[n + 1] = f[(n + 1) - 1] + msgs[L + 1 - (n + 1)].size
      BY <1>3, <2>2
    <3>2. (n + 1) - 1 = n /\ L + 1 - (n + 1) = L - n
      BY <1>1
    <3> QED
      BY <3>1, <3>2
  <2>4. g[n + 1] = g[n] + more[(L - n) + 1].size
    <3>1. g[n + 1] = g[(n + 1) - 1] + more[(L + 1) + 1 - (n + 1)].size
      BY <1>4, <2>2
    <3>2. (n + 1) - 1 = n /\ (L + 1) + 1 - (n + 1) = (L - n) + 1
      BY <1>1
    <3> QED
      BY <3>1, <3>2
  <2> QED
    BY <1>1, <2>2, <2>3, <2>4
<1>6. \A n \in Nat : n \in P
  <2>1. 0 \in P
    BY <1>3, <1>4
  <2> HIDE DEF P
  <2> QED
    BY <1>5, <2>1, InductionInSet
<1>7. g[L] = f[L] /\ f[L] \in Nat
  BY <1>1, <1>3, <1>6
<1>8. g[L + 1] = g[L] + m.size
  <2>1. L + 1 \in 1..(L + 1) /\ (L + 1) - 1 = L /\ (L + 1) + 1 - (L + 1) = 1
    BY <1>1
  <2>2. g[L + 1] = g[(L + 1) - 1] + more[(L + 1) + 1 - (L + 1)].size
    BY <1>4, <2>1
  <2> QED
    BY <1>1, <2>1, <2>2
<1> QED
  BY <1>1, <1>7, <1>8 DEF Charge, f, g, L, more

-----------------------------------------------------------------------------
(* Plans.                                                                  *)

Reasons == {"revoked", "reasoning", "overflow", "retention"}

Elisions == [i : Nat, reason : Reasons, kept : Nat, spooled : BOOLEAN]

Pendings == [content : Contents, principal : Principals, elision : Elisions]

Plans ==
  [at : {"event", "status", "grant"}, src : Seq(SourceEvents), i : Nat,
   msgs : Seq(Msgs), elided : Seq(Elisions), over : BOOLEAN,
   pending : Pendings \cup {{}}, denied : SUBSET Contents]

StubIn(msgs) == {m.i : m \in {n \in Range(msgs) : ~n.full}}

ElidedIn(elided) == {e.i : e \in Range(elided)}

KeptIn(es) == {e.i : e \in {d \in es : d.reason = "retention"}}

Ordered(msgs) == \A j, k \in DOMAIN msgs : j < k => msgs[j].i < msgs[k].i

\* What a plan has done with the events behind p.i.  es: the elision of event
\* p.i itself, when its message is there and the elision is not.
Accounted(p, es) ==
  /\ p.i <= Len(p.src)
  /\ FullIn(p.msgs) \cup ElidedIn(p.elided) = (p.i + 1)..Len(p.src)
  /\ FullIn(p.msgs) \cap ElidedIn(p.elided) = {}
  /\ IsFiniteSet(ElidedIn(p.elided))
  /\ Len(p.elided) = Cardinality(ElidedIn(p.elided))
  /\ StubIn(p.msgs) = KeptIn(Range(p.elided) \cup es)
  /\ Ordered(p.msgs)
  /\ \A e \in Range(p.elided) :
       e.reason \in ForRoom => p.over /\ \A i \in FullIn(p.msgs) : e.i < i
  /\ \A m \in Range(p.msgs) : p.src[m.i].kind # "reasoning"
                               /\ p.src[m.i].content \notin p.denied
  /\ Charge(p.msgs) <= Budget

PlanInv(p) ==
  \/ p = Unplanned
  \/ p \in Plans /\ p.at = "event" /\ Accounted(p, {})
  \/ p \in Plans /\ p.at = "status" /\ p.i > 0 /\ Accounted(p, {})
  \/ /\ p \in Plans /\ p.at = "grant" /\ p.i > 0 /\ p.pending \in Pendings
     /\ p.over /\ p.pending.elision.i = p.i
     /\ Accounted(p, {p.pending.elision})

PlanIInv ==
  /\ PlanInv(plan)
  /\ plan # Unplanned => \A c \in plan.denied : Revoked(c)

\* A sequence with an element put in front, or behind.
LEMMA Prepend ==
  ASSUME NEW S, NEW x \in S, NEW s \in Seq(S)
  PROVE  /\ <<x>> \o s \in Seq(S)
         /\ Range(<<x>> \o s) = {x} \cup Range(s)
         /\ DOMAIN (<<x>> \o s) = 1..(Len(s) + 1)
         /\ (<<x>> \o s)[1] = x
         /\ \A i \in 1..Len(s) : (<<x>> \o s)[i + 1] = s[i]
<1> DEFINE t == <<x>> \o s
<1>1. /\ t \in Seq(S) /\ Len(s) \in Nat /\ DOMAIN t = 1..(Len(s) + 1)
      /\ DOMAIN s = 1..Len(s)
      /\ t[1] = x /\ \A i \in 1..Len(s) : t[i + 1] = s[i]
  OBVIOUS
<1> HIDE DEF t
<1>2. Range(t) \subseteq {x} \cup Range(s)
  <2> SUFFICES ASSUME NEW i \in 1..(Len(s) + 1)
               PROVE  t[i] \in {x} \cup Range(s)
    BY <1>1 DEF Range
  <2>1. CASE i = 1
    BY <1>1, <2>1
  <2>2. CASE i # 1
    <3>1. i - 1 \in 1..Len(s) /\ t[(i - 1) + 1] = s[i - 1] /\ (i - 1) + 1 = i
      BY <1>1, <2>2
    <3> QED
      BY <1>1, <3>1 DEF Range
  <2> QED
    BY <2>1, <2>2
<1>3. {x} \cup Range(s) \subseteq Range(t)
  <2>1. 1 \in DOMAIN t /\ \A i \in DOMAIN s : i + 1 \in DOMAIN t /\ t[i + 1] = s[i]
    BY <1>1
  <2> QED
    BY <1>1, <2>1 DEF Range
<1> QED
  BY <1>1, <1>2, <1>3 DEF t

\* A sequence and what one more element makes of it.
LEMMA AppendRange ==
  ASSUME NEW S, NEW x \in S, NEW s \in Seq(S)
  PROVE  /\ Append(s, x) \in Seq(S) /\ Len(Append(s, x)) = Len(s) + 1
         /\ Range(Append(s, x)) = Range(s) \cup {x}
<1> DEFINE t == Append(s, x)
<1>1. /\ t \in Seq(S) /\ Len(s) \in Nat /\ Len(t) = Len(s) + 1
      /\ DOMAIN t = 1..(Len(s) + 1)
      /\ DOMAIN s = 1..Len(s)
      /\ t[Len(s) + 1] = x /\ \A i \in 1..Len(s) : t[i] = s[i]
  OBVIOUS
<1> HIDE DEF t
<1>2. \A i \in DOMAIN t : t[i] \in Range(s) \cup {x}
  <2> TAKE i \in DOMAIN t
  <2>1. i \in DOMAIN s \/ i = Len(s) + 1
    BY <1>1
  <2> QED
    BY <1>1, <2>1 DEF Range
<1>3. Range(s) \cup {x} \subseteq Range(t)
  <2>1. Len(s) + 1 \in DOMAIN t /\ \A i \in DOMAIN s : i \in DOMAIN t /\ t[i] = s[i]
    BY <1>1
  <2> QED
    BY <1>1, <2>1 DEF Range
<1> QED
  BY <1>1, <1>2, <1>3 DEF t, Range

\* One more elision, for whatever reason.
LEMMA ElideAccounts ==
  ASSUME NEW p \in Plans, p.i > 0, NEW e \in Elisions, e.i = p.i,
         e.reason \in ForRoom => p.over, Accounted(p, {e})
  PROVE  PlanInv(Elide(p, e)) /\ Elide(p, e) \in Plans
<1> DEFINE q == Elide(p, e)
<1>1. /\ p.i \in Nat /\ p.src \in Seq(SourceEvents) /\ p.elided \in Seq(Elisions)
      /\ Len(p.src) \in Nat /\ p.msgs \in Seq(Msgs)
  BY DEF Plans
<1>2. Append(p.elided, e) \in Seq(Elisions)
      /\ Len(Append(p.elided, e)) = Len(p.elided) + 1
      /\ Range(Append(p.elided, e)) = Range(p.elided) \cup {e}
  BY <1>1, AppendRange
<1>3. /\ q \in Plans /\ q.at = "event" /\ q.src = p.src /\ q.i = p.i - 1
      /\ q.msgs = p.msgs /\ q.elided = Append(p.elided, e) /\ q.over = p.over
      /\ q.denied = p.denied
  <2> DEFINE j == p.i - 1
             es == Append(p.elided, e)
  <2>1. j \in Nat /\ es \in Seq(Elisions)
    BY <1>1, <1>2
  <2>2. q = [p EXCEPT !.at = "event", !.i = j, !.elided = es]
    BY DEF Elide
  <2> HIDE DEF j, es, q
  <2>3. /\ q \in Plans /\ q.at = "event" /\ q.src = p.src /\ q.i = j
        /\ q.msgs = p.msgs /\ q.elided = es /\ q.over = p.over
        /\ q.denied = p.denied
    BY <2>1, <2>2 DEF Plans
  <2> QED
    BY <2>3 DEF j, es
<1> HIDE DEF q
<1>4. ElidedIn(q.elided) = ElidedIn(p.elided) \cup {p.i}
  BY <1>2, <1>3 DEF ElidedIn
<1>5. p.i \notin ElidedIn(p.elided) /\ p.i \notin FullIn(p.msgs)
  BY <1>1 DEF Accounted
<1>6. /\ IsFiniteSet(ElidedIn(q.elided))
      /\ Len(q.elided) = Cardinality(ElidedIn(q.elided))
  <2>1. Cardinality(ElidedIn(p.elided) \cup {p.i}) = Cardinality(ElidedIn(p.elided)) + 1
        /\ IsFiniteSet(ElidedIn(p.elided) \cup {p.i})
    BY <1>5, FS_AddElement DEF Accounted
  <2> QED
    BY <1>2, <1>3, <1>4, <2>1 DEF Accounted
<1>7. /\ FullIn(q.msgs) \cup ElidedIn(q.elided) = (q.i + 1)..Len(q.src)
      /\ FullIn(q.msgs) \cap ElidedIn(q.elided) = {}
  <2>1. FullIn(p.msgs) \cup ElidedIn(p.elided) = (p.i + 1)..Len(p.src)
        /\ FullIn(p.msgs) \cap ElidedIn(p.elided) = {} /\ p.i <= Len(p.src)
    BY DEF Accounted
  <2>2. ((p.i + 1)..Len(p.src)) \cup {p.i} = ((p.i - 1) + 1)..Len(p.src)
    BY <1>1, <2>1
  <2> QED
    BY <1>3, <1>4, <1>5, <2>1, <2>2
<1>8. StubIn(q.msgs) = KeptIn(Range(q.elided) \cup {})
  BY <1>2, <1>3 DEF Accounted
<1>9. ASSUME NEW d \in Range(q.elided), d.reason \in ForRoom
      PROVE  q.over /\ \A i \in FullIn(q.msgs) : d.i < i
  <2>1. CASE d \in Range(p.elided)
    BY <1>3, <1>9, <2>1 DEF Accounted
  <2>2. CASE d = e
    <3>1. \A i \in FullIn(p.msgs) : i \in (p.i + 1)..Len(p.src)
      BY DEF Accounted
    <3> QED
      BY <1>1, <1>3, <1>9, <2>2, <3>1
  <2> QED
    BY <1>2, <1>3, <2>1, <2>2
<1>10. q.i <= Len(q.src)
  BY <1>1, <1>3 DEF Accounted
<1>11. Accounted(q, {})
  BY <1>3, <1>6, <1>7, <1>8, <1>9, <1>10 DEF Accounted
<1> QED
  BY <1>3, <1>11 DEF PlanInv, q

\* A message of the event at hand, put in front of the later ones.
LEMMA Prepended ==
  ASSUME NEW p \in Plans, p.i > 0, Accounted(p, {}), NEW m \in Msgs, m.i = p.i,
         Fits(p.msgs, m.size), NEW ms, ms = <<m>> \o p.msgs
  PROVE  /\ ms \in Seq(Msgs) /\ Range(ms) = {m} \cup Range(p.msgs)
         /\ FullIn(ms) = IF m.full THEN FullIn(p.msgs) \cup {p.i} ELSE FullIn(p.msgs)
         /\ StubIn(ms) = IF m.full THEN StubIn(p.msgs) ELSE StubIn(p.msgs) \cup {p.i}
         /\ Ordered(ms) /\ Charge(ms) <= Budget
<1> DEFINE L == Len(p.msgs)
<1>1. p.msgs \in Seq(Msgs) /\ p.i \in Nat /\ Len(p.src) \in Nat
      /\ L \in Nat /\ DOMAIN p.msgs = 1..L
  BY DEF Plans
<1>2. /\ ms \in Seq(Msgs) /\ Range(ms) = {m} \cup Range(p.msgs)
      /\ DOMAIN ms = 1..(L + 1) /\ ms[1] = m
      /\ \A i \in 1..L : ms[i + 1] = p.msgs[i]
  BY <1>1, Prepend
<1> HIDE DEF L
<1>3. Charge(ms) <= Budget
  BY <1>1, ChargePrepend DEF Fits
<1>4. /\ FullIn(ms) = IF m.full THEN FullIn(p.msgs) \cup {p.i} ELSE FullIn(p.msgs)
      /\ StubIn(ms) = IF m.full THEN StubIn(p.msgs) ELSE StubIn(p.msgs) \cup {p.i}
  BY <1>2 DEF FullIn, StubIn
<1>5. ASSUME NEW n \in Range(p.msgs)
      PROVE  n.i \in (p.i + 1)..Len(p.src)
  <2>1. n.i \in FullIn(p.msgs) \cup StubIn(p.msgs)
    BY DEF FullIn, StubIn
  <2>2. StubIn(p.msgs) \subseteq ElidedIn(p.elided)
    BY DEF Accounted, KeptIn, ElidedIn
  <2> QED
    BY <2>1, <2>2 DEF Accounted
<1>6. ASSUME NEW j \in DOMAIN ms, NEW k \in DOMAIN ms, j < k
      PROVE  ms[j].i < ms[k].i
  <2>1. k - 1 \in 1..L /\ ms[k] = p.msgs[k - 1]
    <3>1. k - 1 \in 1..L /\ (k - 1) + 1 = k
      BY <1>1, <1>2, <1>6
    <3> QED
      BY <1>2, <3>1
  <2>2. CASE j = 1
    <3>1. p.msgs[k - 1].i \in (p.i + 1)..Len(p.src)
      BY <1>1, <1>5, <2>1 DEF Range
    <3>2. p.i < p.msgs[k - 1].i
      BY <1>1, <3>1
    <3> QED
      BY <1>2, <2>1, <2>2, <3>2
  <2>3. CASE j # 1
    <3>1. j - 1 \in 1..L /\ (j - 1) + 1 = j /\ j - 1 < k - 1
      BY <1>1, <1>2, <1>6, <2>3
    <3>2. ms[j] = p.msgs[j - 1]
      BY <1>2, <3>1
    <3> QED
      BY <1>1, <2>1, <3>1, <3>2 DEF Accounted, Ordered
  <2> QED
    BY <2>2, <2>3
<1> QED
  BY <1>2, <1>3, <1>4, <1>6 DEF Ordered

\* The event at hand is kept whole.
LEMMA KeepAccounts ==
  ASSUME NEW p \in Plans, p.at = "event", p.i > 0, Accounted(p, {}), ~p.over,
         NEW size \in Nat, Fits(p.msgs, size),
         p.src[p.i].kind # "reasoning", p.src[p.i].content \notin p.denied,
         NEW q, q = [p EXCEPT !.i = @ - 1, !.msgs =
                       <<[i |-> p.i, size |-> size, full |-> TRUE]>> \o @]
  PROVE  PlanInv(q) /\ q \in Plans /\ q.denied = p.denied
<1> DEFINE m == [i |-> p.i, size |-> size, full |-> TRUE]
           ms == <<m>> \o p.msgs
           j == p.i - 1
<1>1. p.i \in Nat /\ Len(p.src) \in Nat /\ j \in Nat
  BY DEF Plans
<1>2. m \in Msgs /\ m.i = p.i /\ m.size = size /\ m.full = TRUE
  BY <1>1 DEF Msgs
<1>3. q = [p EXCEPT !.i = j, !.msgs = ms]
  OBVIOUS
<1> HIDE DEF m
<1>4. /\ ms \in Seq(Msgs) /\ Range(ms) = {m} \cup Range(p.msgs)
      /\ FullIn(ms) = FullIn(p.msgs) \cup {p.i} /\ StubIn(ms) = StubIn(p.msgs)
      /\ Ordered(ms) /\ Charge(ms) <= Budget
  BY <1>2, Prepended
<1> HIDE DEF ms, j
<1>5. /\ q \in Plans /\ q.at = "event" /\ q.src = p.src /\ q.i = j /\ q.msgs = ms
      /\ q.elided = p.elided /\ q.over = p.over /\ q.denied = p.denied
  BY <1>1, <1>3, <1>4 DEF Plans
<1>6. j <= Len(p.src) /\ ((p.i + 1)..Len(p.src)) \cup {p.i} = (j + 1)..Len(p.src)
  BY <1>1 DEF Accounted, j
<1>7. p.i \notin ElidedIn(p.elided)
  BY <1>1 DEF Accounted
<1>8. \A n \in Range(ms) : p.src[n.i].kind # "reasoning"
                            /\ p.src[n.i].content \notin p.denied
  BY <1>2, <1>4 DEF Accounted
<1>9. \A e \in Range(p.elided) : e.reason \notin ForRoom
  BY DEF Accounted
<1>10. FullIn(ms) \cup ElidedIn(p.elided) = (j + 1)..Len(p.src)
       /\ FullIn(ms) \cap ElidedIn(p.elided) = {}
  BY <1>4, <1>6, <1>7 DEF Accounted
<1>11. Accounted(q, {})
  BY <1>4, <1>5, <1>6, <1>8, <1>9, <1>10 DEF Accounted
<1> QED
  BY <1>5, <1>11 DEF PlanInv

\* The event at hand is left out for room, or a part of it is kept.
LEMMA StubAccounts ==
  ASSUME NEW p \in Plans, p.at = "event", p.i > 0, Accounted(p, {}),
         p.src[p.i].kind # "reasoning", p.src[p.i].content \notin p.denied,
         NEW m \in Msgs, m.i = p.i, m.full = FALSE,
         NEW e \in Elisions, e.i = p.i, NEW ms, NEW q \in Plans,
         \/ ms = p.msgs /\ e.reason = "overflow"
         \/ ms = <<m>> \o p.msgs /\ Fits(p.msgs, m.size) /\ e.reason = "retention",
         q.src = p.src, q.i = p.i, q.msgs = ms, q.elided = p.elided, q.over,
         q.denied = p.denied
  PROVE  Accounted(q, {e})
<1>1. p.i \in Nat /\ Len(p.src) \in Nat /\ p.msgs \in Seq(Msgs)
  BY DEF Plans
<1>2. /\ ms \in Seq(Msgs) /\ Range(ms) \subseteq {m} \cup Range(p.msgs)
      /\ FullIn(ms) = FullIn(p.msgs)
      /\ StubIn(ms) = IF e.reason = "retention" THEN StubIn(p.msgs) \cup {p.i}
                      ELSE StubIn(p.msgs)
      /\ Ordered(ms) /\ Charge(ms) <= Budget
  <2>1. CASE ms = p.msgs /\ e.reason = "overflow"
    BY <1>1, <2>1 DEF Accounted
  <2>2. CASE ms = <<m>> \o p.msgs /\ Fits(p.msgs, m.size) /\ e.reason = "retention"
    <3>1. /\ ms \in Seq(Msgs) /\ Range(ms) = {m} \cup Range(p.msgs)
          /\ FullIn(ms) = IF m.full THEN FullIn(p.msgs) \cup {p.i} ELSE FullIn(p.msgs)
          /\ StubIn(ms) = IF m.full THEN StubIn(p.msgs) ELSE StubIn(p.msgs) \cup {p.i}
          /\ Ordered(ms) /\ Charge(ms) <= Budget
      BY <2>2, Prepended
    <3> QED
      BY <2>2, <3>1
  <2> QED
    BY <2>1, <2>2
<1>3. StubIn(ms) = KeptIn(Range(p.elided) \cup {e})
  <2>1. KeptIn(Range(p.elided) \cup {e}) =
          IF e.reason = "retention" THEN KeptIn(Range(p.elided)) \cup {p.i}
          ELSE KeptIn(Range(p.elided))
    BY DEF KeptIn
  <2>2. StubIn(p.msgs) = KeptIn(Range(p.elided))
    BY DEF Accounted, KeptIn
  <2> QED
    BY <1>2, <2>1, <2>2
<1>4. \A n \in Range(ms) : p.src[n.i].kind # "reasoning"
                            /\ p.src[n.i].content \notin p.denied
  BY <1>2 DEF Accounted
<1> QED
  BY <1>2, <1>3, <1>4 DEF Accounted

\* The event at hand and its payload.
LEMMA AtHand ==
  ASSUME StateIInv, PlanIInv, NEW p \in Plans, p = plan, p.i > 0, p.i <= Len(p.src)
  PROVE  /\ p.src[p.i] \in SourceEvents /\ p.src[p.i].content \in Contents
         /\ Payload = payloads[p.src[p.i].content]
         /\ Payload # NoPayload => Payload \in Records
         /\ Payload # NoPayload /\ ~Payload.revoked
              => p.src[p.i].content \notin p.denied
<1>1. p.i \in 1..Len(p.src) /\ p.src \in Seq(SourceEvents)
  BY DEF Plans
<1>2. p.src[p.i] \in SourceEvents
  BY <1>1
<1>3. p.src[p.i].content \in Contents
  BY <1>2 DEF SourceEvents
<1>4. Payload = payloads[p.src[p.i].content]
  BY DEF Payload
<1>5. Payload # NoPayload => Payload \in Records
  BY <1>3, <1>4 DEF StateIInv, StateTypeOK
<1>6. plan # Unplanned
  BY DEF Plans, Unplanned
<1>7. ASSUME p.src[p.i].content \in p.denied
      PROVE  Payload.revoked
  BY <1>4, <1>6, <1>7 DEF PlanIInv, Revoked
<1> QED
  BY <1>2, <1>3, <1>4, <1>5, <1>7

\* A plan in progress, as PlanInv has it.
LEMMA InProgress ==
  ASSUME PlanIInv, plan.at # "idle"
  PROVE  /\ plan \in Plans /\ plan # Unplanned
         /\ plan.at \in {"event", "status"} => Accounted(plan, {})
         /\ plan.at = "status" => plan.i > 0
         /\ plan.at = "grant" =>
              /\ plan.i > 0 /\ plan.pending \in Pendings /\ plan.over
              /\ plan.pending.elision.i = plan.i
              /\ Accounted(plan, {plan.pending.elision})
  BY DEF PlanIInv, PlanInv, Unplanned

\* Only an elision for retention leaves a stub behind.
LEMMA AccountedMore ==
  ASSUME NEW p, NEW e, e.reason # "retention", Accounted(p, {})
  PROVE  Accounted(p, {e})
<1>1. KeptIn(Range(p.elided) \cup {e}) = KeptIn(Range(p.elided) \cup {})
  BY DEF KeptIn
<1> QED
  BY <1>1 DEF Accounted

\* A plan that goes on denies what it denied.
LEMMA GoesOn ==
  ASSUME PlanIInv, plan # Unplanned, UNCHANGED payloads,
         PlanInv(plan'), plan'.denied = plan.denied
  PROVE  PlanIInv'
  BY DEF PlanIInv, Revoked, PlanInv

\* A plan begins with nothing kept and nothing elided.
LEMMA PlanBeginStep ==
  ASSUME StateIInv, NEW s \in Sessions, PlanBegin(s)
  PROVE  PlanIInv'
<1> DEFINE src == sessions[s].events
<1>1. sessions[s] \in SessionStates /\ src \in Seq(SourceEvents) /\ Len(src) \in Nat
  BY DEF PlanBegin, StateIInv, StateTypeOK, SessionStates
<1> HIDE DEF src
<1> DEFINE p == [at |-> "event", src |-> src, i |-> Len(src), msgs |-> <<>>,
                 elided |-> <<>>, over |-> FALSE, pending |-> {},
                 denied |-> {c \in Contents : Revoked(c)}]
<1>2. plan' = p /\ payloads' = payloads
  BY DEF PlanBegin, src, stateVars
<1>3. p \in Plans
  BY <1>1 DEF Plans
<1>4. Range(<<>>) = {} /\ Len(<<>>) = 0 /\ Charge(<<>>) = 0
  BY ChargeEmpty DEF Range
<1>5. FullIn(<<>>) = {} /\ StubIn(<<>>) = {} /\ ElidedIn(<<>>) = {}
      /\ KeptIn({}) = {} /\ Ordered(<<>>)
  BY <1>4 DEF FullIn, StubIn, ElidedIn, KeptIn, Ordered
<1>6. IsFiniteSet({}) /\ Cardinality({}) = 0
  BY FS_EmptySet
<1>7. (Len(src) + 1)..Len(src) = {} /\ Len(src) <= Len(src) /\ 0 <= Budget
  BY <1>1, PlannerAssumption
<1>8. Accounted(p, {})
  <2>1. p.src = src /\ p.i = Len(src) /\ p.msgs = <<>> /\ p.elided = <<>>
    OBVIOUS
  <2> HIDE DEF p
  <2> QED
    BY <1>4, <1>5, <1>6, <1>7, <2>1 DEF Accounted
<1>9. PlanInv(p)
  BY <1>3, <1>8 DEF PlanInv
<1>10. \A c \in p.denied : Revoked(c)'
  BY <1>2 DEF Revoked
<1> QED
  BY <1>2, <1>9, <1>10 DEF PlanIInv

\* Items that are denied, a status or reasoning are elided, with the reason.
LEMMA PlanElisions ==
  ASSUME StateIInv, PlanIInv, PlanDenied \/ PlanStatus \/ PlanReasoning
  PROVE  PlanIInv'
<1>1. plan.at # "idle" /\ payloads' = payloads
  BY DEF PlanDenied, PlanStatus, PlanReasoning, Resolved, stateVars
<1>2. PICK p \in Plans : p = plan
  BY <1>1, InProgress
<1>3. p.at \in {"event", "status"} /\ p.i > 0 /\ Accounted(p, {}) /\ plan # Unplanned
  BY <1>1, <1>2, InProgress DEF PlanDenied, PlanStatus, PlanReasoning, Resolved
<1>4. CASE PlanDenied
  <2> DEFINE q == [p EXCEPT !.at = "status"]
  <2>1. plan' = q
    BY <1>2, <1>4 DEF PlanDenied
  <2>2. /\ q \in Plans /\ q.at = "status" /\ q.i = p.i /\ q.src = p.src
        /\ q.msgs = p.msgs /\ q.elided = p.elided /\ q.over = p.over
        /\ q.denied = p.denied
    BY DEF Plans
  <2> HIDE DEF q
  <2>3. PlanInv(q)
    BY <1>3, <2>2 DEF PlanInv, Accounted
  <2> QED
    BY <1>1, <1>2, <1>3, <2>1, <2>2, <2>3, GoesOn
<1>5. ASSUME NEW reason \in {"revoked", "reasoning"},
             plan' = Elide(plan, Elision(plan.i, reason, 0, FALSE))
      PROVE  PlanIInv'
  <2> DEFINE e == Elision(p.i, reason, 0, FALSE)
  <2>1. e \in Elisions /\ e.i = p.i /\ e.reason = reason
    <3>1. p.i \in Nat
      BY DEF Plans
    <3> QED
      BY <3>1 DEF Elision, Elisions, Reasons
  <2> HIDE DEF e
  <2>2. Accounted(p, {e}) /\ e.reason \notin ForRoom
    BY <1>3, <2>1, AccountedMore DEF ForRoom
  <2>3. PlanInv(Elide(p, e)) /\ Elide(p, e) \in Plans
    BY <1>3, <2>1, <2>2, ElideAccounts
  <2>4. Elide(p, e).denied = p.denied
    BY DEF Elide, Plans
  <2>5. plan' = Elide(p, e)
    BY <1>2, <1>5 DEF e
  <2> QED
    BY <1>1, <1>2, <1>3, <2>3, <2>4, <2>5, GoesOn
<1> QED
  BY <1>4, <1>5 DEF PlanStatus, PlanReasoning

\* An item that fits is kept and charged.
LEMMA PlanKeepStep ==
  ASSUME StateIInv, PlanIInv, PlanKeep
  PROVE  PlanIInv'
<1>1. plan.at = "event" /\ payloads' = payloads /\ plan.i > 0
  BY DEF PlanKeep, Resolved, stateVars
<1>2. PICK p \in Plans : p = plan
  BY <1>1, InProgress
<1>3. p.at = "event" /\ p.i > 0 /\ ~p.over /\ Accounted(p, {}) /\ plan # Unplanned
      /\ p.i <= Len(p.src)
  BY <1>1, <1>2, InProgress DEF PlanKeep, Accounted
<1>4. Payload # NoPayload /\ ~Payload.revoked /\ p.src[p.i].kind # "reasoning"
  BY <1>2 DEF PlanKeep, Resolved, Reasoning
<1>5. PICK size : /\ size = Size[Bytes(Payload, p.src[p.i].content)]
                  /\ Fits(p.msgs, size)
                  /\ plan' = [p EXCEPT !.i = @ - 1, !.msgs =
                       <<[i |-> p.i, size |-> size, full |-> TRUE]>> \o @]
  BY <1>2 DEF PlanKeep
<1>6. p.src[p.i].content \in Contents /\ p.src[p.i].content \notin p.denied
  BY <1>2, <1>3, <1>4, AtHand
<1>7. size \in Nat
  BY <1>5, <1>6, ContentAssumption DEF Bytes
<1>8. PlanInv(plan') /\ plan'.denied = p.denied
  BY <1>3, <1>4, <1>5, <1>6, <1>7, KeepAccounts
<1> QED
  BY <1>1, <1>2, <1>3, <1>8, GoesOn

\* An item that does not fit is elided.
LEMMA PlanElideStep ==
  ASSUME StateIInv, PlanIInv, PlanElide
  PROVE  PlanIInv'
<1>1. plan.at = "event" /\ payloads' = payloads /\ plan.i > 0
  BY DEF PlanElide, Resolved, stateVars
<1>2. PICK p \in Plans : p = plan
  BY <1>1, InProgress
<1>3. p.at = "event" /\ p.i > 0 /\ Accounted(p, {}) /\ plan # Unplanned
      /\ p.i <= Len(p.src) /\ p.i \in Nat
  BY <1>1, <1>2, InProgress DEF Accounted, Plans
<1>4. Payload # NoPayload /\ ~Payload.revoked /\ p.src[p.i].kind # "reasoning"
  BY <1>2 DEF PlanElide, Resolved, Reasoning
<1>5. /\ p.src[p.i].content \in Contents /\ p.src[p.i].content \notin p.denied
      /\ Payload \in Records
  BY <1>2, <1>3, <1>4, AtHand
<1>6. PICK c \in Contents : c = Bytes(Payload, p.src[p.i].content)
  BY <1>5, ContentAssumption DEF Bytes
<1>7. PICK stub \in Nat : stub = StubSize(c)
  BY ContentAssumption, PlannerAssumption, MinTwo DEF StubSize
<1>8. PICK kept \in BOOLEAN :
        /\ kept => Fits(p.msgs, stub)
        /\ LET e == IF kept THEN Elision(p.i, "retention", stub, FALSE)
                    ELSE Elision(p.i, "overflow", 0, FALSE)
               next == [p EXCEPT !.over = TRUE, !.msgs =
                 IF kept THEN <<[i |-> p.i, size |-> stub, full |-> FALSE]>> \o @
                 ELSE @]
           IN  \/ plan' = Elide(next, e)
               \/ plan' = [next EXCEPT !.at = "grant", !.pending =
                    [content |-> c, principal |-> Payload.subject, elision |-> e]]
  BY <1>2, <1>6, <1>7 DEF PlanElide
<1>9. PICK e : e = IF kept THEN Elision(p.i, "retention", stub, FALSE)
                   ELSE Elision(p.i, "overflow", 0, FALSE)
  OBVIOUS
<1>10. PICK q, ms, m : /\ q = [p EXCEPT !.over = TRUE, !.msgs = ms]
                       /\ ms = IF kept THEN <<m>> \o p.msgs ELSE p.msgs
                       /\ m = [i |-> p.i, size |-> stub, full |-> FALSE]
  OBVIOUS
<1>11. /\ e \in Elisions /\ e.i = p.i
       /\ e.reason = IF kept THEN "retention" ELSE "overflow"
  BY <1>3, <1>9 DEF Elision, Elisions, Reasons
<1>12. /\ q \in Plans /\ q.i = p.i /\ q.over /\ q.denied = p.denied
       /\ Accounted(q, {e})
  <2>1. m \in Msgs /\ m.i = p.i /\ m.full = FALSE /\ m.size = stub
    BY <1>3, <1>10 DEF Msgs
  <2>2. \/ ms = p.msgs /\ e.reason = "overflow"
        \/ ms = <<m>> \o p.msgs /\ Fits(p.msgs, m.size) /\ e.reason = "retention"
    BY <1>8, <1>10, <1>11, <2>1
  <2>3. ms \in Seq(Msgs)
    <3>1. p.msgs \in Seq(Msgs)
      BY DEF Plans
    <3>2. <<m>> \in Seq(Msgs)
      BY <2>1
    <3>3. <<m>> \o p.msgs \in Seq(Msgs)
      BY <3>1, <3>2
    <3> QED
      BY <2>2, <3>1, <3>3
  <2>4. /\ q \in Plans /\ q.src = p.src /\ q.i = p.i /\ q.msgs = ms
        /\ q.elided = p.elided /\ q.over /\ q.denied = p.denied
    BY <1>10, <2>3 DEF Plans
  <2>5. p.src[p.i].kind # "reasoning" /\ p.src[p.i].content \notin p.denied
    BY <1>4, <1>5
  <2>6. Accounted(q, {e})
    BY <1>3, <1>11, <2>1, <2>2, <2>4, <2>5, StubAccounts
  <2> QED
    BY <2>4, <2>6
<1>13. CASE plan' = Elide(q, e)
  <2>1. PlanInv(Elide(q, e))
    BY <1>3, <1>11, <1>12, ElideAccounts
  <2>2. Elide(q, e).denied = q.denied
    BY <1>12 DEF Elide, Plans
  <2> QED
    BY <1>1, <1>2, <1>3, <1>12, <1>13, <2>1, <2>2, GoesOn
<1>14. CASE plan' = [q EXCEPT !.at = "grant", !.pending =
                      [content |-> c, principal |-> Payload.subject, elision |-> e]]
  <2>1. PICK g \in Pendings :
          g = [content |-> c, principal |-> Payload.subject, elision |-> e]
    BY <1>5, <1>11 DEF Pendings, Records
  <2>2. g.elision = e
    BY <2>1
  <2>3. PICK r : r = [q EXCEPT !.at = "grant", !.pending = g]
    OBVIOUS
  <2>4. /\ r \in Plans /\ r.at = "grant" /\ r.i = q.i /\ r.src = q.src
        /\ r.msgs = q.msgs /\ r.elided = q.elided /\ r.over = q.over
        /\ r.denied = q.denied /\ r.pending = g
    BY <1>12, <2>3 DEF Plans
  <2>5. Accounted(r, {e})
    BY <1>12, <2>4 DEF Accounted
  <2>6. PlanInv(r)
    BY <1>3, <1>11, <1>12, <2>2, <2>4, <2>5 DEF PlanInv
  <2>7. plan' = r
    BY <1>14, <2>1, <2>3
  <2> QED
    BY <1>1, <1>2, <1>3, <1>12, <2>4, <2>6, <2>7, GoesOn
<1> QED
  BY <1>8, <1>9, <1>10, <1>13, <1>14

\* The grants are put to the plan.
LEMMA PlanGrantStep ==
  ASSUME StateIInv, PlanIInv, PlanGrant
  PROVE  PlanIInv'
<1>1. plan.at = "grant" /\ payloads' = payloads
  BY DEF PlanGrant, stateVars
<1>2. PICK p \in Plans : p = plan
  BY <1>1, InProgress
<1>3. /\ p.i > 0 /\ p.pending \in Pendings /\ p.over /\ p.pending.elision.i = p.i
      /\ Accounted(p, {p.pending.elision}) /\ plan # Unplanned
  BY <1>1, <1>2, InProgress
<1>4. PICK e \in Elisions : e = p.pending.elision
  BY <1>3 DEF Pendings
<1>5. PICK d : d = [e EXCEPT !.spooled = TRUE]
  OBVIOUS
<1>6. d \in Elisions /\ d.i = e.i /\ d.reason = e.reason
  BY <1>5 DEF Elisions
<1>7. Accounted(p, {d})
  <2>1. KeptIn(Range(p.elided) \cup {d}) = KeptIn(Range(p.elided) \cup {e})
    BY <1>6 DEF KeptIn
  <2> QED
    BY <1>3, <1>4, <2>1 DEF Accounted
<1>8. plan' = Elide(p, e) \/ plan' = Elide(p, d)
  BY <1>2, <1>4, <1>5 DEF PlanGrant
<1>9. ASSUME NEW f \in {e, d}
      PROVE  PlanInv(Elide(p, f)) /\ Elide(p, f).denied = p.denied
  <2>1. f \in Elisions /\ f.i = p.i /\ Accounted(p, {f})
    BY <1>3, <1>4, <1>6, <1>7
  <2> QED
    BY <1>3, <2>1, ElideAccounts DEF Elide, Plans
<1> QED
  BY <1>1, <1>2, <1>3, <1>8, <1>9, GoesOn

\* Every step keeps the plan's account.
LEMMA PlanStep ==
  ASSUME StateIInv, PlanIInv, [Next]_vars
  PROVE  PlanIInv'
<1>1. CASE UNCHANGED plan
  <2>1. KeepsRevoked(payloads, payloads')
    BY StateStep
  <2>2. plan # Unplanned => plan.denied \subseteq Contents
    BY DEF PlanIInv, PlanInv, Plans
  <2> QED
    BY <1>1, <2>1, <2>2 DEF PlanIInv, Revoked, KeepsRevoked
<1>2. CASE PlanMissing \/ PlanAgain
  BY <1>2 DEF PlanMissing, PlanAgain, PlanIInv, PlanInv
<1>3. CASE PlanNext
  BY <1>2, <1>3, PlanBeginStep, PlanElisions, PlanKeepStep, PlanElideStep,
     PlanGrantStep DEF PlanNext
<1> QED
  BY <1>1, <1>3 DEF Next, vars

\* The account of the plan under way holds in every reachable state, beside
\* the invariant of the store.
THEOREM PlanInvariance == Spec => [](StateIInv /\ PlanIInv)
<1>1. Init => PlanIInv
  BY DEF Init, PlanIInv, PlanInv
<1>2. PlanIInv /\ StateIInv /\ [Next]_vars => PlanIInv'
  BY PlanStep
<1> QED
  BY <1>1, <1>2, StoreInvariance, PTL DEF Spec

\* RevokedNeverPlanned: no put, commit or plan step, in any order, brings back
\* content that was revoked before the plan began (contextstate/store.go:53, 135).
THEOREM RevokedStaysOut == Spec => []RevokedNeverPlanned
<1>1. PlanIInv => RevokedNeverPlanned
  BY DEF PlanIInv, PlanInv, Accounted, RevokedNeverPlanned, Unplanned
<1> QED
  BY <1>1, PlanInvariance, PTL

\* PlanIsFaithful: for any window, estimator charge and session, a plan accounts
\* for every event once, in order and within the budget, while anyone writes to
\* the store and the spool (contextsession/planner.go Plan, admit).
THEOREM PlansAreFaithful == Spec => []PlanIsFaithful
<1>1. PlanIInv => PlanIsFaithful
  <2> SUFFICES ASSUME PlanIInv, Planned
               PROVE  PlanIsFaithful
    BY DEF PlanIsFaithful
  <2>1. plan \in Plans /\ Accounted(plan, {}) /\ plan.i = 0
    BY InProgress DEF Planned
  <2> DEFINE full == FullIn(plan.msgs)
             elid == {e.i : e \in Range(plan.elided)}
             kept == {e.i : e \in {d \in Range(plan.elided) : d.reason = "retention"}}
             stubs == {m.i : m \in Range(plan.msgs)} \ full
  <2>2. elid = ElidedIn(plan.elided) /\ kept = KeptIn(Range(plan.elided) \cup {})
        /\ kept \subseteq elid
    BY DEF ElidedIn, KeptIn
  <2>3. DOMAIN plan.src = (0 + 1)..Len(plan.src)
    BY <2>1 DEF Plans
  <2>4. full \cup elid = DOMAIN plan.src /\ full \cap elid = {}
        /\ Len(plan.elided) = Cardinality(elid)
    BY <2>1, <2>2, <2>3 DEF Accounted
  <2>5. {m.i : m \in Range(plan.msgs)} = full \cup StubIn(plan.msgs)
    BY DEF FullIn, StubIn
  <2>6. stubs = kept
    BY <2>1, <2>2, <2>4, <2>5 DEF Accounted
  <2> HIDE DEF full, elid, kept, stubs
  <2> QED
    BY <2>1, <2>4, <2>6
       DEF PlanIsFaithful, Accounted, Ordered, Reasoning, full, elid, kept, stubs
<1> QED
  BY <1>1, PlanInvariance, PTL

=============================================================================
