---------------------------- MODULE ContextState ----------------------------
(***************************************************************************)
(* The context state store (src/contextstate/): payloads under their       *)
(* content address, sessions with an append-only source log, and commits   *)
(* that carry an operation key.  Every method of MemStore holds its mutex, *)
(* so each is one step; what callers do between them is not.               *)
(*                                                                         *)
(* A client reads a session, builds a request from what it read, sends it, *)
(* and sends the very same request again when the answer is lost.  The     *)
(* fields of CommitRequest are exported, so a request may also differ from *)
(* what NewCommitRequest builds: Slips lists the ways a client gets one    *)
(* wrong.  Identifiers are model values and text is well formed.           *)
(***************************************************************************)
EXTENDS ContentRef, SequencesExt, FiniteSetsExt

CONSTANTS
  Sessions,
  Clients,
  Keys,          \* idempotency keys
  Offers,        \* the content and the kind of the events clients commit
  Slips,         \* the mistakes clients make
  CommitEvents,  \* Limits: events in one commit, 0 for no bound
  CommitBytes,   \* Limits: their bytes
  CheckpointBytes, \* Limits: bytes of the active context
  MaxSourceRangeEvents, \* events a checkpoint's range spans at most
  MaxBuilds,     \* bound: requests the clients build
  MaxPuts        \* bound: calls of Put and Revoke

ASSUME ContextAssumption ==
  {CommitEvents, CommitBytes, CheckpointBytes, MaxSourceRangeEvents, MaxBuilds,
   MaxPuts} \subseteq Nat

\* A kind of event, and what a client may get wrong in a request.
Kinds == {"text", "reasoning"}

Mistakes == {"none", "revision", "sequence", "range", "wide", "turn", "owner",
             "foreign"}

ASSUME OffersAssumption ==
  Offers \subseteq [content : Contents, kind : Kinds] /\ Slips \subseteq Mistakes

VARIABLES
  payloads, \* content -> its record, or NoPayload
  sessions, \* session -> its state, or NoSession
  ops,      \* key -> the request committed under it, or NoRequest
  client,   \* each client's progress
  builds,   \* requests built so far
  puts      \* calls of Put and Revoke so far

stateVars == <<payloads, sessions, ops, client, builds, puts>>

NoPayload == [retention |-> "none"]
NoSession == [binding |-> 0]
NoRequest == [key |-> "none"]
ZeroRevision == [session |-> 0, durable |-> 0, source |-> 0]

\* PayloadRecord: its bytes may be left out (data = FALSE).
Record(s, u, retention, revoked, data) ==
  [session |-> s, subject |-> u, retention |-> retention,
   revoked |-> revoked, data |-> data]

Revoked(c) == payloads[c] # NoPayload /\ payloads[c].revoked

----------------------------------------------------------------------------
(* Commit requests.                                                        *)

\* NewCommitRequest: the operation is the checkpoint's key and the new
\* revision follows the expected one.  Bindings are generations.
NewCommitRequest(key, s, expected, binding, events, records, newBinding) ==
  LET n == expected.source + Len(events)
      new == [session |-> expected.session + 1,
              durable |-> expected.durable + 1, source |-> n]
  IN  [key |-> key, session |-> s, expected |-> expected,
       expectedBinding |-> binding, events |-> events, payloads |-> records,
       new |-> new, newBinding |-> newBinding, turn |-> 1,
       checkpoint |-> [session |-> s, from |-> Min({expected.source + 1, n}),
                       to |-> n, revision |-> new, binding |-> newBinding,
                       active |-> 1, turn |-> 1]]

\* validateCommitRevision.
ValidRevision(r) ==
  /\ r.new.session = r.expected.session + 1
  /\ r.new.durable = r.expected.durable + 1
  /\ r.new.source = r.expected.source + Len(r.events)

\* validateCommitEvents: members of the session, contiguous from its head.
ValidEvents(r) ==
  \A i \in DOMAIN r.events :
    /\ r.events[i].session = r.session
    /\ r.events[i].seq = r.expected.source + i

\* validateCommitPayloads.  A payload's bytes match its content address.
ValidPayloads(r) == \A p \in Range(r.payloads) : p.record.session = r.session

\* validateCommitRange, and the rule for a commit without events.
ValidRange(r) ==
  IF r.events = <<>> THEN r.checkpoint.to = r.expected.source
  ELSE /\ r.checkpoint.from <= r.events[1].seq
       /\ r.checkpoint.to = r.events[Len(r.events)].seq

\* SourceRange.Validate.  The session of a checkpoint is also that of both
\* ends of its range: one where they differ is refused.
ValidSourceRange(cp) ==
  cp.from <= cp.to /\ cp.to - cp.from < MaxSourceRangeEvents

\* Checkpoint.Validate.
CheckpointValid(cp) == ValidSourceRange(cp) /\ cp.active > 0 /\ cp.turn # 0

\* validateCommitCheckpoint.
ValidCheckpoint(r) ==
  /\ CheckpointValid(r.checkpoint)
  /\ r.checkpoint.revision = r.new
  /\ r.checkpoint.binding = r.newBinding
  /\ r.checkpoint.turn = r.turn
  /\ ValidRange(r)

ValidCommit(r) ==
  /\ r.expectedBinding > 0 /\ r.newBinding > 0
  /\ ValidRevision(r) /\ ValidEvents(r) /\ ValidPayloads(r)
  /\ ValidCheckpoint(r)

Exceeds(size, bound) == bound > 0 /\ size > bound

\* enforceLimits.  An event's Size is the bytes of its payload.
OverLimit(r) ==
  \/ Exceeds(Len(r.events), CommitEvents)
  \/ Exceeds(FoldFunction(+, 0, [i \in DOMAIN r.events |->
                                    Size[r.events[i].content]]), CommitBytes)
  \/ Exceeds(r.checkpoint.active, CheckpointBytes)

\* Mutant of Stale: only the binding is compared.
StaleBinding(r) ==
  IF sessions[r.session] = NoSession THEN r.expected # ZeroRevision
  ELSE sessions[r.session].binding # r.expectedBinding

\* sessionFor: an unknown session starts at the zero revision.
Stale(r) ==
  IF sessions[r.session] = NoSession THEN r.expected # ZeroRevision
  ELSE \/ sessions[r.session].revision # r.expected
       \/ sessions[r.session].binding # r.expectedBinding

\* Mutant of Verdict: a repeated operation is checked like a new one.
VerdictForgetsOps(r) ==
  IF ~ValidCommit(r) THEN "invalid"
  ELSE IF OverLimit(r) THEN "over" ELSE IF Stale(r) THEN "stale" ELSE "ok"

\* What Checkpoint answers, in the order of its checks.
Verdict(r) ==
  IF ops[r.key] # NoRequest
    THEN IF ops[r.key] = r THEN "ok" ELSE "conflict"
    ELSE IF ~ValidCommit(r) THEN "invalid"
         ELSE IF OverLimit(r) THEN "over"
              ELSE IF Stale(r) THEN "stale" ELSE "ok"

Events(s) == IF sessions[s] = NoSession THEN <<>> ELSE sessions[s].events

\* Mutant of Stored: a revoked payload is written again.
StoredAnyway(ps, c, record) == [ps EXCEPT ![c] = record]

\* Put's rule for one record: what is revoked stays as it is.
Stored(ps, c, record) ==
  IF ps[c] # NoPayload /\ ps[c].revoked THEN ps ELSE [ps EXCEPT ![c] = record]

Written(r) ==
  FoldLeft(LAMBDA ps, p : Stored(ps, p.content, p.record), payloads, r.payloads)

\* Checkpoint: a repeated operation changes nothing.
Apply(r) ==
  IF Verdict(r) = "ok" /\ ops[r.key] = NoRequest
    THEN /\ payloads' = Written(r)
         /\ sessions' = [sessions EXCEPT ![r.session] =
              [revision |-> r.new, binding |-> r.newBinding,
               active |-> r.checkpoint, events |-> Events(r.session) \o r.events]]
         /\ ops' = [ops EXCEPT ![r.key] = r]
    ELSE UNCHANGED <<payloads, sessions, ops>>
----------------------------------------------------------------------------
(* Clients.                                                                *)

Resting == [at |-> "idle"]

StateInit ==
  /\ payloads = [c \in Contents |-> NoPayload]
  /\ sessions = [s \in Sessions |-> NoSession]
  /\ ops = [k \in Keys |-> NoRequest]
  /\ client = [c \in Clients |-> Resting] /\ builds = 0
  /\ puts = 0

\* Session, or what a client assumes of a session not found.
ReadSession(c) ==
  /\ client[c].at = "idle" /\ builds < MaxBuilds
  /\ builds' = builds + 1
  /\ \E s \in Sessions :
       LET unknown == sessions[s] = NoSession
       IN  client' = [client EXCEPT ![c] =
             [at |-> "read", session |-> s,
              revision |-> IF unknown THEN ZeroRevision ELSE sessions[s].revision,
              binding |-> IF unknown THEN 1 ELSE sessions[s].binding]]
  /\ UNCHANGED <<payloads, sessions, ops, puts>>

\* Events one number too high, payloads of another session.
Renumbered(events) ==
  [i \in DOMAIN events |-> [events[i] EXCEPT !.seq = @ + 1]]

Disowned(records) ==
  [i \in DOMAIN records |-> [records[i] EXCEPT !.record.session = NoRequest.key]]

\* A request that differs from the built one in one respect.
Slipped(r, slip) ==
  CASE slip = "none"     -> r
    [] slip = "revision" -> [r EXCEPT !.new.session = @ + 1]
    [] slip = "sequence" -> [r EXCEPT !.events = Renumbered(r.events)]
    [] slip = "range"    -> [r EXCEPT !.checkpoint.to = @ + 1]
    [] slip = "wide"     -> [r EXCEPT !.checkpoint.from = 0]
    [] slip = "turn"     -> [r EXCEPT !.turn = 0]
    [] slip = "owner"    -> [r EXCEPT !.payloads = Disowned(r.payloads)]
    [] slip = "foreign"  -> [r EXCEPT !.checkpoint.session = NoRequest.key]

\* What a client builds from what it read: with or without an event, a payload
\* and a new binding.
Drafted(seen, key, offer, with, n, rebind) ==
  LET event  == [seq |-> seen.revision.source + 1, session |-> seen.session,
                 content |-> offer.content, kind |-> offer.kind]
      record == Record(seen.session, CHOOSE u \in Principals : TRUE, "session",
                       FALSE, TRUE)
  IN  NewCommitRequest(key, seen.session, seen.revision, seen.binding,
        SubSeq(<<event>>, 1, n),
        IF with THEN <<[content |-> offer.content, record |-> record]>> ELSE <<>>,
        seen.binding + rebind)

\* The client builds its request, maybe long after it read; the wrong ones
\* have no new binding.
BuildRequest(c) ==
  /\ client[c].at = "read"
  /\ \E key \in Keys, slip \in Slips, offer \in Offers,
        with \in BOOLEAN, n \in 0..1, rebind \in 0..1 :
       /\ slip # "none" => n = 1 /\ with /\ rebind = 0
       /\ client' = [client EXCEPT ![c] =
            [at |-> "ready",
             req |-> Slipped(Drafted(client[c], key, offer, with, n, rebind), slip)]]
  /\ UNCHANGED <<payloads, sessions, ops, builds, puts>>

\* Checkpoint, and an answer that reaches the client or does not: the client
\* then sends the same request again.
Commit(c) ==
  /\ client[c].at = "ready"
  /\ Apply(client[c].req)
  /\ \/ client' = [client EXCEPT ![c] =
           [at |-> "answered", req |-> @.req,
            answer |-> Verdict(@.req)]]
     \/ UNCHANGED client
  /\ UNCHANGED <<builds, puts>>

NextRequest(c) ==
  /\ client[c].at = "answered"
  /\ client' = [client EXCEPT ![c] = Resting]
  /\ UNCHANGED <<payloads, sessions, ops, builds, puts>>

\* Put: the same content may come from another session, subject or retention
\* class, and with or without its bytes.
PutPayload(c) ==
  /\ puts < MaxPuts /\ puts' = puts + 1
  /\ \E s \in Sessions, u \in Principals, retention \in {"session", "compliance"},
        data \in BOOLEAN :
       payloads' = Stored(payloads, c, Record(s, u, retention, FALSE, data))
  /\ UNCHANGED <<sessions, ops, client, builds>>

Revoke(c) ==
  /\ puts < MaxPuts /\ puts' = puts + 1
  /\ payloads[c] # NoPayload
  /\ payloads' = [payloads EXCEPT ![c].revoked = TRUE]
  /\ UNCHANGED <<sessions, ops, client, builds>>

ClientStep(c) ==
  ReadSession(c) \/ BuildRequest(c) \/ Commit(c) \/ NextRequest(c)

StateNext ==
  \/ \E c \in Clients : ClientStep(c)
  \/ \E c \in Contents \ {NoBytes} : PutPayload(c) \/ Revoke(c)

----------------------------------------------------------------------------
(* Properties.                                                             *)

\* The requests committed to a session.
Committed(s) ==
  {ops[k] : k \in {j \in Keys : ops[j] # NoRequest /\ ops[j].session = s}}

\* A session's state and the requests that made it.
Made(now, s, mine) ==
  IF now = NoSession THEN mine = {}
  ELSE /\ {r.new.session : r \in mine} = 1..now.revision.session
       /\ Cardinality(mine) = now.revision.session
       /\ now.revision.durable = now.revision.session
       /\ now.revision.source = Len(now.events)
       /\ \A i \in DOMAIN now.events :
            now.events[i].seq = i /\ now.events[i].session = s
       /\ \A r \in mine :
            /\ SubSeq(now.events, r.expected.source + 1, r.new.source) = r.events
            /\ r.new.session = now.revision.session
                 => r.checkpoint = now.active /\ r.newBinding = now.binding
            /\ \A q \in mine :
                 q.expected.session = r.new.session
                   => q.expected = r.new /\ q.expectedBinding = r.newBinding

\* A session is exactly its committed operations in the order of their
\* revisions, whoever sent them how often: each is there once, on top of the
\* one it expected, its events at their sequence numbers, and the newest one's
\* checkpoint is active (contextstate/store.go Checkpoint, sessionFor).
SessionIsItsCommits == \A s \in Sessions : Made(sessions[s], s, Committed(s))

\* An answer that reaches a client says whether its request is part of the
\* session's history, also when the commit happened on an earlier sending
\* whose answer was lost and the session has moved on since
\* (contextstate/store.go:118).
AnswersAreTruthful ==
  \A c \in Clients :
    client[c].at = "answered"
      => (client[c].answer = "ok" <=> ops[client[c].req.key] = client[c].req)
============================================================================
