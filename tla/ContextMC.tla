----------------------------- MODULE ContextMC ------------------------------
(***************************************************************************)
(* Instances of module ContextSession for TLC: two clients commit to an    *)
(* empty store, two principals use the spool, or a session of three events *)
(* is planned while others write to the store.                             *)
(***************************************************************************)
EXTENDS ContextSession, TLC

CONSTANTS s1, c1, c2, e0, p1, p2, a1, a2, b1, b2, k1, k2

OneOffer == {[content |-> c1, kind |-> "text"]}
Sizes == c1 :> 3 @@ c2 :> 2 @@ e0 :> 0
OwnerOf == a1 :> p1 @@ a2 :> p2

NoPlans == plan = Unplanned /\ plans = MaxPlans

\* Two clients commit.
Committing ==
  /\ payloads = [c \in Contents |-> NoPayload]
  /\ sessions = [s \in Sessions |-> NoSession]
  /\ ops = [k \in Keys |-> NoRequest]
  /\ client = [c \in Clients |-> Resting] /\ builds = 0
  /\ puts = MaxPuts /\ SpoolInit(MaxToolRuns) /\ NoPlans

\* Two principals use the spool.
Spooling ==
  /\ payloads = [c \in Contents |-> NoPayload]
  /\ sessions = [s \in Sessions |-> NoSession]
  /\ ops = [k \in Keys |-> NoRequest]
  /\ client = [c \in Clients |-> Resting] /\ builds = MaxBuilds
  /\ puts = MaxPuts /\ SpoolInit(0) /\ NoPlans

\* A session that one commit of three events made is planned while it is
\* committed to and its payloads are put again and revoked; one of them is
\* granted to its subject or to someone else already.  A commit does not ask
\* for the payloads its events name, so one of them may be missing.
FirstCommit(kinds) ==
  NewCommitRequest(k1, s1, ZeroRevision, 1,
    [i \in 1..3 |-> [seq |-> i, session |-> s1, kind |-> kinds[i],
                     content |-> IF i = 2 THEN c1 ELSE c2]],
    <<>>, 1)

\* A client's request on top of it that carries a payload again.
SecondCommit(r) ==
  NewCommitRequest(k2, s1, r.new, 1,
    <<[seq |-> 4, session |-> s1, kind |-> "text", content |-> c1]>>,
    <<[content |-> c1, record |-> Record(s1, p1, "session", FALSE, TRUE)]>>, 1)

Planning ==
  /\ \E kind \in {"text", "reasoning"}, retention \in {"session", "compliance"},
        stored \in {{c2}, {c1, c2}} :
       LET r == FirstCommit(<<"text", kind, "text">>)
       IN  /\ sessions = [s \in Sessions |->
                [revision |-> r.new, binding |-> 1, active |-> r.checkpoint,
                 events |-> r.events]]
           /\ ops = [k \in Keys |-> IF k = k1 THEN r ELSE NoRequest]
           /\ payloads = [c \in Contents |->
                IF c \in stored
                THEN Record(s1, p1, IF c = c1 THEN retention ELSE "session", FALSE, TRUE)
                ELSE NoPayload]
           /\ client = [c \in Clients |->
                IF c = b1 THEN [at |-> "ready", req |-> SecondCommit(r)]
                ELSE Resting]
  /\ builds = MaxBuilds /\ puts = 0
  /\ \E p \in Principals :
       /\ blobs = Enqueue(EmptyQueue, c1, MaxBytes)
       /\ grants = Enqueue(EmptyQueue, c1, MaxGrantBytes)
       /\ owner = [d \in Contents |-> [principal |-> p, expires |-> "never"]]
  /\ agent = [a \in Agents |-> Idle] /\ runs = MaxToolRuns
  /\ plan = Unplanned /\ plans = 0

SpecMC == (Committing \/ Spooling \/ Planning) /\ [][Next]_vars
=============================================================================
