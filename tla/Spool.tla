------------------------------- MODULE Spool -------------------------------
(***************************************************************************)
(* The memory store and the spool over it (src/memory/store.go, spool.go,  *)
(* context.go) and the two tools that use them (tool.go, readtool.go).     *)
(*                                                                         *)
(* memory.Store keeps blobs under their content address and evicts the     *)
(* oldest when a new one does not fit.  Spool puts a blob into the store   *)
(* and then, under a lock of its own, grants one principal the right to    *)
(* read it back; grants have a budget and an eviction order of their own,  *)
(* so a live grant may outlast its blob.  Load looks the grant up under    *)
(* the lock and reads the store after it.  SpoolTool spools a result that  *)
(* is too long and hands its reader the ref; ReadOutputTool reads it back  *)
(* page by page.                                                           *)
(*                                                                         *)
(* A process makes one call at a time; its steps are the two locked        *)
(* sections of that call.                                                  *)
(***************************************************************************)
EXTENDS ContentRef, SequencesExt, FiniteSetsExt

CONSTANTS
  Agents,        \* the processes that run the two tools
  Who,           \* the principal in each agent's context
  ThroughLoop,   \* the agents whose results the agent loop renders
  MaxBytes,      \* memory.New: the budget of the store
  MaxGrantBytes, \* NewSpool: the budget of the grants
  MaxInline,     \* SpoolTool: a longer result is spooled
  MaxPageBytes,  \* ReadOutputTool
  MarkerBytes,   \* the length of MoreMarker and of the truncation marker
  MaxToolRuns    \* bound: tool runs

ASSUME SpoolAssumption ==
  /\ {MaxBytes, MaxGrantBytes, MaxPageBytes} \subseteq Nat \ {0}
  /\ {MaxInline, MarkerBytes, MaxToolRuns} \subseteq Nat
  /\ Who \in [Agents -> Principals] /\ ThroughLoop \subseteq Agents

VARIABLES
  blobs,  \* memory.Store: its contents, their order and their total
  grants, \* Spool: the granted refs, their order and their total
  owner,  \* who each ref is granted to, and when that ends
  agent,  \* where each agent is in its call, and what it has read
  runs    \* tool runs so far

spoolVars == <<blobs, grants, owner, agent, runs>>

\* Both budgets are kept by a set, the insertion order and a running total.
EmptyQueue == [held |-> {}, order |-> <<>>, total |-> 0]

\* removeFromOrder, the total and the delete of a held ref.
Drop(q, c) ==
  [held |-> q.held \ {c}, order |-> SelectSeq(q.order, LAMBDA d : d # c),
   total |-> q.total - Size[c]]

\* The oldest entries that have to go before n more bytes fit into max.
EvictCount(q, n, max) ==
  Min({k \in 0..Len(q.order) :
         \/ k = Len(q.order)
         \/ q.total + n
              <= max + MapThenSumSet(LAMBDA c : Size[c],
                                     ToSet(SubSeq(q.order, 1, k)))})

\* The rest of Store.Put and of recordGrant: refresh, evict, append.
Enqueue(q, c, max) ==
  LET fresh == IF c \in q.held THEN Drop(q, c) ELSE q
      k     == EvictCount(fresh, Size[c], max)
      gone  == ToSet(SubSeq(fresh.order, 1, k))
  IN  [held  |-> (fresh.held \ gone) \union {c},
       order |-> Append(SubSeq(fresh.order, k + 1, Len(fresh.order)), c),
       total |-> fresh.total + Size[c]
                   - MapThenSumSet(LAMBDA d : Size[d], gone)]

\* Spool's first part: refused, or the blob is in the store.
SpoolRefused(c) == Size[c] > MaxGrantBytes \/ Size[c] > MaxBytes

PutBlob(c) == blobs' = Enqueue(blobs, c, MaxBytes)

\* recordGrant: another principal's grant, even an expired one, refuses.
Conflict(c, p) == c \in grants.held /\ owner[c].principal # p

RecordGrant(c, p, expires) ==
  /\ grants' = Enqueue(grants, c, MaxGrantBytes)
  /\ owner' = [owner EXCEPT ![c] = [principal |-> p, expires |-> expires]]

\* Load's first part, under the spool's lock: the wrong principal is told so
\* even on an expired grant; the right one drops it.
LoadDenied(c, p) == c \notin grants.held \/ owner[c].principal # p

LoadExpired(c) == owner[c].expires = "past"

----------------------------------------------------------------------------
(* The agents and their tools.                                             *)

Idle == [at |-> "idle"]

\* An agent that was handed a ref.  got: the bytes of it that it has read;
\* told: the offset the last page names for the next; done: no page is left.
Holding(c, got, told, done) ==
  [at |-> "holding", ref |-> c, got |-> got, told |-> told, done |-> done]

\* used: tool runs that are no longer to come.
SpoolInit(used) ==
  /\ blobs = EmptyQueue /\ grants = EmptyQueue
  /\ owner = [c \in Contents |-> [principal |-> CHOOSE p \in Principals : TRUE,
                                 expires |-> "never"]]
  /\ agent = [a \in Agents |-> Idle]
  /\ runs = used

\* spoolTool.Run, or a caller of Spool or SpoolExpiring: a result too long to
\* be returned inline, the checks of Spool and the store's Put.
RunSpoolTool(a) ==
  /\ agent[a].at = "idle" /\ runs < MaxToolRuns
  /\ runs' = runs + 1
  /\ \E c \in Contents, expires \in {"never", "live"} :
       /\ Size[c] > MaxInline /\ ~SpoolRefused(c)
       /\ PutBlob(c)
       /\ agent' = [agent EXCEPT ![a] =
                      [at |-> "grant", ref |-> c, expires |-> expires]]
  /\ UNCHANGED <<grants, owner>>

\* The second locked section of Spool: the caller has its ref or an error.
FinishSpool(a) ==
  /\ agent[a].at = "grant"
  /\ IF Conflict(agent[a].ref, Who[a])
       THEN /\ agent' = [agent EXCEPT ![a] = Idle]
            /\ UNCHANGED <<grants, owner>>
       ELSE /\ RecordGrant(agent[a].ref, Who[a], agent[a].expires)
            /\ agent' = [agent EXCEPT ![a] =
                           Holding(agent[a].ref, {}, 0, FALSE)]
  /\ UNCHANGED <<blobs, runs>>

\* readOutputTool's caller takes up a ref it has heard of.
TakeRef(a) ==
  /\ agent[a].at = "idle" /\ runs < MaxToolRuns
  /\ runs' = runs + 1
  /\ \E c \in Contents : agent' = [agent EXCEPT ![a] = Holding(c, {}, 0, FALSE)]
  /\ UNCHANGED <<blobs, grants, owner>>

\* readOutputTool.Run as far as Load's look at the grant.
LoadGrant(a) ==
  /\ agent[a].at = "holding" /\ ~agent[a].done
  /\ LET c == agent[a].ref
     IN  IF LoadDenied(c, Who[a]) \/ LoadExpired(c)
           THEN /\ agent' = [agent EXCEPT ![a] = Idle]
                /\ grants' = IF LoadDenied(c, Who[a]) THEN grants
                             ELSE Drop(grants, c)
           ELSE /\ agent' = [agent EXCEPT ![a].at = "loading"]
                /\ UNCHANGED grants
  /\ UNCHANGED <<blobs, owner, runs>>

\* Mutant of PageEnd: the last page is not clamped to the content.
PageEndUnclamped(c, offset, limit) ==
  offset + (IF limit = 0 \/ limit > MaxPageBytes THEN MaxPageBytes ELSE limit)

\* Where a page of ReadOutputTool ends, exclusive.
PageEnd(c, offset, limit) ==
  Min({Size[c],
       offset + (IF limit = 0 \/ limit > MaxPageBytes THEN MaxPageBytes
                 ELSE limit)})

\* The agent loop's render: a result longer than the tool's MaxResultBytes is
\* cut at its end, marker first.
Cut(a, length) == a \in ThroughLoop /\ length > MaxPageBytes

\* What of a page the agent sees, and whether it sees where to go on.
SeenEnd(a, offset, end, length) ==
  IF Cut(a, length)
    THEN Min({end, offset + (IF MaxPageBytes < MarkerBytes THEN MaxPageBytes
                             ELSE MaxPageBytes - MarkerBytes)})
    ELSE end

\* Store.Get finds what was put and not evicted.
Get(c) == c \in blobs.held

\* The rest of readOutputTool.Run: the store is read outside the spool's
\* lock, and the page carries MoreMarker when bytes remain.
ReadPage(a) ==
  /\ agent[a].at = "loading"
  /\ LET c == agent[a].ref
         offset == agent[a].told
     IN  \/ /\ ~Get(c)
            /\ agent' = [agent EXCEPT ![a] = Idle]
         \/ /\ Get(c)
            /\ \E limit \in 0..MaxPageBytes :
                 LET end    == PageEnd(c, offset, limit)
                     more   == end < Size[c]
                     length == (end - offset) + (IF more THEN MarkerBytes ELSE 0)
                     seen   == SeenEnd(a, offset, end, length)
                 IN  agent' = [agent EXCEPT ![a] =
                       Holding(c, agent[a].got \union offset..(seen - 1), end,
                               ~more \/ Cut(a, length))]
  /\ UNCHANGED <<blobs, grants, owner, runs>>

\* The agent is done with a ref.
LetGo(a) ==
  /\ agent[a].at = "holding" /\ agent[a].done
  /\ agent' = [agent EXCEPT ![a] = Idle]
  /\ UNCHANGED <<blobs, grants, owner, runs>>

\* Expire, and the passing of a grant's time.
ExpireGrant(c) ==
  /\ c \in grants.held /\ owner[c].expires # "past"
  /\ owner' = [owner EXCEPT ![c].expires = "past"]
  /\ UNCHANGED <<blobs, grants, agent, runs>>

AgentStep(a) ==
  \/ RunSpoolTool(a) \/ FinishSpool(a) \/ TakeRef(a) \/ LoadGrant(a)
  \/ ReadPage(a) \/ LetGo(a)

SpoolNext ==
  (\E a \in Agents : AgentStep(a)) \/ (\E c \in Contents : ExpireGrant(c))

----------------------------------------------------------------------------
(* Properties.                                                             *)

\* A reader that follows the offsets its pages name has, at every page, read
\* exactly the bytes before that offset, and all of them when no offset
\* follows (memory/readtool.go Run): pages neither overlap nor leave a gap at
\* a bound.  Not so for a reader behind the agent loop, whose render cuts the
\* marker off a full page.
PagesCoverContent ==
  \A a \in Agents \ ThroughLoop :
    agent[a].at = "holding"
      => agent[a].got = (IF agent[a].done THEN 0..(Size[agent[a].ref] - 1)
                         ELSE 0..(agent[a].told - 1))

============================================================================
