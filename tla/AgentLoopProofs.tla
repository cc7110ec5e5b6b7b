-------------------------- MODULE AgentLoopProofs --------------------------
(***************************************************************************)
(* Proofs about the agent loop (module AgentLoop): the reservations of its *)
(* work budget, the handshake between the loop and the goroutine that      *)
(* calls Trigger, the histories the model is sent, and the messages of a   *)
(* batch of tool calls.                                                    *)
(***************************************************************************)
EXTENDS AgentLoop, FiniteSetTheorems, SequenceTheorems, TLAPS

-----------------------------------------------------------------------------
(* The invariant.                                                          *)

SteerRecord ==
  [triggered : BOOLEAN, gen : Nat, acked : Nat, armed : BOOLEAN, canceled : BOOLEAN]

\* The loop has seen no generation that was not triggered, and the call in
\* flight is bound to the Steer; a retry is not.
SteerInv ==
  /\ steer \in SteerRecord /\ steer.acked <= steer.gen
  /\ pc = "chat" => steer.armed

LoopInv == SteerInv /\ BudgetSettled /\ TriggersSeen

-----------------------------------------------------------------------------
(* Steps.                                                                  *)

\* A step outside the calls of the model that leaves the Steer alone.
LEMMA QuietStep ==
  ASSUME LoopInv, UNCHANGED <<held, steer>>, pc \notin {"chat", "retry", "steered"},
         pc' \notin {"chat", "retry"}, pc = "stopped" => pc' = "stopped"
  PROVE  LoopInv'
<1>1. SteerInv' /\ BudgetSettled'
  BY DEF LoopInv, SteerInv, BudgetSettled
<1>2. TriggersSeen'
  BY DEF LoopInv, TriggersSeen
<1> QED
  BY <1>1, <1>2 DEF LoopInv

\* The steps before a call and after an answer.
LEMMA QuietSteps ==
  ASSUME LoopInv,
         \/ Top \/ Plan \/ ReserveFails \/ ObserveFails \/ AfterChat \/ NoToolCalls
         \/ CallsRefused \/ CallsBegin \/ CallsEnd
  PROVE  LoopInv'
<1>1. held = 0 /\ steer' = steer /\ pc \notin {"chat", "retry", "steered", "stopped"}
  BY DEF LoopInv, BudgetSettled, Top, Plan, ReserveFails, ObserveFails, AfterChat,
     NoToolCalls, CallsRefused, CallsBegin, CallsEnd
<1>2. held' = held
  BY <1>1 DEF Top, Plan, ReserveFails, ObserveFails, AfterChat,
     NoToolCalls, CallsRefused, CallsBegin, CallsEnd
<1>3. pc' \notin {"chat", "retry"}
  <2>1. CASE Top
    BY <2>1 DEF Top, HardFail, StopsWith, Ends, Goes
  <2>2. CASE Plan
    BY <2>2 DEF Plan, HardFail, Ends, Goes
  <2>3. CASE ReserveFails \/ ObserveFails
    BY <2>3 DEF ReserveFails, ObserveFails, AttemptFails, HardFail, Ends, Goes
  <2>4. CASE AfterChat
    BY <2>4 DEF AfterChat, HardFail, Ends, Goes
  <2>5. CASE NoToolCalls
    BY <2>5 DEF NoToolCalls, HardFail, StopsWith, Ends, Goes
  <2>6. CASE CallsRefused \/ CallsBegin
    BY <2>6 DEF CallsRefused, CallsBegin, HardFail, Ends, Goes
  <2>7. CASE CallsEnd
    BY <2>7 DEF CallsEnd, HardFail, StopsWith, Ends, Goes
  <2> QED
    BY <2>1, <2>2, <2>3, <2>4, <2>5, <2>6, <2>7
<1> QED
  BY <1>1, <1>2, <1>3, QuietStep

\* A call of the model begins.
LEMMA ChatStartsInv ==
  ASSUME LoopInv, ChatStarts
  PROVE  LoopInv'
<1>1. /\ pc = "reserve" /\ pc' = "chat" /\ held' = held + 1 /\ held = 0
      /\ steer' = [steer EXCEPT !.armed = TRUE, !.canceled = steer.triggered]
  BY DEF ChatStarts, Arms, Goes, LoopInv, BudgetSettled
<1>2. /\ steer' \in SteerRecord /\ steer'.armed /\ steer'.canceled = steer.triggered
      /\ steer'.gen = steer.gen /\ steer'.acked = steer.acked
      /\ steer'.triggered = steer.triggered
  BY <1>1 DEF LoopInv, SteerInv, SteerRecord
<1>3. SteerInv' /\ BudgetSettled'
  BY <1>1, <1>2 DEF LoopInv, SteerInv, BudgetSettled
<1>4. TriggersSeen'
  BY <1>1, <1>2 DEF LoopInv, TriggersSeen
<1> QED
  BY <1>3, <1>4 DEF LoopInv

\* It ends: the reservation is settled and the call no longer bound.
LEMMA ChatEndsInv ==
  ASSUME LoopInv, ChatAnswers \/ ChatFails \/ ChatTooLong
  PROVE  LoopInv'
<1>1. /\ pc = "chat" /\ held' = held - 1 /\ held = 1
      /\ steer' = [steer EXCEPT !.armed = FALSE, !.canceled = FALSE]
  BY DEF ChatAnswers, ChatFails, ChatTooLong, Disarms, LoopInv, BudgetSettled
<1>2. pc' \in {"after", "canceled", "stopped", "recover"}
  BY DEF ChatAnswers, ChatFails, ChatTooLong, AttemptFails, HardFail, Ends, Goes
<1>3. /\ steer' \in SteerRecord /\ steer'.gen = steer.gen /\ steer'.acked = steer.acked
      /\ steer'.triggered = steer.triggered
  BY <1>1 DEF LoopInv, SteerInv, SteerRecord
<1>4. SteerInv' /\ BudgetSettled'
  BY <1>1, <1>2, <1>3 DEF LoopInv, SteerInv, BudgetSettled
<1>5. TriggersSeen'
  BY <1>1, <1>2, <1>3 DEF LoopInv, TriggersSeen
<1> QED
  BY <1>4, <1>5 DEF LoopInv

\* The recovery from a prompt that is too long reserves for its own call.
LEMMA RecoveryInv ==
  ASSUME LoopInv, Recover \/ RetryAnswers \/ RetryFails
  PROVE  LoopInv'
<1>1. steer' = steer
  BY DEF Recover, RetryAnswers, RetryFails
<1>2. \/ pc = "recover" /\ pc' = "stopped" /\ held = 0 /\ held' = 0
      \/ pc = "recover" /\ pc' = "retry" /\ held = 0 /\ held' = 1
      \/ pc = "retry" /\ pc' \in {"after", "stopped"} /\ held = 1 /\ held' = 0
  <2>1. CASE Recover
    <3>1. pc = "recover" /\ held = 0
      BY <2>1 DEF Recover, LoopInv, BudgetSettled
    <3>2. \/ pc' = "stopped" /\ held' = held
          \/ pc' = "retry" /\ held' = held + 1
      BY <2>1 DEF Recover, RecoveryFail, Ends, Goes
    <3> QED
      BY <3>1, <3>2
  <2>2. CASE RetryAnswers \/ RetryFails
    <3>1. pc = "retry" /\ held = 1
      BY <2>2 DEF RetryAnswers, RetryFails, LoopInv, BudgetSettled
    <3>2. pc' \in {"after", "stopped"} /\ held' = held - 1
      BY <2>2 DEF RetryAnswers, RetryFails, RecoveryFail, Ends, Goes
    <3> QED
      BY <3>1, <3>2
  <2> QED
    BY <2>1, <2>2
<1>3. SteerInv' /\ BudgetSettled'
  BY <1>1, <1>2 DEF LoopInv, SteerInv, BudgetSettled
<1>4. TriggersSeen'
  BY <1>1, <1>2 DEF LoopInv, TriggersSeen
<1> QED
  BY <1>3, <1>4 DEF LoopInv

\* isSteerStop notes the generation it has seen.
LEMMA CanceledInv ==
  ASSUME LoopInv, Canceled
  PROVE  LoopInv'
<1>1. CASE steer' = steer /\ pc' = "stopped"
  BY <1>1, QuietStep DEF Canceled
<1>2. CASE WasTriggered /\ Goes("steered", st)
  <2>1. /\ pc = "canceled" /\ pc' = "steered" /\ held' = held /\ steer.triggered
        /\ steer' = [steer EXCEPT !.acked = steer.gen]
    BY <1>2 DEF Canceled, WasTriggered, Goes
  <2>2. /\ steer' \in SteerRecord /\ steer'.acked = steer.gen /\ steer'.gen = steer.gen
        /\ steer'.triggered = steer.triggered /\ steer.gen \in Nat
    BY <2>1 DEF LoopInv, SteerInv, SteerRecord
  <2>3. SteerInv' /\ BudgetSettled'
    BY <2>1, <2>2 DEF LoopInv, SteerInv, BudgetSettled
  <2>4. TriggersSeen'
    BY <2>1, <2>2 DEF TriggersSeen
  <2> QED
    BY <2>3, <2>4 DEF LoopInv
<1> QED
  BY <1>1, <1>2 DEF Canceled, HardFail, Ends

\* A steered stop ends the run or is acknowledged, and then a Trigger that
\* came in between is not.
LEMMA SteeredInv ==
  ASSUME LoopInv, Steered
  PROVE  LoopInv'
<1>1. CASE steer' = steer /\ pc' = "stopped"
  <2>1. pc = "steered" /\ held' = held
    BY DEF Steered
  <2>2. SteerInv' /\ BudgetSettled'
    BY <1>1, <2>1 DEF LoopInv, SteerInv, BudgetSettled
  <2>3. TriggersSeen'
    BY <1>1, <2>1 DEF LoopInv, TriggersSeen
  <2> QED
    BY <2>2, <2>3 DEF LoopInv
<1>2. CASE steer' = AckTriggered /\ pc' = "top"
  <2>1. pc = "steered" /\ held' = held
    BY DEF Steered
  <2>2. /\ steer' \in SteerRecord /\ steer'.acked = steer.acked /\ steer'.gen = steer.gen
        /\ steer'.triggered = (steer.triggered /\ steer.gen # steer.acked)
    BY <1>2 DEF AckTriggered, LoopInv, SteerInv, SteerRecord
  <2>3. SteerInv' /\ BudgetSettled'
    BY <1>2, <2>1, <2>2 DEF LoopInv, SteerInv, BudgetSettled
  <2>4. TriggersSeen'
    BY <1>2, <2>1, <2>2 DEF LoopInv, TriggersSeen
  <2> QED
    BY <2>3, <2>4 DEF LoopInv
<1> QED
  BY <1>1, <1>2 DEF Steered, StopsWith, HardFail, Ends, Goes

\* Another goroutine calls Trigger, at any time.
LEMMA TriggerInv ==
  ASSUME LoopInv, Trigger
  PROVE  LoopInv'
<1>1. /\ steer' = [steer EXCEPT !.triggered = TRUE, !.gen = @ + 1,
                                !.canceled = @ \/ steer.armed]
      /\ UNCHANGED <<pc, held>> /\ steer \in SteerRecord /\ steer.acked <= steer.gen
  BY DEF Trigger, LoopInv, SteerInv
<1>2. steer.gen \in Nat /\ steer.acked \in Nat /\ steer.gen + 1 \in Nat
      /\ (steer.canceled \/ steer.armed) \in BOOLEAN
  BY <1>1 DEF SteerRecord
<1>3. /\ steer' \in SteerRecord /\ steer'.triggered /\ steer'.gen = steer.gen + 1
      /\ steer'.acked = steer.acked /\ steer'.armed = steer.armed
      /\ (steer.armed => steer'.canceled)
  BY <1>1, <1>2 DEF SteerRecord
<1>4. SteerInv' /\ BudgetSettled'
  BY <1>1, <1>2, <1>3 DEF LoopInv, SteerInv, BudgetSettled
<1>5. TriggersSeen'
  BY <1>1, <1>2, <1>3 DEF LoopInv, SteerInv, TriggersSeen
<1> QED
  BY <1>4, <1>5 DEF LoopInv

\* A run begins with a Steer that was reset.
LEMMA RunStartsInv ==
  ASSUME LoopInv, RunStarts
  PROVE  LoopInv'
<1>1. pc = "stopped" /\ pc' = "top" /\ held' = held /\ steer' = NewSteer
  BY DEF RunStarts
<1>2. /\ NewSteer \in SteerRecord /\ NewSteer.gen = 0 /\ NewSteer.acked = 0
      /\ NewSteer.triggered = FALSE
  BY DEF NewSteer, SteerRecord
<1>3. SteerInv' /\ BudgetSettled'
  BY <1>1, <1>2 DEF LoopInv, SteerInv, BudgetSettled
<1>4. TriggersSeen'
  BY <1>1, <1>2 DEF TriggersSeen
<1> QED
  BY <1>3, <1>4 DEF LoopInv

\* The others leave the Steer and the budget alone.
LEMMA IdleStep ==
  ASSUME LoopInv, UNCHANGED <<pc, held, steer>>
  PROVE  LoopInv'
  BY DEF LoopInv, SteerInv, BudgetSettled, TriggersSeen

-----------------------------------------------------------------------------

\* Every reachable state of the loop, its caller and its steerer: the Steer
\* and the reservations agree with where the run is.
THEOREM LoopInvariance == Spec => []LoopInv
<1>1. Init => LoopInv
  <2> SUFFICES ASSUME Init PROVE LoopInv
    OBVIOUS
  <2>1. steer = NewSteer /\ pc = "stopped" /\ held = 0
    BY DEF Init
  <2>2. /\ NewSteer \in SteerRecord /\ NewSteer.gen = 0 /\ NewSteer.acked = 0
    BY DEF NewSteer, SteerRecord
  <2> QED
    BY <2>1, <2>2 DEF LoopInv, SteerInv, BudgetSettled, TriggersSeen
<1>2. LoopInv /\ [Next]_loopVars => LoopInv'
  <2> SUFFICES ASSUME LoopInv, [Next]_loopVars PROVE LoopInv'
    OBVIOUS
  <2>1. CASE UNCHANGED loopVars \/ Cancel
    BY <2>1, IdleStep DEF loopVars, Cancel
  <2>2. ASSUME NEW w \in Workers, Pool(w)
        PROVE  LoopInv'
    BY <2>2, IdleStep DEF Pool
  <2>3. ASSUME NEW i \in 1..MaxBatch, Tool(i)
        PROVE  LoopInv'
    BY <2>3, IdleStep DEF Tool
  <2>4. CASE Proceed
    BY <2>4, QuietSteps, ChatStartsInv, ChatEndsInv, RecoveryInv, CanceledInv, SteeredInv
    DEF Proceed
  <2> QED
    BY <2>1, <2>2, <2>3, <2>4, RunStartsInv, TriggerInv DEF Next
<1> QED
  BY <1>1, <1>2, PTL DEF Spec

\* WorkBudget (work_budget.go, chat.go): on every path of the loop, errors,
\* cancellation and recovery included, a reservation is open exactly while a
\* call of the model is under way.
THEOREM BudgetIsSettled == Spec => []BudgetSettled
<1>1. LoopInv => BudgetSettled
  BY DEF LoopInv
<1> QED
  BY <1>1, LoopInvariance, PTL

\* Steer (steer.go): however Trigger interleaves with the loop, and however
\* often it is called, no Trigger is lost and none acts twice.
THEOREM TriggersAreSeen == Spec => []TriggersSeen
<1>1. LoopInv => TriggersSeen
  BY DEF LoopInv
<1> QED
  BY <1>1, LoopInvariance, PTL

-----------------------------------------------------------------------------
(* Selections.  Rank numbers the indices of a selection in their order; a  *)
(* run of neighbours that is selected as a whole keeps its shape.          *)

Rank(K, i) == Cardinality({j \in K : j <= i})

NthOf(K, n) == CHOOSE i \in K : Rank(K, i) = n

\* Ranks are counted up to the size of the selection, and grow.
LEMMA RankGrows ==
  ASSUME NEW N \in Nat, NEW K \in SUBSET (1..N)
  PROVE  /\ IsFiniteSet(K) /\ Cardinality(K) \in Nat
         /\ \A i \in K : Rank(K, i) \in 1..Cardinality(K)
         /\ \A i, j \in K : i < j => Rank(K, i) < Rank(K, j)
<1>0. \A i \in K : i \in Nat
  OBVIOUS
<1>1. IsFiniteSet(K)
  <2>1. IsFiniteSet(1..N)
    BY FS_Interval
  <2> QED
    BY <2>1, FS_Subset
<1>2. Cardinality(K) \in Nat
  BY <1>1, FS_CardinalityType
<1> DEFINE Upto(i) == {j \in K : j <= i}
<1>3. \A i : IsFiniteSet(Upto(i)) /\ Cardinality(Upto(i)) <= Cardinality(K)
  BY <1>1, FS_Subset
<1>4. \A i : Cardinality(Upto(i)) \in Nat
  BY <1>3, FS_CardinalityType
<1>5. ASSUME NEW i \in K PROVE Cardinality(Upto(i)) # 0
  <2>1. i \in Upto(i)
    OBVIOUS
  <2> QED
    BY <1>3, <2>1, FS_EmptySet
<1>6. ASSUME NEW i \in K, NEW j \in K, i < j
      PROVE  Cardinality(Upto(i)) < Cardinality(Upto(j))
  <2>1. Upto(i) \in SUBSET Upto(j) /\ j \in Upto(j) /\ j \notin Upto(i)
    <3>1. i \in Nat /\ j \in Nat
      BY <1>0
    <3>2. \A x \in K : x <= i => x <= j
      BY <1>0, <1>6, <3>1
    <3>3. j <= j /\ ~(j <= i)
      BY <1>6, <3>1
    <3> QED
      BY <3>2, <3>3
  <2>2. Cardinality(Upto(i)) <= Cardinality(Upto(j))
    BY <1>3, <2>1, FS_Subset
  <2>3. Cardinality(Upto(i)) # Cardinality(Upto(j))
    BY <1>3, <2>1, FS_Subset
  <2> QED
    BY <1>4, <2>2, <2>3
<1> HIDE DEF Upto
<1>7. \A i : Rank(K, i) = Cardinality(Upto(i))
  BY DEF Rank, Upto
<1>8. \A i \in K : Rank(K, i) \in 1..Cardinality(K)
  BY <1>2, <1>3, <1>4, <1>5, <1>7
<1>9. \A i, j \in K : i < j => Rank(K, i) < Rank(K, j)
  BY <1>6, <1>7
<1> QED
  BY <1>1, <1>2, <1>8, <1>9

\* Every number up to the size of the selection is the rank of one index.
LEMMA RankedOnce ==
  ASSUME NEW N \in Nat, NEW K \in SUBSET (1..N)
  PROVE  /\ \A n \in 1..Cardinality(K) : NthOf(K, n) \in K /\ Rank(K, NthOf(K, n)) = n
         /\ \A i \in K : NthOf(K, Rank(K, i)) = i
<1>1. /\ IsFiniteSet(K) /\ Cardinality(K) \in Nat
      /\ \A i \in K : Rank(K, i) \in 1..Cardinality(K)
      /\ \A i, j \in K : i < j => Rank(K, i) < Rank(K, j)
  BY RankGrows
<1>2. \A i, j \in K : Rank(K, i) = Rank(K, j) => i = j
  <2> SUFFICES ASSUME NEW i \in K, NEW j \in K, i # j
               PROVE  Rank(K, i) # Rank(K, j)
    OBVIOUS
  <2>1. i \in Int /\ j \in Int /\ Rank(K, i) \in Int /\ Rank(K, j) \in Int
    BY <1>1
  <2>2. CASE i < j
    BY <1>1, <2>1, <2>2
  <2>3. CASE j < i
    BY <1>1, <2>1, <2>3
  <2> QED
    BY <2>1, <2>2, <2>3
<1> DEFINE f == [i \in K |-> Rank(K, i)]
           T == 1..Cardinality(K)
<1>3. f \in Injection(K, T)
  BY <1>1, <1>2 DEF Injection, IsInjective
<1>4. IsFiniteSet(T) /\ Cardinality(T) = Cardinality(K)
  BY <1>1, FS_Interval
<1>5. f \in Surjection(K, T)
  BY <1>3, <1>4, FS_Injection
<1>6. \A n \in T : \E i \in K : Rank(K, i) = n
  BY <1>5 DEF Surjection
<1>7. \A n \in T : NthOf(K, n) \in K /\ Rank(K, NthOf(K, n)) = n
  BY <1>6 DEF NthOf
<1>8. \A i \in K : NthOf(K, Rank(K, i)) = i
  BY <1>1, <1>2, <1>7
<1> QED
  BY <1>7, <1>8

\* Along a run of selected neighbours the rank counts one by one.
LEMMA RankOfRun ==
  ASSUME NEW N \in Nat, NEW K \in SUBSET (1..N), NEW a \in K,
         NEW k \in Nat, a <= k, (a + 1)..k \subseteq K
  PROVE  Rank(K, k) = Rank(K, a) + (k - a)
<1> DEFINE A == {j \in K : j <= a}
           R == (a + 1)..k
<1>0. \A i \in K : i \in Nat
  OBVIOUS
<1>1. a \in Nat /\ IsFiniteSet(K)
  BY <1>0, RankGrows
<1>2. IsFiniteSet(A) /\ Cardinality(A) \in Nat
  BY <1>1, FS_Subset, FS_CardinalityType
<1>3. IsFiniteSet(R) /\ Cardinality(R) = k - a
  BY <1>1, FS_Interval
<1>4. A \cap R = {}
  BY <1>1
<1>5. {j \in K : j <= k} = A \cup R
  <2>1. \A j \in K : j <= k <=> j <= a \/ j \in R
    BY <1>0, <1>1
  <2> QED
    BY <1>0, <1>1, <2>1
<1> HIDE DEF A, R
<1>6. Cardinality(A \cup R) = Cardinality(A) + (k - a)
  BY <1>1, <1>2, <1>3, <1>4, FS_Union, FS_EmptySet
<1> QED
  BY <1>5, <1>6 DEF Rank, A

\* What Pick returns: the selected messages, each at its rank.
LEMMA Picked ==
  ASSUME NEW h \in Seq(Messages), NEW K \in SUBSET (DOMAIN h)
  PROVE  /\ Pick(h, K) \in Seq(Messages)
         /\ DOMAIN Pick(h, K) = 1..Cardinality(K) /\ Cardinality(K) \in Nat
         /\ \A i \in K : /\ Rank(K, i) \in DOMAIN Pick(h, K)
                         /\ Pick(h, K)[Rank(K, i)] = h[i]
         /\ \A n \in DOMAIN Pick(h, K) :
              \E i \in K : n = Rank(K, i) /\ Pick(h, K)[n] = h[i]
<1>1. Len(h) \in Nat /\ K \in SUBSET (1..Len(h))
  OBVIOUS
<1>2. Cardinality(K) \in Nat /\ \A i \in K : Rank(K, i) \in 1..Cardinality(K)
  BY <1>1, RankGrows
<1>3. /\ \A n \in 1..Cardinality(K) : NthOf(K, n) \in K /\ Rank(K, NthOf(K, n)) = n
      /\ \A i \in K : NthOf(K, Rank(K, i)) = i
  BY <1>1, RankedOnce
<1>4. Pick(h, K) = [n \in 1..Cardinality(K) |-> h[NthOf(K, n)]]
  BY DEF Pick, NthOf, Rank
<1>5. \A n \in 1..Cardinality(K) : h[NthOf(K, n)] \in Messages
  BY <1>1, <1>3
<1>6. Pick(h, K) \in Seq(Messages)
  BY <1>2, <1>4, <1>5
<1>7. \A i \in K : /\ Rank(K, i) \in DOMAIN Pick(h, K)
                   /\ Pick(h, K)[Rank(K, i)] = h[i]
  BY <1>2, <1>3, <1>4
<1>8. \A n \in DOMAIN Pick(h, K) :
        \E i \in K : n = Rank(K, i) /\ Pick(h, K)[n] = h[i]
  BY <1>3, <1>4
<1> QED
  BY <1>2, <1>4, <1>6, <1>7, <1>8

-----------------------------------------------------------------------------
(* Calls and replies.                                                      *)

\* Where the replies to the calls of message i stand.
Span(h, i) == (i + 1)..(i + Cardinality(h[i].calls))

\* Paired, read with Span.
LEMMA PairedSpans ==
  ASSUME NEW h
  PROVE  Paired(h) <=>
           /\ \A i \in DOMAIN h : /\ Span(h, i) \subseteq DOMAIN h
                                  /\ {h[k].id : k \in Span(h, i)} = h[i].calls
           /\ \A k \in DOMAIN h : h[k].role = "tool" =>
                \E i \in 1..(k - 1) : k \in Span(h, i)
  BY DEF Paired, Span

\* What a message is.
LEMMA MessageFields ==
  ASSUME NEW m \in Messages
  PROVE  /\ m.role \in Roles /\ m.tag \in Tags
         /\ IsFiniteSet(m.calls) /\ Cardinality(m.calls) \in Nat
         /\ NoId \notin m.calls
         /\ m.calls # {} => m.role = "assistant"
         /\ m.role # "tool" => m.id = NoId
         /\ m.tag = "summary" => m = SummaryMessage
  BY FS_CardinalityType DEF Messages

\* The messages that stand where replies do are tool messages, and the
\* message they stand behind is an assistant turn.
LEMMA SpanIsReplies ==
  ASSUME NEW h \in Seq(Messages), Paired(h), NEW i \in DOMAIN h,
         NEW k \in Span(h, i)
  PROVE  /\ k \in DOMAIN h /\ i < k /\ i \in 1..(k - 1)
         /\ h[k].role = "tool" /\ h[k].id \in h[i].calls
         /\ h[i].role = "assistant" /\ h[i].calls # {}
<1>1. h[i] \in Messages /\ i \in Nat \ {0}
  OBVIOUS
<1>2. Cardinality(h[i].calls) \in Nat
  BY <1>1, MessageFields
<1>3. k \in DOMAIN h /\ h[k].id \in h[i].calls
  BY PairedSpans
<1>4. k \in Nat /\ i < k /\ i \in 1..(k - 1)
  BY <1>1, <1>2, <1>3 DEF Span
<1>5. h[k] \in Messages /\ h[k].role = "tool"
  BY <1>1, <1>3, MessageFields
<1> QED
  BY <1>1, <1>3, <1>4, <1>5, MessageFields

\* A selection that splits no turn from its replies.
Whole(h, K) ==
  /\ \A i \in K : Span(h, i) \subseteq K
  /\ \A k \in K : h[k].role = "tool" => \E i \in K : k \in Span(h, i)

\* Such a selection has its calls and replies in pairs.
LEMMA PickPaired ==
  ASSUME NEW h \in Seq(Messages), Paired(h), NEW K \in SUBSET (DOMAIN h),
         Whole(h, K)
  PROVE  Paired(Pick(h, K))
<1> DEFINE P == Pick(h, K)
<1>1. /\ P \in Seq(Messages) /\ DOMAIN P = 1..Cardinality(K)
      /\ Cardinality(K) \in Nat
      /\ \A i \in K : Rank(K, i) \in DOMAIN P /\ P[Rank(K, i)] = h[i]
      /\ \A n \in DOMAIN P : \E i \in K : n = Rank(K, i) /\ P[n] = h[i]
  BY Picked
<1>2. Len(h) \in Nat /\ K \in SUBSET (1..Len(h)) /\ DOMAIN h = 1..Len(h)
  OBVIOUS
<1>3. \A i \in K : i \in Nat /\ i \in DOMAIN h
  BY <1>2
<1>4. ASSUME NEW i \in K, NEW k \in Span(h, i)
      PROVE  /\ k \in K /\ k \in Nat /\ i < k
             /\ Rank(K, k) = Rank(K, i) + (k - i)
  <2>1. k \in K /\ k \in Nat /\ i < k /\ i \in Nat
    BY <1>3, <1>4, SpanIsReplies DEF Whole
  <2>2. (i + 1)..k \subseteq K
    <3>1. h[i] \in Messages
      BY <1>3
    <3>2. Cardinality(h[i].calls) \in Nat
      BY <3>1, MessageFields
    <3>3. (i + 1)..k \subseteq Span(h, i)
      BY <1>4, <2>1, <3>2 DEF Span
    <3> QED
      BY <3>3 DEF Whole
  <2>3. Rank(K, k) = Rank(K, i) + (k - i)
    <3>1. i <= k
      BY <2>1
    <3> QED
      BY <1>2, <2>1, <2>2, <3>1, RankOfRun
  <2> QED
    BY <2>1, <2>3
<1> HIDE DEF P
<1>5. ASSUME NEW n \in DOMAIN P
      PROVE  /\ Span(P, n) \subseteq DOMAIN P
             /\ {P[q].id : q \in Span(P, n)} = P[n].calls
  <2>1. PICK i \in K : n = Rank(K, i) /\ P[n] = h[i]
    BY <1>1
  <2>2. i \in Nat /\ n \in Nat /\ h[i] \in Messages
    BY <1>1, <1>3, <2>1
  <2>3. Cardinality(h[i].calls) \in Nat
    BY <2>2, MessageFields
  <2>4. ASSUME NEW q \in Span(P, n)
        PROVE  \E k \in Span(h, i) : q \in DOMAIN P /\ P[q] = h[k]
    <3>1. q \in Int /\ i + (q - n) \in Span(h, i)
      BY <2>1, <2>2, <2>3 DEF Span
    <3>2. i + (q - n) \in K /\ Rank(K, i + (q - n)) = q
      BY <1>4, <2>1, <2>2, <3>1
    <3> QED
      BY <1>1, <3>1, <3>2
  <2>5. ASSUME NEW k \in Span(h, i)
        PROVE  \E q \in Span(P, n) : P[q] = h[k]
    <3>1. k \in K /\ k \in Nat /\ Rank(K, k) = n + (k - i)
      BY <1>4, <2>1
    <3>2. n + (k - i) \in Span(P, n)
      BY <2>1, <2>2, <2>3, <3>1 DEF Span
    <3> QED
      BY <1>1, <3>1, <3>2
  <2>6. {P[q].id : q \in Span(P, n)} = {h[k].id : k \in Span(h, i)}
    BY <2>4, <2>5
  <2>7. {h[k].id : k \in Span(h, i)} = h[i].calls
    BY <1>3, PairedSpans
  <2> QED
    BY <2>1, <2>4, <2>6, <2>7
<1>6. ASSUME NEW n \in DOMAIN P, P[n].role = "tool"
      PROVE  \E m \in 1..(n - 1) : n \in Span(P, m)
  <2>1. PICK k \in K : n = Rank(K, k) /\ P[n] = h[k]
    BY <1>1
  <2>2. PICK i \in K : k \in Span(h, i)
    BY <1>6, <2>1 DEF Whole
  <2>3. k \in Nat /\ i \in Nat /\ i < k /\ n = Rank(K, i) + (k - i)
    BY <1>3, <1>4, <2>1, <2>2
  <2>4. /\ Rank(K, i) \in Nat \ {0} /\ P[Rank(K, i)] = h[i] /\ h[i] \in Messages
        /\ Cardinality(h[i].calls) \in Nat
    BY <1>1, <1>3, MessageFields
  <2>5. Rank(K, i) \in 1..(n - 1)
    BY <2>3, <2>4
  <2>6. n \in Span(P, Rank(K, i))
    BY <2>2, <2>3, <2>4 DEF Span
  <2> QED
    BY <2>5, <2>6
<1> QED
  BY <1>5, <1>6, PairedSpans DEF P

-----------------------------------------------------------------------------
(* Readable histories.                                                     *)

Good(h) == h \in Seq(Messages) /\ Readable(h)

Full(h) == \A i \in DOMAIN h : ~IsEmptyAssistantTurn(h[i])

\* Of a set of indices there is a last and a first.
LEMMA Extremes ==
  ASSUME NEW N \in Nat, NEW S \in SUBSET (1..N), S # {}
  PROVE  /\ Max(S) \in S /\ \A x \in S : x <= Max(S)
         /\ Min(S) \in S /\ \A x \in S : Min(S) <= x
<1>0. \A x \in S : x \in Nat
  OBVIOUS
<1>1. /\ IsFiniteSet(S) /\ Cardinality(S) \in Nat
      /\ \A i \in S : Rank(S, i) \in 1..Cardinality(S)
      /\ \A i, j \in S : i < j => Rank(S, i) < Rank(S, j)
  BY RankGrows
<1>2. \A n \in 1..Cardinality(S) : NthOf(S, n) \in S /\ Rank(S, NthOf(S, n)) = n
  BY RankedOnce
<1>3. Cardinality(S) \in 1..Cardinality(S) /\ 1 \in 1..Cardinality(S)
  <2>1. Cardinality(S) # 0
    BY <1>1, FS_EmptySet
  <2> QED
    BY <1>1, <2>1
<1>4. \E x \in S : \A y \in S : x >= y
  <2>1. PICK x \in S : Rank(S, x) = Cardinality(S)
    BY <1>2, <1>3
  <2>2. ASSUME NEW y \in S PROVE x >= y
    <3>1. ~(x < y)
      BY <1>1, <2>1
    <3> QED
      BY <1>0, <3>1
  <2> QED
    BY <2>2
<1>5. \E x \in S : \A y \in S : x <= y
  <2>1. PICK x \in S : Rank(S, x) = 1
    BY <1>2, <1>3
  <2>2. ASSUME NEW y \in S PROVE x <= y
    <3>1. ~(y < x)
      BY <1>1, <2>1
    <3> QED
      BY <1>0, <3>1
  <2> QED
    BY <2>2
<1>6. Max(S) \in S /\ \A y \in S : Max(S) >= y
  BY <1>4 DEF Max
<1>7. Min(S) \in S /\ \A y \in S : Min(S) <= y
  BY <1>5 DEF Min
<1> QED
  BY <1>0, <1>6, <1>7

\* At most one summary, said of indices.
LEMMA OneSummary ==
  ASSUME NEW h \in Seq(Messages)
  PROVE  Cardinality({i \in DOMAIN h : h[i].tag = "summary"}) <= 1 <=>
           \A i, j \in DOMAIN h :
             h[i].tag = "summary" /\ h[j].tag = "summary" => i = j
<1> DEFINE S == {i \in DOMAIN h : h[i].tag = "summary"}
<1>1. IsFiniteSet(S) /\ Cardinality(S) \in Nat
  <2>1. IsFiniteSet(1..Len(h)) /\ S \in SUBSET (1..Len(h))
    BY FS_Interval
  <2> QED
    BY <2>1, FS_Subset, FS_CardinalityType
<1>2. ASSUME Cardinality(S) <= 1, NEW i \in S, NEW j \in S
      PROVE  i = j
  <2>1. Cardinality(S) # 0
    BY <1>1, FS_EmptySet
  <2>2. Cardinality(S) = 1
    BY <1>1, <1>2, <2>1
  <2> HIDE DEF S
  <2>3. \E x : S = {x}
    BY <1>1, <2>2, FS_Singleton
  <2> QED
    BY <1>2, <2>3
<1>3. ASSUME \A i, j \in S : i = j
      PROVE  Cardinality(S) <= 1
  <2> HIDE DEF S
  <2>1. CASE S = {}
    BY <2>1, FS_EmptySet
  <2>2. CASE S # {}
    <3>1. \E x : S = {x}
      <4>1. PICK x : x \in S
        BY <2>2
      <4>2. S = {x}
        BY <1>3, <4>1
      <4> QED
        BY <4>2
    <3>2. Cardinality(S) = 1
      BY <1>1, <3>1, FS_Singleton
    <3> QED
      BY <3>2
  <2> QED
    BY <2>1, <2>2
<1> QED
  BY <1>2, <1>3

\* A selection that keeps turns whole, the system message and a message of
\* the user behind every summary it keeps, can be read.
LEMMA PickGood ==
  ASSUME NEW h, Good(h), NEW K \in SUBSET (DOMAIN h), Whole(h, K), 1 \in K,
         NEW j \in K, h[j].role = "user", h[j].tag # "summary",
         \A i \in K : h[i].tag = "summary" => i < j
  PROVE  Good(Pick(h, K))
<1> DEFINE P == Pick(h, K)
<1>0. h \in Seq(Messages) /\ Readable(h)
  BY DEF Good
<1>1. /\ P \in Seq(Messages) /\ DOMAIN P = 1..Cardinality(K)
      /\ \A i \in K : Rank(K, i) \in DOMAIN P /\ P[Rank(K, i)] = h[i]
      /\ \A n \in DOMAIN P : \E i \in K : n = Rank(K, i) /\ P[n] = h[i]
  BY <1>0, Picked
<1>2. Len(h) \in Nat /\ K \in SUBSET (1..Len(h)) /\ \A i \in K : i \in Nat \ {0}
  BY <1>0
<1>3. /\ \A i \in K : Rank(K, i) \in 1..Cardinality(K)
      /\ \A i, k \in K : i < k => Rank(K, i) < Rank(K, k)
  BY <1>2, RankGrows
<1>4. Paired(P)
  BY <1>0, PickPaired DEF Readable
<1> HIDE DEF P
<1>5. Cardinality(K) \in Nat /\ \A i \in K : Rank(K, i) \in Nat \ {0}
  <2>1. Cardinality(K) \in Nat
    BY <1>2, RankGrows
  <2> QED
    BY <1>3, <2>1
<1>6. Rank(K, 1) = 1
  <2>1. 1 \in 1..Cardinality(K)
    BY <1>3, <1>5
  <2>2. PICK i \in K : Rank(K, i) = 1
    BY <1>1, <2>1
  <2>3. ~(1 < i)
    BY <1>3, <1>5, <2>2
  <2> QED
    BY <1>2, <2>2, <2>3
<1>7. ASSUME NEW n \in DOMAIN P PROVE P[n].role = "system" <=> n = 1
  <2>1. PICK i \in K : n = Rank(K, i) /\ P[n] = h[i]
    BY <1>1
  <2>2. P[n].role = "system" <=> i = 1
    BY <1>0, <2>1 DEF Readable
  <2>3. i # 1 => n # 1
    BY <1>2, <1>3, <1>6, <2>1
  <2> QED
    BY <1>6, <2>1, <2>2, <2>3
<1>8. ASSUME NEW n \in DOMAIN P, NEW q \in DOMAIN P,
             P[n].tag = "summary", P[q].tag = "summary"
      PROVE  n = q
  <2>1. PICK i \in K : n = Rank(K, i) /\ P[n] = h[i]
    BY <1>1
  <2>2. PICK k \in K : q = Rank(K, k) /\ P[q] = h[k]
    BY <1>1
  <2>3. i = k
    BY <1>0, <1>8, <2>1, <2>2, OneSummary DEF Readable
  <2> QED
    BY <2>1, <2>2, <2>3
<1>9. /\ Rank(K, j) \in DOMAIN P /\ P[Rank(K, j)].role = "user"
      /\ P[Rank(K, j)].tag # "summary"
  BY <1>1
<1>10. ASSUME NEW n \in DOMAIN P, P[n].tag = "summary"
       PROVE  n < Rank(K, j)
  <2>1. PICK i \in K : n = Rank(K, i) /\ P[n] = h[i]
    BY <1>1
  <2> QED
    BY <1>3, <1>10, <2>1
<1> QED
  BY <1>1, <1>4, <1>7, <1>8, <1>9, <1>10, OneSummary DEF Good, Readable, P

\* g is h with m behind its first p messages.
Inserted(g, h, p, m) ==
  /\ g \in Seq(Messages) /\ Len(g) = Len(h) + 1
  /\ \A i \in 1..p : g[i] = h[i]
  /\ g[p + 1] = m
  /\ \A i \in (p + 1)..Len(h) : g[i + 1] = h[i]

\* A message put between two units leaves calls and replies in pairs.
LEMMA InsertPaired ==
  ASSUME NEW h \in Seq(Messages), Paired(h), NEW m \in Messages,
         m.calls = {}, m.role # "tool", NEW p \in 0..Len(h),
         p < Len(h) => h[p + 1].role # "tool",
         NEW g, Inserted(g, h, p, m)
  PROVE  Paired(g)
<1> DEFINE n == Len(h)
<1>1. n \in Nat /\ p \in Nat /\ p <= n /\ DOMAIN h = 1..n
  OBVIOUS
<1>2. /\ g \in Seq(Messages) /\ DOMAIN g = 1..(n + 1)
      /\ \A i \in 1..p : g[i] = h[i]
      /\ g[p + 1] = m
      /\ \A i \in (p + 1)..n : g[i + 1] = h[i]
  BY DEF Inserted
<1>3. Cardinality(m.calls) = 0
  BY FS_EmptySet
<1>4. \A i \in 1..n : Cardinality(h[i].calls) \in Nat
  <2> SUFFICES ASSUME NEW i \in 1..n PROVE Cardinality(h[i].calls) \in Nat
    OBVIOUS
  <2>1. h[i] \in Messages
    BY <1>1
  <2> QED
    BY <2>1, MessageFields
<1>5. ASSUME NEW i \in 1..p, NEW k \in Span(h, i) PROVE k \in 1..p /\ k \in 1..n
  <2>1. k \in 1..n /\ i < k /\ i \in 1..n
    BY <1>1, SpanIsReplies
  <2>2. ~(p < k)
    <3> SUFFICES ASSUME p < k PROVE FALSE
      OBVIOUS
    <3>1. p + 1 \in Span(h, i) /\ p < n
      BY <1>1, <1>4, <1>5, <2>1 DEF Span
    <3>2. h[p + 1].role = "tool"
      BY <1>1, <2>1, <3>1, SpanIsReplies
    <3> QED
      BY <3>1, <3>2
  <2> QED
    BY <1>1, <2>1, <2>2
<1>6. \A i \in 1..n : /\ Span(h, i) \subseteq 1..n
                      /\ {h[k].id : k \in Span(h, i)} = h[i].calls
  BY <1>1, PairedSpans
<1> HIDE DEF n
<1>7. ASSUME NEW i \in 1..(n + 1)
      PROVE  /\ Span(g, i) \subseteq 1..(n + 1)
             /\ {g[k].id : k \in Span(g, i)} = g[i].calls
  <2>1. CASE i \in 1..p
    <3>1. i \in 1..n /\ Span(g, i) = Span(h, i) /\ g[i] = h[i]
      BY <1>1, <1>2, <2>1 DEF Span
    <3>2. \A k \in Span(h, i) : k \in 1..(n + 1) /\ g[k] = h[k]
      BY <1>1, <1>2, <1>5, <2>1
    <3>3. {g[k].id : k \in Span(g, i)} = {h[k].id : k \in Span(h, i)}
      BY <3>1, <3>2
    <3> QED
      BY <1>6, <3>1, <3>2, <3>3
  <2>2. CASE i = p + 1
    <3>1. Span(g, i) = {}
      <4>0. i \in Nat /\ g[i] = m
        BY <1>1, <1>2, <2>2
      <4>1. i \in Nat /\ Cardinality(g[i].calls) = 0
        BY <1>3, <4>0, Zenon
      <4>2. Span(g, i) = (i + 1)..(i + 0)
        BY <4>1 DEF Span
      <4> QED
        BY <4>1, <4>2
    <3> QED
      BY <1>2, <2>2, <3>1
  <2>3. CASE i \in (p + 2)..(n + 1)
    <3>1. i - 1 \in (p + 1)..n /\ i - 1 \in 1..n /\ (i - 1) + 1 = i
      BY <1>1, <2>3
    <3>2. g[i] = h[i - 1]
      BY <1>2, <3>1
    <3>3. ASSUME NEW k \in Span(g, i)
          PROVE  k - 1 \in Span(h, i - 1) /\ k \in 1..(n + 1) /\ g[k] = h[k - 1]
      <4>1. k \in Int /\ k - 1 \in Span(h, i - 1)
        BY <1>4, <3>1, <3>2 DEF Span
      <4>2. k - 1 \in 1..n /\ k - 1 > i - 1
        BY <1>4, <1>6, <3>1, <4>1 DEF Span
      <4>3. k - 1 \in (p + 1)..n /\ (k - 1) + 1 = k
        BY <1>1, <3>1, <4>1, <4>2
      <4>4. g[(k - 1) + 1] = h[k - 1]
        BY <1>2, <4>3
      <4> QED
        BY <1>1, <4>1, <4>2, <4>3, <4>4
    <3>4. ASSUME NEW k \in Span(h, i - 1)
          PROVE  k + 1 \in Span(g, i) /\ g[k + 1] = h[k]
      <4>1. k \in 1..n /\ k > i - 1 /\ k + 1 \in Span(g, i)
        BY <1>4, <1>6, <3>1, <3>2 DEF Span
      <4>2. k \in (p + 1)..n
        BY <1>1, <3>1, <4>1
      <4> QED
        BY <1>2, <4>1, <4>2
    <3>5. {g[k].id : k \in Span(g, i)} = {h[k].id : k \in Span(h, i - 1)}
      BY <3>3, <3>4
    <3> QED
      BY <1>6, <3>1, <3>2, <3>3, <3>5
  <2> QED
    BY <1>1, <2>1, <2>2, <2>3
<1>8. ASSUME NEW k \in 1..(n + 1), g[k].role = "tool"
      PROVE  \E i \in 1..(k - 1) : k \in Span(g, i)
  <2>0. \A x \in 1..n : h[x].role = "tool" => \E i \in 1..(x - 1) : x \in Span(h, i)
    BY <1>1, PairedSpans
  <2>1. CASE k \in 1..p
    <3>1. PICK i \in 1..(k - 1) : k \in Span(h, i)
      BY <1>1, <1>2, <1>8, <2>0, <2>1
    <3>2. g[i] = h[i]
      BY <1>1, <1>2, <2>1, <3>1
    <3> QED
      BY <3>1, <3>2 DEF Span
  <2>2. CASE k = p + 1
    BY <1>2, <1>8, <2>2
  <2>3. CASE k \in (p + 2)..(n + 1)
    <3>1. k - 1 \in (p + 1)..n /\ k - 1 \in 1..n /\ (k - 1) + 1 = k
      BY <1>1, <2>3
    <3>2. g[k] = h[k - 1]
      BY <1>2, <3>1
    <3>3. PICK i \in 1..((k - 1) - 1) : k - 1 \in Span(h, i)
      BY <1>8, <2>0, <3>1, <3>2
    <3>4. i \notin 1..p
      BY <1>1, <1>5, <3>1, <3>3
    <3>5. i \in (p + 1)..n /\ i + 1 \in 1..(k - 1) /\ i \in 1..n
      BY <1>1, <3>1, <3>3, <3>4
    <3>6. g[i + 1] = h[i]
      BY <1>2, <3>5
    <3>7. k \in Span(g, i + 1)
      BY <1>4, <3>1, <3>3, <3>5, <3>6 DEF Span
    <3> QED
      BY <3>5, <3>7
  <2> QED
    BY <1>1, <2>1, <2>2, <2>3
<1> QED
  BY <1>2, <1>7, <1>8, PairedSpans

\* A message of no unit, put behind the system message or later, leaves a
\* readable history so; a summary may only come first, where there is none.
LEMMA InsertGood ==
  ASSUME NEW h, Good(h), NEW m \in Messages, m.role = "user",
         NEW p \in 1..Len(h), p < Len(h) => h[p + 1].role # "tool",
         m.tag = "summary" => /\ p = 1
                              /\ \A i \in DOMAIN h : h[i].tag # "summary",
         NEW g, Inserted(g, h, p, m)
  PROVE  Good(g)
<1> DEFINE n == Len(h)
           To(i) == IF i <= p THEN i ELSE i + 1
<1>0. h \in Seq(Messages) /\ Readable(h)
  BY DEF Good
<1>1. n \in Nat /\ p \in Nat \ {0} /\ p <= n /\ DOMAIN h = 1..n
  BY <1>0
<1>2. /\ g \in Seq(Messages) /\ DOMAIN g = 1..(n + 1)
      /\ \A i \in 1..p : g[i] = h[i]
      /\ g[p + 1] = m
      /\ \A i \in (p + 1)..n : g[i + 1] = h[i]
  BY <1>0 DEF Inserted
<1>3. m.calls = {} /\ m.role # "tool" /\ m.role # "system"
  BY MessageFields
<1>4. Paired(g)
  BY <1>0, <1>1, <1>3, InsertPaired DEF Readable
<1> HIDE DEF n
<1>5. ASSUME NEW i \in 1..n PROVE To(i) \in 1..(n + 1) /\ g[To(i)] = h[i]
  BY <1>1, <1>2
<1>6. ASSUME NEW k \in 1..(n + 1)
      PROVE  \/ k = p + 1 /\ g[k] = m
             \/ \E i \in 1..n : k = To(i) /\ g[k] = h[i]
  <2>1. CASE k \in 1..p
    <3>1. k \in 1..n /\ k = To(k) /\ g[k] = h[k]
      BY <1>1, <1>2, <2>1
    <3> QED
      BY <3>1
  <2>2. CASE k \in (p + 2)..(n + 1)
    <3>1. k - 1 \in (p + 1)..n /\ k - 1 \in 1..n /\ (k - 1) + 1 = k
      BY <1>1, <2>2
    <3>2. k = To(k - 1) /\ g[k] = h[k - 1]
      BY <1>1, <1>2, <3>1
    <3> QED
      BY <3>1, <3>2
  <2> QED
    BY <1>1, <1>2, <2>1, <2>2
<1>7. \A i \in 1..n : To(i) = 1 <=> i = 1
  BY <1>1
<1>8. \A i, j \in 1..n : i < j => To(i) < To(j)
  BY <1>1
<1>9. \A i, j \in 1..n : To(i) = To(j) <=> i = j
  BY <1>1
<1>10. p = 1 => \A i \in 1..n : i # 1 => To(i) > p + 1
  BY <1>1
<1> HIDE DEF At
<1>11. ASSUME NEW k \in 1..(n + 1) PROVE g[k].role = "system" <=> k = 1
  <2>1. CASE k = p + 1 /\ g[k] = m
    BY <1>1, <1>3, <2>1
  <2>2. ASSUME NEW i \in 1..n, k = To(i), g[k] = h[i]
        PROVE  g[k].role = "system" <=> k = 1
    BY <1>0, <1>1, <1>7, <2>2 DEF Readable
  <2> QED
    BY <1>6, <2>1, <2>2
<1>12. ASSUME NEW k \in 1..(n + 1), NEW q \in 1..(n + 1),
              g[k].tag = "summary", g[q].tag = "summary"
       PROVE  k = q
  <2>1. CASE m.tag = "summary"
    BY <1>1, <1>6, <1>12, <2>1
  <2>2. CASE m.tag # "summary"
    <3>1. PICK i \in 1..n : k = To(i) /\ g[k] = h[i]
      BY <1>6, <1>12, <2>2
    <3>2. PICK j \in 1..n : q = To(j) /\ g[q] = h[j]
      BY <1>6, <1>12, <2>2
    <3>3. i = j
      BY <1>0, <1>1, <1>12, <3>1, <3>2, OneSummary DEF Readable
    <3> QED
      BY <3>1, <3>2, <3>3
  <2> QED
    BY <2>1, <2>2
<1>13. PICK j \in 1..n : /\ h[j].role = "user" /\ h[j].tag # "summary"
                         /\ \A i \in 1..n : h[i].tag = "summary" => i < j
  BY <1>0, <1>1 DEF Readable
<1>14. /\ To(j) \in 1..(n + 1) /\ g[To(j)].role = "user"
       /\ g[To(j)].tag # "summary" /\ j # 1
  BY <1>0, <1>1, <1>5, <1>13 DEF Readable
<1>15. ASSUME NEW k \in 1..(n + 1), g[k].tag = "summary" PROVE k < To(j)
  <2>1. CASE k = p + 1 /\ g[k] = m
    <3>1. p = 1
      BY <1>15, <2>1
    <3>2. To(j) > p + 1
      BY <1>10, <1>13, <1>14, <3>1
    <3> QED
      BY <1>1, <1>14, <2>1, <3>2
  <2>2. ASSUME NEW i \in 1..n, k = To(i), g[k] = h[i] PROVE k < To(j)
    BY <1>8, <1>13, <1>15, <2>2
  <2> QED
    BY <1>6, <2>1, <2>2
<1>16. Cardinality({i \in DOMAIN g : g[i].tag = "summary"}) <= 1
  BY <1>2, <1>12, OneSummary
<1> DEFINE z == To(j)
<1>17. /\ z \in DOMAIN g /\ g[z].role = "user" /\ g[z].tag # "summary"
       /\ \A i \in DOMAIN g : g[i].tag = "summary" => i < z
  BY <1>2, <1>14, <1>15
<1> HIDE DEF z
<1>18. \A i \in DOMAIN g : g[i].role = "system" <=> i = 1
  BY <1>2, <1>11
<1> QED
  BY <1>2, <1>4, <1>16, <1>17, <1>18 DEF Good, Readable

\* The constant messages.
LEMMA ConstantMessages ==
  /\ User \in Messages /\ User.role = "user" /\ User.tag = "text"
  /\ ConcludeNotice \in Messages /\ ConcludeNotice.role = "user"
  /\ ConcludeNotice.tag = "conclude"
  /\ CompactionNotice \in Messages /\ CompactionNotice.role = "user"
  /\ CompactionNotice.tag = "compacted"
  /\ SummaryMessage \in Messages /\ SummaryMessage.role = "user"
  /\ SummaryMessage.tag = "summary"
<1>1. ASSUME NEW tag \in Tags, tag = "summary" => Message("user", tag) = SummaryMessage
      PROVE  Message("user", tag) \in Messages
  <2>1. /\ Message("user", tag).role = "user" /\ Message("user", tag).tag = tag
        /\ Message("user", tag).calls = {} /\ Message("user", tag).id = NoId
    BY DEF Message
  <2>2. Message("user", tag) \in [role : Roles, tag : Tags, calls : SUBSET Ids, id : Ids]
    BY DEF Message, Roles, Ids, NoId
  <2> QED
    BY <1>1, <2>1, <2>2, FS_EmptySet DEF Messages
<1>2. {"text", "conclude", "compacted", "summary"} \subseteq Tags
  BY DEF Tags, AnswerTags
<1>3. \A tag : Message("user", tag).role = "user" /\ Message("user", tag).tag = tag
  BY DEF Message
<1> QED
  BY <1>1, <1>2, <1>3 DEF User, ConcludeNotice, CompactionNotice, SummaryMessage

\* A message of the user at the end.
LEMMA AppendGood ==
  ASSUME NEW h, Good(h), NEW m \in Messages, m.role = "user", m.tag # "summary"
  PROVE  Good(Append(h, m))
<1>1. h \in Seq(Messages) /\ Readable(h)
  BY DEF Good
<1>2. Len(h) \in Nat /\ Len(h) # 0
  BY <1>1 DEF Readable
<1>3. Inserted(Append(h, m), h, Len(h), m)
  BY <1>1, <1>2 DEF Inserted
<1> QED
  BY <1>2, <1>3, InsertGood

\* Behind the system message there is room.
LEMMA RoomBehindSystem ==
  ASSUME NEW h, Good(h)
  PROVE  /\ h \in Seq(Messages) /\ Len(h) \in Nat \ {0} /\ h[1].role = "system"
         /\ 1 < Len(h) => h[2].role # "tool"
<1>1. h \in Seq(Messages) /\ Readable(h)
  BY DEF Good
<1>2. Len(h) \in Nat \ {0} /\ 1 \in DOMAIN h /\ h[1].role = "system"
  BY <1>1 DEF Readable
<1>3. ASSUME 1 < Len(h), h[2].role = "tool" PROVE FALSE
  <2>1. 2 \in DOMAIN h
    BY <1>1, <1>3
  <2>2. PICK i \in 1..(2 - 1) : 2 \in Span(h, i)
    BY <1>1, <1>3, <2>1, PairedSpans DEF Readable
  <2>3. i = 1
    BY <2>2
  <2>4. h[1].role = "assistant"
    BY <1>1, <1>2, <2>2, <2>3, SpanIsReplies DEF Readable
  <2> QED
    BY <1>2, <2>4
<1> QED
  BY <1>1, <1>2, <1>3

\* injectAfterSystem.
LEMMA InjectGood ==
  ASSUME NEW h, Good(h), NEW m \in Messages, m.role = "user",
         m.tag = "summary" => \A i \in DOMAIN h : h[i].tag # "summary"
  PROVE  /\ Good(InjectAfterSystem(h, m))
         /\ Inserted(InjectAfterSystem(h, m), h, 1, m)
<1>1. /\ h \in Seq(Messages) /\ Len(h) \in Nat \ {0} /\ h[1].role = "system"
      /\ 1 < Len(h) => h[2].role # "tool"
  BY RoomBehindSystem
<1> DEFINE g == <<h[1], m>> \o Tail(h)
<1>2. InjectAfterSystem(h, m) = g
  BY <1>1 DEF InjectAfterSystem
<1>3. h[1] \in Messages /\ <<h[1], m>> \in Seq(Messages) /\ Tail(h) \in Seq(Messages)
  BY <1>1
<1>4. /\ g \in Seq(Messages) /\ Len(g) = Len(h) + 1
      /\ g[1] = h[1] /\ g[2] = m
  BY <1>1, <1>3
<1>5. ASSUME NEW i \in 2..Len(h) PROVE g[i + 1] = h[i]
  BY <1>1, <1>3
<1>6. Inserted(g, h, 1, m)
  BY <1>4, <1>5 DEF Inserted
<1>7. 1 \in 1..Len(h) /\ 1 + 1 = 2
  BY <1>1
<1>8. Good(g)
  BY <1>1, <1>6, <1>7, InsertGood
<1> QED
  BY <1>2, <1>6, <1>8

\* A message of the user put into a history brings no empty turn.
LEMMA InsertFull ==
  ASSUME NEW h \in Seq(Messages), Full(h), NEW m, m.role = "user",
         NEW p \in 0..Len(h), NEW g, Inserted(g, h, p, m)
  PROVE  Full(g)
<1> SUFFICES ASSUME NEW k \in DOMAIN g PROVE ~IsEmptyAssistantTurn(g[k])
  BY DEF Full
<1>1. Len(h) \in Nat /\ p \in Nat /\ p <= Len(h) /\ k \in 1..(Len(h) + 1)
  BY DEF Inserted
<1>2. CASE k \in 1..p
  <2>1. k \in DOMAIN h /\ g[k] = h[k]
    BY <1>1, <1>2 DEF Inserted
  <2> QED
    BY <2>1 DEF Full
<1>3. CASE k = p + 1
  BY <1>3 DEF Inserted, IsEmptyAssistantTurn
<1>4. CASE k \in (p + 2)..(Len(h) + 1)
  <2>1. k - 1 \in (p + 1)..Len(h) /\ (k - 1) + 1 = k /\ k - 1 \in DOMAIN h
    BY <1>1, <1>4
  <2>2. g[k] = h[k - 1]
    BY <2>1 DEF Inserted
  <2> QED
    BY <2>1, <2>2 DEF Full
<1> QED
  BY <1>1, <1>2, <1>3, <1>4

\* InsertAt puts a message behind the first p.
LEMMA InsertedAt ==
  ASSUME NEW h \in Seq(Messages), NEW m \in Messages, NEW p \in 1..Len(h)
  PROVE  Inserted(InsertAt(h, p + 1, m), h, p, m)
<1> DEFINE n == Len(h)
           a == SubSeq(h, 1, p)
           b == SubSeq(h, p + 1, n)
           c == a \o <<m>>
           g == c \o b
<1>1. n \in Nat /\ p \in Nat /\ 1 <= p /\ p <= n /\ (p + 1) - 1 = p
  OBVIOUS
<1>2. InsertAt(h, p + 1, m) = g
  BY <1>1 DEF InsertAt
<1>3. /\ a \in Seq(Messages) /\ Len(a) = p
      /\ \A i \in 1..p : a[i] = h[i]
  <2>1. \A i \in 1..p : h[i] \in Messages
    BY <1>1
  <2>2. /\ a \in Seq(Messages) /\ Len(a) = IF 1 <= p THEN p - 1 + 1 ELSE 0
        /\ \A i \in 1..(p - 1 + 1) : a[i] = h[1 + i - 1]
    BY <1>1, <2>1, SubSeqProperties
  <2> HIDE DEF a
  <2> QED
    BY <1>1, <2>2
<1>4. /\ b \in Seq(Messages) /\ Len(b) = n - p
      /\ \A i \in 1..(n - p) : b[i] = h[p + i]
  <2>1. \A i \in (p + 1)..n : h[i] \in Messages
    BY <1>1
  <2>2. /\ b \in Seq(Messages) /\ Len(b) = IF p + 1 <= n THEN n - (p + 1) + 1 ELSE 0
        /\ \A i \in 1..(n - (p + 1) + 1) : b[i] = h[(p + 1) + i - 1]
    BY <1>1, <2>1, SubSeqProperties
  <2> HIDE DEF b, n
  <2> QED
    BY <1>1, <2>2
<1>5. <<m>> \in Seq(Messages) /\ Len(<<m>>) = 1 /\ <<m>>[1] = m
  OBVIOUS
<1> HIDE DEF a, b, n
<1>6. /\ c \in Seq(Messages) /\ Len(c) = p + 1
      /\ \A i \in 1..p : c[i] = h[i]
      /\ c[p + 1] = m
  <2> DEFINE d == <<m>>
  <2>1. d \in Seq(Messages) /\ Len(d) = 1 /\ d[1] = m
    BY <1>5
  <2> HIDE DEF d
  <2>2. /\ a \o d \in Seq(Messages) /\ Len(a \o d) = Len(a) + Len(d)
        /\ \A i \in 1..(Len(a) + Len(d)) :
             (a \o d)[i] = IF i <= Len(a) THEN a[i] ELSE d[i - Len(a)]
    BY <1>3, <2>1, ConcatProperties
  <2>3. c = a \o d
    BY DEF d
  <2> HIDE DEF c
  <2> QED
    BY <1>1, <1>3, <2>1, <2>2, <2>3
<1> HIDE DEF c
<1>7. /\ g \in Seq(Messages) /\ Len(g) = Len(c) + Len(b)
      /\ \A i \in 1..(Len(c) + Len(b)) :
           g[i] = IF i <= Len(c) THEN c[i] ELSE b[i - Len(c)]
  BY <1>4, <1>6, ConcatProperties
<1> HIDE DEF g
<1>8. Len(g) = n + 1 /\ (\A i \in 1..p : g[i] = h[i]) /\ g[p + 1] = m
  BY <1>1, <1>4, <1>6, <1>7
<1>9. ASSUME NEW i \in (p + 1)..n PROVE g[i + 1] = h[i]
  <2>1. i \in Nat /\ i - p \in 1..(n - p) /\ p + (i - p) = i /\ (i + 1) - (p + 1) = i - p
        /\ i + 1 \in 1..((p + 1) + (n - p)) /\ ~(i + 1 <= p + 1)
    BY <1>1
  <2>2. g[i + 1] = b[i - p]
    BY <1>4, <1>6, <1>7, <2>1
  <2> QED
    BY <1>4, <2>1, <2>2
<1> QED
  BY <1>2, <1>7, <1>8, <1>9 DEF Inserted, n

\* injectNotice, where the summary it goes behind is the second message.
LEMMA NoticeGood ==
  ASSUME NEW h, Good(h), Full(h), NEW injected \in BOOLEAN,
         injected => 2 \in DOMAIN h /\ h[2].tag = "summary"
  PROVE  Good(InjectNotice(h, injected)) /\ Full(InjectNotice(h, injected))
<1>0. /\ CompactionNotice \in Messages /\ CompactionNotice.role = "user"
      /\ CompactionNotice.tag # "summary"
  BY ConstantMessages
<1>1. /\ h \in Seq(Messages) /\ Readable(h)
      /\ Len(h) \in Nat \ {0} /\ h[1].role = "system"
  BY RoomBehindSystem DEF Good
<1>2. CASE ~injected
  <2>1. InjectNotice(h, injected) = InjectAfterSystem(h, CompactionNotice)
    BY <1>2 DEF InjectNotice
  <2>2. /\ Good(InjectAfterSystem(h, CompactionNotice))
        /\ Inserted(InjectAfterSystem(h, CompactionNotice), h, 1, CompactionNotice)
    BY <1>0, InjectGood
  <2>3. 1 \in 0..Len(h)
    BY <1>1
  <2>4. Full(InjectAfterSystem(h, CompactionNotice))
    BY <1>0, <1>1, <2>2, <2>3, InsertFull
  <2> QED
    BY <2>1, <2>2, <2>4
<1>3. CASE injected
  <2> DEFINE S == {i \in DOMAIN h : h[i].tag = "summary"}
             m == CompactionNotice
             g == InsertAt(h, 3, m)
  <2>1. 2 \in S /\ S \in SUBSET (1..Len(h))
    BY <1>1, <1>3
  <2>2. \A i \in S : i = 2
    BY <1>1, <2>1, OneSummary DEF Readable
  <2>3. Min(S) \in S
    BY <1>1, <2>1, Extremes
  <2>4. Min(S) = 2
    BY <2>2, <2>3
  <2>5. InjectNotice(h, injected) = g
    <3>1. InjectNotice(h, injected) = InsertAt(h, Min(S) + 1, m)
      BY <1>3 DEF InjectNotice
    <3> QED
      BY <2>4, <3>1
  <2>6. 2 \in 1..Len(h) /\ h[2].role = "user"
    <3>1. 2 \in 1..Len(h) /\ h[2] \in Messages /\ h[2].tag = "summary"
      BY <1>1, <2>1
    <3>2. h[2] = SummaryMessage
      BY <3>1, MessageFields
    <3> QED
      BY <3>1, <3>2, ConstantMessages
  <2>7. 2 < Len(h) => h[2 + 1].role # "tool"
    <3> SUFFICES ASSUME 2 < Len(h), h[3].role = "tool" PROVE FALSE
      OBVIOUS
    <3>1. 3 \in DOMAIN h
      BY <1>1
    <3>2. PICK i \in 1..(3 - 1) : 3 \in Span(h, i)
      BY <1>1, <3>1, PairedSpans DEF Readable
    <3>3. i \in DOMAIN h /\ (i = 1 \/ i = 2)
      BY <1>1, <3>1, <3>2
    <3>4. h[i].role = "assistant"
      BY <1>1, <3>2, <3>3, SpanIsReplies DEF Readable
    <3> QED
      BY <1>1, <2>6, <3>3, <3>4
  <2>8. m \in Messages /\ m.role = "user" /\ m.tag # "summary"
    BY <1>0
  <2> HIDE DEF S, m
  <2>9. Inserted(g, h, 2, m)
    <3>1. Inserted(InsertAt(h, 2 + 1, m), h, 2, m)
      BY <1>1, <2>6, <2>8, InsertedAt
    <3> QED
      BY <3>1
  <2> HIDE DEF g
  <2>10. Good(g)
    BY <2>6, <2>7, <2>8, <2>9, InsertGood
  <2>11. Full(g)
    <3>1. 2 \in 0..Len(h)
      BY <1>1, <2>6
    <3> QED
      BY <1>1, <2>8, <2>9, <3>1, InsertFull
  <2> QED
    BY <2>5, <2>10, <2>11
<1> QED
  BY <1>2, <1>3

\* Messages that make no call and answer none may be left out.
LEMMA WholeWithout ==
  ASSUME NEW h \in Seq(Messages), Paired(h), NEW K \in SUBSET (DOMAIN h),
         \A i \in DOMAIN h \ K : h[i].calls = {} /\ h[i].role # "tool"
  PROVE  Whole(h, K)
<1>1. ASSUME NEW i \in K, NEW k \in Span(h, i) PROVE k \in K
  BY SpanIsReplies
<1>2. ASSUME NEW k \in K, h[k].role = "tool" PROVE \E i \in K : k \in Span(h, i)
  <2>1. PICK i \in 1..(k - 1) : k \in Span(h, i)
    BY <1>2, PairedSpans
  <2>2. i \in DOMAIN h
    BY <2>1
  <2>3. h[i].calls # {}
    BY <2>1, <2>2, SpanIsReplies
  <2> QED
    BY <2>1, <2>2, <2>3
<1> QED
  BY <1>1, <1>2 DEF Whole

\* The two places every selection keeps.
LEMMA Anchors ==
  ASSUME NEW h, Good(h)
  PROVE  /\ h \in Seq(Messages) /\ Paired(h) /\ Len(h) \in Nat
         /\ 1 \in DOMAIN h /\ h[1].role = "system"
         /\ \E j \in DOMAIN h :
              /\ h[j].role = "user" /\ h[j].tag # "summary"
              /\ \A i \in DOMAIN h : h[i].tag = "summary" => i < j
<1>1. h \in Seq(Messages) /\ Readable(h)
  BY DEF Good
<1>2. Len(h) \in Nat /\ 1 \in DOMAIN h
  BY <1>1 DEF Readable
<1> QED
  BY <1>1, <1>2 DEF Readable

\* dropEmptyAssistantTurns.
LEMMA DropGood ==
  ASSUME NEW h, Good(h)
  PROVE  Good(DropEmptyAssistantTurns(h)) /\ Full(DropEmptyAssistantTurns(h))
<1> DEFINE K == {i \in DOMAIN h : ~IsEmptyAssistantTurn(h[i])}
<1>1. /\ h \in Seq(Messages) /\ Paired(h) /\ 1 \in DOMAIN h /\ h[1].role = "system"
  BY Anchors
<1>2. PICK j \in DOMAIN h :
        /\ h[j].role = "user" /\ h[j].tag # "summary"
        /\ \A i \in DOMAIN h : h[i].tag = "summary" => i < j
  BY Anchors
<1>3. K \in SUBSET (DOMAIN h) /\ 1 \in K /\ j \in K
  BY <1>1, <1>2 DEF IsEmptyAssistantTurn
<1>4. \A i \in DOMAIN h \ K : h[i].calls = {} /\ h[i].role # "tool"
  BY DEF IsEmptyAssistantTurn
<1>5. DropEmptyAssistantTurns(h) = Pick(h, K)
  BY DEF DropEmptyAssistantTurns
<1>6. \A i \in K : ~IsEmptyAssistantTurn(h[i])
  OBVIOUS
<1> HIDE DEF K
<1>7. Whole(h, K)
  BY <1>1, <1>3, <1>4, WholeWithout
<1>8. Good(Pick(h, K))
  BY <1>2, <1>3, <1>7, PickGood
<1>9. Full(Pick(h, K))
  BY <1>1, <1>3, <1>6, Picked DEF Full
<1> QED
  BY <1>5, <1>8, <1>9

\* The rest splitSummary leaves.
LEMMA RestGood ==
  ASSUME NEW h, Good(h), Full(h)
  PROVE  /\ Good(SplitSummary(h).rest) /\ Full(SplitSummary(h).rest)
         /\ \A i \in DOMAIN SplitSummary(h).rest :
              SplitSummary(h).rest[i].tag # "summary"
<1> DEFINE K == {i \in DOMAIN h : h[i].tag # "summary"}
<1>1. /\ h \in Seq(Messages) /\ Paired(h) /\ 1 \in DOMAIN h /\ h[1].role = "system"
  BY Anchors
<1>2. PICK j \in DOMAIN h :
        /\ h[j].role = "user" /\ h[j].tag # "summary"
        /\ \A i \in DOMAIN h : h[i].tag = "summary" => i < j
  BY Anchors
<1>3. \A i \in DOMAIN h \ K : /\ h[i].calls = {} /\ h[i].role # "tool"
                              /\ h[i].role # "system"
  <2> SUFFICES ASSUME NEW i \in DOMAIN h \ K
               PROVE  h[i].calls = {} /\ h[i].role = "user"
    OBVIOUS
  <2>1. h[i] \in Messages /\ h[i].tag = "summary"
    BY <1>1
  <2>2. h[i].role = "user"
    BY <2>1, MessageFields, ConstantMessages
  <2> QED
    BY <2>1, <2>2, MessageFields
<1>4. K \in SUBSET (DOMAIN h) /\ 1 \in K /\ j \in K
  BY <1>1, <1>2, <1>3
<1>5. SplitSummary(h).rest = Pick(h, K)
  BY DEF SplitSummary
<1>6. \A i \in K : h[i].tag # "summary"
  OBVIOUS
<1> HIDE DEF K
<1>7. Whole(h, K)
  BY <1>1, <1>3, <1>4, WholeWithout
<1>8. Good(Pick(h, K))
  BY <1>2, <1>4, <1>7, PickGood
<1>9. /\ Full(Pick(h, K))
      /\ \A n \in DOMAIN Pick(h, K) : Pick(h, K)[n].tag # "summary"
  BY <1>1, <1>4, <1>6, Picked DEF Full
<1> QED
  BY <1>5, <1>8, <1>9

-----------------------------------------------------------------------------
(* Compaction.                                                             *)

\* Units: a message that is no reply starts one, a reply belongs to the turn
\* whose call it answers.
LEMMA Units ==
  ASSUME NEW h \in Seq(Messages), Paired(h)
  PROVE  /\ \A k \in DOMAIN h : h[k].role # "tool" => UnitStart(h, k) = k
         /\ \A i \in DOMAIN h : \A k \in Span(h, i) : UnitStart(h, k) = i
<1> DEFINE Heads(k) == {j \in 1..(k - 1) :
                          /\ h[j].role = "assistant"
                          /\ \A x \in (j + 1)..k :
                               h[x].role = "tool" /\ h[x].id \in h[j].calls}
<1>0. \A k : UnitStart(h, k) = IF Heads(k) = {} THEN k ELSE CHOOSE j \in Heads(k) : TRUE
  BY DEF UnitStart
<1>1. ASSUME NEW k \in DOMAIN h, h[k].role # "tool"
      PROVE  UnitStart(h, k) = k
  <2>1. ASSUME NEW j \in Heads(k) PROVE FALSE
    <3>1. k \in (j + 1)..k
      OBVIOUS
    <3> QED
      BY <1>1, <3>1
  <2> QED
    BY <1>0, <2>1
<1>2. ASSUME NEW i \in DOMAIN h, NEW k \in Span(h, i)
      PROVE  UnitStart(h, k) = i
  <2>0. i \in Nat /\ k \in Nat /\ Cardinality(h[i].calls) \in Nat
    <3>1. h[i] \in Messages
      OBVIOUS
    <3>2. Cardinality(h[i].calls) \in Nat
      BY <3>1, MessageFields
    <3> QED
      BY <3>2, SpanIsReplies
  <2>1. i \in 1..(k - 1) /\ h[i].role = "assistant" /\ i < k
    BY SpanIsReplies
  <2>2. \A x \in (i + 1)..k : x \in Span(h, i)
    BY <2>0, <2>1 DEF Span
  <2>3. \A x \in (i + 1)..k : h[x].role = "tool" /\ h[x].id \in h[i].calls
    BY <2>2, SpanIsReplies
  <2>4. i \in Heads(k)
    BY <2>1, <2>3
  <2>5. ASSUME NEW j \in Heads(k) PROVE j = i
    <3>1. j \in Nat /\ j < k /\ h[j].role = "assistant"
      BY <2>0
    <3>2. ~(j < i)
      <4>1. j < i => i \in (j + 1)..k
        BY <2>0, <2>1, <3>1
      <4> QED
        BY <2>1, <4>1
    <3>3. ~(i < j)
      <4>1. i < j => j \in (i + 1)..k
        BY <2>0, <2>1, <3>1
      <4> QED
        BY <2>3, <3>1, <4>1
    <3> QED
      BY <2>0, <3>1, <3>2, <3>3
  <2> HIDE DEF Heads
  <2>6. (CHOOSE j \in Heads(k) : TRUE) = i
    BY <2>4, <2>5
  <2> QED
    BY <1>0, <2>4, <2>6
<1> QED
  BY <1>1, <1>2

\* The messages of a set of units that holds the mandatory ones.
LEMMA CollectGood ==
  ASSUME NEW h, Good(h), Full(h), NEW S, SelectMandatory(h) \subseteq S
  PROVE  Good(Collect(h, S)) /\ Full(Collect(h, S))
<1> DEFINE K == {i \in DOMAIN h : UnitStart(h, i) \in S}
           U == {u \in UnitStarts(h) : h[u].role = "user"}
<1>1. /\ h \in Seq(Messages) /\ Paired(h) /\ Len(h) \in Nat /\ DOMAIN h = 1..Len(h)
      /\ 1 \in DOMAIN h /\ h[1].role = "system"
  BY Anchors
<1>2. PICK j \in DOMAIN h :
        /\ h[j].role = "user" /\ h[j].tag # "summary"
        /\ \A i \in DOMAIN h : h[i].tag = "summary" => i < j
  BY Anchors
<1>3. /\ \A k \in DOMAIN h : h[k].role # "tool" => UnitStart(h, k) = k
      /\ \A i \in DOMAIN h : \A k \in Span(h, i) : UnitStart(h, k) = i
  BY <1>1, Units
<1>4. Whole(h, K)
  <2>1. ASSUME NEW i \in K, NEW k \in Span(h, i) PROVE k \in K
    <3>1. k \in DOMAIN h /\ h[i].role = "assistant"
      BY <1>1, <2>1, SpanIsReplies
    <3> QED
      BY <1>3, <2>1, <3>1
  <2>2. ASSUME NEW k \in K, h[k].role = "tool" PROVE \E i \in K : k \in Span(h, i)
    <3>1. PICK i \in 1..(k - 1) : k \in Span(h, i)
      BY <1>1, <2>2, PairedSpans
    <3>2. i \in DOMAIN h
      BY <1>1, <2>2, <3>1
    <3>3. h[i].role = "assistant"
      BY <1>1, <3>1, <3>2, SpanIsReplies
    <3>4. i \in K
      BY <1>3, <2>2, <3>1, <3>2, <3>3
    <3> QED
      BY <3>1, <3>4
  <2> QED
    BY <2>1, <2>2 DEF Whole
<1>5. 1 \in K
  <2>1. 1 \in SelectMandatory(h)
    BY <1>1 DEF SelectMandatory
  <2> QED
    BY <1>1, <1>3, <2>1
<1>6. j \in U /\ U \in SUBSET (1..Len(h))
  BY <1>1, <1>2, <1>3 DEF UnitStarts
<1>7. Max(U) \in U /\ \A x \in U : x <= Max(U)
  BY <1>1, <1>6, Extremes
<1> DEFINE u == Max(U)
<1>8. u \in DOMAIN h /\ UnitStart(h, u) = u /\ h[u].role = "user" /\ j <= u
  BY <1>6, <1>7 DEF UnitStarts
<1>9. u \in K
  <2>1. u \in SelectMandatory(h)
    BY <1>6 DEF SelectMandatory, Latest
  <2> QED
    BY <1>8, <2>1
<1>10. K \in SUBSET (DOMAIN h) /\ Collect(h, S) = Pick(h, K)
  BY DEF Collect
<1> HIDE DEF K, U, u
<1>11. u \in Nat /\ j \in Nat
  BY <1>1, <1>2, <1>8
<1>12. \A i \in K : h[i].tag = "summary" => i < u
  BY <1>1, <1>2, <1>8, <1>10, <1>11
<1>13. h[u].tag # "summary"
  BY <1>2, <1>8, <1>11
<1>14. Good(Pick(h, K))
  BY <1>4, <1>5, <1>8, <1>9, <1>10, <1>12, <1>13, PickGood
<1>15. Full(Pick(h, K))
  BY <1>1, <1>10, Picked DEF Full
<1> QED
  BY <1>10, <1>14, <1>15

\* What Compact returns.
LEMMA CompactGood ==
  ASSUME NEW h, Good(h), Full(h), NEW w, NEW factor
  PROVE  LET res == Compact(h, w, factor)
         IN /\ Good(res.kept) /\ Full(res.kept)
            /\ res = [kept |-> res.kept, dropped |-> res.dropped,
                      compacted |-> res.compacted, err |-> res.err]
<1> DEFINE res == Compact(h, w, factor)
           selected == FillTail(h, SelectMandatory(h), w, factor)
           taken == [kept |-> Collect(h, selected),
                     dropped |-> Collect(h, UnitStarts(h) \ selected),
                     compacted |-> TRUE, err |-> FALSE]
<1>1. \/ res = taken
      \/ \E err \in BOOLEAN : res = NotCompacted(h, err)
  <2>1. CASE ValidWindow(w) /\ \E i \in DOMAIN h : h[i].role = "user"
    <3>1. ~(~ValidWindow(w) \/ \A i \in DOMAIN h : h[i].role # "user")
      BY <2>1
    <3>2. res = IF EstimateTokens(h, factor) < CompactTrigger(w)
                THEN NotCompacted(h, FALSE)
                ELSE IF EstimateTokens(Collect(h, SelectMandatory(h)), factor) > Budget(w)
                     THEN NotCompacted(h, TRUE)
                     ELSE taken
      BY <2>1, <3>1 DEF Compact
    <3> QED
      BY <3>2
  <2>2. CASE ~(ValidWindow(w) /\ \E i \in DOMAIN h : h[i].role = "user")
    <3>1. ~ValidWindow(w) \/ \A i \in DOMAIN h : h[i].role # "user"
      BY <2>2
    <3>2. res = NotCompacted(h, TRUE)
      BY <2>2, <3>1 DEF Compact
    <3> QED
      BY <3>2
  <2> QED
    BY <2>1, <2>2
<1>2. SelectMandatory(h) \subseteq selected
  BY DEF FillTail
<1> HIDE DEF selected
<1>3. Good(Collect(h, selected)) /\ Full(Collect(h, selected))
  BY <1>2, CollectGood
<1> HIDE DEF res
<1>4. CASE res = taken
  BY <1>3, <1>4 DEF res
<1>5. CASE \E err \in BOOLEAN : res = NotCompacted(h, err)
  BY <1>5 DEF NotCompacted, res
<1> QED
  BY <1>1, <1>4, <1>5

\* compactHistory: whatever the summarizer answers, and with the notice of a
\* recovery or without it, the history that comes out can be sent.
LEMMA RebuildGood ==
  ASSUME NEW h, Good(h), Full(h), NEW w, NEW factor, NEW notice \in BOOLEAN,
         NEW r \in CompactHistory(h, w, factor, notice)
  PROVE  Good(r.kept) /\ Full(r.kept)
<1> DEFINE res == Compact(h, w, factor)
<1>1. PICK answer \in {"summary", "skip", "error"} :
        r = Rebuild(h, res, w, factor, notice, answer)
  BY DEF CompactHistory
<1>2. /\ Good(res.kept) /\ Full(res.kept)
      /\ res = [kept |-> res.kept, dropped |-> res.dropped,
                compacted |-> res.compacted, err |-> res.err]
  BY CompactGood
<1> HIDE DEF res
<1> DEFINE prior == SplitSummary(res.kept).prior
           kept == SplitSummary(res.kept).rest
           asks == res.dropped # <<>>
           injected == \/ asks /\ answer = "summary"
                       \/ prior /\ (asks => answer = "skip")
           summarised == IF injected THEN InjectAfterSystem(kept, SummaryMessage)
                         ELSE kept
           rebuilt == IF notice THEN InjectNotice(summarised, injected)
                      ELSE summarised
<1>3. r \in {NotCompacted(h, TRUE), NotCompacted(h, FALSE), [res EXCEPT !.kept = rebuilt]}
  BY <1>1 DEF Rebuild
<1>4. injected \in BOOLEAN
  OBVIOUS
<1>5. /\ Good(kept) /\ Full(kept)
      /\ \A i \in DOMAIN kept : kept[i].tag # "summary"
  BY <1>2, RestGood
<1> HIDE DEF prior, kept, asks, injected
<1>6. /\ Good(summarised) /\ Full(summarised)
      /\ injected => 2 \in DOMAIN summarised /\ summarised[2].tag = "summary"
  <2>1. CASE ~injected
    BY <1>5, <2>1
  <2>2. CASE injected
    <3> DEFINE g == InjectAfterSystem(kept, SummaryMessage)
    <3>1. Good(g) /\ Inserted(g, kept, 1, SummaryMessage)
      BY <1>5, InjectGood, ConstantMessages
    <3>2. kept \in Seq(Messages) /\ Len(kept) \in Nat \ {0}
      BY <1>5, RoomBehindSystem
    <3> HIDE DEF g
    <3>3. Full(g)
      BY <1>5, <3>1, <3>2, InsertFull, ConstantMessages
    <3>4. g \in Seq(Messages) /\ Len(g) = Len(kept) + 1 /\ g[1 + 1] = SummaryMessage
      BY <3>1 DEF Inserted
    <3>5. 2 \in DOMAIN g /\ g[2].tag = "summary"
      BY <3>2, <3>4, ConstantMessages
    <3> QED
      BY <2>2, <3>1, <3>3, <3>5 DEF g
  <2> QED
    BY <1>4, <2>1, <2>2
<1> HIDE DEF summarised
<1>7. Good(rebuilt) /\ Full(rebuilt)
  <2>1. CASE notice
    BY <1>4, <1>6, <2>1, NoticeGood
  <2>2. CASE ~notice
    BY <1>6, <2>2
  <2> QED
    BY <2>1, <2>2
<1> HIDE DEF rebuilt
<1>8. CASE r = [res EXCEPT !.kept = rebuilt]
  <2>1. r.kept = rebuilt
    BY <1>2, <1>8
  <2> QED
    BY <1>7, <2>1
<1>9. CASE r \in {NotCompacted(h, TRUE), NotCompacted(h, FALSE)}
  BY <1>9 DEF NotCompacted
<1> QED
  BY <1>3, <1>8, <1>9

\* planHistory.
LEMMA PlanGood ==
  ASSUME NEW h, Good(h), Full(h), NEW r \in PlanHistory(h)
  PROVE  Good(r.kept) /\ Full(r.kept)
<1>1. PICK factor \in Factors :
        r \in IF \/ opts.window.maxTokens = 0
                 \/ EstimateTokens(h, factor) < CompactTrigger(opts.window)
              THEN {NotCompacted(h, FALSE)}
              ELSE CompactHistory(h, opts.window, factor, FALSE)
  BY DEF PlanHistory
<1>2. CASE r = NotCompacted(h, FALSE)
  BY <1>2 DEF NotCompacted
<1>3. CASE r \in CompactHistory(h, opts.window, factor, FALSE)
  BY <1>3, RebuildGood
<1> QED
  BY <1>1, <1>2, <1>3

-----------------------------------------------------------------------------
(* A turn and the replies to its calls.                                    *)

\* One history behind another.
LEMMA Joined ==
  ASSUME NEW s \in Seq(Messages), NEW r \in Seq(Messages)
  PROVE  /\ s \o r \in Seq(Messages) /\ Len(s \o r) = Len(s) + Len(r)
         /\ \A i \in 1..(Len(s) + Len(r)) :
              (s \o r)[i] = IF i <= Len(s) THEN s[i] ELSE r[i - Len(s)]
  BY ConcatProperties

\* A turn whose calls are all answered, once each, behind a history that can
\* be read.
LEMMA TurnGood ==
  ASSUME NEW g, Good(g), NEW a \in Messages, a.role = "assistant",
         NEW r \in Seq(Messages), Len(r) = Cardinality(a.calls),
         \A k \in DOMAIN r : r[k].role = "tool",
         {r[k].id : k \in DOMAIN r} = a.calls
  PROVE  Good(Append(g, a) \o r)
<1> DEFINE n == Len(g)
           c == Len(r)
           f == Append(g, a) \o r
           b == Append(g, a)
<1>0. g \in Seq(Messages) /\ Readable(g)
  BY DEF Good
<1>1. n \in Nat /\ c \in Nat /\ DOMAIN g = 1..n /\ DOMAIN r = 1..c
  BY <1>0
<1>2. /\ b \in Seq(Messages) /\ Len(b) = n + 1
      /\ \A i \in 1..n : b[i] = g[i]
      /\ b[n + 1] = a
  BY <1>0, AppendProperties
<1> HIDE DEF b
<1>3. /\ b \o r \in Seq(Messages) /\ Len(b \o r) = Len(b) + Len(r)
      /\ \A i \in 1..(Len(b) + Len(r)) :
           (b \o r)[i] = IF i <= Len(b) THEN b[i] ELSE r[i - Len(b)]
  BY <1>2, Joined
<1>4. f = b \o r
  BY DEF b
<1> HIDE DEF f, n, c
<1>5. /\ f \in Seq(Messages) /\ DOMAIN f = 1..(n + 1 + c)
      /\ \A i \in 1..n : f[i] = g[i]
      /\ f[n + 1] = a
  <2>1. Len(f) = n + 1 + c
    BY <1>1, <1>2, <1>3, <1>4 DEF c
  <2> QED
    BY <1>1, <1>2, <1>3, <1>4, <2>1
<1>6. ASSUME NEW k \in 1..c PROVE f[n + 1 + k] = r[k]
  <2>1. k \in Nat /\ n + 1 + k \in 1..(n + 1 + c) /\ ~(n + 1 + k <= n + 1)
        /\ (n + 1 + k) - (n + 1) = k
    BY <1>1
  <2>2. f[n + 1 + k] = r[(n + 1 + k) - (n + 1)]
    BY <1>2, <1>3, <1>4, <2>1 DEF c
  <2> QED
    BY <2>1, <2>2
<1>7. ASSUME NEW i \in DOMAIN f
      PROVE  \/ i \in 1..n
             \/ i = n + 1
             \/ \E k \in 1..c : i = n + 1 + k
  <2>1. i \in Nat /\ 1 <= i /\ i <= n + 1 + c
    BY <1>1, <1>5
  <2>2. CASE i > n + 1
    <3>1. i - (n + 1) \in 1..c /\ i = n + 1 + (i - (n + 1))
      BY <1>1, <2>1, <2>2
    <3> QED
      BY <3>1
  <2> QED
    BY <1>1, <2>1, <2>2
<1>8. ASSUME NEW k \in 1..c
      PROVE  /\ n + 1 + k \in DOMAIN f /\ f[n + 1 + k].role = "tool"
             /\ f[n + 1 + k].tag # "summary" /\ f[n + 1 + k].calls = {}
  <2>1. r[k] \in Messages /\ r[k].role = "tool"
    BY <1>1
  <2>2. r[k].tag # "summary" /\ r[k].calls = {}
    BY <2>1, MessageFields, ConstantMessages
  <2>3. n + 1 + k \in DOMAIN f
    BY <1>1, <1>5
  <2> QED
    BY <1>6, <2>1, <2>2, <2>3
<1>9. a.tag # "summary"
  BY MessageFields, ConstantMessages
<1>10. Span(f, n + 1) = (n + 2)..(n + 1 + c)
  BY <1>1, <1>5 DEF Span, c
<1>11. \A i \in 1..n : Span(f, i) = Span(g, i)
  BY <1>5 DEF Span
<1>12. ASSUME NEW i \in DOMAIN f
       PROVE  /\ Span(f, i) \subseteq DOMAIN f
              /\ {f[k].id : k \in Span(f, i)} = f[i].calls
  <2>1. CASE i \in 1..n
    <3>1. Span(g, i) \subseteq 1..n /\ {g[k].id : k \in Span(g, i)} = g[i].calls
      BY <1>0, <1>1, <2>1, PairedSpans DEF Readable
    <3>2. 1..n \subseteq DOMAIN f
      BY <1>1, <1>5
    <3>3. \A k \in Span(f, i) : f[k] = g[k]
      BY <1>5, <1>11, <2>1, <3>1
    <3>4. {f[k].id : k \in Span(f, i)} = {g[k].id : k \in Span(g, i)}
      BY <1>11, <2>1, <3>3
    <3> QED
      BY <1>5, <1>11, <2>1, <3>1, <3>2, <3>4
  <2>2. CASE i = n + 1
    <3>1. Span(f, i) \subseteq DOMAIN f
      BY <1>1, <1>5, <1>10, <2>2
    <3>2. ASSUME NEW k \in Span(f, i) PROVE f[k].id \in a.calls
      <4>1. k - (n + 1) \in 1..c /\ n + 1 + (k - (n + 1)) = k
        BY <1>1, <1>10, <2>2
      <4>2. f[k] = r[k - (n + 1)]
        BY <1>6, <4>1
      <4> QED
        BY <1>1, <4>1, <4>2
    <3>3. ASSUME NEW x \in a.calls PROVE \E k \in Span(f, i) : f[k].id = x
      <4>1. PICK k \in 1..c : r[k].id = x
        BY <1>1
      <4>2. n + 1 + k \in Span(f, i)
        BY <1>1, <1>10, <2>2
      <4> QED
        BY <1>6, <4>1, <4>2
    <3>4. {f[k].id : k \in Span(f, i)} = a.calls
      BY <3>2, <3>3
    <3> QED
      BY <1>5, <2>2, <3>1, <3>4
  <2>3. CASE \E k \in 1..c : i = n + 1 + k
    <3>1. f[i].calls = {} /\ i \in Nat
      BY <1>5, <1>8, <2>3
    <3>2. Span(f, i) = {}
      BY <3>1, FS_EmptySet DEF Span
    <3> QED
      BY <3>1, <3>2
  <2> QED
    BY <1>7, <2>1, <2>2, <2>3
<1>13. ASSUME NEW k \in DOMAIN f, f[k].role = "tool"
       PROVE  \E i \in 1..(k - 1) : k \in Span(f, i)
  <2>1. CASE k \in 1..n
    <3>1. PICK i \in 1..(k - 1) : k \in Span(g, i)
      BY <1>0, <1>1, <1>5, <1>13, <2>1, PairedSpans DEF Readable
    <3>2. i \in 1..n
      BY <1>1, <2>1, <3>1
    <3> QED
      BY <1>11, <3>1, <3>2
  <2>2. CASE \E x \in 1..c : k = n + 1 + x
    <3>1. n + 1 \in 1..(k - 1) /\ k \in Span(f, n + 1)
      BY <1>1, <1>10, <2>2
    <3> QED
      BY <3>1
  <2> QED
    BY <1>5, <1>7, <1>13, <2>1, <2>2
<1>14. Paired(f)
  BY <1>12, <1>13, PairedSpans
<1>15. PICK j \in DOMAIN g :
         /\ g[j].role = "user" /\ g[j].tag # "summary"
         /\ \A i \in DOMAIN g : g[i].tag = "summary" => i < j
  BY Anchors
<1>16. 1 \in 1..n /\ g[1].role = "system"
  BY <1>1, Anchors
<1>17. \A i \in DOMAIN f : f[i].role = "system" <=> i = 1
  <2> SUFFICES ASSUME NEW i \in DOMAIN f PROVE f[i].role = "system" <=> i = 1
    OBVIOUS
  <2>1. CASE i \in 1..n
    BY <1>0, <1>1, <1>5, <2>1 DEF Readable
  <2>2. CASE i = n + 1
    BY <1>1, <1>5, <1>16, <2>2
  <2>3. CASE \E k \in 1..c : i = n + 1 + k
    <3>1. PICK k \in 1..c : i = n + 1 + k
      BY <2>3
    <3>2. i # 1
      BY <1>1, <3>1
    <3>3. f[n + 1 + k].role = "tool"
      BY <1>8
    <3> QED
      BY <3>1, <3>2, <3>3
  <2> QED
    BY <1>7, <2>1, <2>2, <2>3
<1>18. \A i \in DOMAIN f : f[i].tag = "summary" => i \in 1..n /\ g[i].tag = "summary"
  BY <1>5, <1>7, <1>8, <1>9
<1>19. \A i, k \in DOMAIN f : f[i].tag = "summary" /\ f[k].tag = "summary" => i = k
  BY <1>0, <1>1, <1>18, OneSummary DEF Readable
<1>20. /\ j \in DOMAIN f /\ f[j].role = "user" /\ f[j].tag # "summary"
       /\ \A i \in DOMAIN f : f[i].tag = "summary" => i < j
  <2>1. j \in DOMAIN f
    BY <1>1, <1>5, <1>15
  <2> QED
    BY <1>1, <1>5, <1>15, <1>18, <2>1
<1> QED
  BY <1>5, <1>14, <1>17, <1>19, <1>20, OneSummary DEF Good, Readable, f

\* The messages of a turn: its calls are named by the iteration and their
\* place.
LEMMA TurnMessages ==
  ASSUME NEW n \in Nat, NEW N \in Nat, NEW tag \in AnswerTags
  PROVE  LET ids == {<<n, i>> : i \in 1..N}
             a == Assistant(tag, ids)
         IN /\ a \in Messages /\ a.role = "assistant" /\ a.calls = ids
            /\ Cardinality(ids) = N
            /\ \A id \in Ids : /\ Reply(id) \in Messages /\ Reply(id).role = "tool"
                               /\ Reply(id).id = id
<1> DEFINE ids == {<<n, i>> : i \in 1..N}
           a == Assistant(tag, ids)
<1>1. IsFiniteSet(1..N) /\ Cardinality(1..N) = N
  BY FS_Interval
<1>2. IsFiniteSet(ids) /\ Cardinality(ids) = N
  <2> DEFINE f == [i \in 1..N |-> <<n, i>>]
  <2>1. f \in [1..N -> ids]
    OBVIOUS
  <2>2. \A x, y \in 1..N : f[x] = f[y] => x = y
    OBVIOUS
  <2>3. \A y \in ids : \E x \in 1..N : f[x] = y
    OBVIOUS
  <2> HIDE DEF f, ids
  <2>4. f \in Bijection(1..N, ids)
    BY <2>1, <2>2, <2>3 DEF Bijection, Injection, Surjection, IsInjective
  <2>5. ExistsBijection(1..N, ids)
    BY <2>4 DEF ExistsBijection
  <2> QED
    BY <1>1, <2>5, FS_Bijection
<1>3. ids \subseteq Ids /\ NoId \notin ids
  BY DEF Ids, NoId
<1>4. /\ a = [role |-> "assistant", tag |-> tag, calls |-> ids, id |-> NoId]
  BY DEF Assistant, Message
<1> HIDE DEF ids, a
<1>5. NoId \in Ids /\ tag \in Tags /\ tag # "summary"
  BY DEF NoId, Ids, Tags, AnswerTags
<1>6. a \in [role : Roles, tag : Tags, calls : SUBSET Ids, id : Ids]
  BY <1>3, <1>4, <1>5 DEF Roles
<1>7. a \in Messages /\ a.role = "assistant" /\ a.calls = ids
  BY <1>2, <1>3, <1>4, <1>5, <1>6 DEF Messages
<1>8. ASSUME NEW id \in Ids
      PROVE  Reply(id) \in Messages /\ Reply(id).role = "tool" /\ Reply(id).id = id
  <2>1. Reply(id) = [role |-> "tool", tag |-> "reply", calls |-> {}, id |-> id]
    BY DEF Reply, Message
  <2>2. Reply(id) \in [role : Roles, tag : Tags, calls : SUBSET Ids, id : Ids]
    BY <2>1 DEF Roles, Tags
  <2> QED
    BY <2>1, <2>2, FS_EmptySet DEF Messages
<1> QED
  BY <1>2, <1>7, <1>8 DEF ids, a

-----------------------------------------------------------------------------
(* The history of a run.                                                   *)

\* The state of a run is a record of these fields.
Shaped(s) ==
  s = [history |-> s.history, iterations |-> s.iterations, tokens |-> s.tokens,
       failures |-> s.failures, noticeSent |-> s.noticeSent, nudged |-> s.nudged,
       request |-> s.request, resp |-> s.resp, injected |-> s.injected]

\* What a run in state s may rely on at a label: between turns its history
\* can be read, behind an answer only the replies to it are missing, and no
\* empty turn stands in what is sent.
HistoryAt(label, s) ==
  /\ Shaped(s) /\ s.iterations \in Nat
  /\ label \in {"plan", "reserve", "chat", "recover", "retry"} =>
       s.iterations < MaxIterations
  /\ label \in {"top", "plan", "reserve", "chat", "recover", "retry", "canceled",
                 "steered", "after"} => Good(s.history)
  /\ label = "reserve" => Full(s.history)
  /\ label \in {"chat", "recover", "retry"} => Good(s.request) /\ Full(s.request)
  /\ label \in {"after", "stage", "tools"} => s.resp \in Answers
  /\ label \in {"stage", "tools"} =>
       \E g : Good(g) /\ s.history = Append(g, Assistant(s.resp.tag, CallIds(s)))

HistoryInv ==
  /\ opts \in Loops
  /\ pc # "stopped" => HistoryAt(pc, st)

\* While a batch runs: its calls are those of the answer, a worker holds a
\* call that was dispatched, and no other call has an outcome.
BatchInv ==
  pc = "tools" =>
    /\ calls = st.resp.calls
    /\ next \in Nat \ {0}
    /\ worker \in [Workers -> [at : {"claim", "check", "begin", "wait", "settle", "done"},
                               call : Nat]]
    /\ \A w \in Workers : worker[w].at \in {"check", "begin", "wait", "settle"} =>
         worker[w].call \in Dispatched
    /\ outcome \in [Positions -> {"zero", "ok", "reported", "veto", "err"}]
    /\ \A i \in Positions : outcome[i] # "zero" => i \in Dispatched

\* w has a call that has not come to anything yet.
Holding(w) == worker[w].at \in {"check", "begin", "wait"}

\* How many calls are dispatched up to i.
Turn(i) == Rank(Dispatched, i)

\* The calls are claimed in turn, each by one worker, and none is left
\* without an outcome unless the batch was aborted, by one that has its
\* outcome; the pool rests when all are claimed.
ClaimInv ==
  pc = "tools" =>
    /\ \A w \in Workers : Holding(w) =>
         Turn(worker[w].call) < next /\ outcome[worker[w].call] = "zero"
    /\ \A w, x \in Workers : Holding(w) /\ Holding(x) /\ w # x =>
         worker[w].call # worker[x].call
    /\ \A i \in Dispatched : outcome[i] # "zero" => Turn(i) < next
    /\ \A i \in Dispatched : Turn(i) < next =>
         \/ aborted \/ outcome[i] # "zero"
         \/ \E w \in Workers : Holding(w) /\ worker[w].call = i
    /\ aborted => \E i \in Positions : outcome[i] \in {"veto", "err"}
    /\ Dispatched # {} /\ worker[1].at = "done" => next > Cardinality(Dispatched)

\* A message put at the end.
LEMMA ContinuedGood ==
  ASSUME NEW h, Good(h), NEW m \in {User, ConcludeNotice}
  PROVE  /\ Good(Append(h, m))
         /\ Full(h) => Full(Append(h, m))
<1>1. m \in Messages /\ m.role = "user" /\ m.tag # "summary"
  BY ConstantMessages
<1>2. h \in Seq(Messages) /\ Len(h) \in Nat
  BY RoomBehindSystem
<1>3. Inserted(Append(h, m), h, Len(h), m)
  BY <1>1, <1>2 DEF Inserted
<1>4. Full(h) => Full(Append(h, m))
  BY <1>1, <1>2, <1>3, InsertFull
<1> QED
  BY <1>1, <1>4, AppendGood

\* The messages of the calls at the positions in K stand in their order.
LEMMA InTheirOrder ==
  ASSUME NEW N \in Nat, NEW K \in SUBSET (1..N)
  PROVE  /\ Cardinality(K) \in Nat
         /\ \A k \in 1..Cardinality(K) : Nth(K, k) \in K
         /\ \A i \in K : Rank(K, i) \in 1..Cardinality(K) /\ Nth(K, Rank(K, i)) = i
         /\ \A i, j \in K : i <= j => Rank(K, i) <= Rank(K, j)
<1>1. /\ Cardinality(K) \in Nat /\ \A i \in K : Rank(K, i) \in 1..Cardinality(K)
      /\ \A i, j \in K : i < j => Rank(K, i) < Rank(K, j)
  BY RankGrows
<1>2. \A k : Nth(K, k) = NthOf(K, k)
  BY DEF Nth, NthOf, Rank
<1>3. /\ \A k \in 1..Cardinality(K) : NthOf(K, k) \in K
      /\ \A i \in K : NthOf(K, Rank(K, i)) = i
  BY RankedOnce
<1>4. ASSUME NEW i \in K, NEW j \in K, i <= j
      PROVE  Rank(K, i) <= Rank(K, j)
  <2>1. i \in Nat /\ j \in Nat /\ Rank(K, i) \in Nat /\ Rank(K, j) \in Nat
    BY <1>1
  <2>2. i < j \/ i = j
    BY <1>4, <2>1
  <2> QED
    BY <1>1, <2>1, <2>2
<1> QED
  BY <1>1, <1>2, <1>3, <1>4

\* The replies to the calls at the positions in K.
LEMMA RepliesTo ==
  ASSUME NEW N \in Nat, NEW K \in SUBSET (1..N), NEW n \in Nat
  PROVE  LET r == [k \in 1..Cardinality(K) |-> Reply(<<n, Nth(K, k)>>)]
         IN /\ r \in Seq(Messages) /\ Len(r) = Cardinality(K)
            /\ \A k \in DOMAIN r : r[k].role = "tool"
            /\ {r[k].id : k \in DOMAIN r} = {<<n, i>> : i \in K}
<1> DEFINE c == Cardinality(K)
           r == [k \in 1..c |-> Reply(<<n, Nth(K, k)>>)]
<1>1. c \in Nat /\ \A i \in K : Rank(K, i) \in 1..c
  BY InTheirOrder
<1>3. /\ \A k \in 1..c : Nth(K, k) \in K
      /\ \A i \in K : Nth(K, Rank(K, i)) = i
  BY InTheirOrder
<1>4. \A i \in K : <<n, i>> \in Ids
  BY DEF Ids
<1>5. \A i \in K : /\ Reply(<<n, i>>) \in Messages /\ Reply(<<n, i>>).role = "tool"
                   /\ Reply(<<n, i>>).id = <<n, i>>
  <2>1. "text" \in AnswerTags
    BY DEF AnswerTags
  <2> QED
    BY <1>4, <2>1, TurnMessages
<1> HIDE DEF c
<1>6. DOMAIN r = 1..c /\ \A k \in 1..c : r[k] = Reply(<<n, Nth(K, k)>>)
  OBVIOUS
<1>7. \A k \in 1..c : r[k] \in Messages /\ r[k].role = "tool" /\ r[k].id = <<n, Nth(K, k)>>
  BY <1>3, <1>5, <1>6
<1>8. r \in Seq(Messages) /\ Len(r) = c
  BY <1>1, <1>7
<1> HIDE DEF r
<1>9. ASSUME NEW i \in K
      PROVE  \E k \in DOMAIN r : r[k] = Reply(<<n, i>>) /\ r[k].id = <<n, i>>
  <2>1. Rank(K, i) \in DOMAIN r /\ Nth(K, Rank(K, i)) = i
    BY <1>1, <1>3, <1>6
  <2> QED
    BY <1>6, <1>7, <2>1
<1>10. {r[k].id : k \in DOMAIN r} = {<<n, i>> : i \in K}
  <2>1. \A k \in DOMAIN r : \E i \in K : r[k].id = <<n, i>>
    BY <1>3, <1>6, <1>7
  <2> QED
    BY <1>9, <2>1
<1> QED
  BY <1>6, <1>7, <1>8, <1>9, <1>10 DEF r, c

-----------------------------------------------------------------------------
(* Steps of the run.                                                       *)

\* The run goes on where it may.
LEMMA Arrives ==
  ASSUME HistoryInv, NEW label, NEW s, Goes(label, s), HistoryAt(label, s)
  PROVE  HistoryInv'
<1>1. pc' = label /\ st' = s /\ opts' = opts
  BY DEF Goes
<1>2. HistoryAt(pc', st')
  BY <1>1
<1> QED
  BY <1>1, <1>2 DEF HistoryInv, HistoryAt, Shaped, CallIds

\* The run ends.
LEMMA Stops ==
  ASSUME HistoryInv, pc' = "stopped", opts' = opts
  PROVE  HistoryInv'
  BY DEF HistoryInv

\* Ends, in its three forms.
LEMMA EndsStop ==
  ASSUME HistoryInv,
         \/ \E stop, s : StopsWith(stop, s)
         \/ \E err, s : HardFail(err, s)
         \/ \E s : RecoveryFail(s)
  PROVE  HistoryInv'
<1>1. pc' = "stopped" /\ opts' = opts
  BY DEF StopsWith, HardFail, RecoveryFail, Ends
<1> QED
  BY <1>1, Stops

\* A state with another history.
LEMMA Rewritten ==
  ASSUME NEW s, Shaped(s), NEW h
  PROVE  LET u == [s EXCEPT !.history = h]
         IN /\ Shaped(u) /\ u.history = h /\ u.iterations = s.iterations
            /\ u.request = s.request /\ u.resp = s.resp /\ CallIds(u) = CallIds(s)
<1> DEFINE u == [s EXCEPT !.history = h]
<1>1. u = [history |-> h, iterations |-> s.iterations, tokens |-> s.tokens,
           failures |-> s.failures, noticeSent |-> s.noticeSent, nudged |-> s.nudged,
           request |-> s.request, resp |-> s.resp, injected |-> s.injected]
  BY DEF Shaped
<1> HIDE DEF u
<1> QED
  BY <1>1 DEF Shaped, CallIds, u

\* A state whose history ends with a new message of the user.
LEMMA ContinuedState ==
  ASSUME NEW s, Shaped(s), Good(s.history)
  PROVE  LET u == Continued(s)
         IN Shaped(u) /\ Good(u.history) /\ u.iterations = s.iterations
<1> DEFINE h == Append(s.history, User)
<1>1. Good(h)
  BY ContinuedGood
<1>2. Continued(s) = [s EXCEPT !.history = h]
  BY DEF Continued
<1> HIDE DEF h
<1> QED
  BY <1>1, <1>2, Rewritten

\* The first step of a run.
LEMMA RunStartsHistory ==
  ASSUME HistoryInv, RunStarts
  PROVE  HistoryInv'
<1>1. PICK h \in opts.starts : st' = NewState(DropEmptyAssistantTurns(h))
  BY DEF RunStarts
<1>2. opts' = opts /\ pc' = "top" /\ opts \in Loops
  BY DEF RunStarts, HistoryInv
<1>3. Good(h)
  BY <1>1, <1>2, LoopAssumption DEF Good
<1> DEFINE d == DropEmptyAssistantTurns(h)
<1>4. Good(d)
  BY <1>3, DropGood
<1> HIDE DEF d
<1>5. st' = NewState(d)
  BY <1>1 DEF d
<1>6. /\ NewState(d).history = d /\ NewState(d).iterations = 0
      /\ Shaped(NewState(d))
  BY DEF NewState, Shaped
<1>7. HistoryAt("top", NewState(d))
  BY <1>4, <1>6 DEF HistoryAt
<1> QED
  BY <1>2, <1>5, <1>7 DEF HistoryInv, HistoryAt, Shaped, CallIds

\* Top: an injected message is one of the user.
LEMMA TopHistory ==
  ASSUME HistoryInv, Top
  PROVE  HistoryInv'
<1>1. CASE \E s \in Drained : s.iterations < MaxIterations /\ Goes("plan", s)
  <2>1. PICK s \in Drained : s.iterations < MaxIterations /\ Goes("plan", s)
    BY <1>1
  <2>2. Shaped(st) /\ st.iterations \in Nat /\ Good(st.history)
    BY DEF HistoryInv, HistoryAt, Top
  <2>3. CASE s = st
    <3>1. HistoryAt("plan", s)
      BY <2>1, <2>2, <2>3 DEF HistoryAt
    <3> QED
      BY <2>1, <3>1, Arrives
  <2>4. CASE s = [Continued(st) EXCEPT !.injected = @ + 1]
    <3> DEFINE u == Continued(st)
    <3>1. Shaped(u) /\ Good(u.history) /\ u.iterations = st.iterations
      BY <2>2, ContinuedState
    <3> HIDE DEF u
    <3>2. s = [u EXCEPT !.injected = u.injected + 1]
      BY <2>4 DEF u
    <3>3. Shaped(s) /\ s.history = u.history /\ s.iterations = u.iterations
      BY <3>1, <3>2 DEF Shaped
    <3>4. HistoryAt("plan", s)
      BY <2>1, <2>2, <3>1, <3>3 DEF HistoryAt
    <3> QED
      BY <2>1, <3>4, Arrives
  <2> QED
    BY <2>1, <2>3, <2>4 DEF Drained
<1>2. CASE ~\E s \in Drained : s.iterations < MaxIterations /\ Goes("plan", s)
  BY <1>2, EndsStop DEF Top
<1> QED
  BY <1>1, <1>2

\* Plan: shape repair, compaction and the conclude notice.
LEMMA PlanHistoryStep ==
  ASSUME HistoryInv, Plan
  PROVE  HistoryInv'
<1> DEFINE h == DropEmptyAssistantTurns(st.history)
<1>1. /\ Shaped(st) /\ st.iterations \in Nat /\ Good(st.history)
      /\ st.iterations < MaxIterations
  BY DEF HistoryInv, HistoryAt, Plan
<1>2. Good(h) /\ Full(h)
  BY <1>1, DropGood
<1> HIDE DEF h
<1>3. \/ pc' = "stopped" /\ opts' = opts
      \/ \E planned \in PlanHistory(h), late \in BOOLEAN :
           Goes("reserve", Nudged([st EXCEPT !.history = planned.kept], late))
  BY DEF Plan, h, HardFail, Ends
<1>4. ASSUME NEW planned \in PlanHistory(h), NEW late \in BOOLEAN,
             Goes("reserve", Nudged([st EXCEPT !.history = planned.kept], late))
      PROVE  HistoryInv'
  <2> DEFINE s == [st EXCEPT !.history = planned.kept]
             u == Nudged(s, late)
  <2>1. Good(planned.kept) /\ Full(planned.kept)
    BY <1>2, PlanGood
  <2>2. /\ Shaped(s) /\ s.history = planned.kept /\ s.iterations = st.iterations
    BY <1>1, Rewritten
  <2> HIDE DEF s
  <2>3. /\ Shaped(u) /\ u.iterations = s.iterations
        /\ u.history \in {s.history, Append(s.history, ConcludeNotice)}
    <3> DEFINE fires == ~s.noticeSent /\ ShouldConclude(s.iterations, late)
               q == IF fires THEN Append(s.history, ConcludeNotice) ELSE s.history
               sent == s.noticeSent \/ fires
               y == NoticeInRequest(sent, q)
    <3>1. u = [s EXCEPT !.history = q, !.noticeSent = sent, !.nudged = y]
      BY DEF Nudged
    <3>2. q \in {s.history, Append(s.history, ConcludeNotice)}
      OBVIOUS
    <3> HIDE DEF fires, q, sent, y, u
    <3>3. u = [history |-> q, iterations |-> s.iterations, tokens |-> s.tokens,
               failures |-> s.failures, noticeSent |-> sent, nudged |-> y,
               request |-> s.request, resp |-> s.resp, injected |-> s.injected]
      BY <2>2, <3>1 DEF Shaped
    <3> QED
      BY <3>2, <3>3 DEF Shaped
  <2>4. Goes("reserve", u)
    BY <1>4 DEF s
  <2> HIDE DEF u
  <2>5. Good(u.history) /\ Full(u.history)
    BY <2>1, <2>2, <2>3, ContinuedGood
  <2>6. HistoryAt("reserve", u)
    BY <1>1, <2>2, <2>3, <2>5 DEF HistoryAt
  <2> QED
    BY <2>4, <2>6, Arrives
<1> QED
  BY <1>3, <1>4, Stops

\* The steps around a call of the model.
LEMMA CallHistory ==
  ASSUME HistoryInv, ReserveFails \/ ObserveFails \/ ChatFails \/ ChatTooLong \/ Canceled
  PROVE  HistoryInv'
<1>1. \/ pc' = "stopped" /\ opts' = opts
      \/ pc \in {"reserve", "chat"} /\ Goes("canceled", st)
      \/ pc = "chat" /\ Goes("recover", st)
      \/ pc = "canceled" /\ Goes("steered", st)
  BY DEF ReserveFails, ObserveFails, ChatFails, ChatTooLong, Canceled, AttemptFails,
     HardFail, Ends
<1>2. CASE pc \in {"reserve", "chat"} /\ Goes("canceled", st)
  <2>1. HistoryAt("canceled", st)
    BY <1>2 DEF HistoryInv, HistoryAt
  <2> QED
    BY <1>2, <2>1, Arrives
<1>3. CASE pc = "chat" /\ Goes("recover", st)
  <2>1. HistoryAt("recover", st)
    BY <1>3 DEF HistoryInv, HistoryAt
  <2> QED
    BY <1>3, <2>1, Arrives
<1>4. CASE pc = "canceled" /\ Goes("steered", st)
  <2>1. HistoryAt("steered", st)
    BY <1>4 DEF HistoryInv, HistoryAt
  <2> QED
    BY <1>4, <2>1, Arrives
<1> QED
  BY <1>1, <1>2, <1>3, <1>4, Stops

\* What is sent is the history as planned.
LEMMA ChatStartsHistory ==
  ASSUME HistoryInv, ChatStarts
  PROVE  HistoryInv'
<1> DEFINE u == [st EXCEPT !.request = st.history]
<1>1. /\ Shaped(st) /\ st.iterations \in Nat /\ Good(st.history) /\ Full(st.history)
      /\ st.iterations < MaxIterations /\ Goes("chat", u)
  BY DEF HistoryInv, HistoryAt, ChatStarts
<1>2. /\ Shaped(u) /\ u.iterations = st.iterations /\ u.history = st.history
      /\ u.request = st.history
  BY <1>1 DEF Shaped
<1> HIDE DEF u
<1>3. HistoryAt("chat", u)
  BY <1>1, <1>2 DEF HistoryAt
<1> QED
  BY <1>1, <1>3, Arrives

\* The model answers within what Loops offers.
LEMMA ResponsesAreAnswers ==
  ASSUME HistoryInv, pc \in {"chat", "retry"}
  PROVE  Responses \subseteq Answers
<1>1. opts \in Loops /\ st.iterations \in Nat /\ st.iterations < MaxIterations
  BY DEF HistoryInv, HistoryAt
<1>2. MaxIterations \in Nat \ {0}
  BY LoopAssumption
<1>3. st.iterations + 1 \in 1..MaxIterations
  BY <1>1, <1>2
<1> QED
  BY <1>1, <1>3, LoopAssumption DEF Responses

\* An answer, of the first attempt or of the retry.
LEMMA AnswerHistory ==
  ASSUME HistoryInv, ChatAnswers \/ RetryAnswers
  PROVE  HistoryInv'
<1>1. /\ Shaped(st) /\ st.iterations \in Nat /\ Good(st.history) /\ Good(st.request)
      /\ Responses \subseteq Answers
  BY ResponsesAreAnswers DEF HistoryInv, HistoryAt, ChatAnswers, RetryAnswers
<1>2. PICK r \in Answers, h \in {st.history, st.request} :
        Goes("after", [st EXCEPT !.history = h, !.resp = r])
  <2>1. CASE ChatAnswers
    <3>1. PICK r \in Responses : Goes("after", [st EXCEPT !.resp = r])
      BY <2>1 DEF ChatAnswers
    <3>2. [st EXCEPT !.resp = r] = [st EXCEPT !.history = st.history, !.resp = r]
      BY <1>1 DEF Shaped
    <3> QED
      BY <1>1, <3>1, <3>2
  <2>2. CASE RetryAnswers
    BY <1>1, <2>2 DEF RetryAnswers
  <2> QED
    BY <2>1, <2>2
<1> DEFINE v == [st EXCEPT !.history = h]
           u == [v EXCEPT !.resp = r]
<1>3. Goes("after", u)
  BY <1>2
<1>4. Shaped(v) /\ v.history = h /\ v.iterations = st.iterations
  BY <1>1, Rewritten
<1> HIDE DEF v
<1>5. Shaped(u) /\ u.iterations = v.iterations /\ u.history = v.history /\ u.resp = r
  BY <1>4 DEF Shaped
<1> HIDE DEF u
<1>6. HistoryAt("after", u)
  BY <1>1, <1>2, <1>4, <1>5 DEF HistoryAt
<1> QED
  BY <1>3, <1>6, Arrives

\* The recovery sends what the compaction with its notice made.
LEMMA RecoverHistory ==
  ASSUME HistoryInv, Recover \/ RetryFails
  PROVE  HistoryInv'
<1>1. CASE pc' = "stopped" /\ opts' = opts
  BY <1>1, Stops
<1>2. CASE ~(pc' = "stopped" /\ opts' = opts)
  <2>1. /\ pc = "recover"
        /\ \E factor \in Factors :
             \E res \in CompactHistory(st.request, RecoveryWindow(opts.window),
                                      factor, TRUE) :
               Goes("retry", [st EXCEPT !.request = res.kept])
    BY <1>2 DEF Recover, RetryFails, RecoveryFail, Ends
  <2>2. PICK factor \in Factors :
          \E res \in CompactHistory(st.request, RecoveryWindow(opts.window),
                                   factor, TRUE) :
            Goes("retry", [st EXCEPT !.request = res.kept])
    BY <2>1
  <2>3. PICK res \in CompactHistory(st.request, RecoveryWindow(opts.window),
                                   factor, TRUE) :
          Goes("retry", [st EXCEPT !.request = res.kept])
    BY <2>2
  <2>4. /\ Shaped(st) /\ st.iterations \in Nat /\ Good(st.history)
        /\ Good(st.request) /\ Full(st.request) /\ st.iterations < MaxIterations
    BY <2>1 DEF HistoryInv, HistoryAt
  <2>5. Good(res.kept) /\ Full(res.kept)
    BY <2>4, RebuildGood
  <2> DEFINE u == [st EXCEPT !.request = res.kept]
  <2>6. /\ Shaped(u) /\ u.iterations = st.iterations /\ u.history = st.history
        /\ u.request = res.kept
    BY <2>4 DEF Shaped
  <2>7. Goes("retry", u)
    BY <2>3
  <2> HIDE DEF u
  <2>8. HistoryAt("retry", u)
    BY <2>4, <2>5, <2>6 DEF HistoryAt
  <2> QED
    BY <2>7, <2>8, Arrives
<1> QED
  BY <1>1, <1>2

\* A steered stop that is continued.
LEMMA SteeredHistory ==
  ASSUME HistoryInv, Steered
  PROVE  HistoryInv'
<1>1. \/ pc' = "stopped" /\ opts' = opts
      \/ pc = "steered" /\ Goes("top", Continued(st))
  BY DEF Steered, StopsWith, HardFail, Ends
<1>2. CASE pc = "steered" /\ Goes("top", Continued(st))
  <2>1. Shaped(st) /\ st.iterations \in Nat /\ Good(st.history)
    BY <1>2 DEF HistoryInv, HistoryAt
  <2> DEFINE u == Continued(st)
  <2>2. Shaped(u) /\ Good(u.history) /\ u.iterations = st.iterations
    BY <2>1, ContinuedState
  <2> HIDE DEF u
  <2>3. HistoryAt("top", u)
    BY <2>1, <2>2 DEF HistoryAt
  <2> QED
    BY <1>2, <2>3, Arrives DEF u
<1> QED
  BY <1>1, <1>2, Stops

\* The answer is recorded.
LEMMA AfterChatHistory ==
  ASSUME HistoryInv, AfterChat
  PROVE  HistoryInv'
<1> DEFINE n == [st EXCEPT !.iterations = @ + 1, !.tokens = @ + st.resp.usage]
           a == Assistant(st.resp.tag, CallIds(n))
           s == [n EXCEPT !.history = Append(@, a)]
<1>1. /\ Shaped(st) /\ st.iterations \in Nat /\ Good(st.history) /\ st.resp \in Answers
  BY DEF HistoryInv, HistoryAt, AfterChat
<1>2. /\ Shaped(n) /\ n.history = st.history /\ n.iterations = st.iterations + 1
      /\ n.resp = st.resp
  <2> DEFINE i == st.iterations + 1
             k == st.tokens + st.resp.usage
  <2>1. n = [st EXCEPT !.iterations = i, !.tokens = k]
    OBVIOUS
  <2> HIDE DEF i, k, n
  <2>2. n = [history |-> st.history, iterations |-> i, tokens |-> k,
             failures |-> st.failures, noticeSent |-> st.noticeSent,
             nudged |-> st.nudged, request |-> st.request, resp |-> st.resp,
             injected |-> st.injected]
    BY <1>1, <2>1 DEF Shaped
  <2> QED
    BY <2>2 DEF Shaped, i
<1>3. \/ pc' = "stopped" /\ opts' = opts
      \/ Goes("stage", s)
  BY DEF AfterChat, HardFail, Ends
<1> HIDE DEF n
<1> DEFINE h == Append(n.history, a)
<1>4. s = [n EXCEPT !.history = h]
  OBVIOUS
<1>5. a = Assistant(n.resp.tag, CallIds(n)) /\ h = Append(st.history, a)
  BY <1>2
<1> HIDE DEF h, s
<1>6. /\ Shaped(s) /\ s.history = h /\ s.iterations = n.iterations
      /\ s.resp = n.resp /\ CallIds(s) = CallIds(n)
  BY <1>2, <1>4, Rewritten
<1>7. s.history = Append(st.history, Assistant(s.resp.tag, CallIds(s)))
  BY <1>5, <1>6
<1> HIDE DEF a
<1>8. s.iterations \in Nat
  BY <1>1, <1>2, <1>6
<1>9. HistoryAt("stage", s)
  BY <1>1, <1>2, <1>6, <1>7, <1>8 DEF HistoryAt
<1> QED
  BY <1>3, <1>9, Arrives, Stops

\* The calls of an answer and the messages they make.
LEMMA AnswerMessages ==
  ASSUME HistoryInv, pc \in {"stage", "tools"}
  PROVE  LET a == Assistant(st.resp.tag, CallIds(st))
             N == Len(st.resp.calls)
         IN /\ Shaped(st) /\ st.iterations \in Nat
            /\ N \in Nat /\ DOMAIN st.resp.calls = 1..N
            /\ CallIds(st) = {<<st.iterations, i>> : i \in 1..N}
            /\ a \in Messages /\ a.role = "assistant" /\ a.calls = CallIds(st)
            /\ Cardinality(CallIds(st)) = N
            /\ \E g : Good(g) /\ st.history = Append(g, a)
<1> DEFINE N == Len(st.resp.calls)
           a == Assistant(st.resp.tag, CallIds(st))
<1>1. /\ Shaped(st) /\ st.iterations \in Nat /\ st.resp \in Answers
      /\ \E g : Good(g) /\ st.history = Append(g, a)
  BY DEF HistoryInv, HistoryAt
<1>2. st.resp.calls \in Seq(Call) /\ st.resp.tag \in AnswerTags
  BY <1>1 DEF Answers
<1>3. N \in Nat /\ DOMAIN st.resp.calls = 1..N
  BY <1>2
<1>4. CallIds(st) = {<<st.iterations, i>> : i \in 1..N}
  BY <1>3 DEF CallIds
<1>5. /\ a \in Messages /\ a.role = "assistant" /\ a.calls = CallIds(st)
      /\ Cardinality(CallIds(st)) = N
  <2> DEFINE n == st.iterations
             tag == st.resp.tag
             ids == {<<n, i>> : i \in 1..N}
  <2>1. n \in Nat /\ N \in Nat /\ tag \in AnswerTags
    BY <1>1, <1>2, <1>3
  <2>2. CallIds(st) = ids /\ a = Assistant(tag, ids)
    BY <1>4
  <2> HIDE DEF n, N, tag, a
  <2>3. /\ Assistant(tag, ids) \in Messages /\ Assistant(tag, ids).role = "assistant"
        /\ Assistant(tag, ids).calls = ids /\ Cardinality(ids) = N
    BY <2>1, TurnMessages
  <2> HIDE DEF ids
  <2> QED
    BY <2>2, <2>3
<1> QED
  BY <1>1, <1>3, <1>4, <1>5

\* An answer without calls leaves nothing to reply to.
LEMMA NoToolCallsHistory ==
  ASSUME HistoryInv, NoToolCalls
  PROVE  HistoryInv'
<1> DEFINE s == [st EXCEPT !.failures = 0]
           a == Assistant(st.resp.tag, CallIds(st))
<1>1. \/ pc' = "stopped" /\ opts' = opts
      \/ Goes("top", Continued(s))
  BY DEF NoToolCalls, StopsWith, HardFail, Ends
<1>2. /\ Shaped(st) /\ st.iterations \in Nat
      /\ a \in Messages /\ a.role = "assistant" /\ a.calls = CallIds(st)
      /\ Cardinality(CallIds(st)) = Len(st.resp.calls)
      /\ CallIds(st) = {<<st.iterations, i>> : i \in 1..Len(st.resp.calls)}
  BY AnswerMessages DEF NoToolCalls
<1>3. PICK g : Good(g) /\ st.history = Append(g, a)
  BY AnswerMessages DEF NoToolCalls
<1>4. Len(st.resp.calls) = 0
  BY DEF NoToolCalls
<1>5. Cardinality(a.calls) = 0 /\ a.calls = {}
  BY <1>2, <1>4
<1> HIDE DEF a
<1>6. Good(Append(g, a) \o <<>>)
  <2> DEFINE r == <<>>
  <2>1. r \in Seq(Messages) /\ Len(r) = 0 /\ DOMAIN r = {}
    OBVIOUS
  <2>2. {r[k].id : k \in DOMAIN r} = {}
    BY <2>1
  <2> HIDE DEF r
  <2>3. Good(Append(g, a) \o r)
    BY <1>2, <1>3, <1>5, <2>1, <2>2, TurnGood
  <2> QED
    BY <2>3 DEF r
<1>7. Good(st.history)
  <2>1. g \in Seq(Messages)
    BY <1>3 DEF Good
  <2>2. Append(g, a) \in Seq(Messages)
    BY <1>2, <2>1
  <2>3. Append(g, a) \o <<>> = Append(g, a)
    BY <2>2, ConcatEmptySeq
  <2> QED
    BY <1>3, <1>6, <2>3
<1>8. Shaped(s) /\ s.history = st.history /\ s.iterations = st.iterations
  BY <1>2 DEF Shaped
<1> HIDE DEF s
<1> DEFINE u == Continued(s)
<1>9. Shaped(u) /\ Good(u.history) /\ u.iterations = s.iterations
  BY <1>7, <1>8, ContinuedState
<1> HIDE DEF u
<1>10. HistoryAt("top", u)
  BY <1>2, <1>8, <1>9 DEF HistoryAt
<1> QED
  BY <1>1, <1>10, Arrives, Stops DEF u

\* The calls that are recorded are calls of the answer, and among them is
\* each one whose outcome the model may see.
LEMMA RecordedCalls ==
  ASSUME HistoryInv, BatchInv, pc = "tools"
  PROVE  /\ Positions = 1..Len(st.resp.calls) /\ Len(st.resp.calls) \in Nat
         /\ Recorded \subseteq Positions
         /\ Stopper = 0 => Recorded = Positions
         /\ \A i \in Positions : outcome[i] \in {"ok", "reported"} => i \in Recorded
<1>1. Positions = 1..Len(st.resp.calls) /\ Len(st.resp.calls) \in Nat
  BY AnswerMessages DEF BatchInv, Positions
<1>2. ASSUME NEW i \in Positions, outcome[i] \in {"ok", "reported"}
      PROVE  i \in Recorded
  <2> DEFINE stops == {j \in Positions : outcome[j] \in {"veto", "err"}}
  <2>1. Stopper = IF stops = {} THEN 0 ELSE Min(stops)
    BY DEF Stopper
  <2>2. i \in Dispatched
    BY <1>2 DEF BatchInv
  <2>3. CASE stops = {}
    BY <2>1, <2>3 DEF Recorded
  <2>4. CASE stops # {}
    <3>1. Min(stops) \in stops
      BY <1>1, <2>4, Extremes
    <3>2. Stopper \in Positions /\ outcome[Stopper] \in {"veto", "err"}
      BY <2>1, <2>4, <3>1
    <3>3. Stopper # i /\ Stopper \in Nat /\ i \in Nat
      BY <1>1, <1>2, <3>2
    <3>4. i < Stopper \/ i > Stopper
      BY <3>3
    <3> QED
      BY <1>2, <2>2, <3>4 DEF Recorded, Dispatched
  <2> QED
    BY <2>3, <2>4
<1> QED
  BY <1>1, <1>2 DEF Recorded

\* A batch that has ended and that no call stopped has run all of its calls.
LEMMA NoneIsDropped ==
  ASSUME HistoryInv, BatchInv, ClaimInv, pc = "tools", AllJoined, Stopper = 0
  PROVE  \A i \in Positions : MessageOf(i) = Reply(<<st.iterations, i>>)
<1> SUFFICES ASSUME NEW i \in Dispatched
             PROVE  outcome[i] # "zero"
  BY DEF MessageOf
<1> DEFINE N == Len(st.resp.calls)
<1>1. Positions = 1..N /\ N \in Nat /\ Dispatched \in SUBSET (1..N)
  BY RecordedCalls DEF Dispatched
<1>2. Turn(i) \in 1..Cardinality(Dispatched) /\ Cardinality(Dispatched) \in Nat
  BY <1>1, InTheirOrder DEF Turn
<1>3. 1 \in Workers
  BY PoolAssumption DEF Workers
<1>4. \A w \in Workers : worker[w].at = "done"
  BY DEF AllJoined, At
<1>5. next > Cardinality(Dispatched) /\ next \in Nat
  BY <1>3, <1>4 DEF ClaimInv, BatchInv
<1>6. Turn(i) < next
  BY <1>2, <1>5
<1>7. ~aborted
  <2> DEFINE stops == {j \in Positions : outcome[j] \in {"veto", "err"}}
  <2>1. Stopper = IF stops = {} THEN 0 ELSE Min(stops)
    BY DEF Stopper
  <2>2. stops # {} => Min(stops) \in stops
    BY <1>1, Extremes
  <2>3. stops = {}
    BY <1>1, <2>1, <2>2
  <2> QED
    BY <2>3 DEF ClaimInv
<1>8. \A w \in Workers : ~Holding(w)
  BY <1>4 DEF Holding
<1> QED
  BY <1>6, <1>7, <1>8 DEF ClaimInv

\* What collectCalls leaves behind a batch that ran to its end.
LEMMA RepliedHistory ==
  ASSUME HistoryInv, BatchInv, ClaimInv, pc = "tools", AllJoined
  PROVE  LET s == WithReplies(Cardinality(Recorded))
         IN /\ Shaped(s) /\ s.iterations = st.iterations
            /\ Stopper = 0 => Good(s.history)
            /\ \A i, j \in Recorded : i <= j =>
                 \E k, l \in DOMAIN s.history : /\ k <= l
                                               /\ s.history[k] = MessageOf(i)
                                               /\ s.history[l] = MessageOf(j)
<1> DEFINE n == st.iterations
           N == Len(st.resp.calls)
           K == Recorded
           c == Cardinality(K)
           a == Assistant(st.resp.tag, CallIds(st))
           r == [k \in 1..c |-> MessageOf(Nth(K, k))]
           b == st.history
           m == Len(b)
           h == b \o r
           s == WithReplies(c)
<1>1. s = [st EXCEPT !.history = h]
  BY DEF WithReplies
<1>2. /\ Shaped(st) /\ n \in Nat /\ N \in Nat
      /\ CallIds(st) = {<<n, i>> : i \in 1..N}
      /\ a \in Messages /\ a.role = "assistant" /\ a.calls = CallIds(st)
      /\ Cardinality(CallIds(st)) = N
  BY AnswerMessages
<1>3. PICK g : Good(g) /\ b = Append(g, a)
  BY AnswerMessages
<1>4. Positions = 1..N /\ K \in SUBSET (1..N) /\ (Stopper = 0 => K = 1..N)
  BY RecordedCalls
<1>5. /\ c \in Nat
      /\ \A k \in 1..c : Nth(K, k) \in K
      /\ \A i \in K : Rank(K, i) \in 1..c /\ Nth(K, Rank(K, i)) = i
      /\ \A i, j \in K : i <= j => Rank(K, i) <= Rank(K, j)
  BY <1>2, <1>4, InTheirOrder
<1>6. Stopper = 0 => \A i \in 1..N : MessageOf(i) = Reply(<<n, i>>)
  BY <1>4, NoneIsDropped
<1> HIDE DEF K, n, N, a, s
<1>7. Shaped(s) /\ s.history = h /\ s.iterations = n
  BY <1>1, <1>2, Rewritten DEF n
<1>8. ASSUME Stopper = 0 PROVE Good(h)
  <2> DEFINE q == [k \in 1..c |-> Reply(<<n, Nth(K, k)>>)]
  <2>1. K = 1..N /\ Cardinality(1..N) = N
    BY <1>2, <1>4, <1>8, FS_Interval
  <2>2. /\ q \in Seq(Messages) /\ Len(q) = c
        /\ \A k \in DOMAIN q : q[k].role = "tool"
        /\ {q[k].id : k \in DOMAIN q} = {<<n, i>> : i \in K}
    BY <1>2, <1>4, RepliesTo
  <2>3. r = q
    BY <1>5, <1>6, <1>8, <2>1
  <2> HIDE DEF q, r
  <2>4. Len(q) = Cardinality(a.calls) /\ {q[k].id : k \in DOMAIN q} = a.calls
    BY <1>2, <2>1, <2>2
  <2>5. Good(Append(g, a) \o q)
    BY <1>2, <1>3, <2>2, <2>4, TurnGood
  <2> QED
    BY <1>3, <2>3, <2>5
<1>9. ASSUME NEW i \in K, NEW j \in K, i <= j
      PROVE  \E k, l \in DOMAIN h : k <= l /\ h[k] = MessageOf(i) /\ h[l] = MessageOf(j)
  <2> DEFINE All == Messages \cup {r[k] : k \in 1..c}
  <2>1. b \in Seq(Messages)
    <3>1. g \in Seq(Messages)
      BY <1>3 DEF Good
    <3> QED
      BY <1>2, <1>3, <3>1
  <2>2. b \in Seq(All) /\ r \in Seq(All) /\ Len(r) = c /\ m \in Nat
    BY <1>5, <2>1
  <2> HIDE DEF r, All
  <2>3. /\ DOMAIN h = 1..(m + c)
        /\ \A x \in 1..(m + c) : h[x] = IF x <= m THEN b[x] ELSE r[x - m]
    <3>1. /\ h \in Seq(All) /\ Len(h) = m + Len(r)
          /\ \A x \in 1..(m + Len(r)) : h[x] = IF x <= m THEN b[x] ELSE r[x - m]
      BY <2>2, ConcatProperties
    <3> HIDE DEF b, h, c, m
    <3> QED
      BY <2>2, <3>1
  <2> DEFINE k == m + Rank(K, i)
             l == m + Rank(K, j)
  <2> HIDE DEF b, h, c, m
  <2>4. \A x \in 1..c : m + x \in 1..(m + c) /\ ~(m + x <= m) /\ (m + x) - m = x
    BY <1>5, <2>2
  <2>5. \A x \in 1..c : m + x \in DOMAIN h /\ h[m + x] = r[x]
    BY <2>3, <2>4
  <2>6. k \in DOMAIN h /\ l \in DOMAIN h /\ h[k] = r[Rank(K, i)] /\ h[l] = r[Rank(K, j)]
    BY <1>5, <2>5
  <2>7. r[Rank(K, i)] = MessageOf(i) /\ r[Rank(K, j)] = MessageOf(j)
    BY <1>5 DEF r
  <2>8. k <= l
    BY <1>5, <1>9, <2>2
  <2> HIDE DEF k, l
  <2> QED
    BY <2>6, <2>7, <2>8
<1> HIDE DEF h
<1>10. \A i, j \in K : i <= j =>
         \E k, l \in DOMAIN s.history : /\ k <= l
                                       /\ s.history[k] = MessageOf(i)
                                       /\ s.history[l] = MessageOf(j)
  BY <1>7, <1>9
<1>11. Stopper = 0 => Good(s.history)
  BY <1>7, <1>8
<1> QED
  BY <1>7, <1>10, <1>11 DEF K, n, s, c

\* How a batch ends.
LEMMA BatchEnds ==
  ASSUME HistoryInv, BatchInv, ClaimInv, CallsEnd
  PROVE  LET s == WithReplies(Cardinality(Recorded))
         IN /\ \/ pc' = "stopped" /\ result'.err = "audit"
               \/ st'.history = s.history
            /\ HistoryInv'
<1> DEFINE s == WithReplies(Cardinality(Recorded))
           n == IF AllFailed THEN s.failures + 1 ELSE 0
           failed == [s EXCEPT !.failures = n]
<1>1. pc = "tools" /\ AllJoined
  BY DEF CallsEnd
<1>2. /\ Shaped(s) /\ s.iterations = st.iterations
      /\ Stopper = 0 => Good(s.history)
  BY <1>1, RepliedHistory
<1>3. \/ \E u : HardFail("audit", u)
      \/ HardFail("tool", s)
      \/ StopsWith("HookVeto", s)
      \/ StopsWith("RepeatedToolFailures", failed)
      \/ Stopper = 0 /\ Goes("top", failed)
  BY DEF CallsEnd
<1> HIDE DEF s, n
<1>4. Shaped(failed) /\ failed.history = s.history /\ failed.iterations = s.iterations
  BY <1>2 DEF Shaped
<1> HIDE DEF failed
<1>5. CASE \E u : HardFail("audit", u)
  <2>1. pc' = "stopped" /\ opts' = opts /\ result'.err = "audit"
    <3>1. PICK u : HardFail("audit", u)
      BY <1>5
    <3> DEFINE h == IF u.iterations = 0 THEN <<>> ELSE u.history
    <3>2. result' = [stop |-> "", err |-> "audit", history |-> h]
      BY <3>1 DEF HardFail, Ends
    <3> HIDE DEF h
    <3>3. result'.err = "audit"
      BY <3>2
    <3> QED
      BY <3>1, <3>3 DEF HardFail, Ends
  <2> QED
    BY <2>1, Stops
<1>6. CASE HardFail("tool", s)
  BY <1>6, EndsStop DEF HardFail, Ends, s
<1>7. CASE StopsWith("HookVeto", s) \/ StopsWith("RepeatedToolFailures", failed)
  BY <1>4, <1>7, EndsStop DEF StopsWith, Ends, s
<1>8. CASE Stopper = 0 /\ Goes("top", failed)
  <2>1. st.iterations \in Nat
    BY <1>1 DEF HistoryInv, HistoryAt
  <2>2. HistoryAt("top", failed)
    BY <1>2, <1>4, <1>8, <2>1 DEF HistoryAt
  <2>3. HistoryInv'
    BY <1>8, <2>2, Arrives
  <2>4. st'.history = s.history
    BY <1>4, <1>8 DEF Goes
  <2> QED
    BY <2>3, <2>4 DEF s
<1> QED
  BY <1>3, <1>5, <1>6, <1>7, <1>8

\* The calls are refused, or begin.
LEMMA StageHistory ==
  ASSUME HistoryInv, CallsRefused \/ CallsBegin
  PROVE  HistoryInv'
<1>1. CASE CallsRefused
  BY <1>1, EndsStop DEF CallsRefused
<1>2. CASE CallsBegin
  <2>1. pc = "stage" /\ Goes("tools", st)
    BY <1>2 DEF CallsBegin
  <2>2. HistoryAt("tools", st)
    BY <2>1 DEF HistoryInv, HistoryAt
  <2> QED
    BY <2>1, <2>2, Arrives
<1> QED
  BY <1>1, <1>2

-----------------------------------------------------------------------------
(* Steps of the batch.                                                     *)

\* Outside a batch nothing is claimed of one.
LEMMA NoBatchRuns ==
  ASSUME pc' # "tools"
  PROVE  BatchInv'
  BY DEF BatchInv

\* A step that leaves the batch and its turn alone.
LEMMA BatchIdle ==
  ASSUME BatchInv, UNCHANGED <<pc, st, batchVars>>
  PROVE  BatchInv'
  BY DEF BatchInv, batchVars, Positions, Dispatched, Duplicate

\* A worker puts down an outcome.
LEMMA StoresInv ==
  ASSUME BatchInv, pc = "tools", pc' = pc, st' = st, NEW w \in Workers,
         worker[w].at \in {"begin", "wait"},
         NEW v \in {"ok", "reported", "veto", "err"}, Stores(w, v)
  PROVE  BatchInv'
<1> DEFINE c == worker[w].call
           Ats == {"claim", "check", "begin", "wait", "settle", "done"}
<1>1. /\ calls' = calls /\ batchOpts' = batchOpts /\ next' = next
      /\ outcome' = [outcome EXCEPT ![c] = v]
      /\ worker' = [worker EXCEPT ![w].at = "settle"]
  BY DEF Stores, Moves
<1>2. Positions' = Positions /\ Dispatched' = Dispatched
  BY <1>1 DEF Positions, Dispatched, Duplicate
<1>3. /\ calls = st.resp.calls /\ next \in Nat \ {0}
      /\ worker \in [Workers -> [at : Ats, call : Nat]]
      /\ outcome \in [Positions -> {"zero", "ok", "reported", "veto", "err"}]
      /\ c \in Dispatched
  BY DEF BatchInv
<1>4. c \in Positions
  BY <1>3 DEF Dispatched
<1>5. worker' \in [Workers -> [at : Ats, call : Nat]]
  BY <1>1, <1>3
<1>6. \A x \in Workers : /\ worker'[x].call = worker[x].call
                         /\ x # w => worker'[x].at = worker[x].at
  BY <1>1, <1>3
<1>7. \A x \in Workers : worker'[x].at \in {"check", "begin", "wait", "settle"} =>
        worker'[x].call \in Dispatched
  BY <1>3, <1>6 DEF BatchInv
<1>8. outcome' \in [Positions -> {"zero", "ok", "reported", "veto", "err"}]
  BY <1>1, <1>3
<1>9. \A i \in Positions : outcome'[i] # "zero" => i \in Dispatched
  BY <1>1, <1>3, <1>4 DEF BatchInv
<1> QED
  BY <1>1, <1>2, <1>3, <1>5, <1>7, <1>8, <1>9 DEF BatchInv

\* A worker moves on with the call it has, or gives it up.
LEMMA MovesInv ==
  ASSUME BatchInv, pc = "tools", pc' = pc, st' = st, NEW w \in Workers,
         NEW label \in {"claim", "begin", "wait"}, Moves(w, label),
         label # "claim" => worker[w].at \in {"check", "begin"},
         UNCHANGED <<batchOpts, calls, next, outcome>>
  PROVE  BatchInv'
<1> DEFINE Ats == {"claim", "check", "begin", "wait", "settle", "done"}
<1>1. worker' = [worker EXCEPT ![w].at = label]
  BY DEF Moves
<1>2. Positions' = Positions /\ Dispatched' = Dispatched
  BY DEF Positions, Dispatched, Duplicate
<1>3. worker \in [Workers -> [at : Ats, call : Nat]]
  BY DEF BatchInv
<1>4. worker' \in [Workers -> [at : Ats, call : Nat]]
  BY <1>1, <1>3
<1>5. \A x \in Workers : /\ worker'[x].call = worker[x].call
                         /\ x # w => worker'[x].at = worker[x].at
                         /\ x = w => worker'[x].at = label
  BY <1>1, <1>3
<1>6. \A x \in Workers : worker'[x].at \in {"check", "begin", "wait", "settle"} =>
        worker'[x].call \in Dispatched
  BY <1>5 DEF BatchInv
<1> QED
  BY <1>2, <1>4, <1>6 DEF BatchInv

\* A worker takes the next call, or is done.
LEMMA ClaimsInv ==
  ASSUME HistoryInv, BatchInv, pc = "tools", pc' = pc, st' = st, NEW w \in Workers,
         Claims(w)
  PROVE  BatchInv'
<1> DEFINE Ats == {"claim", "check", "begin", "wait", "settle", "done"}
           N == Len(st.resp.calls)
           e == IF next > Cardinality(Dispatched) THEN Resting
                ELSE [at |-> "check", call |-> Nth(Dispatched, next)]
<1>1. /\ worker' = [worker EXCEPT ![w] = e] /\ next' = next + 1
      /\ UNCHANGED <<batchOpts, calls, outcome>>
  BY DEF Claims
<1>2. Positions' = Positions /\ Dispatched' = Dispatched
  BY <1>1 DEF Positions, Dispatched, Duplicate
<1>3. /\ worker \in [Workers -> [at : Ats, call : Nat]] /\ next \in Nat \ {0}
  BY DEF BatchInv
<1>4. Dispatched \in SUBSET (1..N) /\ N \in Nat
  BY RecordedCalls DEF Dispatched
<1>5. /\ e \in [at : Ats, call : Nat]
      /\ e.at = "done" \/ e.call \in Dispatched
  <2>1. CASE next > Cardinality(Dispatched)
    BY <2>1 DEF Resting
  <2>2. CASE ~(next > Cardinality(Dispatched))
    <3>1. Cardinality(Dispatched) \in Nat
      BY <1>4, RankGrows
    <3>2. next \in 1..Cardinality(Dispatched)
      BY <1>3, <2>2, <3>1
    <3>3. Nth(Dispatched, next) = NthOf(Dispatched, next)
      BY DEF Nth, NthOf, Rank
    <3>4. NthOf(Dispatched, next) \in Dispatched
      BY <1>4, <3>2, RankedOnce
    <3>5. Nth(Dispatched, next) \in Dispatched /\ Nth(Dispatched, next) \in Nat
      <4>1. \A x \in Dispatched : x \in Nat
        BY <1>4
      <4> QED
        BY <3>3, <3>4, <4>1
    <3> QED
      BY <2>2, <3>5
  <2> QED
    BY <2>1, <2>2
<1> HIDE DEF e
<1>6. worker' \in [Workers -> [at : Ats, call : Nat]]
  BY <1>1, <1>3, <1>5
<1>7. \A x \in Workers : worker'[x] = IF x = w THEN e ELSE worker[x]
  BY <1>1, <1>3
<1>8. \A x \in Workers : worker'[x].at \in {"check", "begin", "wait", "settle"} =>
        worker'[x].call \in Dispatched
  BY <1>5, <1>7 DEF BatchInv
<1>9. next' \in Nat \ {0}
  BY <1>1, <1>3
<1> QED
  BY <1>1, <1>2, <1>6, <1>8, <1>9 DEF BatchInv

\* Outside a batch no claim is made.
LEMMA NoClaims ==
  ASSUME pc' # "tools"
  PROVE  ClaimInv'
  BY DEF ClaimInv

\* A step that leaves the claims and the outcomes alone.
LEMMA ClaimsIdle ==
  ASSUME ClaimInv, UNCHANGED <<pc, batchOpts, calls, next, aborted, worker, outcome>>
  PROVE  ClaimInv'
  BY DEF ClaimInv, Holding, Turn, Positions, Dispatched, Duplicate

\* A call gets its outcome from the one worker that held it.
LEMMA StoresClaims ==
  ASSUME BatchInv, ClaimInv, pc = "tools", NEW w \in Workers,
         worker[w].at \in {"begin", "wait"},
         NEW v \in {"ok", "reported", "veto", "err"}, Stores(w, v)
  PROVE  ClaimInv'
<1> DEFINE c == worker[w].call
<1>1. /\ UNCHANGED <<calls, batchOpts, next>>
      /\ outcome' = [outcome EXCEPT ![c] = v]
      /\ aborted' = (aborted \/ v \in {"veto", "err"})
      /\ worker' = [worker EXCEPT ![w].at = "settle"]
  BY DEF Stores, Moves
<1>2. Positions' = Positions /\ Dispatched' = Dispatched
  BY <1>1 DEF Positions, Dispatched, Duplicate
<1>3. \A i : Turn(i)' = Turn(i)
  BY <1>2 DEF Turn
<1>4. Holding(w) /\ c \in Dispatched /\ c \in Positions
  BY DEF Holding, BatchInv, Dispatched
<1>5. \A i \in Positions : outcome'[i] = IF i = c THEN v ELSE outcome[i]
  BY <1>1 DEF BatchInv
<1>6. \A x \in Workers : /\ worker'[x].call = worker[x].call
                         /\ Holding(x)' <=> Holding(x) /\ x # w
  BY <1>1 DEF BatchInv, Holding
<1>7. \A x \in Workers : Holding(x)' => worker[x].call # c /\ worker[x].call \in Positions
  BY <1>4, <1>6 DEF ClaimInv, BatchInv, Holding, Dispatched
<1>8. worker'[1].at = "done" => worker[1].at = "done"
  BY <1>1 DEF BatchInv
<1>9. Turn(c) < next /\ outcome[c] = "zero"
  BY <1>4 DEF ClaimInv
<1>10. \A x \in Workers : Holding(x)' =>
         (Turn(worker[x].call) < next)' /\ outcome'[worker'[x].call] = "zero"
  BY <1>1, <1>3, <1>5, <1>6, <1>7 DEF ClaimInv
<1>11. \A x, y \in Workers : Holding(x)' /\ Holding(y)' /\ x # y =>
         worker'[x].call # worker'[y].call
  BY <1>6 DEF ClaimInv
<1>12. \A i \in Dispatched : i \in Positions
  BY DEF Dispatched
<1>13. \A i \in Dispatched : outcome'[i] # "zero" => Turn(i) < next
  BY <1>5, <1>9, <1>12 DEF ClaimInv
<1>14. \A i \in Dispatched : Turn(i) < next =>
         \/ aborted' \/ outcome'[i] # "zero"
         \/ \E x \in Workers : Holding(x)' /\ worker'[x].call = i
  <2> SUFFICES ASSUME NEW i \in Dispatched, Turn(i) < next, i # c,
                      outcome'[i] = "zero"
               PROVE  aborted' \/ \E x \in Workers : Holding(x)' /\ worker'[x].call = i
    BY <1>4, <1>5
  <2>1. outcome[i] = "zero"
    BY <1>5, <1>12
  <2>2. aborted => aborted'
    BY <1>1
  <2>3. \A x \in Workers : Holding(x) /\ worker[x].call = i =>
          Holding(x)' /\ worker'[x].call = i
    BY <1>6
  <2>4. aborted \/ \E x \in Workers : Holding(x) /\ worker[x].call = i
    BY <2>1 DEF ClaimInv
  <2> QED
    BY <2>2, <2>3, <2>4
<1>15. aborted' => \E i \in Positions : outcome'[i] \in {"veto", "err"}
  BY <1>1, <1>4, <1>5, <1>9 DEF ClaimInv
<1>16. Dispatched # {} /\ worker'[1].at = "done" => next > Cardinality(Dispatched)
  BY <1>8 DEF ClaimInv
<1> QED
  BY <1>1, <1>2, <1>3, <1>10, <1>11, <1>13, <1>14, <1>15, <1>16 DEF ClaimInv

\* A worker goes on with its call, has settled it, or drops it in a batch
\* that was aborted.
LEMMA MovesClaims ==
  ASSUME BatchInv, ClaimInv, pc = "tools", NEW w \in Workers,
         NEW label \in {"claim", "begin", "wait"}, Moves(w, label),
         label # "claim" => worker[w].at \in {"check", "begin"},
         label = "claim" => worker[w].at = "settle" \/ aborted,
         UNCHANGED <<batchOpts, calls, next, aborted, outcome>>
  PROVE  ClaimInv'
<1>1. worker' = [worker EXCEPT ![w].at = label]
  BY DEF Moves
<1>2. Positions' = Positions /\ Dispatched' = Dispatched
  BY DEF Positions, Dispatched, Duplicate
<1>3. \A i : Turn(i)' = Turn(i)
  BY <1>2 DEF Turn
<1>4. \A x \in Workers : /\ worker'[x].call = worker[x].call
                         /\ Holding(x)' => Holding(x)
                         /\ Holding(x) => Holding(x)' \/ aborted
  BY <1>1 DEF BatchInv, Holding
<1>5. worker'[1].at = "done" => worker[1].at = "done"
  BY <1>1 DEF BatchInv
<1> QED
  BY <1>2, <1>3, <1>4, <1>5 DEF ClaimInv

\* The next call has not been claimed before.
LEMMA ClaimsClaims ==
  ASSUME HistoryInv, BatchInv, ClaimInv, pc = "tools", NEW w \in Workers, Claims(w)
  PROVE  ClaimInv'
<1> DEFINE N == Len(st.resp.calls)
           last == Cardinality(Dispatched)
           c == Nth(Dispatched, next)
           e == IF next > last THEN Resting ELSE [at |-> "check", call |-> c]
<1>1. /\ worker' = [worker EXCEPT ![w] = e] /\ next' = next + 1
      /\ UNCHANGED <<batchOpts, calls, aborted, outcome>>
      /\ worker[w].at = "claim"
  BY DEF Claims, At
<1>2. Positions' = Positions /\ Dispatched' = Dispatched
  BY <1>1 DEF Positions, Dispatched, Duplicate
<1>3. \A i : Turn(i)' = Turn(i)
  BY <1>2 DEF Turn
<1>4. Dispatched \in SUBSET (1..N) /\ N \in Nat
  BY RecordedCalls DEF Dispatched
<1>5. /\ last \in Nat /\ next \in Nat \ {0}
      /\ \A i \in Dispatched : Turn(i) \in 1..last /\ Nth(Dispatched, Turn(i)) = i
  <2>1. /\ last \in Nat
        /\ \A i \in Dispatched : Rank(Dispatched, i) \in 1..last
                                 /\ Nth(Dispatched, Rank(Dispatched, i)) = i
    BY <1>4, InTheirOrder
  <2> QED
    BY <2>1 DEF Turn, BatchInv
<1>6. next <= last => c \in Dispatched /\ Turn(c) = next
  <2>1. ASSUME next <= last PROVE c \in Dispatched /\ Turn(c) = next
    <3>1. next \in 1..last
      BY <1>5, <2>1
    <3>2. NthOf(Dispatched, next) \in Dispatched
          /\ Rank(Dispatched, NthOf(Dispatched, next)) = next
      BY <1>4, <3>1, RankedOnce
    <3>3. c = NthOf(Dispatched, next)
      BY DEF Nth, NthOf, Rank
    <3> QED
      BY <3>2, <3>3 DEF Turn
  <2> QED
    BY <2>1
<1> HIDE DEF c, last
<1>7. \A x \in Workers : x # w => worker'[x] = worker[x]
  BY <1>1 DEF BatchInv
<1>8. /\ worker'[w] = e /\ ~Holding(w)
      /\ Holding(w)' => next <= last /\ worker'[w].call = c
      /\ next <= last => Holding(w)' /\ worker'[w].call = c
  <2>1. worker'[w] = e
    BY <1>1 DEF BatchInv
  <2>2. CASE next > last
    BY <1>1, <1>5, <2>1, <2>2 DEF Holding, Resting
  <2>3. CASE ~(next > last)
    BY <1>1, <1>5, <2>1, <2>3 DEF Holding
  <2> QED
    BY <2>1, <2>2, <2>3
<1> HIDE DEF e
<1>9. \A x \in Workers : x # w => (Holding(x)' <=> Holding(x))
  BY <1>7 DEF Holding
<1>10. \A x \in Workers : Holding(x) => worker[x].call \in Dispatched
  BY DEF Holding, BatchInv
<1>11. \A i \in Dispatched : Turn(i) < next => Turn(i) < next + 1 /\ (next <= last => i # c)
  BY <1>5, <1>6
<1>12. next <= last => outcome[c] = "zero" /\ Turn(c) < next + 1
  <2>1. ASSUME next <= last PROVE outcome[c] = "zero" /\ Turn(c) < next + 1
    <3>1. c \in Dispatched /\ Turn(c) = next /\ next < next + 1 /\ ~(next < next)
      BY <1>5, <1>6, <2>1
    <3> QED
      BY <3>1 DEF ClaimInv
  <2> QED
    BY <2>1
<1>13. \A x \in Workers : Holding(x)' =>
         Turn(worker'[x].call) < next + 1 /\ outcome[worker'[x].call] = "zero"
  BY <1>7, <1>8, <1>9, <1>10, <1>11, <1>12 DEF ClaimInv
<1>14. \A x, y \in Workers : Holding(x)' /\ Holding(y)' /\ x # y =>
         worker'[x].call # worker'[y].call
  <2>1. \A x \in Workers : Holding(x)' /\ x # w => worker'[x].call # c \/ ~(next <= last)
    BY <1>7, <1>9, <1>10, <1>11 DEF ClaimInv
  <2> QED
    BY <1>7, <1>8, <1>9, <2>1 DEF ClaimInv
<1>15. \A i \in Dispatched : outcome[i] # "zero" => Turn(i) < next + 1
  BY <1>11 DEF ClaimInv
<1>16. ASSUME NEW i \in Dispatched, Turn(i) < next + 1
       PROVE  \/ aborted \/ outcome[i] # "zero"
              \/ \E x \in Workers : Holding(x)' /\ worker'[x].call = i
  <2>1. CASE Turn(i) < next
    <3>1. \A x \in Workers : Holding(x) => Holding(x)' /\ worker'[x].call = worker[x].call
      BY <1>7, <1>8, <1>9
    <3> QED
      BY <2>1, <3>1 DEF ClaimInv
  <2>2. CASE ~(Turn(i) < next)
    <3>1. Turn(i) = next /\ next <= last
      BY <1>5, <1>16, <2>2
    <3>2. i = c
      BY <1>5, <3>1 DEF c
    <3> QED
      BY <1>8, <3>1, <3>2
  <2> QED
    BY <2>1, <2>2
<1>17. Dispatched # {} /\ worker'[1].at = "done" => next + 1 > last
  <2>1. CASE w = 1
    <3>1. next <= last => worker'[w].at # "done"
      BY <1>8 DEF Holding
    <3> QED
      BY <1>5, <2>1, <3>1
  <2>2. CASE w # 1
    <3>1. 1 \in Workers
      BY PoolAssumption DEF Workers
    <3>2. worker'[1] = worker[1]
      BY <1>7, <2>2, <3>1
    <3>3. Dispatched # {} /\ worker'[1].at = "done" => next > last
      BY <3>2 DEF ClaimInv, last
    <3> QED
      BY <1>5, <3>3
  <2> QED
    BY <2>1, <2>2
<1> QED
  BY <1>1, <1>2, <1>3, <1>13, <1>14, <1>15, <1>16, <1>17 DEF ClaimInv, last

\* When a batch begins no call is claimed.
LEMMA CallsBeginClaims ==
  ASSUME HistoryInv, CallsBegin
  PROVE  ClaimInv'
<1> DEFINE cs == st.resp.calls
<1>1. /\ pc = "stage" /\ calls' = cs /\ next' = 1 /\ aborted' = FALSE
      /\ worker' = [w \in Workers |->
                     IF w <= Cardinality(Dispatched') THEN [at |-> "claim", call |-> 0]
                     ELSE Resting]
      /\ outcome' = [i \in DOMAIN cs |-> "zero"]
  BY DEF CallsBegin, BatchBegins
<1>2. \A w \in Workers : ~Holding(w)'
  BY <1>1 DEF Holding, Resting
<1>3. DOMAIN cs = 1..Len(cs) /\ Len(cs) \in Nat
  BY <1>1, AnswerMessages
<1>4. Dispatched' \in SUBSET (1..Len(cs))
  BY <1>1, <1>3 DEF Dispatched, Positions
<1>5. /\ Cardinality(Dispatched') \in Nat
      /\ \A i \in Dispatched' : Rank(Dispatched', i) \in 1..Cardinality(Dispatched')
  BY <1>3, <1>4, InTheirOrder
<1>6. \A i \in Dispatched' : ~(Turn(i)' < next') /\ outcome'[i] = "zero"
  BY <1>1, <1>3, <1>4, <1>5 DEF Turn
<1>7. Dispatched' # {} => worker'[1].at # "done"
  <2>1. ASSUME Dispatched' # {} PROVE 1 <= Cardinality(Dispatched')
    BY <1>5, <2>1
  <2>2. 1 \in Workers
    BY PoolAssumption DEF Workers
  <2> QED
    BY <1>1, <2>1, <2>2
<1> QED
  BY <1>1, <1>2, <1>6, <1>7 DEF ClaimInv

\* A step of the pool, and what it does to the claims.
LEMMA PoolClaims ==
  ASSUME HistoryInv, BatchInv, ClaimInv, NEW w \in Workers, Pool(w)
  PROVE  ClaimInv'
<1>1. pc = "tools" /\ WorkerStep(w)
  BY DEF Pool
<1>2. CASE Claims(w)
  BY <1>1, <1>2, ClaimsClaims
<1>3. CASE Abandons(w) \/ Proceeds(w) \/ ToolStarts(w) \/ Settles(w)
  <2>1. PICK label \in {"claim", "begin", "wait"} :
          /\ Moves(w, label)
          /\ label # "claim" => worker[w].at \in {"check", "begin"}
          /\ label = "claim" => worker[w].at = "settle" \/ aborted
    BY <1>3 DEF Abandons, Proceeds, ToolStarts, Settles, At
  <2>2. UNCHANGED <<batchOpts, calls, next, aborted, outcome>>
    BY <1>3 DEF Abandons, Proceeds, ToolStarts, Settles, poolVars
  <2> QED
    BY <1>1, <2>1, <2>2, MovesClaims
<1>4. CASE HookRefuses(w) \/ Rejects(w) \/ ResultArrives(w) \/ TimesOut(w)
  <2>1. worker[w].at \in {"begin", "wait"}
    BY <1>4 DEF HookRefuses, Rejects, ResultArrives, TimesOut, At
  <2>2. \E v \in {"ok", "reported", "veto", "err"} : Stores(w, v)
    BY <1>4 DEF HookRefuses, Rejects, ResultArrives, TimesOut, Errs
  <2> QED
    BY <1>1, <2>1, <2>2, StoresClaims
<1> QED
  BY <1>1, <1>2, <1>3, <1>4 DEF WorkerStep

\* A step of the pool.
LEMMA PoolInv ==
  ASSUME HistoryInv, BatchInv, NEW w \in Workers, Pool(w)
  PROVE  BatchInv'
<1>1. pc = "tools" /\ pc' = pc /\ st' = st /\ WorkerStep(w)
  BY DEF Pool
<1>2. CASE Claims(w)
  BY <1>1, <1>2, ClaimsInv
<1>3. CASE Abandons(w) \/ Proceeds(w) \/ ToolStarts(w) \/ Settles(w)
  <2>1. PICK label \in {"claim", "begin", "wait"} :
          /\ Moves(w, label)
          /\ label # "claim" => worker[w].at \in {"check", "begin"}
    BY <1>3 DEF Abandons, Proceeds, ToolStarts, Settles, At
  <2>2. UNCHANGED <<batchOpts, calls, next, outcome>>
    BY <1>3 DEF Abandons, Proceeds, ToolStarts, Settles, poolVars
  <2> QED
    BY <1>1, <2>1, <2>2, MovesInv
<1>4. CASE HookRefuses(w) \/ Rejects(w) \/ ResultArrives(w) \/ TimesOut(w)
  <2>1. worker[w].at \in {"begin", "wait"}
    BY <1>4 DEF HookRefuses, Rejects, ResultArrives, TimesOut, At
  <2>2. \E v \in {"ok", "reported", "veto", "err"} : Stores(w, v)
    BY <1>4 DEF HookRefuses, Rejects, ResultArrives, TimesOut, Errs
  <2> QED
    BY <1>1, <2>1, <2>2, StoresInv
<1> QED
  BY <1>1, <1>2, <1>3, <1>4 DEF WorkerStep

\* A tool of the batch returns.
LEMMA ToolInv ==
  ASSUME BatchInv, NEW i, Tool(i)
  PROVE  BatchInv'
<1>1. UNCHANGED <<pc, st, batchOpts, calls, next, worker, outcome>>
  BY DEF Tool, ToolReturns, poolVars
<1> QED
  BY <1>1 DEF BatchInv, Positions, Dispatched, Duplicate

\* A batch begins with idle outcomes.
LEMMA CallsBeginInv ==
  ASSUME CallsBegin
  PROVE  BatchInv'
<1> DEFINE Ats == {"claim", "check", "begin", "wait", "settle", "done"}
           cs == st.resp.calls
<1>1. /\ st' = st /\ calls' = cs /\ next' = 1
      /\ worker' = [w \in Workers |->
                     IF w <= Cardinality(Dispatched') THEN [at |-> "claim", call |-> 0]
                     ELSE Resting]
      /\ outcome' = [i \in DOMAIN cs |-> "zero"]
  BY DEF CallsBegin, BatchBegins, Goes
<1>2. worker' \in [Workers -> [at : Ats, call : Nat]]
  BY <1>1 DEF Resting
<1>3. \A w \in Workers : worker'[w].at \in {"claim", "done"}
  BY <1>1 DEF Resting
<1>4. Positions' = DOMAIN cs
  BY <1>1 DEF Positions
<1>5. /\ outcome' \in [Positions' -> {"zero", "ok", "reported", "veto", "err"}]
      /\ \A i \in Positions' : outcome'[i] = "zero"
  BY <1>1, <1>4
<1> QED
  BY <1>1, <1>2, <1>3, <1>5 DEF BatchInv

-----------------------------------------------------------------------------

\* Every reachable state of the loop: what the run relies on at the label it
\* is at, and what the batch of its turn came to.
THEOREM HistoryInvariance == Spec => [](HistoryInv /\ BatchInv /\ ClaimInv)
<1>1. Init => HistoryInv /\ BatchInv /\ ClaimInv
  BY DEF Init, HistoryInv, BatchInv, ClaimInv
<1>2. HistoryInv /\ BatchInv /\ ClaimInv /\ [Next]_loopVars =>
        HistoryInv' /\ BatchInv' /\ ClaimInv'
  <2> SUFFICES ASSUME HistoryInv, BatchInv, ClaimInv, [Next]_loopVars
               PROVE  HistoryInv' /\ BatchInv' /\ ClaimInv'
    OBVIOUS
  <2>1. ASSUME UNCHANGED <<opts, pc, st>> PROVE HistoryInv'
    BY <2>1 DEF HistoryInv, HistoryAt, Shaped, CallIds
  <2>2. CASE UNCHANGED loopVars \/ Cancel \/ Trigger
    <3>1. UNCHANGED <<opts, pc, st, batchVars>>
      BY <2>2 DEF loopVars, Cancel, Trigger
    <3> QED
      BY <2>1, <3>1, BatchIdle, ClaimsIdle DEF batchVars
  <2>3. CASE \E w \in Workers : Pool(w)
    <3>1. PICK w \in Workers : Pool(w)
      BY <2>3
    <3>2. UNCHANGED <<opts, pc, st>>
      BY <3>1 DEF Pool
    <3> QED
      BY <2>1, <3>1, <3>2, PoolInv, PoolClaims
  <2>4. CASE \E i \in 1..MaxBatch : Tool(i)
    <3>1. PICK i \in 1..MaxBatch : Tool(i)
      BY <2>4
    <3>2. UNCHANGED <<opts, pc, st, batchOpts, calls, next, aborted, worker, outcome>>
      BY <3>1 DEF Tool, ToolReturns, poolVars
    <3> QED
      BY <2>1, <3>1, <3>2, ToolInv, ClaimsIdle
  <2>5. CASE RunStarts
    BY <2>5, RunStartsHistory, NoBatchRuns, NoClaims DEF RunStarts
  <2>6. CASE Top
    <3>1. pc' # "tools"
      BY <2>6 DEF Top, HardFail, StopsWith, Ends, Goes
    <3> QED
      BY <2>6, <3>1, TopHistory, NoBatchRuns, NoClaims
  <2>7. CASE Plan
    <3>1. pc' # "tools"
      BY <2>7 DEF Plan, HardFail, Ends, Goes
    <3> QED
      BY <2>7, <3>1, PlanHistoryStep, NoBatchRuns, NoClaims
  <2>8. CASE ReserveFails \/ ObserveFails \/ ChatFails \/ ChatTooLong \/ Canceled
    <3>1. pc' # "tools"
      BY <2>8 DEF ReserveFails, ObserveFails, ChatFails, ChatTooLong, Canceled,
         AttemptFails, HardFail, Ends, Goes
    <3> QED
      BY <2>8, <3>1, CallHistory, NoBatchRuns, NoClaims
  <2>9. CASE ChatStarts
    BY <2>9, ChatStartsHistory, NoBatchRuns, NoClaims DEF ChatStarts, Goes
  <2>10. CASE ChatAnswers \/ RetryAnswers
    <3>1. pc' # "tools"
      BY <2>10 DEF ChatAnswers, RetryAnswers, Goes
    <3> QED
      BY <2>10, <3>1, AnswerHistory, NoBatchRuns, NoClaims
  <2>11. CASE Recover \/ RetryFails
    <3>1. pc' # "tools"
      BY <2>11 DEF Recover, RetryFails, RecoveryFail, Ends, Goes
    <3> QED
      BY <2>11, <3>1, RecoverHistory, NoBatchRuns, NoClaims
  <2>12. CASE Steered
    <3>1. pc' # "tools"
      BY <2>12 DEF Steered, StopsWith, HardFail, Ends, Goes
    <3> QED
      BY <2>12, <3>1, SteeredHistory, NoBatchRuns, NoClaims
  <2>13. CASE AfterChat
    <3>1. pc' # "tools"
      BY <2>13 DEF AfterChat, HardFail, Ends, Goes
    <3> QED
      BY <2>13, <3>1, AfterChatHistory, NoBatchRuns, NoClaims
  <2>14. CASE NoToolCalls
    <3>1. pc' # "tools"
      BY <2>14 DEF NoToolCalls, StopsWith, HardFail, Ends, Goes
    <3> QED
      BY <2>14, <3>1, NoToolCallsHistory, NoBatchRuns, NoClaims
  <2>15. CASE CallsRefused
    <3>1. pc' # "tools"
      BY <2>15 DEF CallsRefused, HardFail, Ends
    <3> QED
      BY <2>15, <3>1, StageHistory, NoBatchRuns, NoClaims
  <2>16. CASE CallsBegin
    BY <2>16, StageHistory, CallsBeginInv, CallsBeginClaims
  <2>17. CASE CallsEnd
    <3>1. pc' # "tools"
      BY <2>17 DEF CallsEnd, HardFail, StopsWith, Ends, Goes
    <3> QED
      BY <2>17, <3>1, BatchEnds, NoBatchRuns, NoClaims
  <2> QED
    BY <2>2, <2>3, <2>4, <2>5, <2>6, <2>7, <2>8, <2>9, <2>10, <2>11, <2>12, <2>13,
       <2>14, <2>15, <2>16, <2>17 DEF Next, Proceed
<1> QED
  BY <1>1, <1>2, PTL DEF Spec

\* Every request and every retry of a request is a history the model can
\* read, whatever compaction, recovery, a steered or continued stop and the
\* outcomes of earlier batches left in it (shape.go, compaction.go, plan's
\* compact.go, toolcall.go).
THEOREM RequestsAreWellFormed == Spec => []RequestsWellFormed
<1>1. HistoryInv => RequestsWellFormed
  BY DEF HistoryInv, HistoryAt, RequestsWellFormed, Good, Full
<1> QED
  BY <1>1, HistoryInvariance, PTL

\* collectCalls and recordRanOutcomes (toolcall.go): a call that ran has its
\* message in the history however the pool interleaved, and whichever call
\* aborted the batch, unless the audit sink failed.
THEOREM RanCallsAreTraced == Spec => RanCallsTraced
<1>1. ASSUME HistoryInv, BatchInv, ClaimInv, Next, pc = "tools", pc' # "tools",
             ~(pc' = "stopped" /\ result'.err = "audit")
      PROVE  TracesRan
  <2> SUFFICES ASSUME NEW i \in Positions, NEW j \in Positions,
                      outcome[i] \in {"ok", "reported"}, outcome[j] \in {"ok", "reported"},
                      i <= j
               PROVE  \E k, l \in DOMAIN st'.history :
                        /\ k <= l
                        /\ st'.history[k] = Reply(<<st.iterations, i>>)
                        /\ st'.history[l] = Reply(<<st.iterations, j>>)
    BY DEF TracesRan
  <2>1. CallsEnd
    BY <1>1 DEF Next, Proceed, RunStarts, Top, Plan, ReserveFails, ObserveFails, ChatStarts,
       ChatAnswers, ChatFails, ChatTooLong, Recover, RetryAnswers, RetryFails, Canceled,
       Steered, AfterChat, NoToolCalls, CallsRefused, CallsBegin, Cancel, Trigger, Pool,
       Tool
  <2> DEFINE s == WithReplies(Cardinality(Recorded))
  <2>2. st'.history = s.history
    BY <1>1, <2>1, BatchEnds
  <2>3. i \in Recorded /\ j \in Recorded
    BY <1>1, RecordedCalls
  <2>4. MessageOf(i) = Reply(<<st.iterations, i>>) /\ MessageOf(j) = Reply(<<st.iterations, j>>)
    BY DEF MessageOf
  <2>5. AllJoined
    BY <2>1 DEF CallsEnd
  <2>6. \E k, l \in DOMAIN s.history : /\ k <= l
                                      /\ s.history[k] = MessageOf(i)
                                      /\ s.history[l] = MessageOf(j)
    BY <1>1, <2>3, <2>5, RepliedHistory
  <2> HIDE DEF s
  <2> QED
    BY <2>2, <2>4, <2>6
<1>2. HistoryInv /\ BatchInv /\ ClaimInv /\ [Next]_loopVars
      => [/\ pc = "tools" /\ pc' # "tools"
          /\ ~(pc' = "stopped" /\ result'.err = "audit")
          => TracesRan]_loopVars
  BY <1>1
<1> QED
  BY <1>2, HistoryInvariance, PTL DEF Spec, RanCallsTraced

=============================================================================
