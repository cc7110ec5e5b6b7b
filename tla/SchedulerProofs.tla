-------------------------- MODULE SchedulerProofs ---------------------------
(***************************************************************************)
(* Proofs for module Scheduler: for any set of job IDs and any schedules,  *)
(* the loop never goes to sleep on an entry it has not computed or armed   *)
(* the timer for, no job fires twice at one instant, and no job goroutine  *)
(* outlives Run.                                                           *)
(***************************************************************************)
EXTENDS Scheduler, WellFoundedInduction, TLAPS

-----------------------------------------------------------------------------
(* Schedules.                                                              *)

\* The earliest of some instants is one of them, and none is before it.
LEMMA EarliestIn ==
  ASSUME NEW T \in SUBSET Nat, T # {}
  PROVE  Earliest(T) \in T /\ \A u \in T : Earliest(T) <= u
<1> DEFINE R == OpToRel(<, Nat)
<1>1. \E x \in T : \A y \in T : ~(<<y, x>> \in R)
  <2>1. IsWellFoundedOn(R, Nat)
    BY NatLessThanWellFounded
  <2> HIDE DEF R
  <2> QED
    BY <2>1, WFMin
<1>2. ASSUME NEW x \in Nat, NEW y \in Nat, y < x
      PROVE  <<y, x>> \in R
  BY <1>2, Zenon DEF OpToRel
<1> HIDE DEF R
<1>3. PICK x \in T : \A y \in T : ~(<<y, x>> \in R)
  BY <1>1
<1>4. ASSUME NEW y \in T PROVE x <= y
  <2>1. x \in Nat /\ y \in Nat /\ ~(y < x)
    BY <1>2, <1>3
  <2> QED
    BY <2>1
<1> QED
  BY <1>4 DEF Earliest

\* Next answers the zero time, or an instant strictly after the given one.
LEMMA NextLater ==
  ASSUME NEW s \in Schedules, NEW after \in Nat
  PROVE  Next(s, after) \in Nat /\ (Next(s, after) # Never => Next(s, after) > after)
<1>1. CASE s.kind = "every" /\ s.d \in Int
  BY <1>1 DEF Next, Never
<1>2. CASE s.kind = "at" /\ s.times \subseteq Nat \ {Never}
  <2> DEFINE later == {t \in s.times : t > after}
  <2>1. later \in SUBSET Nat
    BY <1>2
  <2>2. Next(s, after) = IF later = {} THEN Never ELSE Earliest(later)
    BY <1>2 DEF Next
  <2>3. later # {} => Earliest(later) \in later
    BY <2>1, EarliestIn
  <2> QED
    BY <1>2, <2>2, <2>3 DEF Never
<1> QED
  BY <1>1, <1>2, SchedulerAssumption

-----------------------------------------------------------------------------
(* The inductive invariant.                                                *)

\* An entry's first fire time is missing exactly while it is pending, and a
\* fire time it has lies after its last firing.
EntryInv ==
  \A id \in Registered :
    /\ entries[id].pending => entries[id].next = Never
    /\ entries[id].next # Never => fired[id] < entries[id].next

\* After computePending, an entry that is still pending came later, so its
\* Add is about to wake the loop, or has.
WakeInv ==
  pc \in {"arm", "select"} =>
    \A id \in Registered : entries[id].pending => wake \/ adding > 0

\* The timer covers every fire time.
TimerInv ==
  pc = "select" => \A id \in Registered :
    entries[id].next # Never => timer # Never /\ timer <= entries[id].next

FiredInv == \A id \in Ids : fired[id] <= clock

IInv ==
  /\ TypeOK
  /\ EntryInv
  /\ WakeInv
  /\ TimerInv
  /\ FiredInv
  /\ NoJobOutlivesRun

\* The parts of the invariant, to be expanded where a step disturbs them.
USE DEF IInv

\* The invariant holds in the initial state.
LEMMA InitIInv == Init => IInv
<1> SUFFICES ASSUME Init PROVE IInv
  OBVIOUS
<1>1. Registered = {}
  BY DEF Init, Registered
<1>2. TypeOK
  BY DEF Init, TypeOK, Never
<1> QED
  BY <1>1, <1>2 DEF Init, EntryInv, WakeInv, TimerInv, FiredInv,
                    NoJobOutlivesRun, Never

\* An entry just added is pending, its fire time unknown, and its caller is
\* about to wake the loop.
LEMMA AddStep ==
  ASSUME IInv, NEW id \in Ids, NEW s \in Schedules, Add(id, s)
  PROVE  IInv'
<1> DEFINE e == [sched |-> s, next |-> Never, pending |-> TRUE]
<1>1. e \in [sched : Schedules, next : Nat, pending : BOOLEAN]
  BY DEF Never
<1>2. entries' = [entries EXCEPT ![id] = e]
  BY DEF Add
<1>3. e.next = Never /\ e.pending
  OBVIOUS
<1> HIDE DEF e
<1>4. TypeOK'
  BY <1>1, <1>2 DEF Add, TypeOK
<1>5. adding' > 0
  BY DEF Add, TypeOK
<1>6. \A j \in Ids : entries'[j] = IF j = id THEN e ELSE entries[j]
  BY <1>2 DEF TypeOK
<1>7. EntryInv' /\ WakeInv' /\ TimerInv'
  BY <1>3, <1>5, <1>6 DEF Add, EntryInv, WakeInv, TimerInv, Registered
<1> QED
  BY <1>4, <1>7 DEF Add, FiredInv, NoJobOutlivesRun

\* A removal takes an entry away and touches no other.
LEMMA RemoveStep ==
  ASSUME IInv, NEW id \in Ids, Remove(id)
  PROVE  IInv'
<1>1. TypeOK'
  BY DEF Remove, TypeOK
<1>2. \A j \in Ids : entries'[j] = IF j = id THEN NoEntry ELSE entries[j]
  BY DEF Remove, TypeOK
<1>3. EntryInv' /\ WakeInv' /\ TimerInv'
  BY <1>2 DEF Remove, EntryInv, WakeInv, TimerInv, Registered
<1> QED
  BY <1>1, <1>3 DEF Remove, FiredInv, NoJobOutlivesRun

\* After computePending no entry is pending, and every fire time it found
\* lies after now.
LEMMA ComputeStep ==
  ASSUME IInv, ComputePending
  PROVE  IInv'
<1>1. ASSUME NEW id \in Ids
      PROVE  /\ entries'[id] \in [sched : Schedules, next : Nat, pending : BOOLEAN]
                                 \cup {NoEntry}
             /\ id \in Registered' =>
                  /\ ~entries'[id].pending
                  /\ entries'[id].next # Never => fired[id] < entries'[id].next
  <2>1. entries'[id] = Computed(entries[id])
    BY DEF ComputePending
  <2>2. CASE entries[id] # NoEntry /\ entries[id].pending
    <3>1. entries[id].sched \in Schedules /\ clock \in Nat /\ fired[id] \in Nat
      BY <2>2 DEF TypeOK
    <3>2. PICK n : n = Next(entries[id].sched, clock)
      OBVIOUS
    <3>3. n \in Nat /\ (n # Never => n > clock)
      BY <3>1, <3>2, NextLater
    <3>4. entries'[id] = [entries[id] EXCEPT !.next = n, !.pending = FALSE]
      BY <2>1, <2>2, <3>2 DEF Computed
    <3>5. fired[id] <= clock
      BY DEF FiredInv
    <3>6. entries[id] \in [sched : Schedules, next : Nat, pending : BOOLEAN]
      BY <2>2 DEF TypeOK
    <3>7. /\ entries'[id] \in [sched : Schedules, next : Nat, pending : BOOLEAN]
          /\ entries'[id].next = n /\ ~entries'[id].pending
      BY <3>3, <3>4, <3>6
    <3> QED
      BY <3>1, <3>3, <3>5, <3>7
  <2>3. CASE ~(entries[id] # NoEntry /\ entries[id].pending)
    <3>1. entries'[id] = entries[id]
      BY <2>1, <2>3 DEF Computed
    <3> QED
      BY <2>3, <3>1 DEF TypeOK, EntryInv, Registered
  <2> QED
    BY <2>2, <2>3
<1>2. entries' = [id \in Ids |-> Computed(entries[id])]
  BY DEF ComputePending
<1>3. entries' \in [Ids -> [sched : Schedules, next : Nat, pending : BOOLEAN]
                           \cup {NoEntry}]
  BY <1>1, <1>2
<1>4. TypeOK'
  BY <1>3 DEF ComputePending, TypeOK
<1>5. EntryInv' /\ WakeInv' /\ TimerInv'
  BY <1>1 DEF ComputePending, EntryInv, WakeInv, TimerInv, Registered
<1> QED
  BY <1>4, <1>5 DEF ComputePending, FiredInv, NoJobOutlivesRun

\* The timer is armed for the earliest fire time there is.
LEMMA SleepTimerStep ==
  ASSUME IInv, SleepTimer
  PROVE  IInv'
<1> DEFINE nexts == {entries[id].next : id \in Registered} \ {Never}
<1>1. nexts \in SUBSET Nat
  BY DEF Registered, TypeOK
<1>2. timer' = IF nexts = {} THEN Never ELSE Earliest(nexts)
  BY DEF SleepTimer
<1>3. \A id \in Registered : entries[id].next # Never => entries[id].next \in nexts
  OBVIOUS
<1>4. Never \notin nexts
  OBVIOUS
<1> HIDE DEF nexts
<1>5. timer' \in Nat /\ \A u \in nexts : timer' # Never /\ timer' <= u
  BY <1>1, <1>2, <1>4, EarliestIn DEF Never
<1>6. TypeOK'
  BY <1>5 DEF SleepTimer, TypeOK
<1>7. TimerInv'
  BY <1>3, <1>5 DEF SleepTimer, TimerInv, Registered
<1>8. EntryInv' /\ WakeInv'
  BY DEF SleepTimer, EntryInv, WakeInv, Registered
<1> QED
  BY <1>6, <1>7, <1>8 DEF SleepTimer, FiredInv, NoJobOutlivesRun

\* fireDue starts what is due and sets its next fire time after now.
LEMMA FireDueStep ==
  ASSUME IInv, FireDue
  PROVE  /\ IInv'
         /\ \A id \in Ids : jobs'[id] > jobs[id] => fired[id] < clock
<1> DEFINE due == {id \in Ids : IsDue(entries[id])}
<1>1. ASSUME NEW id \in Ids
      PROVE  /\ entries'[id] \in [sched : Schedules, next : Nat, pending : BOOLEAN]
                                 \cup {NoEntry}
             /\ fired'[id] \in Nat /\ fired'[id] <= clock
             /\ jobs'[id] \in Nat
             /\ jobs'[id] > jobs[id] => fired[id] < clock
             /\ id \in Registered' =>
                  /\ entries'[id].pending => entries'[id].next = Never
                  /\ entries'[id].next # Never => fired'[id] < entries'[id].next
  <2>1. CASE id \in due
    <3>1. entries[id] # NoEntry /\ entries[id].next # Never /\ entries[id].next <= clock
      BY <2>1 DEF IsDue
    <3>2. entries[id].sched \in Schedules /\ clock \in Nat /\ entries[id].next \in Nat
      BY <3>1 DEF TypeOK
    <3>3. PICK n : n = Next(entries[id].sched, clock)
      OBVIOUS
    <3>4. n \in Nat /\ (n # Never => n > clock)
      BY <3>2, <3>3, NextLater
    <3>5. entries'[id] = IF n = Never THEN NoEntry ELSE [entries[id] EXCEPT !.next = n]
      BY <2>1, <3>3 DEF FireDue, Refired
    <3>6. fired'[id] = clock /\ jobs'[id] = jobs[id] + 1 /\ jobs[id] \in Nat
      BY <2>1 DEF FireDue, TypeOK
    <3>7. ~entries[id].pending /\ fired[id] < entries[id].next /\ fired[id] \in Nat
      BY <3>1 DEF EntryInv, Registered, TypeOK
    <3>8. entries[id] \in [sched : Schedules, next : Nat, pending : BOOLEAN]
      BY <3>1 DEF TypeOK
    <3>9. CASE n = Never
      BY <3>1, <3>2, <3>5, <3>6, <3>7, <3>9 DEF Registered
    <3>10. CASE n # Never
      <4>1. entries'[id] = [entries[id] EXCEPT !.next = n]
        BY <3>5, <3>10
      <4>2. /\ entries'[id] \in [sched : Schedules, next : Nat, pending : BOOLEAN]
            /\ entries'[id].next = n /\ ~entries'[id].pending
        BY <3>4, <3>7, <3>8, <4>1
      <4> QED
        BY <3>1, <3>2, <3>4, <3>6, <3>7, <3>10, <4>2
    <3> QED
      BY <3>9, <3>10
  <2>2. CASE id \notin due
    <3>1. entries'[id] = entries[id] /\ fired'[id] = fired[id] /\ jobs'[id] = jobs[id]
      BY <2>2 DEF FireDue
    <3>2. /\ entries[id] \in [sched : Schedules, next : Nat, pending : BOOLEAN]
                             \cup {NoEntry}
          /\ fired[id] \in Nat /\ jobs[id] \in Nat
      BY DEF TypeOK
    <3> QED
      BY <3>1, <3>2 DEF EntryInv, FiredInv, Registered
  <2> QED
    BY <2>1, <2>2
<1>2. /\ DOMAIN entries' = Ids /\ entries' = [id \in Ids |-> entries'[id]]
      /\ jobs' = [id \in Ids |-> jobs'[id]]
      /\ fired' = [id \in Ids |-> fired'[id]]
  BY DEF FireDue
<1>3. TypeOK'
  <2>1. entries' \in [Ids -> [sched : Schedules, next : Nat, pending : BOOLEAN]
                             \cup {NoEntry}]
    BY <1>1, <1>2
  <2>2. jobs' \in [Ids -> Nat] /\ fired' \in [Ids -> Nat]
    BY <1>1, <1>2
  <2> QED
    BY <2>1, <2>2 DEF FireDue, TypeOK, Never
<1>4. EntryInv' /\ FiredInv'
  BY <1>1 DEF FireDue, EntryInv, FiredInv, Registered
<1>5. pc' = "compute"
  BY DEF FireDue
<1> QED
  BY <1>1, <1>3, <1>4, <1>5 DEF WakeInv, TimerInv, NoJobOutlivesRun

\* The other steps leave the entries and the fire times alone.
LEMMA OtherSteps ==
  ASSUME IInv,
         \/ AddWakes \/ RunStarts \/ SelectDone \/ SelectWake \/ RunReturns
         \/ Cancel \/ Tick \/ \E id \in Ids : JobEnds(id)
  PROVE  IInv'
<1>1. CASE AddWakes
  BY <1>1 DEF AddWakes, TypeOK, EntryInv, WakeInv, TimerInv, FiredInv,
              NoJobOutlivesRun, Registered
<1>2. CASE RunStarts
  <2>1. TypeOK'
    <3>1. pc' = "compute" /\ runs' = runs + 1 /\ ctxDone' = FALSE
      BY <1>2 DEF RunStarts
    <3>2. UNCHANGED <<clock, entries, wake, adding, timer, jobs, fired, adds>>
      BY <1>2 DEF RunStarts
    <3>3. pc' \in {"off", "compute", "arm", "select", "drain"} /\ runs' \in Nat
      BY <3>1 DEF TypeOK
    <3>4. ctxDone' \in BOOLEAN
      BY <3>1
    <3> QED
      BY <3>2, <3>3, <3>4 DEF TypeOK
  <2>2. pc' = "compute"
    BY <1>2 DEF RunStarts
  <2>3. EntryInv' /\ FiredInv'
    BY <1>2 DEF RunStarts, EntryInv, FiredInv, Registered
  <2> QED
    BY <2>1, <2>2, <2>3 DEF WakeInv, TimerInv, NoJobOutlivesRun
<1>3. CASE SelectDone
  BY <1>3 DEF SelectDone, TypeOK, EntryInv, WakeInv, TimerInv, FiredInv,
              NoJobOutlivesRun, Registered, Never
<1>4. CASE SelectWake
  BY <1>4 DEF SelectWake, TypeOK, EntryInv, WakeInv, TimerInv, FiredInv,
              NoJobOutlivesRun, Registered, Never
<1>5. CASE RunReturns
  BY <1>5 DEF RunReturns, TypeOK, EntryInv, WakeInv, TimerInv, FiredInv,
              NoJobOutlivesRun, Registered
<1>6. CASE Cancel
  BY <1>6 DEF Cancel, TypeOK, EntryInv, WakeInv, TimerInv, FiredInv,
              NoJobOutlivesRun, Registered
<1>7. CASE Tick
  BY <1>7 DEF Tick, TypeOK, EntryInv, WakeInv, TimerInv, FiredInv,
              NoJobOutlivesRun, Registered
<1>8. ASSUME NEW id \in Ids, JobEnds(id) PROVE IInv'
  BY <1>8 DEF JobEnds, TypeOK, EntryInv, WakeInv, TimerInv, FiredInv,
              NoJobOutlivesRun, Registered
<1> QED
  BY <1>1, <1>2, <1>3, <1>4, <1>5, <1>6, <1>7, <1>8

\* Every step keeps the invariant, and only fireDue starts a job.
LEMMA NextIInv ==
  ASSUME IInv, [SchedNext]_schedVars
  PROVE  /\ IInv'
         /\ \A id \in Ids : jobs'[id] > jobs[id] => fired[id] < clock
<1>1. ASSUME NEW id \in Ids, NEW s \in Schedules, Add(id, s)
      PROVE  IInv' /\ jobs' = jobs
  BY <1>1, AddStep DEF Add
<1>2. ASSUME NEW id \in Ids, Remove(id)
      PROVE  IInv' /\ jobs' = jobs
  BY <1>2, RemoveStep DEF Remove
<1>3. ASSUME NEW id \in Ids, JobEnds(id)
      PROVE  IInv' /\ \A j \in Ids : jobs'[j] <= jobs[j]
  <2>1. IInv'
    BY <1>3, OtherSteps
  <2>2. \A j \in Ids : jobs'[j] <= jobs[j]
    BY <1>3 DEF JobEnds, TypeOK
  <2> QED
    BY <2>1, <2>2
<1>4. CASE ComputePending
  BY <1>4, ComputeStep DEF ComputePending, TypeOK
<1>5. CASE SleepTimer
  BY <1>5, SleepTimerStep DEF SleepTimer, TypeOK
<1>6. CASE FireDue
  BY <1>6, FireDueStep
<1>7. CASE AddWakes \/ RunStarts \/ SelectDone \/ SelectWake \/ RunReturns
           \/ Cancel \/ Tick
  <2>1. IInv'
    BY <1>7, OtherSteps
  <2>2. jobs' = jobs
    BY <1>7 DEF AddWakes, RunStarts, SelectDone, SelectWake, RunReturns,
                Cancel, Tick
  <2> QED
    BY <2>1, <2>2 DEF TypeOK
<1>8. CASE UNCHANGED schedVars
  BY <1>8 DEF schedVars, TypeOK, EntryInv, WakeInv, TimerInv, FiredInv,
              NoJobOutlivesRun, Registered
<1>9. \A id \in Ids : jobs[id] \in Nat
  BY DEF TypeOK
<1>10. CASE \E id \in Ids : (\E s \in Schedules : Add(id, s)) \/ Remove(id)
                            \/ JobEnds(id)
  <2>1. PICK id \in Ids : (\E s \in Schedules : Add(id, s)) \/ Remove(id)
                            \/ JobEnds(id)
    BY <1>10
  <2>2. CASE \E s \in Schedules : Add(id, s)
    BY <1>1, <1>9, <2>2
  <2>3. CASE Remove(id)
    BY <1>2, <1>9, <2>3
  <2>4. CASE JobEnds(id)
    <3>1. \A j \in Ids : jobs'[j] \in Nat
      BY <1>3, <2>4 DEF TypeOK
    <3> QED
      BY <1>3, <1>9, <2>4, <3>1
  <2> QED
    BY <2>1, <2>2, <2>3, <2>4
<1> QED
  BY <1>4, <1>5, <1>6, <1>7, <1>8, <1>10 DEF SchedNext, Loop

-----------------------------------------------------------------------------
(* Theorems.                                                               *)

\* The invariant holds throughout.
THEOREM Invariance == Spec => []IInv
<1>1. IInv /\ [SchedNext]_schedVars => IInv'
  BY NextIInv
<1> QED
  BY <1>1, InitIInv, PTL DEF Spec

\* The type invariant of the scheduler.
THEOREM TypeCorrect == Spec => []TypeOK
<1>1. IInv => TypeOK
  OBVIOUS
<1> QED
  BY <1>1, Invariance, PTL

\* The loop never sleeps on an entry it has not computed, nor past a fire
\* time: no interleaving of Add, Remove and the loop loses a wake-up.
THEOREM NoWakeLost == Spec => []NothingMissed
<1>1. IInv => NothingMissed
  BY DEF NothingMissed, WakeInv, TimerInv, TypeOK
<1> QED
  BY <1>1, Invariance, PTL

\* When Run has returned, no job goroutine it started is left.
THEOREM NoJobLeaks == Spec => []NoJobOutlivesRun
<1>1. IInv => NoJobOutlivesRun
  OBVIOUS
<1> QED
  BY <1>1, Invariance, PTL

\* A job never fires twice at the same instant.
THEOREM OneFirePerInstant == Spec => FiresOncePerInstant
<1>1. IInv /\ [SchedNext]_schedVars =>
        [\A id \in Ids : jobs'[id] > jobs[id] => fired[id] < clock]_schedVars
  BY NextIInv
<1> QED
  BY <1>1, Invariance, PTL DEF Spec, FiresOncePerInstant

=============================================================================
