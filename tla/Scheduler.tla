------------------------------ MODULE Scheduler -----------------------------
(***************************************************************************)
(* Package scheduler: Add, Remove and Run (src/scheduler/scheduler.go,     *)
(* run.go, schedule.go).  Run is one loop goroutine that computes first    *)
(* fire times, arms a timer for the earliest, and waits for ctx, the timer *)
(* or the one-slot wake channel; each due job runs in a goroutine of its   *)
(* own.  Add and Remove come from other goroutines at any time: the mutex  *)
(* is free between the steps of this module, and held within one.          *)
(***************************************************************************)
EXTENDS Integers, FiniteSets

CONSTANTS
  Ids,        \* job IDs
  Schedules,  \* schedules callers use, see Next below
  NoEntry,    \* the ID is not registered
  MaxTime,    \* bound on the clock
  MaxAdds,    \* bound on calls of Add
  MaxRuns     \* bound on calls of Run

Never == 0   \* the zero time.Time

\* A schedule is [kind |-> "every", d |-> interval] or
\* [kind |-> "at", times |-> set of instants].
ASSUME SchedulerAssumption ==
  /\ \A s \in Schedules :
       \/ s.kind = "every" /\ s.d \in Int
       \/ s.kind = "at" /\ s.times \subseteq Nat \ {Never}
  /\ MaxTime \in Nat /\ MaxAdds \in Nat /\ MaxRuns \in Nat

VARIABLES
  clock,      \* time.Now
  entries,    \* the job map
  wake,       \* a token is in the wake channel
  adding,     \* Adds that have registered and not yet sent on wake
  pc,         \* where the Run loop is
  timer,      \* when the armed timer fires, Never for the nil timer
  ctxDone,
  jobs,       \* per ID, job goroutines in flight
  fired,      \* per ID, when it last fired
  adds, runs

schedVars == <<clock, entries, wake, adding, pc, timer, ctxDone, jobs, fired,
               adds, runs>>

Earliest(T) == CHOOSE t \in T : \A u \in T : t <= u

\* Mutant of Next: At answers the instant it is asked about.
NextOrNow(s, after) ==
  IF s.kind = "every" THEN IF s.d > 0 THEN after + s.d ELSE Never
  ELSE LET later == {t \in s.times : t >= after}
       IN IF later = {} THEN Never ELSE Earliest(later)

\* Schedule.Next of Every, of Every with a non-positive interval, and of At.
Next(s, after) ==
  CASE s.kind = "every" -> IF s.d > 0 THEN after + s.d ELSE Never
    [] s.kind = "at" ->
         LET later == {t \in s.times : t > after}
         IN IF later = {} THEN Never ELSE Earliest(later)

Registered == {id \in Ids : entries[id] # NoEntry}

-----------------------------------------------------------------------------
(* Callers.                                                                *)

\* Add of an ID that is registered returns ErrDuplicateID and changes
\* nothing.
Add(id, s) ==
  /\ adds < MaxAdds /\ entries[id] = NoEntry
  /\ entries' = [entries EXCEPT ![id] =
                   [sched |-> s, next |-> Never, pending |-> TRUE]]
  /\ adding' = adding + 1
  /\ adds' = adds + 1
  /\ UNCHANGED <<clock, wake, pc, timer, ctxDone, jobs, fired, runs>>

\* Mutant of AddWakes: the channel has no buffer, so the token is lost
\* unless the loop is waiting.
AddWakesUnbuffered ==
  /\ adding > 0
  /\ adding' = adding - 1
  /\ wake' = (wake \/ pc = "select")
  /\ UNCHANGED <<clock, entries, pc, timer, ctxDone, jobs, fired, adds, runs>>

\* The non-blocking send on wake: a full channel already holds a token.
AddWakes ==
  /\ adding > 0
  /\ adding' = adding - 1
  /\ wake' = TRUE
  /\ UNCHANGED <<clock, entries, pc, timer, ctxDone, jobs, fired, adds, runs>>

\* Remove does not wake the loop.
Remove(id) ==
  /\ entries[id] # NoEntry
  /\ entries' = [entries EXCEPT ![id] = NoEntry]
  /\ UNCHANGED <<clock, wake, adding, pc, timer, ctxDone, jobs, fired, adds,
                 runs>>

-----------------------------------------------------------------------------
(* Run.                                                                    *)

RunStarts ==
  /\ pc = "off" /\ runs < MaxRuns
  /\ pc' = "compute" /\ runs' = runs + 1 /\ ctxDone' = FALSE
  /\ UNCHANGED <<clock, entries, wake, adding, timer, jobs, fired, adds>>

Computed(e) ==
  IF e # NoEntry /\ e.pending
  THEN [e EXCEPT !.next = Next(e.sched, clock), !.pending = FALSE]
  ELSE e

ComputePending ==
  /\ pc = "compute"
  /\ entries' = [id \in Ids |-> Computed(entries[id])]
  /\ pc' = "arm"
  /\ UNCHANGED <<clock, wake, adding, timer, ctxDone, jobs, fired, adds, runs>>

\* Mutant of SleepTimer: the timer is armed for the latest fire time.
SleepTimerLatest ==
  LET nexts == {entries[id].next : id \in Registered}
  IN /\ pc = "arm"
     /\ timer' = IF nexts = {} THEN Never
                 ELSE CHOOSE t \in nexts : \A u \in nexts : t >= u
     /\ pc' = "select"
     /\ UNCHANGED <<clock, entries, wake, adding, ctxDone, jobs, fired, adds,
                    runs>>

\* sleepTimer: the mutex was free since computePending, so an entry may
\* have come or gone.
SleepTimer ==
  LET nexts == {entries[id].next : id \in Registered} \ {Never}
  IN /\ pc = "arm"
     /\ timer' = IF nexts = {} THEN Never ELSE Earliest(nexts)
     /\ pc' = "select"
     /\ UNCHANGED <<clock, entries, wake, adding, ctxDone, jobs, fired, adds,
                    runs>>

SelectDone ==
  /\ pc = "select" /\ ctxDone
  /\ pc' = "drain" /\ timer' = Never
  /\ UNCHANGED <<clock, entries, wake, adding, ctxDone, jobs, fired, adds,
                 runs>>

SelectWake ==
  /\ pc = "select" /\ wake
  /\ wake' = FALSE /\ pc' = "compute" /\ timer' = Never
  /\ UNCHANGED <<clock, entries, adding, ctxDone, jobs, fired, adds, runs>>

IsDue(e) == e # NoEntry /\ e.next # Never /\ e.next <= clock

\* A due entry after its firing: rescheduled, or dropped when spent.
Refired(e) ==
  LET next == Next(e.sched, clock)
  IN IF next = Never THEN NoEntry ELSE [e EXCEPT !.next = next]

\* The timer fired; fireDue collects, reschedules and starts the jobs.
FireDue ==
  LET due == {id \in Ids : IsDue(entries[id])}
  IN /\ pc = "select" /\ timer # Never /\ timer <= clock
     /\ entries' = [id \in Ids |-> IF id \in due THEN Refired(entries[id])
                                   ELSE entries[id]]
     /\ jobs' = [id \in Ids |-> IF id \in due THEN jobs[id] + 1 ELSE jobs[id]]
     /\ fired' = [id \in Ids |-> IF id \in due THEN clock ELSE fired[id]]
     /\ pc' = "compute" /\ timer' = Never
     /\ UNCHANGED <<clock, wake, adding, ctxDone, adds, runs>>

\* Mutant of RunReturns: without wg.Wait.
RunReturnsAtOnce ==
  /\ pc = "drain"
  /\ pc' = "off"
  /\ UNCHANGED <<clock, entries, wake, adding, timer, ctxDone, jobs, fired,
                 adds, runs>>

\* wg.Wait, then Run returns ctx.Err().
RunReturns ==
  /\ pc = "drain" /\ \A id \in Ids : jobs[id] = 0
  /\ pc' = "off"
  /\ UNCHANGED <<clock, entries, wake, adding, timer, ctxDone, jobs, fired,
                 adds, runs>>

Loop == ComputePending \/ SleepTimer \/ SelectDone \/ SelectWake \/ FireDue
        \/ RunReturns

-----------------------------------------------------------------------------
(* Jobs and the rest of the world.                                         *)

\* A job returns; an error goes to the bus and nowhere else.
JobEnds(id) ==
  /\ jobs[id] > 0
  /\ jobs' = [jobs EXCEPT ![id] = @ - 1]
  /\ UNCHANGED <<clock, entries, wake, adding, pc, timer, ctxDone, fired,
                 adds, runs>>

Cancel ==
  /\ pc # "off" /\ ~ctxDone
  /\ ctxDone' = TRUE
  /\ UNCHANGED <<clock, entries, wake, adding, pc, timer, jobs, fired, adds,
                 runs>>

Tick ==
  /\ clock < MaxTime
  /\ clock' = clock + 1
  /\ UNCHANGED <<entries, wake, adding, pc, timer, ctxDone, jobs, fired, adds,
                 runs>>

Init ==
  /\ clock = 1
  /\ entries = [id \in Ids |-> NoEntry]
  /\ wake = FALSE /\ adding = 0
  /\ pc = "off" /\ timer = Never /\ ctxDone = FALSE
  /\ jobs = [id \in Ids |-> 0]
  /\ fired = [id \in Ids |-> Never]
  /\ adds = 0 /\ runs = 0

SchedNext ==
  \/ \E id \in Ids : \/ \E s \in Schedules : Add(id, s)
                     \/ Remove(id) \/ JobEnds(id)
  \/ AddWakes \/ RunStarts \/ Loop \/ Cancel \/ Tick

Spec == Init /\ [][SchedNext]_schedVars

\* The loop, a caller inside Add and a job goroutine are run by Go; jobs
\* are assumed to return.  Nobody has to call Run, Add, Remove or cancel.
FairSpec ==
  /\ Spec
  /\ WF_schedVars(Loop)
  /\ WF_schedVars(AddWakes)
  /\ \A id \in Ids : WF_schedVars(JobEnds(id))

-----------------------------------------------------------------------------
(* Properties.                                                             *)

TypeOK ==
  /\ clock \in Nat /\ adding \in Nat /\ adds \in Nat /\ runs \in Nat
  /\ entries \in [Ids -> [sched : Schedules, next : Nat, pending : BOOLEAN]
                         \cup {NoEntry}]
  /\ wake \in BOOLEAN /\ ctxDone \in BOOLEAN
  /\ pc \in {"off", "compute", "arm", "select", "drain"}
  /\ timer \in Nat
  /\ jobs \in [Ids -> Nat] /\ fired \in [Ids -> Nat]

\* The loop never sleeps on news: when it waits with nobody about to wake
\* it, every entry has its fire time and the timer is set for the earliest,
\* or earlier where an entry was removed.
NothingMissed ==
  pc = "select" /\ ~wake /\ adding = 0 => \A id \in Registered :
    /\ ~entries[id].pending
    /\ entries[id].next # Never =>
         timer # Never /\ timer <= entries[id].next

\* A job whose time has come is started, unless it is removed or the run is
\* cancelled: a wake, a removal or a timer armed too early never loses it.
DueJobFires ==
  \A id \in Ids :
    IsDue(entries[id]) /\ pc # "off" ~> ~IsDue(entries[id]) \/ ctxDone

\* No job fires twice at one instant, however often the loop wakes, and
\* also when the ID is removed and added again.
FiresOncePerInstant ==
  [][\A id \in Ids : jobs'[id] > jobs[id] => fired[id] < clock]_schedVars

\* Run "never leaks a goroutine past its own return".
NoJobOutlivesRun == pc = "off" => \A id \in Ids : jobs[id] = 0

=============================================================================
