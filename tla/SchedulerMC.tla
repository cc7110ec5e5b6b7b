----------------------------- MODULE SchedulerMC ----------------------------
(* Instances of module Scheduler for TLC. *)
EXTENDS Scheduler

\* An interval, a one-shot that comes twice, and a schedule that never fires.
SmallSchedules ==
  {[kind |-> "every", d |-> 1], [kind |-> "at", times |-> {2, 3}],
   [kind |-> "every", d |-> 0]}

=============================================================================
