----------------------- MODULE TaskManagerRefinement -----------------------
(***************************************************************************)
(* TaskManager implements PriorityScheduler: a task is ready when its flag *)
(* is set, its priority is its level, and the queues, the current level    *)
(* and level_changed_ disappear.                                           *)
(***************************************************************************)
EXTENDS TaskManager

Scheduler == INSTANCE PriorityScheduler
  WITH Task <- Id, Prio <- Level, Boot <- Main, Spare <- Idle,
       ready <- Ready, prio <- level_, cpu <- cpu

\* Every behaviour of the run queues is one of the priority scheduler: the
\* scan that RotateCurrentRunQueue makes only when level_changed_ is set
\* always ends at a task the scheduler is allowed to choose.
ImplementsScheduler == Scheduler!Spec

\* The CPU always executes a ready task.
ExecutesReady == Scheduler!ExecutesReady
=============================================================================
