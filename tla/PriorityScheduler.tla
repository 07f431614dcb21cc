------------------------- MODULE PriorityScheduler -------------------------
(***************************************************************************)
(* What the task scheduler promises, without run queues: one CPU, a set of *)
(* ready tasks with priorities, and who may execute after each operation.  *)
(* Whenever the CPU is given away it goes to a ready task of the highest   *)
(* priority; nothing else moves it, and it never executes a task that is   *)
(* not ready.  TaskManager implements this specification.                  *)
(***************************************************************************)
EXTENDS Integers

CONSTANTS
  Task,   \* every task there may ever be
  Prio,   \* priorities
  Boot,   \* the task that executes at boot
  Spare   \* the task that is always ready, at the lowest priority

VARIABLES
  ready,  \* the tasks that want the CPU
  prio,   \* prio[t]: priority of t
  cpu     \* the task that has it

vars == <<ready, prio, cpu>>

Top(tasks) == {t \in tasks : \A u \in tasks : prio[u] <= prio[t]}

Init ==
  /\ ready = {Boot, Spare}
  /\ prio \in [Task -> Prio]
  /\ cpu = Boot
  /\ cpu \in Top(ready)

\* A task becomes ready; the CPU stays where it is until it is given away.
Wake(t, p) ==
  /\ t \notin ready
  /\ ready' = ready \cup {t}
  /\ prio' = [prio EXCEPT ![t] = p]
  /\ UNCHANGED cpu

\* A ready task, perhaps the executing one, changes its priority.
Reprioritize(t, p) ==
  /\ t \in ready \ {Spare}
  /\ prio' = [prio EXCEPT ![t] = p]
  /\ UNCHANGED <<ready, cpu>>

\* The executing task stops being ready, and perhaps makes another one ready
\* after the choice of the next has been made.
Block(wakes) ==
  /\ cpu # Spare
  /\ wakes \cap ready = {}
  /\ ready' = (ready \ {cpu}) \cup wakes
  /\ cpu' \in Top(ready \ {cpu})
  /\ UNCHANGED prio

\* Another task is made to sleep.
Suspend(t) ==
  /\ t \in ready \ {cpu, Spare}
  /\ ready' = ready \ {t}
  /\ UNCHANGED <<prio, cpu>>

Preempt ==
  /\ cpu' \in Top(ready)
  /\ UNCHANGED <<ready, prio>>

Next ==
  \/ \E t \in Task, p \in Prio : Wake(t, p) \/ Reprioritize(t, p)
  \/ \E wakes \in SUBSET Task : Block(wakes)
  \/ \E t \in Task : Suspend(t)
  \/ Preempt

Spec == Init /\ [][Next]_vars

\* The CPU always executes a ready task (so there is always one).
ExecutesReady == cpu \in ready
=============================================================================
