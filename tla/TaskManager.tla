---------------------------- MODULE TaskManager ----------------------------
(***************************************************************************)
(* The task scheduler of the kernel (kernel/task.cpp, kernel/task.hpp) on  *)
(* its single CPU: the run queues, the priority levels, message queues and *)
(* the waiting for a finished task.                                        *)
(*                                                                         *)
(* Every operation of TaskManager runs with interrupts off (a cli section  *)
(* of its caller or an interrupt gate), so one operation is one step.  An  *)
(* operation that gives the CPU away ends its step at SwitchContext; what  *)
(* its caller does when the CPU comes back is a later step of that task.   *)
(* A Task* and the id of the task it points to are not distinguished.      *)
(***************************************************************************)
EXTENDS Integers, Sequences

CONSTANTS
  kMaxLevel,      \* highest level (3 in the code)
  kDefaultLevel,  \* level of a new task (1 in the code)
  MaxTasks,       \* bound: how many tasks are ever created
  MaxMsgs,        \* bound: length of a message queue (unbounded in the code)
  Message,        \* what a message may be
  ExitCode,       \* exit codes
  WakeLevels,     \* explicit levels Wakeup is called with; -1: "keep"
  ForeignSleep    \* does anybody put a task other than itself to sleep?

Keep == -1
Level == 0 .. kMaxLevel
Id == 1 .. MaxTasks
Main == 1
Idle == 2
NoTask == 0

ASSUME LevelAssumption ==
  /\ kMaxLevel \in Nat \ {0}
  /\ kDefaultLevel \in Level
ASSUME TaskAssumption == MaxTasks \in Nat /\ MaxTasks >= 2 /\ MaxMsgs \in Nat
ASSUME WakeAssumption == WakeLevels \subseteq Level /\ ForeignSleep \in BOOLEAN

VARIABLES
  tasks_,          \* the live tasks
  latest_id_,      \* last id handed out
  level_,          \* level_[t]: the level of task t
  Running,         \* Running[t]: the flag Task::running_ (the task is ready)
  msgs_,           \* msgs_[t]: messages waiting for t
  running_,        \* running_[l]: the run queue of level l
  current_level_,  \* level whose front is the current task
  level_changed_,  \* "look for the highest level at the next rotation"
  finish_tasks_,   \* exit codes of finished tasks nobody has collected
  finish_waiter_,  \* finished task |-> the task that waits for it
  cpu,             \* the task whose context the CPU executes
  pc,              \* where a task is: "run", or inside an operation (IF = 0)
  child            \* local of ExecuteLine: the subtask the task will wait for

sched == <<Running, running_, current_level_, level_changed_>>
exits == <<finish_tasks_, finish_waiter_>>
vars == <<tasks_, latest_id_, level_, Running, msgs_, running_, current_level_,
          level_changed_, finish_tasks_, finish_waiter_, cpu, pc, child>>

(***************************************************************************)
(* Sequences and partial functions                                         *)
(***************************************************************************)
Elems(q) == {q[i] : i \in 1 .. Len(q)}

\* Erase of task.cpp: a queue holds a task at most once (QueuesExact), so
\* std::remove takes out its one occurrence.
Erase(q, t) ==
  IF t \notin Elems(q) THEN q
  ELSE LET i == CHOOSE i \in 1 .. Len(q) : q[i] = t
       IN SubSeq(q, 1, i - 1) \o SubSeq(q, i + 1, Len(q))

Put(f, k, v) == [x \in DOMAIN f \cup {k} |-> IF x = k THEN v ELSE f[x]]
DropNothing(f, k) == f
Drop(f, k) == [x \in DOMAIN f \ {k} |-> f[x]]

(***************************************************************************)
(* Run queues                                                              *)
(***************************************************************************)
CurrentTask == Head(running_[current_level_])

\* The scan from kMaxLevel down to the first queue that is not empty.
Highest(queues, otherwise) ==
  LET ready == {l \in Level : queues[l] # << >>}
  IN IF ready = {} THEN otherwise
     ELSE CHOOSE l \in ready : \A m \in ready : m <= l

\* RotateCurrentRunQueue: the queues and the current level it leaves behind;
\* it leaves level_changed_ false.
RotatedToFront(current_sleep) ==
  [running_ EXCEPT ![current_level_] = IF current_sleep THEN Tail(@) ELSE @]

RotatedQueues(current_sleep) ==
  LET rest == Tail(running_[current_level_])
  IN [running_ EXCEPT ![current_level_] =
        IF current_sleep THEN rest ELSE Append(rest, CurrentTask)]

RotatedLevelUnnoticed(current_sleep) ==
  LET queues == RotatedQueues(current_sleep)
  IN IF queues[current_level_] = << >>
     THEN Highest(queues, current_level_)
     ELSE current_level_

RotatedLevel(current_sleep) ==
  LET queues == RotatedQueues(current_sleep)
  IN IF level_changed_ \/ queues[current_level_] = << >>
     THEN Highest(queues, current_level_)
     ELSE current_level_

RotateCurrentRunQueue(current_sleep) ==
  /\ running_' = RotatedQueues(current_sleep)
  /\ current_level_' = RotatedLevel(current_sleep)
  /\ level_changed_' = FALSE

\* SwitchContext / RestoreContext to the task that is current afterwards.
RestoreContext == cpu' = CurrentTask'

ChangeLevelOtherTwice(t, level) ==
  /\ t # CurrentTask
  /\ running_' = [running_ EXCEPT ![level] = Append(@, t)]
  /\ level_changed_' = (level_changed_ \/ level > current_level_)
  /\ UNCHANGED current_level_

ChangeLevelOtherUnnoticed(t, level) ==
  /\ t # CurrentTask
  /\ running_' = [l \in Level |->
       IF l = level THEN Append(running_[l], t)
       ELSE IF l = level_[t] THEN Erase(running_[l], t) ELSE running_[l]]
  /\ UNCHANGED <<current_level_, level_changed_>>

ChangeLevelOther(t, level) ==
  /\ t # CurrentTask
  /\ running_' = [l \in Level |->
       IF l = level THEN Append(running_[l], t)
       ELSE IF l = level_[t] THEN Erase(running_[l], t) ELSE running_[l]]
  /\ level_changed_' = (level_changed_ \/ level > current_level_)
  /\ UNCHANGED current_level_

ChangeLevelMyself(t, level) ==
  /\ t = CurrentTask
  /\ running_' = [running_ EXCEPT ![current_level_] = Tail(@),
                                  ![level] = <<t>> \o @]
  /\ level_changed_' = (level_changed_ \/ level < current_level_)
  /\ current_level_' = level

ChangeLevelRunning(t, level) ==
  \/ /\ level = Keep \/ level = level_[t]
     /\ UNCHANGED <<running_, current_level_, level_changed_, level_>>
  \/ /\ level # Keep /\ level # level_[t]
     /\ ChangeLevelOther(t, level) \/ ChangeLevelMyself(t, level)
     /\ level_' = [level_ EXCEPT ![t] = level]

\* Wakeup(Task*, int): with level = Keep the task keeps its level.
Awaken(t, level) ==
  \/ /\ Running[t]
     /\ ChangeLevelRunning(t, level)
     /\ UNCHANGED Running
  \/ /\ ~Running[t]
     /\ LET l == IF level = Keep THEN level_[t] ELSE level
        IN /\ level_' = [level_ EXCEPT ![t] = l]
           /\ running_' = [running_ EXCEPT ![l] = Append(@, t)]
           /\ level_changed_' = (level_changed_ \/ l > current_level_)
     /\ Running' = [Running EXCEPT ![t] = TRUE]
     /\ UNCHANGED current_level_

\* Sleep(this) of the executing task, which then stands at `where`.
SleepMyself(where) ==
  /\ Running' = [Running EXCEPT ![cpu] = FALSE]
  /\ RotateCurrentRunQueue(TRUE)
  /\ RestoreContext
  /\ pc' = [pc EXCEPT ![cpu] = where]

(***************************************************************************)
(* Operations.  Interrupts are on, and the executing task is free to call, *)
(* when its pc is "run"; a task inside an operation must finish it first.  *)
(***************************************************************************)
InterruptsOn == pc[cpu] = "run"

\* The idle task only halts: whatever happens during it is an interrupt.
TaskActs == InterruptsOn /\ cpu # Idle

Init ==
  /\ tasks_ = {Main, Idle}
  /\ latest_id_ = Idle
  /\ level_ = [t \in Id |-> IF t = Main THEN kMaxLevel
                            ELSE IF t = Idle THEN 0 ELSE kDefaultLevel]
  /\ Running = [t \in Id |-> t \in {Main, Idle}]
  /\ msgs_ = [t \in Id |-> << >>]
  /\ running_ = [l \in Level |-> IF l = kMaxLevel THEN <<Main>>
                                 ELSE IF l = 0 THEN <<Idle>> ELSE << >>]
  /\ current_level_ = kMaxLevel
  /\ level_changed_ = FALSE
  /\ finish_tasks_ = << >>
  /\ finish_waiter_ = << >>
  /\ cpu = Main
  /\ pc = [t \in Id |-> "run"]
  /\ child = [t \in Id |-> NoTask]

\* NewTask().InitContext(f, data).  A pipe's creator keeps the id to wait for
\* it; a terminal, `noterm` or `&` forgets it.
NewTask(awaited) ==
  /\ TaskActs
  /\ latest_id_ < MaxTasks
  /\ awaited => child[cpu] = NoTask
  /\ latest_id_' = latest_id_ + 1
  /\ tasks_' = tasks_ \cup {latest_id_ + 1}
  /\ child' = IF awaited THEN [child EXCEPT ![cpu] = latest_id_ + 1] ELSE child
  /\ UNCHANGED <<sched, level_, msgs_, exits, cpu, pc>>

Wakeup(t, level) ==
  /\ TaskActs
  /\ t \in tasks_ \ {Idle}
  /\ Awaken(t, level)
  /\ UNCHANGED <<tasks_, latest_id_, msgs_, exits, cpu, pc, child>>

\* By the executing task or by an interrupt handler that it is stopped for.
\* An id that is not live gives kNoSuchTask and changes nothing.
SendMessage(t, m) ==
  /\ InterruptsOn
  /\ t \in tasks_ \ {Idle}
  /\ Len(msgs_[t]) < MaxMsgs
  /\ msgs_' = [msgs_ EXCEPT ![t] = Append(@, m)]
  /\ Awaken(t, Keep)
  /\ UNCHANGED <<tasks_, latest_id_, exits, cpu, pc, child>>

\* The event loops: cli, ReceiveMessage, and with a message sti.
ReceiveMessage ==
  /\ TaskActs
  /\ msgs_[cpu] # << >>
  /\ msgs_' = [msgs_ EXCEPT ![cpu] = Tail(@)]
  /\ UNCHANGED <<tasks_, latest_id_, level_, sched, exits, cpu, pc, child>>

SleepUnchecked ==
  /\ TaskActs
  /\ SleepMyself("slept")
  /\ UNCHANGED <<tasks_, latest_id_, level_, msgs_, exits, child>>

\* ... and without one Sleep, still under the same cli.
SleepForMessage ==
  /\ TaskActs
  /\ msgs_[cpu] = << >>
  /\ SleepMyself("slept")
  /\ UNCHANGED <<tasks_, latest_id_, level_, msgs_, exits, child>>

\* Sleep returned: sti, continue.
Resume ==
  /\ pc[cpu] = "slept"
  /\ pc' = [pc EXCEPT ![cpu] = "run"]
  /\ UNCHANGED <<tasks_, latest_id_, level_, sched, msgs_, exits, cpu, child>>

\* Sleep(Task*) and Sleep(id) on another task.
SleepOther(t) ==
  /\ ForeignSleep
  /\ TaskActs
  /\ t \in tasks_ \ {Idle, cpu}
  /\ Running[t]
  /\ Running' = [Running EXCEPT ![t] = FALSE]
  /\ running_' = [running_ EXCEPT ![level_[t]] = Erase(@, t)]
  /\ UNCHANGED <<tasks_, latest_id_, level_, current_level_, level_changed_,
                 msgs_, exits, cpu, pc, child>>

\* The loop of WaitFinish, at its head: on the call and after each Sleep.
WaitFinish ==
  /\ \/ TaskActs /\ child[cpu] # NoTask
     \/ pc[cpu] = "wait"
  /\ \/ /\ child[cpu] \in DOMAIN finish_tasks_
        /\ finish_tasks_' = Drop(finish_tasks_, child[cpu])
        /\ child' = [child EXCEPT ![cpu] = NoTask]
        /\ pc' = [pc EXCEPT ![cpu] = "run"]
        /\ UNCHANGED <<sched, finish_waiter_, cpu>>
     \/ /\ child[cpu] \notin DOMAIN finish_tasks_
        /\ finish_waiter_' = Put(finish_waiter_, child[cpu], cpu)
        /\ SleepMyself("wait")
        /\ UNCHANGED <<finish_tasks_, child>>
  /\ UNCHANGED <<tasks_, latest_id_, level_, msgs_>>

RecordedIfAwaited(id, code) ==
  IF id \in DOMAIN finish_waiter_ THEN Put(finish_tasks_, id, code)
  ELSE finish_tasks_
Recorded(id, code) == Put(finish_tasks_, id, code)

WakesNobody(id) == FALSE
\* Is there a waiter for task id whom Wakeup will have to queue?
WakesWaiter(id) ==
  id \in DOMAIN finish_waiter_ /\ ~Running[finish_waiter_[id]]

\* A task ends.  The waiter is woken after the rotation has chosen the next
\* task, so it is not considered by that choice.
Finish(code) ==
  LET queues == RotatedQueues(TRUE)
      level == RotatedLevel(TRUE)
      waiter == finish_waiter_[cpu]
      wakes == WakesWaiter(cpu)
  IN
  /\ TaskActs
  /\ cpu # Main
  /\ tasks_' = tasks_ \ {cpu}
  /\ msgs_' = [msgs_ EXCEPT ![cpu] = << >>]
  /\ child' = [child EXCEPT ![cpu] = NoTask]
  /\ finish_tasks_' = Recorded(cpu, code)
  /\ finish_waiter_' = Drop(finish_waiter_, cpu)
  /\ Running' = [t \in Id |-> t # cpu /\ (Running[t] \/ (wakes /\ t = waiter))]
  /\ running_' = IF wakes
                 THEN [queues EXCEPT ![level_[waiter]] = Append(@, waiter)]
                 ELSE queues
  /\ current_level_' = level
  /\ level_changed_' = (wakes /\ level_[waiter] > level)
  /\ RestoreContext
  /\ UNCHANGED <<latest_id_, level_, pc>>

\* The task timer fired: LAPICTimerOnInterrupt calls SwitchTask, which goes
\* back to the interrupted task when the rotation leaves it current.
SwitchTask ==
  /\ InterruptsOn
  /\ RotateCurrentRunQueue(FALSE)
  /\ cpu' = IF CurrentTask' # CurrentTask THEN CurrentTask' ELSE cpu
  /\ UNCHANGED <<tasks_, latest_id_, level_, Running, msgs_, exits, pc, child>>

Next ==
  \/ \E awaited \in BOOLEAN : NewTask(awaited)
  \/ \E t \in Id, level \in WakeLevels \cup {Keep} : Wakeup(t, level)
  \/ \E t \in Id, m \in Message : SendMessage(t, m)
  \/ ReceiveMessage
  \/ SleepForMessage
  \/ Resume
  \/ \E t \in Id : SleepOther(t)
  \/ WaitFinish
  \/ \E code \in ExitCode : Finish(code)
  \/ SwitchTask

Spec == Init /\ [][Next]_vars

\* The LAPIC timer is periodic and re-arms the task timer, so SwitchTask keeps
\* coming; code between cli and sti is finite, so an operation that got the
\* CPU back completes.
FairSpec ==
  /\ Spec
  /\ WF_vars(SwitchTask)
  /\ WF_vars(Resume)
  /\ WF_vars(pc[cpu] = "wait" /\ WaitFinish)

-----------------------------------------------------------------------------
(***************************************************************************)
(* Properties                                                              *)
(***************************************************************************)
\* Types of every variable, the bounds included.
TypeOK ==
  /\ latest_id_ \in 2 .. MaxTasks
  /\ tasks_ \subseteq 1 .. latest_id_
  /\ level_ \in [Id -> Level]
  /\ Running \in [Id -> BOOLEAN]
  /\ msgs_ \in [Id -> Seq(Message)]
  /\ running_ \in [Level -> Seq(Id)]
  /\ current_level_ \in Level
  /\ level_changed_ \in BOOLEAN
  /\ DOMAIN finish_tasks_ \subseteq Id
  /\ \A id \in DOMAIN finish_tasks_ : finish_tasks_[id] \in ExitCode
  /\ DOMAIN finish_waiter_ \subseteq Id
  /\ \A id \in DOMAIN finish_waiter_ : finish_waiter_[id] \in Id
  /\ cpu \in Id
  /\ pc \in [Id -> {"run", "slept", "wait"}]
  /\ child \in [Id -> Id \cup {NoTask}]

NoDuplicates(q) == \A i, j \in 1 .. Len(q) : q[i] = q[j] => i = j

\* A task's flag and level say where it is queued: in the queue of its level,
\* once, when it is live and ready, and in no other queue.  Sleep, Wakeup,
\* ChangeLevelRunning and Finish each maintain the two sides separately.
QueuesExact ==
  /\ \A l \in Level : NoDuplicates(running_[l])
  /\ \A l \in Level : Elems(running_[l]) =
                        {t \in tasks_ : Running[t] /\ level_[t] = l}
  /\ \A t \in Id \ tasks_ : ~Running[t]

\* CurrentTask(), which system calls, the fault handlers and the saving of a
\* context rely on, names the task the CPU executes, between any two steps.
CpuIsCurrent ==
  /\ running_[current_level_] # << >>
  /\ cpu = CurrentTask

\* A queue above the current level fills only with level_changed_ set, so the
\* rotation that skips the scan never overlooks a task of a higher level.
HigherLevelNoticed ==
  ~level_changed_ => \A l \in Level : l > current_level_ => running_[l] = << >>

\* The redundant state of the scheduler (Running, level_, running_, current_level_,
\* level_changed_, and the task the CPU executes) never disagrees, whatever
\* Sleep, Wakeup, ChangeLevelRunning, Finish and SwitchTask do in which order.
RunQueuesAgree == QueuesExact /\ CpuIsCurrent /\ HigherLevelNoticed

\* finish_waiter_ holds pointers: each is to a live task that is still inside
\* WaitFinish for that very id, and the id has not finished.
WaiterAlive ==
  \A id \in DOMAIN finish_waiter_ :
    LET w == finish_waiter_[id]
    IN id \in tasks_ /\ w \in tasks_ /\ pc[w] = "wait" /\ child[w] = id

\* No wakeup of a waiting task is lost: while WaitFinish sleeps, the task it
\* waits for is live and will find it in finish_waiter_.
NoLostFinish ==
  \A w \in tasks_ : pc[w] = "wait" /\ ~Running[w] =>
    /\ child[w] \in tasks_
    /\ child[w] \in DOMAIN finish_waiter_
    /\ finish_waiter_[child[w]] = w

\* No wakeup of an event loop is lost: a task with a message is ready, unless
\* it waits for a finish and will look at its messages afterwards.
NoLostMessage ==
  \A t \in tasks_ : msgs_[t] # << >> /\ ~Running[t] => pc[t] = "wait"

\* An exit code is kept until the waiter takes it: a subtask that somebody
\* will wait for is live or its code is in finish_tasks_.
ExitCodeKept ==
  \A w \in tasks_ : child[w] # NoTask =>
    child[w] \in tasks_ \cup DOMAIN finish_tasks_

\* Finish and WaitFinish: whoever comes first, a waiter is woken by the finish
\* of its subtask, is still there to be woken, and finds the exit code.
FinishesReachWaiters == WaiterAlive /\ NoLostFinish /\ ExitCodeKept

\* Nothing ever takes the idle task out of the lowest queue, so a rotation
\* always finds a task.
IdleReady == Idle \in tasks_ /\ Running[Idle] /\ level_[Idle] = 0

\* Ids are handed out once, an id is live or finished but not both, and each
\* subtask is awaited by at most one live task.
Bookkeeping ==
  /\ DOMAIN finish_tasks_ \subseteq (1 .. latest_id_) \ tasks_
  /\ \A t \in Id : child[t] \in 0 .. latest_id_
  /\ \A t \in Id \ tasks_ : pc[t] = "run" /\ child[t] = NoTask
  /\ \A t, u \in Id : child[t] = child[u] /\ child[t] # NoTask => t = u
  /\ \A t \in Id : pc[t] = "wait" => child[t] # NoTask
  /\ pc[Idle] = "run"

\* The inductive invariant, in its two halves: the run queues, and the
\* waiting for finished tasks (Finish queues a waiter, so the second half is
\* what keeps dangling pointers out of the first).
SchedInv == TypeOK /\ QueuesExact /\ CpuIsCurrent /\ HigherLevelNoticed /\ IdleReady
WaitInv == Bookkeeping /\ WaiterAlive /\ ExitCodeKept
IInv == SchedInv /\ WaitInv

Ready == {t \in Id : Running[t]}
NobodyAbove(t) == \A u \in Ready : level_[u] <= level_[t]

\* A switch by the timer or by Sleep goes to a ready task of the highest level
\* (Finish does not promise it: it wakes the waiter after it has chosen).
DispatchesHighest ==
  [][(cpu' # cpu /\ cpu \in tasks_') => (cpu' \in Ready' /\ NobodyAbove(cpu)')]_vars

\* Once nothing above a ready task's level is ready any more, round robin
\* gives it the CPU again and again.
Served ==
  \A t \in Id :
    <>[](Running[t] /\ NobodyAbove(t)) => []<>(cpu = t)
=============================================================================
