------------------------------- MODULE Timer -------------------------------
(***************************************************************************)
(* The timers (kernel/timer.cpp, .hpp): a priority queue of timers that    *)
(* the LAPIC timer interrupt empties at every tick, with the task timer    *)
(* that drives preemption, the cursor timer of the main task and the       *)
(* timers applications create.                                             *)
(*                                                                         *)
(* The interrupt goes through an interrupt gate, so nothing runs between   *)
(* the iterations of Tick; a step is one iteration.  AddTimer is called    *)
(* with interrupts masked and is atomic (terminal.cpp:791 does not mask    *)
(* them; the data race this opens in the queue is left out).               *)
(***************************************************************************)
EXTENDS Integers, Sequences, FiniteSets

CONSTANTS
  kTimerFreq,        \* ticks per second
  kTaskTimerPeriod,  \* ticks between two calls of SwitchTask
  kTimer05Sec,       \* ticks between two blinks of the cursor
  App,               \* tasks that create timers
  Modes,             \* values of mode & 1: "relative", "absolute"
  Milliseconds,      \* arguments of CreateTimer
  MaxTick,           \* bound: ticks
  MaxCreated         \* bound: calls of CreateTimer

ASSUME PeriodAssumption ==
  kTimerFreq \in Nat /\ kTaskTimerPeriod \in Nat \ {0} /\ kTimer05Sec \in Nat \ {0}
ASSUME RequestAssumption ==
  Modes \subseteq {"relative", "absolute"} /\ Milliseconds \subseteq Nat
ASSUME BoundAssumption == MaxTick \in Nat /\ MaxCreated \in Nat

\* std::numeric_limits<unsigned long>::max(), a tick that is not reached.
Forever == MaxTick + 1

VARIABLES
  tick_,
  timers_,             \* the timers that have not expired
  added,               \* calls of AddTimer so far
  phase,               \* "boot", "cursor" (its timer is set), "run"
  in_tick,             \* in Tick?
  task_timer_timeout,  \* the local of Tick
  creating, timeout,   \* CreateTimer of each application
  inbox,               \* timeouts in the kTimerTimeout messages main has not read
  handling,            \* ... and in the one it works on, if any
  rung,                \* the timers that expired, in order (history)
  last_switch          \* the tick of the last SwitchTask (history)

create == <<creating, timeout>>
main == <<inbox, handling>>
timerVars == <<tick_, timers_, added, phase, in_tick, task_timer_timeout, create, main,
               rung, last_switch>>

\* A Timer, with when it was added and which one it is.
NewTimer(due, value) ==
  [timeout |-> due, value |-> value, armed |-> tick_, number |-> added]

AddTimer(timer) ==
  /\ timers_' = timers_ \cup {timer}
  /\ added' = added + 1

-----------------------------------------------------------------------------
\* TimerManager's constructor pushes a sentinel; then the LAPIC timer runs.
TimerInit ==
  /\ tick_ = 0
  /\ timers_ = {[timeout |-> Forever, value |-> "sentinel", armed |-> 0,
                 number |-> 0]}
  /\ added = 1
  /\ phase = "boot"
  /\ in_tick = FALSE
  /\ task_timer_timeout = FALSE
  /\ creating = [t \in App |-> "idle"]
  /\ timeout = [t \in App |-> 0]
  /\ inbox = <<>>
  /\ handling = <<>>
  /\ rung = <<>>
  /\ last_switch = 0

\* KernelMainNewStack sets the cursor's timer.
AddCursorTimer ==
  /\ phase = "boot"
  /\ ~in_tick
  /\ AddTimer(NewTimer(kTimer05Sec, "cursor"))
  /\ phase' = "cursor"
  /\ UNCHANGED <<tick_, in_tick, task_timer_timeout, create, main, rung, last_switch>>

\* The task manager is there, and the task timer is set: preemption begins.
InitializeTask ==
  /\ phase = "cursor"
  /\ ~in_tick
  /\ AddTimer(NewTimer(tick_ + kTaskTimerPeriod, "task"))
  /\ phase' = "run"
  /\ last_switch' = tick_
  /\ UNCHANGED <<tick_, in_tick, task_timer_timeout, create, main, rung>>

-----------------------------------------------------------------------------
\* For the bound: the calls of CreateTimer so far.
Created ==
  Cardinality({t \in timers_ : t.value = "app"}) + Cardinality({t \in App : creating[t] = "add"})
    + Cardinality({k \in 1 .. Len(rung) : rung[k].timer.value = "app"})

Ticks(ms) == (ms * kTimerFreq) \div 1000
Due(mode, ms) == IF mode = "relative" THEN Ticks(ms) + tick_ ELSE Ticks(ms)

\* SYSCALL(CreateTimer) of task t: the current tick is read first ...
CreateTimer(t, mode, ms) ==
  /\ phase = "run"
  /\ ~in_tick
  /\ creating[t] = "idle"
  /\ Created < MaxCreated
  /\ creating' = [creating EXCEPT ![t] = "add"]
  /\ timeout' = [timeout EXCEPT ![t] = Due(mode, ms)]
  /\ UNCHANGED <<tick_, timers_, added, phase, in_tick, task_timer_timeout, main, rung,
                 last_switch>>

\* The value is -timer_value, negative, so it cannot be kTaskTimerValue; with
\* timer_value itself it could.
AppValuePositive == "task"
AppValue == "app"

\* ... and the timer is added later, under cli.  The locals end with the call.
AddAppTimer(t) ==
  /\ ~in_tick
  /\ creating[t] = "add"
  /\ AddTimer(NewTimer(timeout[t], AppValue))
  /\ creating' = [creating EXCEPT ![t] = "idle"]
  /\ timeout' = [timeout EXCEPT ![t] = 0]
  /\ UNCHANGED <<tick_, phase, in_tick, task_timer_timeout, main, rung, last_switch>>

\* The event loop of the main task reads the message of the cursor's timer ...
ReceiveTimeout ==
  /\ ~in_tick
  /\ handling = <<>> /\ inbox # <<>>
  /\ handling' = <<Head(inbox)>>
  /\ inbox' = Tail(inbox)
  /\ UNCHANGED <<tick_, timers_, added, phase, in_tick, task_timer_timeout, create,
                 rung, last_switch>>

\* ... and sets it again, counting from when it was due.
CursorDueFromNow == tick_ + kTimer05Sec
CursorDue == handling[1] + kTimer05Sec

RearmCursorTimer ==
  /\ ~in_tick
  /\ handling # <<>>
  /\ AddTimer(NewTimer(CursorDue, "cursor"))
  /\ handling' = <<>>
  /\ UNCHANGED <<tick_, phase, in_tick, task_timer_timeout, create, inbox, rung,
                 last_switch>>

-----------------------------------------------------------------------------
\* std::priority_queue::top with the operator< of timer.hpp: any of the timers
\* with the shortest timeout.
TopCoarse(t) == \A u \in timers_ : t.timeout \div 2 <= u.timeout \div 2
Top(t) == \A u \in timers_ : t.timeout <= u.timeout

ExpiredLate(t) == t.timeout < tick_
Expired(t) == t.timeout <= tick_

\* The LAPIC timer interrupt.  Environment: InitializeTask is reached before the
\* cursor's timer expires (there is nobody to send the message to before).
Tick ==
  /\ ~in_tick
  /\ tick_ < MaxTick
  /\ phase = "run" \/ tick_ + 1 < kTimer05Sec
  /\ tick_' = tick_ + 1
  /\ in_tick' = TRUE
  /\ task_timer_timeout' = FALSE
  /\ UNCHANGED <<timers_, added, phase, create, main, rung, last_switch>>

PopEqual(t) == {u \in timers_ : u.timeout # t.timeout}
Pop(t) == timers_ \ {t}

Ring(t) == rung' = Append(rung, [timer |-> t, at |-> tick_])

TaskTimerDue == tick_ + kTaskTimerPeriod

\* The task timer is set again at once.
TaskTimerExpires(t) ==
  /\ in_tick
  /\ t \in timers_ /\ Top(t) /\ Expired(t) /\ t.value = "task"
  /\ timers_' = Pop(t) \cup {NewTimer(TaskTimerDue, "task")}
  /\ added' = added + 1
  /\ Ring(t)
  /\ task_timer_timeout' = TRUE
  /\ UNCHANGED <<tick_, phase, in_tick, create, main, last_switch>>

\* Any other is sent to its task: the cursor's to main, the others to applications
\* (whose event loops are not part of this module).
TimerExpires(t) ==
  /\ in_tick
  /\ t \in timers_ /\ Top(t) /\ Expired(t) /\ t.value # "task"
  /\ timers_' = Pop(t)
  /\ Ring(t)
  /\ inbox' = IF t.value = "cursor" THEN Append(inbox, t.timeout) ELSE inbox
  /\ UNCHANGED <<tick_, added, phase, in_tick, task_timer_timeout, create, handling,
                 last_switch>>

\* Tick returns, and LAPICTimerOnInterrupt calls SwitchTask if the task timer expired.
TickReturns ==
  /\ in_tick
  /\ \E t \in timers_ : Top(t) /\ ~Expired(t)
  /\ in_tick' = FALSE
  /\ last_switch' = IF task_timer_timeout THEN tick_ ELSE last_switch
  /\ UNCHANGED <<tick_, timers_, added, phase, task_timer_timeout, create, main, rung>>

TimerNext ==
  \/ AddCursorTimer
  \/ InitializeTask
  \/ \E t \in App, mode \in Modes, ms \in Milliseconds : CreateTimer(t, mode, ms)
  \/ \E t \in App : AddAppTimer(t)
  \/ ReceiveTimeout
  \/ RearmCursorTimer
  \/ Tick
  \/ \E t \in timers_ : TaskTimerExpires(t) \/ TimerExpires(t)
  \/ TickReturns

TimerSpec == TimerInit /\ [][TimerNext]_timerVars

-----------------------------------------------------------------------------
(***************************************************************************)
(* Properties                                                              *)
(***************************************************************************)
TimerType == [timeout : Nat, value : {"sentinel", "task", "cursor", "app"},
              armed : Nat, number : Nat]

Ringing == [timer : TimerType, at : Nat]

\* Types of every variable.
TimerTypeOK ==
  /\ tick_ \in Nat /\ added \in Nat /\ last_switch \in Nat
  /\ timers_ \subseteq TimerType
  /\ phase \in {"boot", "cursor", "run"}
  /\ in_tick \in BOOLEAN /\ task_timer_timeout \in BOOLEAN
  /\ creating \in [App -> {"idle", "add"}]
  /\ timeout \in [App -> Nat]
  /\ inbox \in Seq(Nat) /\ handling \in Seq(Nat)
  /\ rung \in Seq(Ringing)

Later(a, b) == IF a < b THEN b ELSE a

\* A timer rings in the very tick of its timeout, or in the first one after it was
\* added if that is later; no tick leaves one behind and none is early.
RingsOnTime ==
  \A k \in 1 .. Len(rung) :
    rung[k].at = Later(rung[k].timer.timeout, rung[k].timer.armed + 1)

\* Timers of one tick ring by timeout, so a task's messages are in order.
RingsInOrder ==
  \A j, k \in 1 .. Len(rung) : j < k =>
    \/ rung[j].at < rung[k].at
    \/ rung[j].at = rung[k].at /\ rung[j].timer.timeout <= rung[k].timer.timeout

Pending == {t.number : t \in timers_}
Rung == {rung[k].timer.number : k \in 1 .. Len(rung)}

\* Every timer ever added is either waiting or has rung, once.
RingsOnce ==
  /\ Pending \cup Rung = 0 .. added - 1
  /\ Pending \cap Rung = {}
  /\ \A j, k \in 1 .. Len(rung) : rung[j].timer.number = rung[k].timer.number => j = k

\* There is exactly one task timer, and SwitchTask is called every
\* kTaskTimerPeriod ticks, however many timers the applications create.
PreemptsEveryPeriod ==
  phase = "run" /\ ~in_tick =>
    /\ \E t \in timers_ : t.value = "task" /\ t.timeout = last_switch + kTaskTimerPeriod
    /\ \A t, u \in timers_ : t.value = "task" /\ u.value = "task" => t = u
    /\ tick_ < last_switch + kTaskTimerPeriod

Cursors == {t \in timers_ : t.value = "cursor"}
HalfSeconds(n) == \E k \in 0 .. n : n = k * kTimer05Sec

\* The cursor goes on blinking at multiples of half a second: its timer is in one
\* place, the queue, main's messages or main's hands, and does not drift.
CursorKeepsBlinking ==
  phase # "boot" =>
    /\ \A t, u \in Cursors : t = u
    /\ Len(inbox) + Len(handling) = IF Cursors = {} THEN 1 ELSE 0
    /\ \A t \in Cursors : HalfSeconds(t.timeout)
    /\ \A k \in 1 .. Len(inbox) : HalfSeconds(inbox[k])
    /\ \A k \in 1 .. Len(handling) : HalfSeconds(handling[k])

\* TimerManager::Tick: every timer rings, once, in its tick and in order.
RingsRight == RingsOnTime /\ RingsInOrder /\ RingsOnce

\* The two timers that are set again and again, one by Tick and one by the main
\* task's event loop, keep their periods.
PeriodsKept == PreemptsEveryPeriod /\ CursorKeepsBlinking

\* The alarm clock that AlarmClock describes: a tick rings at once what Tick
\* works off one by one.  The sentinel is not an alarm.
Alarm(t) == [number |-> t.number - 1, due |-> t.timeout]
Waiting == {t \in timers_ : t.value # "sentinel" /\ (in_tick => t.timeout > tick_)}
Alarms == {Alarm(t) : t \in Waiting}

Clock == INSTANCE AlarmClock WITH now <- tick_, count <- added - 1, alarms <- Alarms
ImplementsAlarmClock == Clock!Spec

-----------------------------------------------------------------------------
(***************************************************************************)
(* The inductive invariant.                                                *)
(***************************************************************************)
\* Outside Tick what is overdue was added since the last tick, and inside it
\* nothing that has expired was.
TimeInv ==
  /\ \A t \in timers_ :
       /\ t.armed <= tick_
       /\ t.timeout <= tick_ =>
            IF in_tick THEN t.armed < tick_ /\ (t.timeout < tick_ => t.armed = tick_ - 1)
                       ELSE t.armed = tick_
  /\ RingsOnTime

\* What rang in this tick was due no later than what is waiting.
OrderInv ==
  /\ \A k \in 1 .. Len(rung) :
       /\ rung[k].at <= tick_
       /\ in_tick /\ rung[k].at = tick_ =>
            \A t \in timers_ : rung[k].timer.timeout <= t.timeout
  /\ RingsInOrder

NumberInv ==
  /\ \A t, u \in timers_ : t.number = u.number => t = u
  /\ RingsOnce

TaskTimers == {t \in timers_ : t.value = "task"}

\* PreemptsEveryPeriod also in the middle of a tick.
TaskTimerInv ==
  /\ phase # "run" => TaskTimers = {}
  /\ \A t, u \in TaskTimers : t = u
  /\ phase = "run" =>
       \E t \in TaskTimers :
         IF in_tick /\ task_timer_timeout
         THEN t.timeout = tick_ + kTaskTimerPeriod
         ELSE /\ t.timeout = last_switch + kTaskTimerPeriod
              /\ tick_ <= t.timeout /\ (~in_tick => tick_ < t.timeout)

CursorInv ==
  /\ phase = "boot" => Cursors = {} /\ inbox = <<>> /\ handling = <<>>
  /\ CursorKeepsBlinking

TimerInv == TimerTypeOK /\ TimeInv /\ OrderInv /\ NumberInv /\ TaskTimerInv /\ CursorInv
=============================================================================
