----------------------------- MODULE AlarmClock -----------------------------
(***************************************************************************)
(* What the users of the timers rely on, without a queue or a loop: alarms *)
(* may be set at any time, and each tick rings all that are due.  Timer    *)
(* implements this specification.                                          *)
(***************************************************************************)
EXTENDS Integers

VARIABLES
  now,     \* ticks since boot
  count,   \* alarms set so far
  alarms   \* alarms that have not rung: [number, due]

vars == <<now, count, alarms>>

Init == now = 0 /\ count = 0 /\ alarms = {}

Set ==
  /\ \E a \in alarms' : a.number = count /\ alarms' = alarms \cup {a}
  /\ count' = count + 1
  /\ now' = now

Tick ==
  /\ now' = now + 1
  /\ alarms' = {a \in alarms : a.due > now'}
  /\ count' = count

Next == Set \/ Tick

Spec == Init /\ [][Next]_vars
=============================================================================
