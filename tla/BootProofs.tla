----------------------------- MODULE BootProofs -----------------------------
(***************************************************************************)
(* Proofs about Boot, for any firmware, configuration space, controller    *)
(* and pool, any periods of the PM timer and any wait; and about the boot  *)
(* loader, for any size of memory, any kernels and any behaviour of the    *)
(* firmware.                                                               *)
(***************************************************************************)
EXTENDS Boot, WellFoundedInduction, TLAPS

(***************************************************************************)
(* The order of the steps.                                                 *)
(***************************************************************************)
\* What is initialised when step k begins.
ReadyBefore(k) ==
  {"frame_buffer", "memory_map", "volume", "acpi_table"}
    \cup UNION {Steps[j].gives : j \in 1 .. k - 1}

\* The table of the steps, as far as the proofs look it up by number.
LEMMA StepTable ==
  /\ Len(Steps) = 22
  /\ \A k \in 1 .. 22 : Steps[k].name \notin {"loader", "exit"}
  /\ \A k \in 1 .. 22 : /\ Steps[k].name = "acpi_Initialize" => k = 13
                        /\ Steps[k].name = "InitializeLAPICTimer" => k = 14
                        /\ Steps[k].name = "InitializeTask" => k = 17
                        /\ Steps[k].name = "xhci_Initialize" => k = 18
                        /\ Steps[k].name = "NewTask" => k = 21
                        /\ Steps[k].name = "main_loop" => k = 22
                        /\ Steps[k].name = "InitializePCI" => k = 10
  /\ Steps[14].long
BY DEF Steps, ShortStep, LongStep, InitializeGraphics, InitializeConsole, InitializeSegmentation,
       InitializePaging, InitializeMemoryManager, InitializeTSS, InitializeInterrupt,
       FatInitialize, InitializeFont, InitializeLayer, InitializeWindows, AddTimer,
       InitializeSyscall, InitializeKeyboard, InitializeMouse

\* What a step uses, a step before it has initialised; so for the handlers when
\* interrupts are on and for the tasks when they are there.
LEMMA UsesAreReady ==
  /\ \A k \in 1 .. 22 : Steps[k].uses \subseteq ReadyBefore(k)
  /\ \A k \in 18 .. 22 : TimerHandler \cup XhciHandler \subseteq ReadyBefore(k)
  /\ TaskTerminal \cup ProcessEvents \subseteq ReadyBefore(22)
<1> DEFINE Gives(k) == Steps[k].gives
<1>1. /\ Gives(1) = {"screen"} /\ Gives(2) = {"console"} /\ Gives(3) = {"gdt"}
      /\ Gives(4) = {"page_tables"} /\ Gives(5) = {"frames", "heap"} /\ Gives(6) = {"tss"}
      /\ Gives(7) = {"idt"} /\ Gives(8) = {"files"} /\ Gives(9) = {"font"}
      /\ Gives(10) = {"devices"} /\ Gives(11) = {"layers", "active_layer", "layer_tasks"}
      /\ Gives(12) = {"windows"} /\ Gives(13) = {"fadt"} /\ Gives(14) = {"timers"}
      /\ Gives(16) = {"syscalls"} /\ Gives(17) = {"tasks"} /\ Gives(18) = {"xhc"}
      /\ Gives(19) = {"keyboard_observer"} /\ Gives(20) = {"mouse_observer", "mouse_layer"}
      /\ Gives(21) = {"app_loads"}
  BY DEF Steps, ShortStep, LongStep, InitializeGraphics, InitializeConsole, InitializeSegmentation,
         InitializePaging, InitializeMemoryManager, InitializeTSS, InitializeInterrupt,
         FatInitialize, InitializeFont, InitializeLayer, InitializeWindows, AddTimer,
         InitializeSyscall, InitializeKeyboard, InitializeMouse
<1>2. \A k \in 1 .. 22, j \in 1 .. 22 : j < k => Gives(j) \subseteq ReadyBefore(k)
  BY DEF ReadyBefore
<1>3. \A k : {"frame_buffer", "memory_map", "volume", "acpi_table"} \subseteq ReadyBefore(k)
  BY DEF ReadyBefore
<1> HIDE DEF Gives
<1>4. \A k \in 1 .. 22 : Steps[k].uses \subseteq ReadyBefore(k)
  <2>1. /\ Steps[1].uses = {"frame_buffer"} /\ Steps[2].uses = {"screen"} /\ Steps[3].uses = {}
        /\ Steps[4].uses = {} /\ Steps[5].uses = {"memory_map", "console"}
        /\ Steps[6].uses = {"frames", "gdt"} /\ Steps[7].uses = {"gdt"}
        /\ Steps[8].uses = {"volume"} /\ Steps[9].uses = {"files", "heap"}
        /\ Steps[10].uses = {"console"} /\ Steps[11].uses = {"screen", "console", "heap"}
        /\ Steps[12].uses = {"layers", "heap"} /\ Steps[13].uses = {"acpi_table", "console"}
        /\ Steps[14].uses = {"fadt", "heap"} /\ Steps[15].uses = {"timers"}
        /\ Steps[16].uses = {"gdt"} /\ Steps[17].uses = {"timers", "heap"}
        /\ Steps[18].uses = {"devices", "heap"} /\ Steps[19].uses = {}
        /\ Steps[20].uses = {"layers", "active_layer", "heap"}
        /\ Steps[21].uses = {"tasks", "heap"}
        /\ Steps[22].uses = {"tasks", "timers", "windows", "layers"}
    BY DEF Steps, ShortStep, LongStep, InitializeGraphics, InitializeConsole,
           InitializeSegmentation, InitializePaging, InitializeMemoryManager, InitializeTSS,
           InitializeInterrupt, FatInitialize, InitializeFont, InitializeLayer,
           InitializeWindows, AddTimer, InitializeSyscall, InitializeKeyboard, InitializeMouse
  <2> QED BY <1>1, <1>2, <1>3, <2>1
<1>5. \A k \in 18 .. 22 : TimerHandler \cup XhciHandler \subseteq ReadyBefore(k)
  BY <1>1, <1>2 DEF TimerHandler, XhciHandler
<1>6. TaskTerminal \cup ProcessEvents \subseteq ReadyBefore(22)
  BY <1>1, <1>2 DEF TaskTerminal, ProcessEvents
<1> QED BY <1>4, <1>5, <1>6

\* The number of a step and its name.
LEMMA StepNumber ==
  ASSUME kernel.step \in 0 .. 23
  PROVE  /\ StepName = "loader" <=> kernel.step = 0
         /\ StepName = "exit" <=> kernel.step = 23
         /\ kernel.step \in 1 .. 22 => StepName = Steps[kernel.step].name
         /\ StepName = "InitializePCI" => kernel.step = 10
         /\ StepName = "acpi_Initialize" => kernel.step = 13
         /\ StepName = "InitializeLAPICTimer" => kernel.step = 14
         /\ StepName = "InitializeTask" => kernel.step = 17
         /\ StepName = "xhci_Initialize" => kernel.step = 18
         /\ StepName = "NewTask" => kernel.step = 21
         /\ StepName = "main_loop" => kernel.step = 22
<1>1. /\ kernel.step = 0 => StepName = "loader"
      /\ kernel.step = 23 => StepName = "exit"
      /\ kernel.step \in 1 .. 22 => StepName = Steps[kernel.step].name
  BY StepTable DEF StepName
<1> QED BY <1>1, StepTable

(***************************************************************************)
(* Nothing is used before it is initialised.                               *)
(***************************************************************************)
\* Where the timer is read and what it says.
PmInv ==
  /\ pm \in [pc : {"idle", "until_wrap", "until_end", "measured"}, wide : BOOLEAN,
             start : Nat, now : Nat, elapsed : Nat]
  /\ pm.pc # "idle" => kernel.step = 14

KernelInv ==
  /\ kernel \in [step : 0 .. 23, ready : SUBSET ReadyBefore(23), missed : SUBSET STRING]
  /\ kernel.missed = {}
  /\ cpu \in [enabled : BOOLEAN, timer : BOOLEAN, told : BOOLEAN,
              terminal : {"none", "ready", "running"}]
  /\ kernel.step \in 1 .. 22 => ReadyBefore(kernel.step) \subseteq kernel.ready
  /\ cpu.enabled => kernel.step \in 18 .. 23
  /\ cpu.terminal = "ready" => kernel.step \in 22 .. 23

\* A step that is done leaves what the next one uses; exit leaves it all behind.
LEMMA DoneStep ==
  ASSUME KernelInv, kernel.step \in 1 .. 22, Done(Steps[kernel.step])
  PROVE  /\ kernel' \in [step : {kernel.step + 1}, ready : SUBSET ReadyBefore(23),
                        missed : SUBSET STRING]
         /\ kernel'.missed = {}
         /\ kernel.step + 1 \in 1 .. 22 => ReadyBefore(kernel.step + 1) \subseteq kernel'.ready
<1> DEFINE k == kernel.step
<1>1. Uses(Steps[k].uses) = {}
  BY UsesAreReady DEF Uses, KernelInv
<1>2. ReadyBefore(k + 1) = ReadyBefore(k) \cup Steps[k].gives
  BY DEF ReadyBefore
<1>3. Steps[k].gives \subseteq ReadyBefore(23)
  BY DEF ReadyBefore
<1> QED BY <1>1, <1>2, <1>3 DEF Done, KernelInv
LEMMA FailsStep ==
  ASSUME KernelInv, Fails
  PROVE  /\ kernel' \in [step : {23}, ready : SUBSET ReadyBefore(23), missed : SUBSET STRING]
         /\ kernel'.missed = {}
BY StepTable DEF Fails, KernelInv
\* What a handler or a task uses is there.
LEMMA NothingMissed ==
  ASSUME KernelInv, kernel.step \in 1 .. 22, NEW things, things \subseteq ReadyBefore(kernel.step)
  PROVE  Misses(things) = kernel
<1>1. Uses(things) = {}
  BY DEF Uses, KernelInv
<1> QED BY <1>1 DEF Misses, KernelInv

\* Every action keeps the order.
LEMMA KernelStep ==
  ASSUME KernelInv, PmInv, [Next]_vars PROVE KernelInv'
<1> USE StepNumber
<1>0. kernel.step \in 0 .. 23
  BY DEF KernelInv
<1>1. CASE Load
  BY <1>1 DEF Load, kernelVars, KernelInv
<1>2. CASE KernelMain
  <2>1. /\ ReadyBefore(1) = {"frame_buffer", "memory_map", "volume", "acpi_table"}
        /\ ReadyBefore(1) \subseteq ReadyBefore(23)
    BY DEF ReadyBefore
  <2>2. kernel' = [kernel EXCEPT !.step = 1, !.ready = ReadyBefore(1)]
    BY <1>2, <2>1 DEF KernelMain
  <2>3. kernel.step = 0 /\ UNCHANGED cpu
    BY <1>2, <1>0 DEF KernelMain
  <2>4. ReadyBefore(1) \in SUBSET ReadyBefore(23)
    BY <2>1
  <2>5. kernel \in [step : 0 .. 23, ready : SUBSET ReadyBefore(23), missed : SUBSET STRING]
    BY DEF KernelInv
  <2>6. kernel' \in [step : 0 .. 23, ready : SUBSET ReadyBefore(23), missed : SUBSET STRING]
    <3> DEFINE S == 0 .. 23
    <3> DEFINE R == SUBSET ReadyBefore(23)
    <3>1. 1 \in S /\ ReadyBefore(1) \in R /\ kernel \in [step : S, ready : R, missed : SUBSET STRING]
      BY <2>4, <2>5
    <3> HIDE DEF S, R
    <3>2. kernel' \in [step : S, ready : R, missed : SUBSET STRING]
      BY <2>2, <3>1
    <3> QED BY <3>2 DEF S, R
  <2>7. kernel'.step = 1 /\ kernel'.ready = ReadyBefore(1)
    BY <2>2, <2>5
  <2>8. kernel'.missed = {}
    BY <2>2, <2>5 DEF KernelInv
  <2> QED BY <2>3, <2>6, <2>7, <2>8 DEF KernelInv
<1>3. CASE Initialize
  <2>1. kernel.step \in 1 .. 22
    BY <1>0, <1>3 DEF Initialize
  <2>2. CASE Done(Steps[kernel.step])
    <3>1. kernel'.step = kernel.step + 1
      BY DoneStep, <2>1, <2>2
    <3> QED BY DoneStep, <2>1, <2>2, <3>1, <1>3 DEF Initialize, KernelInv
  <2>3. CASE Fails
    BY FailsStep, <2>3, <1>3 DEF Initialize, KernelInv
  <2> QED BY <2>2, <2>3, <1>3 DEF Initialize
<1>4. CASE ScanDevices
  <2>1. kernel.step = 10 /\ UNCHANGED cpu
    BY <1>0, <1>4 DEF ScanDevices
  <2>2. Done(Steps[kernel.step]) \/ Fails
    BY <1>4 DEF ScanDevices
  <2> QED BY DoneStep, FailsStep, <2>1, <2>2 DEF KernelInv
<1>5. CASE AcpiInitialize
  <2>1. kernel.step = 13 /\ UNCHANGED cpu
    BY <1>0, <1>5 DEF AcpiInitialize
  <2>2. Done(Steps[kernel.step]) \/ Fails
    BY <1>5 DEF AcpiInitialize
  <2> QED BY DoneStep, FailsStep, <2>1, <2>2 DEF KernelInv
<1>6. CASE WaitMilliseconds \/ Poll
  BY <1>6 DEF WaitMilliseconds, Poll, KernelInv
<1>7. CASE InitializeLAPICTimer
  <2>1. kernel.step = 14 /\ Done(Steps[kernel.step])
    BY <1>7 DEF InitializeLAPICTimer, PmInv
  <2>2. cpu' = [cpu EXCEPT !.timer = TRUE]
    BY <1>7 DEF InitializeLAPICTimer
  <2>3. kernel'.step = 15
    BY DoneStep, <2>1
  <2>4. /\ cpu' \in [enabled : BOOLEAN, timer : BOOLEAN, told : BOOLEAN,
                    terminal : {"none", "ready", "running"}]
        /\ cpu'.enabled = cpu.enabled /\ cpu'.terminal = cpu.terminal
    BY <2>2 DEF KernelInv
  <2> QED BY DoneStep, <2>1, <2>3, <2>4 DEF KernelInv
<1>8. CASE InitializeTask
  <2>1. kernel.step = 17 /\ Done(Steps[kernel.step])
    BY <1>0, <1>8 DEF InitializeTask
  <2>2. cpu' = [enabled |-> TRUE, timer |-> cpu.timer, told |-> cpu.told, terminal |-> cpu.terminal]
    BY <1>8 DEF InitializeTask, KernelInv
  <2>3. kernel'.step = 18
    BY DoneStep, <2>1
  <2> QED BY DoneStep, <2>1, <2>2, <2>3 DEF KernelInv
<1>9. CASE ChooseController
  <2>1. kernel.step = 18 /\ UNCHANGED cpu
    BY <1>0, <1>9 DEF ChooseController
  <2>2. Fails \/ UNCHANGED kernel
    BY <1>9 DEF ChooseController
  <2> QED BY FailsStep, <2>1, <2>2 DEF KernelInv
<1>10. CASE StartController \/ ControllerMoves \/ Allocate
  BY <1>10 DEF StartController, ControllerMoves, Allocate, kernelVars, KernelInv
<1>11. CASE ControllerStarted
  <2>1. kernel.step = 18 /\ UNCHANGED cpu
    BY <1>0, <1>11 DEF ControllerStarted
  <2>2. Fails \/ Done(Steps[kernel.step])
    BY <1>11 DEF ControllerStarted
  <2> QED BY FailsStep, DoneStep, <2>1, <2>2 DEF KernelInv
<1>12. CASE NewTask
  <2>1. kernel.step = 21 /\ Done(Steps[kernel.step])
    BY <1>0, <1>12 DEF NewTask
  <2>2. cpu' = [enabled |-> cpu.enabled, timer |-> cpu.timer, told |-> cpu.told, terminal |-> "ready"]
    BY <1>12 DEF NewTask, KernelInv
  <2>3. kernel'.step = 22
    BY DoneStep, <2>1
  <2> QED BY DoneStep, <2>1, <2>2, <2>3 DEF KernelInv
<1>13. CASE TimerInterrupt
  <2>1. kernel.step \in 18 .. 22
    BY <1>0, <1>13 DEF TimerInterrupt, KernelInv
  <2>2. CASE kernel' = Misses(TimerHandler) /\ UNCHANGED cpu
    <3>1. kernel' = kernel
      BY <2>1, <2>2, NothingMissed, UsesAreReady
    <3> QED BY <3>1, <2>2 DEF KernelInv
  <2>3. CASE /\ cpu.terminal = "ready"
             /\ kernel' = Misses(TimerHandler \cup TaskTerminal)
             /\ cpu' = [cpu EXCEPT !.terminal = "running"]
    <3>1. kernel.step = 22
      BY <2>1, <2>3 DEF KernelInv
    <3>2. TimerHandler \cup TaskTerminal \subseteq ReadyBefore(22)
      BY UsesAreReady
    <3>3. kernel' = kernel
      BY <3>1, <3>2, <2>3, NothingMissed
    <3>4. cpu' = [enabled |-> cpu.enabled, timer |-> cpu.timer, told |-> cpu.told,
                  terminal |-> "running"]
      BY <2>3 DEF KernelInv
    <3> QED BY <3>3, <3>4 DEF KernelInv
  <2> QED BY <2>2, <2>3, <1>13 DEF TimerInterrupt
<1>14. CASE XhciInterrupt
  <2>1. kernel.step \in 18 .. 22
    BY <1>0, <1>14 DEF XhciInterrupt, KernelInv
  <2>2. kernel' = kernel
    BY <1>14, <2>1, NothingMissed, UsesAreReady DEF XhciInterrupt
  <2>3. cpu' = [enabled |-> cpu.enabled, timer |-> cpu.timer, told |-> TRUE,
                terminal |-> cpu.terminal]
    BY <1>14 DEF XhciInterrupt, KernelInv
  <2> QED BY <2>2, <2>3 DEF KernelInv
<1>15. CASE ReceiveInterruptXHCI
  <2>1. kernel.step = 22
    BY <1>0, <1>15 DEF ReceiveInterruptXHCI
  <2>2. kernel' = kernel
    BY <1>15, <2>1, NothingMissed, UsesAreReady DEF ReceiveInterruptXHCI
  <2>3. cpu' = [enabled |-> cpu.enabled, timer |-> cpu.timer, told |-> FALSE,
                terminal |-> cpu.terminal]
    BY <1>15 DEF ReceiveInterruptXHCI, KernelInv
  <2> QED BY <2>2, <2>3 DEF KernelInv
<1>16. CASE UNCHANGED vars
  BY <1>16 DEF vars, KernelInv
<1> QED BY <1>1, <1>2, <1>3, <1>4, <1>5, <1>6, <1>7, <1>8, <1>9, <1>10, <1>11, <1>12, <1>13,
           <1>14, <1>15, <1>16 DEF Next

(***************************************************************************)
(* The wait takes as long as it says.                                      *)
(***************************************************************************)
LEMMA Remainder ==
  ASSUME NEW P \in Nat \ {0}, NEW i \in 0 .. 2 * P - 1
  PROVE  i % P = IF i < P THEN i ELSE i - P
OBVIOUS

\* Whatever its width, the timer goes round no faster than it is read.
LEMMA PeriodIsLong ==
  ASSUME PmInv
  PROVE  Period \in Nat /\ kWait + 2 * PollTicks <= Period /\ Period > 0
<1> DEFINE P == PmPeriods[FALSE]
<1> DEFINE Q == PmPeriods[TRUE]
<1>1. /\ P \in Nat \ {0} /\ Q \in Nat \ {0} /\ Q % P = 0
      /\ kWait \in Nat /\ PollTicks \in Nat /\ kWait + 2 * PollTicks <= P
  BY BootAssumption
<1> DEFINE Long(period) == period \in Nat /\ kWait + 2 * PollTicks <= period /\ period > 0
<1>2. Long(P) /\ Long(Q)
  <2> HIDE DEF P, Q
  <2>1. Q < P => Q % P = Q
    BY <1>1, Remainder
  <2>2. Q >= P
    BY <1>1, <2>1
  <2> QED BY <1>1, <2>2
<1> HIDE DEF Long
<1>4. \A wide \in {TRUE, FALSE} : Long(PmPeriods[wide])
  BY <1>2, Zenon
<1>5. pm.wide \in {TRUE, FALSE}
  <2>1. pm.wide \in BOOLEAN
    BY DEF PmInv
  <2> QED BY <2>1, Zenon
<1>6. Long(Period)
  BY <1>4, <1>5, Zenon DEF Period
<1> QED BY <1>6 DEF Long

\* Every action keeps the record of the wait.
LEMMA PmStep ==
  ASSUME PmInv, KernelInv, [Next]_vars PROVE PmInv'
<1>1. kernel.step \in 0 .. 23
  BY DEF KernelInv
<1>2. CASE AcpiInitialize
  <2>1. kernel.step = 13
    BY <1>1, <1>2, StepNumber DEF AcpiInitialize
  <2>2. pm.pc = "idle"
    BY <2>1 DEF PmInv
  <2>3. \/ UNCHANGED pm
        \/ \E wide \in BOOLEAN : pm' = [pm EXCEPT !.wide = wide]
    BY <1>2, AcpiAssumption DEF AcpiInitialize, Fadts, DescriptionHeader
  <2> QED BY <2>2, <2>3 DEF PmInv
<1>3. CASE WaitMilliseconds
  <2>1. kernel.step = 14 /\ UNCHANGED kernel
    BY <1>1, <1>3, StepNumber DEF WaitMilliseconds
  <2>2. PICK start \in 0 .. Period - 1 :
          pm' = [pm EXCEPT !.pc = WaitBegins(start, (start + kWait) % Period),
                           !.start = start, !.now = start]
    BY <1>3 DEF WaitMilliseconds
  <2>3. start \in Nat
    BY PeriodIsLong
  <2>4. WaitBegins(start, (start + kWait) % Period) \in {"until_wrap", "until_end"}
    BY DEF WaitBegins
  <2> QED BY <2>1, <2>2, <2>3, <2>4 DEF PmInv
<1>4. CASE Poll
  <2>1. UNCHANGED kernel
    BY <1>4 DEF Poll
  <2>2. PICK ticks \in 1 .. PollTicks : \E now \in {(pm.now + ticks) % Period} :
          pm' = [pm EXCEPT !.now = now,
                   !.elapsed = IF @ < kWait + 2 * PollTicks THEN @ + ticks ELSE @,
                   !.pc = CASE @ = "until_wrap" -> IF now >= pm.start THEN @ ELSE "until_end"
                            [] @ = "until_end" -> IF now < End THEN @ ELSE "measured"]
    BY <1>4 DEF Poll
  <2>3. PICK now \in Nat :
          pm' = [pm EXCEPT !.now = now,
                   !.elapsed = IF @ < kWait + 2 * PollTicks THEN @ + ticks ELSE @,
                   !.pc = CASE @ = "until_wrap" -> IF now >= pm.start THEN @ ELSE "until_end"
                            [] @ = "until_end" -> IF now < End THEN @ ELSE "measured"]
    <3>1. (pm.now + ticks) % Period \in Nat
      BY PeriodIsLong, BootAssumption DEF PmInv
    <3> QED BY <2>2, <3>1
  <2>4. pm.elapsed + ticks \in Nat /\ pm.pc \in {"until_wrap", "until_end"}
    BY <1>4, BootAssumption DEF PmInv, Poll
  <2>5. PICK pc \in {"until_wrap", "until_end", "measured"}, elapsed \in Nat :
          pm' = [pm EXCEPT !.now = now, !.elapsed = elapsed, !.pc = pc]
    BY <2>3, <2>4 DEF PmInv
  <2> QED BY <1>4, <2>1, <2>4, <2>5 DEF PmInv
<1>5. CASE InitializeLAPICTimer
  BY <1>5 DEF InitializeLAPICTimer, PmInv
<1>6. ASSUME UNCHANGED pm, kernel.step # 14 \/ kernel'.step = 14 PROVE PmInv'
  BY <1>6 DEF PmInv
<1>7. CASE Load \/ StartController \/ ControllerMoves \/ Allocate \/ UNCHANGED vars
  BY <1>6, <1>7
     DEF Load, StartController, ControllerMoves, Allocate, kernelVars, vars, PmInv
<1>8. CASE KernelMain \/ ScanDevices \/ InitializeTask \/ ChooseController \/ ControllerStarted
           \/ NewTask
  <2>1. StepName \in {"loader", "InitializePCI", "InitializeTask", "xhci_Initialize", "NewTask"}
    BY <1>8 DEF KernelMain, ScanDevices, InitializeTask, ChooseController, ControllerStarted, NewTask
  <2>2. kernel.step # 14
    BY <1>1, <2>1, StepNumber
  <2>3. UNCHANGED pm
    BY <1>8 DEF KernelMain, ScanDevices, InitializeTask, ChooseController, ControllerStarted,
                NewTask, kernelVars
  <2> QED BY <1>6, <2>2, <2>3
<1>9. CASE Initialize
  <2>1. kernel.step # 14 /\ UNCHANGED pm
    BY <1>9, StepTable DEF Initialize
  <2> QED BY <1>6, <2>1
<1>10. CASE TimerInterrupt \/ XhciInterrupt \/ ReceiveInterruptXHCI
  <2>1. UNCHANGED pm /\ kernel'.step = kernel.step
    BY <1>10 DEF TimerInterrupt, XhciInterrupt, ReceiveInterruptXHCI, Misses, KernelInv
  <2> QED BY <1>6, <2>1
<1> QED BY <1>2, <1>3, <1>4, <1>5, <1>7, <1>8, <1>9, <1>10 DEF Next

\* What has elapsed is known from the timer: it has gone round at most once, as
\* the wait was entered with an end before its start.  The end is far enough from
\* the end of the period to be seen (EndMissed).
WaitInv ==
  /\ pm.pc # "idle" =>
       pm.start < Period /\ pm.now < Period /\ End <= Period - PollTicks
  /\ pm.pc = "idle" => pm.elapsed = 0
  /\ pm.pc = "until_wrap" =>
       End < pm.start /\ pm.now >= pm.start /\ pm.elapsed = pm.now - pm.start
  /\ pm.pc = "until_end" =>
       IF End < pm.start
       THEN /\ pm.elapsed = Period - pm.start + pm.now
            /\ pm.now < End \/ pm.now < PollTicks
       ELSE /\ pm.elapsed = pm.now - pm.start /\ pm.now >= pm.start
            /\ pm.now < End \/ pm.now = pm.start
  /\ WaitIsLongEnough

\* The arithmetic of one read of the timer.
LEMMA ReadStep ==
  ASSUME NEW P \in Nat, NEW start \in Nat, NEW now \in Nat, NEW ticks \in 1 .. PollTicks,
         NEW last \in Nat, last < P, start < P, kWait + 2 * PollTicks <= P,
         NEW end, end = (start + kWait) % P, end <= P - PollTicks,
         now = (last + ticks) % P
  PROVE  /\ end = IF start + kWait < P THEN start + kWait ELSE start + kWait - P
         /\ now = IF last + ticks < P THEN last + ticks ELSE last + ticks - P
         /\ end \in Nat /\ now < P
<1>1. kWait \in Nat /\ PollTicks \in Nat \ {0} /\ P > 0
  BY BootAssumption
<1>2. start + kWait \in 0 .. 2 * P - 1 /\ last + ticks \in 0 .. 2 * P - 1
  BY <1>1
<1>3. end = IF start + kWait < P THEN start + kWait ELSE start + kWait - P
  BY <1>1, <1>2, Remainder
<1>4. now = IF last + ticks < P THEN last + ticks ELSE last + ticks - P
  BY <1>1, <1>2, Remainder
<1> QED BY <1>1, <1>2, <1>3, <1>4

\* Every action keeps it.
LEMMA WaitStep ==
  ASSUME ~EndMissed, PmInv, KernelInv, WaitInv, [Next]_vars PROVE WaitInv'
<1> USE BootAssumption
<1>1. CASE WaitMilliseconds
  <2>1. PICK start \in 0 .. Period - 1 :
          /\ EndMissed \/ (start + kWait) % Period <= Period - PollTicks
          /\ pm' = [pm EXCEPT !.pc = WaitBegins(start, (start + kWait) % Period),
                           !.start = start, !.now = start]
    BY <1>1 DEF WaitMilliseconds
  <2>2. pm.elapsed = 0
    BY <1>1 DEF WaitMilliseconds, WaitInv
  <2> DEFINE end == (start + kWait) % Period
  <2>3. start \in Nat /\ start < Period
    BY PeriodIsLong
  <2>4. pm'.start = start /\ pm'.now = start /\ pm'.elapsed = 0 /\ pm'.pc = WaitBegins(start, end)
    BY <2>1, <2>2 DEF PmInv
  <2>5. Period' = Period /\ End' = end
    BY <2>1, <2>4 DEF PmInv, Period, End
  <2>6. end <= Period - PollTicks
    BY <2>1
  <2> HIDE DEF end
  <2>7. CASE end < start
    BY <2>3, <2>4, <2>5, <2>6, <2>7 DEF WaitBegins, WaitInv, WaitIsLongEnough
  <2>8. CASE ~(end < start)
    BY <2>3, <2>4, <2>5, <2>6, <2>8 DEF WaitBegins, WaitInv, WaitIsLongEnough
  <2> QED BY <2>7, <2>8
<1>2. CASE Poll
  <2> DEFINE max == kWait + 2 * PollTicks
  <2>1. PICK ticks \in 1 .. PollTicks : \E now \in {(pm.now + ticks) % Period} :
          pm' = [pm EXCEPT !.now = now, !.elapsed = IF @ < max THEN @ + ticks ELSE @,
                   !.pc = CASE @ = "until_wrap" -> IF now >= pm.start THEN @ ELSE "until_end"
                            [] @ = "until_end" -> IF now < End THEN @ ELSE "measured"]
    BY <1>2 DEF Poll
  <2> DEFINE now == (pm.now + ticks) % Period
  <2>2. /\ pm'.now = now /\ pm'.start = pm.start /\ pm'.wide = pm.wide
        /\ pm'.elapsed = IF pm.elapsed < max THEN pm.elapsed + ticks ELSE pm.elapsed
        /\ pm.pc = "until_wrap" => pm'.pc = IF now >= pm.start THEN pm.pc ELSE "until_end"
        /\ pm.pc = "until_end" => pm'.pc = IF now < End THEN pm.pc ELSE "measured"
    BY <2>1 DEF PmInv
  <2>3. Period' = Period /\ End' = End
    BY <2>2 DEF Period, End
  <2>4. /\ pm.start \in Nat /\ pm.now \in Nat /\ pm.elapsed \in Nat
        /\ pm.start < Period /\ pm.now < Period /\ End <= Period - PollTicks
        /\ Period \in Nat /\ max <= Period
    BY <1>2, PeriodIsLong DEF Poll, PmInv, WaitInv
  <2>5. now \in Nat
    BY <2>4
  <2>6. /\ End = IF pm.start + kWait < Period THEN pm.start + kWait ELSE pm.start + kWait - Period
        /\ now = IF pm.now + ticks < Period THEN pm.now + ticks ELSE pm.now + ticks - Period
        /\ End \in Nat /\ now < Period
    BY <2>4, <2>5, ReadStep DEF End
  <2> HIDE DEF now
  <2>7. CASE pm.pc = "until_wrap"
    <3>1. End < pm.start /\ pm.now >= pm.start /\ pm.elapsed = pm.now - pm.start
      BY <2>7 DEF WaitInv
    <3>2. pm.elapsed < max /\ pm'.elapsed = pm.elapsed + ticks
      BY <2>2, <2>4, <2>6, <3>1
    <3>3. CASE now >= pm.start
      BY <2>2, <2>3, <2>4, <2>5, <2>6, <2>7, <3>1, <3>2, <3>3 DEF WaitInv, WaitIsLongEnough
    <3>4. CASE ~(now >= pm.start)
      BY <2>2, <2>3, <2>4, <2>5, <2>6, <2>7, <3>1, <3>2, <3>4 DEF WaitInv, WaitIsLongEnough
    <3> QED BY <3>3, <3>4
  <2>8. CASE pm.pc = "until_end"
    <3>1. IF End < pm.start
          THEN /\ pm.elapsed = Period - pm.start + pm.now
               /\ pm.now < End \/ pm.now < PollTicks
          ELSE /\ pm.elapsed = pm.now - pm.start /\ pm.now >= pm.start
               /\ pm.now < End \/ pm.now = pm.start
      BY <2>8 DEF WaitInv
    <3>2. pm.elapsed < max /\ pm'.elapsed = pm.elapsed + ticks
      BY <2>2, <2>4, <2>6, <3>1
    <3>3. now = pm.now + ticks
      BY <2>4, <2>6, <3>1
    <3>4. CASE now < End
      BY <2>2, <2>3, <2>4, <2>6, <2>8, <3>1, <3>2, <3>3, <3>4 DEF WaitInv, WaitIsLongEnough
    <3>5. CASE ~(now < End)
      <4>1. pm'.pc = "measured"
        BY <2>2, <2>8, <3>5
      <4>2. pm'.elapsed \in kWait .. max - 1
        BY <2>4, <2>6, <3>1, <3>2, <3>3, <3>5
      <4> QED BY <2>2, <2>3, <2>4, <2>6, <4>1, <4>2 DEF WaitInv, WaitIsLongEnough
    <3> QED BY <3>4, <3>5
  <2> QED BY <1>2, <2>7, <2>8 DEF Poll
<1>3. CASE InitializeLAPICTimer
  <2>1. pm'.pc = "idle" /\ pm'.elapsed = 0
    BY <1>3 DEF InitializeLAPICTimer, PmInv
  <2> QED BY <2>1 DEF WaitInv, WaitIsLongEnough
<1>4. CASE AcpiInitialize
  <2>1. pm.pc = "idle" /\ pm.elapsed = 0
    BY <1>4, StepNumber DEF AcpiInitialize, PmInv, KernelInv, WaitInv
  <2>2. pm'.pc = "idle" /\ pm'.elapsed = 0
    BY <1>4, <2>1 DEF AcpiInitialize, PmInv
  <2> QED BY <2>2 DEF WaitInv, WaitIsLongEnough
<1>5. ASSUME UNCHANGED pm PROVE WaitInv'
  BY <1>5 DEF WaitInv, WaitIsLongEnough, Period, End
<1>6. CASE \/ Load \/ KernelMain \/ Initialize \/ ScanDevices \/ InitializeTask \/ ChooseController
           \/ StartController \/ ControllerStarted \/ ControllerMoves \/ NewTask \/ TimerInterrupt
           \/ XhciInterrupt \/ ReceiveInterruptXHCI \/ Allocate \/ UNCHANGED vars
  <2>1. UNCHANGED pm
    BY <1>6 DEF Load, KernelMain, Initialize, ScanDevices, InitializeTask, ChooseController,
                StartController, ControllerStarted, ControllerMoves, NewTask, TimerInterrupt,
                XhciInterrupt, ReceiveInterruptXHCI, Allocate, kernelVars, vars
  <2> QED BY <1>5, <2>1
<1> QED BY <1>1, <1>2, <1>3, <1>4, <1>6 DEF Next

\* What is true at the start.
LEMMA KernelStart == Init => KernelInv /\ PmInv /\ WaitInv
BY DEF Init, KernelInv, PmInv, WaitInv, WaitIsLongEnough

\* No step, no interrupt handler and no task uses what is not initialised yet, whatever
\* the firmware, the devices and the controller are like: the order of
\* KernelMainNewStack, with interrupts enabled in InitializeTask (main.cpp).
THEOREM NothingIsUsedTooEarly == Spec => []FindsInitialised
<1>1. Init => KernelInv /\ PmInv
  BY KernelStart
<1>2. KernelInv /\ PmInv /\ [Next]_vars => (KernelInv /\ PmInv)'
  BY KernelStep, PmStep
<1>3. KernelInv => FindsInitialised
  BY DEF KernelInv, FindsInitialised
<1> QED BY <1>1, <1>2, <1>3, PTL DEF Spec

\* WaitMilliseconds takes the time it is asked for, and at most two reads of the timer
\* longer, wherever the timer stands and whatever its width, unless the end of the wait
\* falls into the last read of a period (acpi.cpp).
THEOREM TheWaitIsLongEnough ==
  ASSUME ~EndMissed PROVE Spec => []WaitIsLongEnough
<1>1. Init => KernelInv /\ PmInv /\ WaitInv
  BY KernelStart
<1>2. KernelInv /\ PmInv /\ WaitInv /\ [Next]_vars => (KernelInv /\ PmInv /\ WaitInv)'
  BY KernelStep, PmStep, WaitStep
<1>3. WaitInv => WaitIsLongEnough
  BY DEF WaitInv
<1> QED BY <1>1, <1>2, <1>3, PTL DEF Spec

(***************************************************************************)
(* The pool of the USB driver.                                             *)
(***************************************************************************)
Block == [at : Nat, size : Nat \ {0}, alignment : {0, 64, 4096}, boundary : {0, 4096, 65536}]
\* The alignments and boundaries that the driver asks for.
Placing == {<<0, 0>>, <<64, 4096>>, <<4096, 4096>>, <<64, 65536>>}

IsPlaced(b) ==
  /\ b.alignment > 0 => b.at % b.alignment = 0
  /\ b.boundary > 0 /\ b.size <= b.boundary =>
       b.at \div b.boundary = (b.at + b.size - 1) \div b.boundary
Addresses(p) == {b.at : b \in p.blocks} \cup {Null}
PoolType(p) ==
  /\ p \in [base : Nat, next : Nat, last : Nat, blocks : SUBSET Block]
  /\ p.base <= p.next /\ p.last \in Addresses(p)
\* Blocks are given out upwards.
PoolSound(p) ==
  /\ \A b \in p.blocks : /\ IsPlaced(b) /\ b.at >= p.base /\ b.at + b.size <= p.next
                         /\ b.at + b.size <= p.base + kMemoryPoolSize
  /\ \A b, c \in p.blocks : b # c => b.at + b.size <= c.at \/ c.at + c.size <= b.at

\* Where AllocMem puts a block.
PlacedAt(at, next, size, alignment, boundary) ==
  /\ at \in Nat /\ at >= next
  /\ alignment > 0 => at % alignment = 0
  /\ boundary > 0 /\ size <= boundary => at \div boundary = (at + size - 1) \div boundary
LEMMA PlaceOf ==
  ASSUME NEW next \in Nat, NEW size \in Nat \ {0}, NEW alignment, NEW boundary,
         <<alignment, boundary>> \in Placing
  PROVE  PlacedAt(Within(Aligned(next, alignment), size, boundary), next, size, alignment, boundary)
<1>1. CASE alignment = 0 /\ boundary = 0
  BY <1>1 DEF PlacedAt, Within, Aligned
<1>2. CASE alignment = 64 /\ boundary = 4096
  BY <1>2 DEF PlacedAt, Within, Aligned, Ceil
<1>3. CASE alignment = 4096 /\ boundary = 4096
  BY <1>3 DEF PlacedAt, Within, Aligned, Ceil
<1>4. CASE alignment = 64 /\ boundary = 65536
  BY <1>4 DEF PlacedAt, Within, Aligned, Ceil
<1> QED BY <1>1, <1>2, <1>3, <1>4 DEF Placing

\* What AllocMem does: nothing but give out a block above all others, or nothing.
LEMMA AllocMemSound ==
  ASSUME NEW p, PoolType(p), PoolSound(p), NEW size \in Nat \ {0},
         NEW alignment, NEW boundary, <<alignment, boundary>> \in Placing,
         NEW q, q = AllocMem(p, size, alignment, boundary)
  PROVE  /\ PoolType(q) /\ PoolSound(q)
         /\ p.blocks \subseteq q.blocks
<1> DEFINE at == Within(Aligned(p.next, alignment), size, boundary)
<1> DEFINE new == [at |-> at, size |-> size, alignment |-> alignment, boundary |-> boundary]
<1>1. q = Handed(p, at, size, alignment, boundary)
  BY DEF AllocMem
<1>2. p.base \in Nat /\ p.next \in Nat /\ p.blocks \subseteq Block /\ p.base <= p.next
  BY DEF PoolType
<1>3. PlacedAt(at, p.next, size, alignment, boundary)
  BY <1>2, PlaceOf
<1> HIDE DEF at
<1>4. at \in Nat /\ at >= p.next
  BY <1>3 DEF PlacedAt
<1>5. p \in [base : Nat, next : Nat, last : Nat, blocks : SUBSET Block]
  BY DEF PoolType
<1>6. CASE p.base + kMemoryPoolSize < at + size
  <2>1. q = [p EXCEPT !.next = at, !.last = Null]
    BY <1>1, <1>6 DEF Handed
  <2>2. /\ q.blocks = p.blocks /\ q.base = p.base /\ q.next = at /\ q.last = Null
        /\ q \in [base : Nat, next : Nat, last : Nat, blocks : SUBSET Block]
    <3> DEFINE N == Nat
    <3> DEFINE B == SUBSET Block
    <3>1. at \in N /\ Null \in N /\ p \in [base : N, next : N, last : N, blocks : B]
      BY <1>4, <1>5 DEF Null
    <3> HIDE DEF N, B
    <3>2. /\ q.blocks = p.blocks /\ q.base = p.base /\ q.next = at /\ q.last = Null
          /\ q \in [base : N, next : N, last : N, blocks : B]
      BY <2>1, <3>1
    <3> QED BY <3>2 DEF N, B
  <2>3. PoolType(q)
    BY <2>2, <1>2, <1>4 DEF PoolType, Addresses
  <2>4. \A b \in p.blocks : b.at \in Nat /\ b.size \in Nat
    BY <1>2 DEF Block
  <2>5. PoolSound(q)
    BY <2>2, <2>4, <1>2, <1>4 DEF PoolSound
  <2> QED BY <2>2, <2>3, <2>5
<1>7. CASE ~(p.base + kMemoryPoolSize < at + size)
  <2>1. q = [p EXCEPT !.next = at + size, !.last = at, !.blocks = @ \cup {new}]
    BY <1>1, <1>7 DEF Handed
  <2>2. /\ new \in Block /\ new.at = at /\ new.size = size /\ IsPlaced(new)
    BY <1>3 DEF PlacedAt, Block, Placing, IsPlaced
  <2> HIDE DEF new
  <2>3. /\ q.blocks = p.blocks \cup {new} /\ q.base = p.base /\ q.next = at + size /\ q.last = at
        /\ q \in [base : Nat, next : Nat, last : Nat, blocks : SUBSET Block]
    <3> DEFINE N == Nat
    <3> DEFINE B == SUBSET Block
    <3> DEFINE end == at + size
    <3> DEFINE blocks == p.blocks \cup {new}
    <3>1. /\ at \in N /\ end \in N /\ blocks \in B
          /\ p \in [base : N, next : N, last : N, blocks : B]
      BY <1>2, <1>4, <1>5, <2>2
    <3>2. q = [p EXCEPT !.next = end, !.last = at, !.blocks = blocks]
      BY <2>1
    <3> HIDE DEF N, B, end, blocks
    <3>3. /\ q.blocks = blocks /\ q.base = p.base /\ q.next = end /\ q.last = at
          /\ q \in [base : N, next : N, last : N, blocks : B]
      BY <3>1, <3>2
    <3> QED BY <3>3 DEF N, B, end, blocks
  <2>4. PoolType(q)
    BY <2>2, <2>3, <1>2, <1>4 DEF PoolType, Addresses
  <2>5. \A b \in p.blocks : b.at \in Nat /\ b.size \in Nat /\ b.at + b.size <= p.next
    BY <1>2 DEF Block, PoolSound
  <2>6. p.base + kMemoryPoolSize >= at + size
    BY <1>2, <1>4, <1>7 DEF kMemoryPoolSize
  <2>7. PoolSound(q)
    BY <2>2, <2>3, <2>5, <2>6, <1>2, <1>4 DEF PoolSound
  <2> QED BY <2>3, <2>4, <2>7
<1> QED BY <1>6, <1>7

(***************************************************************************)
(* The controller and the driver that starts it.                           *)
(***************************************************************************)
PastOwner ==
  {"stop", "wait_halted", "reset", "wait_reset", "wait_ready", "slots", "contexts",
   "scratchpads", "command_ring", "event_ring", "interrupts", "run", "wait_running", "running"}
Configuring ==
  {"slots", "contexts", "scratchpads", "command_ring", "event_ring", "interrupts", "run"}
Places == {"none", "devmgr", "own", "wait_owned", "failed"} \cup PastOwner

DriverType ==
  /\ driver \in [pc : Places, dcbaa : Addresses(pool), pages : Nat, command : Addresses(pool),
                 events : Addresses(pool)]
  /\ hc \in HostController(Addresses(pool))
  /\ PoolType(pool) /\ PoolSound(pool)
StartInv ==
  /\ hc.reset => driver.pc = "wait_reset"
  /\ hc.cnr => driver.pc \in {"wait_reset", "wait_ready"}
  /\ driver.pc \in {"devmgr", "own"} => (hc.bios => hc.legacy) /\ ~hc.os
  /\ driver.pc \in PastOwner => ~hc.bios
  /\ driver.pc \in {"devmgr", "own", "wait_owned", "stop"} => (hc.op.run <=> ~hc.halted)
  /\ driver.pc \in {"wait_halted", "reset", "wait_reset", "wait_ready"} \cup Configuring =>
       ~hc.op.run
  /\ driver.pc \in {"reset", "wait_reset", "wait_ready"} \cup Configuring => hc.halted
  /\ driver.pc = "wait_reset" /\ ~hc.reset => hc.op = Cleared
  /\ driver.pc \in {"wait_ready", "slots"} => hc.op = Cleared
  /\ driver.pc \in {"contexts", "scratchpads"} => hc.op = [Cleared EXCEPT !.slots = kDeviceSize]
  /\ driver.pc = "command_ring" =>
       hc.op = [Cleared EXCEPT !.slots = kDeviceSize, !.dcbaap = driver.dcbaa]
  /\ driver.pc = "event_ring" =>
       hc.op = [Cleared EXCEPT !.slots = kDeviceSize, !.dcbaap = driver.dcbaa,
                               !.crcr = driver.command]
  /\ driver.pc = "interrupts" =>
       hc.op = [Cleared EXCEPT !.slots = kDeviceSize, !.dcbaap = driver.dcbaa,
                               !.crcr = driver.command, !.erst = pool.last]
  /\ driver.pc = "run" => Configured
  /\ driver.pc \in {"own", "wait_owned"} \cup PastOwner => driver.dcbaa # Null
  /\ driver.pc \in {"event_ring", "interrupts", "run", "wait_running", "running"} =>
       driver.command # Null

\* One write into a register.
Updated(op, register, value) == [op EXCEPT ![register] = value]
LEMMA UpdatedFields ==
  ASSUME NEW op, NEW value
  PROVE  /\ Updated(op, "slots", value) = [op EXCEPT !.slots = value]
         /\ Updated(op, "dcbaap", value) = [op EXCEPT !.dcbaap = value]
         /\ Updated(op, "crcr", value) = [op EXCEPT !.crcr = value]
         /\ Updated(op, "erst", value) = [op EXCEPT !.erst = value]
         /\ Updated(op, "interrupts", value) = [op EXCEPT !.interrupts = value]
         /\ Updated(op, "run", value) = [op EXCEPT !.run = value]
BY DEF Updated
LEMMA WriteType ==
  ASSUME NEW A, hc \in HostController(A), NEW register, NEW value,
         \/ register = "slots" /\ value \in 0 .. kDeviceSize
         \/ register \in {"dcbaap", "crcr", "erst"} /\ value \in A
         \/ register \in {"interrupts", "run"} /\ value = TRUE,
         Write(register, value)
  PROVE  /\ hc' \in HostController(A)
         /\ hc'.reset = hc.reset /\ hc'.cnr = hc.cnr /\ hc'.bios = hc.bios
         /\ hc'.halted = hc.halted
         /\ ~hc.reset /\ ~hc.cnr => hc'.op = Updated(hc.op, register, value)
<1>1. CASE hc.reset \/ hc.cnr
  BY <1>1 DEF Write
<1>2. CASE ~(hc.reset \/ hc.cnr)
  <2> DEFINE op == [hc.op EXCEPT ![register] = value]
  <2>1. hc' = [hc EXCEPT !.op = op]
    BY <1>2 DEF Write
  <2>2. op \in OperationalRegisters(A)
    BY DEF HostController, OperationalRegisters
  <2> HIDE DEF op
  <2>3. /\ hc' \in HostController(A)
        /\ hc'.reset = hc.reset /\ hc'.cnr = hc.cnr /\ hc'.bios = hc.bios
        /\ hc'.halted = hc.halted /\ hc'.op = op
    BY <2>1, <2>2 DEF HostController
  <2> QED BY <2>3 DEF op, Updated
<1> QED BY <1>1, <1>2

\* An address reaches its register when the controller is ready.
LEMMA WriteAddress ==
  ASSUME NEW A, hc \in HostController(A), NEW register \in {"dcbaap", "crcr", "erst"},
         NEW value \in A, Write(register, value), ~hc.reset, ~hc.cnr
  PROVE  /\ hc'.reset = hc.reset /\ hc'.cnr = hc.cnr /\ hc'.bios = hc.bios
         /\ hc'.halted = hc.halted /\ hc'.op = Updated(hc.op, register, value)
BY WriteType

\* What is among the blocks stays among them.
LEMMA PoolGrows ==
  ASSUME DriverType, NEW q, PoolType(q), PoolSound(q), pool.blocks \subseteq q.blocks
  PROVE  /\ Addresses(pool) \subseteq Addresses(q)
         /\ hc \in HostController(Addresses(q))
         /\ driver \in [pc : Places, dcbaa : Addresses(q), pages : Nat,
                        command : Addresses(q), events : Addresses(q)]
<1>1. Addresses(pool) \subseteq Addresses(q)
  BY DEF Addresses
<1>2. hc.op \in OperationalRegisters(Addresses(q))
  BY <1>1 DEF DriverType, HostController, OperationalRegisters
<1>3. hc \in HostController(Addresses(q))
  BY <1>2 DEF DriverType, HostController
<1> QED BY <1>1, <1>3 DEF DriverType

\* Every step of the driver keeps the types and the pool sound.
LEMMA InitializeType ==
  ASSUME DriverType, XhciInitialize PROVE DriverType'
<1> DEFINE D(q) == [pc : Places, dcbaa : Addresses(q), pages : Nat,
                    command : Addresses(q), events : Addresses(q)]
<1>0. /\ driver \in D(pool) /\ hc \in HostController(Addresses(pool))
      /\ PoolType(pool) /\ PoolSound(pool) /\ pool.last \in Addresses(pool)
  BY DEF DriverType, PoolType
<1>a. hc.scratchpads \in 0 .. 1023
  <2>1. hc.scratchpads \in Scratchpads \cup {0}
    BY <1>0 DEF HostController
  <2>2. Scratchpads \subseteq 0 .. 1023
    BY XhciStartAssumption
  <2>3. \A n \in Scratchpads \cup {0} : n \in 0 .. 1023
    BY <2>2
  <2> QED BY <2>1, <2>3
<1>1. CASE DeviceManagerInitialize
  <2> DEFINE p == AllocArray(pool, 8, kDeviceSize + 1, 0, 0)
  <2> DEFINE q == AllocArray(p, 8, kDeviceSize + 1, 64, 4096)
  <2>1. /\ pool' = q /\ UNCHANGED hc
        /\ driver' = [driver EXCEPT !.pc = IF q.last = Null THEN "failed" ELSE "own",
                                  !.dcbaa = q.last]
    BY <1>1 DEF DeviceManagerInitialize
  <2>2. PoolType(p) /\ PoolSound(p) /\ pool.blocks \subseteq p.blocks
    BY <1>0, AllocMemSound DEF AllocArray, kDeviceSize, Placing
  <2> HIDE DEF p
  <2>3. PoolType(q) /\ PoolSound(q) /\ p.blocks \subseteq q.blocks
    BY <2>2, AllocMemSound DEF AllocArray, kDeviceSize, Placing
  <2> HIDE DEF q
  <2>4. /\ hc \in HostController(Addresses(q)) /\ driver \in D(q)
        /\ q.last \in Addresses(q)
    BY <2>2, <2>3, PoolGrows DEF PoolType
  <2>5. driver' \in D(q)
    BY <2>1, <2>4 DEF Places
  <2> QED BY <2>1, <2>3, <2>4, <2>5 DEF DriverType
<1>2. ASSUME UNCHANGED pool, hc' \in HostController(Addresses(pool)), NEW pc \in Places,
             driver' = [driver EXCEPT !.pc = pc]
      PROVE  DriverType'
  BY <1>0, <1>2 DEF DriverType
<1>3. CASE RequestHCOwnership
  <2>1. hc' \in HostController(Addresses(pool))
    BY <1>0, <1>3 DEF RequestHCOwnership, HostController
  <2> QED BY <1>2, <1>3, <2>1 DEF RequestHCOwnership, Step, Places, PastOwner
<1>4. CASE Owned \/ Halted \/ ResetDone \/ Ready \/ Running
  BY <1>0, <1>2, <1>4 DEF Owned, Halted, ResetDone, Ready, Running, Step, Places, PastOwner
<1>5. CASE Stop
  <2>1. PICK run \in BOOLEAN : hc' = [hc EXCEPT !.op = [hc.op EXCEPT !.interrupts = FALSE, !.run = run]]
    <3>1. (hc.op.run /\ hc.halted) \in BOOLEAN
      OBVIOUS
    <3> QED BY <1>5, <3>1 DEF Stop
  <2>2. hc' \in HostController(Addresses(pool))
    BY <1>0, <2>1 DEF HostController, OperationalRegisters
  <2> QED BY <1>2, <1>5, <2>2 DEF Stop, Step, Places, PastOwner
<1>6. CASE Reset
  <2>1. hc' \in HostController(Addresses(pool))
    BY <1>0, <1>6 DEF Reset, HostController
  <2> QED BY <1>2, <1>6, <2>1 DEF Reset, Step, Places, PastOwner
<1>7. CASE SetSlots
  <2>1. Write("slots", kDeviceSize) /\ kDeviceSize \in 0 .. kDeviceSize
    BY <1>7 DEF SetSlots, kDeviceSize
  <2>2. hc' \in HostController(Addresses(pool))
    BY <1>0, <2>1, WriteType
  <2> QED BY <1>2, <1>7, <2>2 DEF SetSlots, Step, Places, PastOwner
<1>8. CASE SetScratchpads
  <2> DEFINE q == IF hc.scratchpads = 0 THEN pool ELSE AllocArray(pool, 8, hc.scratchpads, 64, 4096)
  <2>1. /\ pool' = q /\ UNCHANGED hc
        /\ driver' = [driver EXCEPT !.pc = "scratchpads", !.pages = hc.scratchpads]
    BY <1>8 DEF SetScratchpads
  <2>2. PoolType(q) /\ PoolSound(q) /\ pool.blocks \subseteq q.blocks
    <3>1. CASE hc.scratchpads = 0
      BY <1>0, <3>1
    <3>2. CASE hc.scratchpads # 0
      <4>1. 8 * hc.scratchpads \in Nat \ {0} /\ <<64, 4096>> \in Placing
        BY <1>a, <3>2, SMTT(30) DEF Placing
      <4> QED BY <1>0, <3>2, <4>1, AllocMemSound DEF AllocArray
    <3> QED BY <3>1, <3>2
  <2> HIDE DEF q
  <2>3. hc \in HostController(Addresses(q)) /\ driver \in D(q)
    BY <2>2, PoolGrows
  <2>4. hc.scratchpads \in Nat /\ "scratchpads" \in Places
    BY <1>a DEF Places, PastOwner
  <2>5. driver' \in D(q)
    BY <2>1, <2>3, <2>4
  <2> QED BY <2>1, <2>2, <2>3, <2>5 DEF DriverType
<1>9. CASE SetScratchpad
  <2> DEFINE q == AllocMem(pool, 4096, 4096, 4096)
  <2>1. /\ pool' = q /\ UNCHANGED hc /\ driver' = [driver EXCEPT !.pages = @ - 1] /\ driver.pages > 0
    BY <1>9 DEF SetScratchpad
  <2>2. PoolType(q) /\ PoolSound(q) /\ pool.blocks \subseteq q.blocks
    BY <1>0, AllocMemSound DEF Placing
  <2> HIDE DEF q
  <2>3. hc \in HostController(Addresses(q)) /\ driver \in D(q)
    BY <2>2, PoolGrows
  <2>4. driver' \in D(q)
    BY <2>1, <2>3
  <2> QED BY <2>1, <2>2, <2>3, <2>4 DEF DriverType
<1>10. CASE SetContexts
  <2>1. Write("dcbaap", driver.dcbaa) /\ driver.dcbaa \in Addresses(pool)
    BY <1>0, <1>10 DEF SetContexts
  <2>2. hc' \in HostController(Addresses(pool))
    BY <1>0, <2>1, WriteType
  <2> QED BY <1>2, <1>10, <2>2 DEF SetContexts, Step, Places, PastOwner
<1>11. CASE SetCommandRing
  <2> DEFINE q == RingBuffer(pool)
  <2>1. /\ pool' = q
        /\ IF q.last = Null THEN driver' = [driver EXCEPT !.pc = "failed"] /\ UNCHANGED hc
           ELSE /\ driver' = [driver EXCEPT !.pc = "event_ring", !.command = q.last]
                /\ Write("crcr", q.last)
    BY <1>11 DEF SetCommandRing
  <2>2. PoolType(q) /\ PoolSound(q) /\ pool.blocks \subseteq q.blocks
    BY <1>0, AllocMemSound DEF RingBuffer, AllocArray, Placing
  <2> HIDE DEF q
  <2>3. hc \in HostController(Addresses(q)) /\ driver \in D(q) /\ q.last \in Addresses(q)
    BY <2>2, PoolGrows DEF PoolType
  <2>4. hc' \in HostController(Addresses(q))
    BY <2>1, <2>3, WriteType
  <2>5. driver' \in D(q)
    BY <2>1, <2>3 DEF Places, PastOwner
  <2> QED BY <2>1, <2>2, <2>4, <2>5 DEF DriverType
<1>12. CASE SetEventRing
  <2> DEFINE p == RingBuffer(pool)
  <2> DEFINE q == AllocArray(p, 16, 1, 64, 64 * 1024)
  <2>1. /\ pool' = q
        /\ IF q.last = Null THEN driver' = [driver EXCEPT !.pc = "failed"] /\ UNCHANGED hc
           ELSE /\ driver' = [driver EXCEPT !.pc = "interrupts", !.events = q.last]
                /\ Write("erst", q.last)
    BY <1>12 DEF SetEventRing
  <2>2. PoolType(p) /\ PoolSound(p) /\ pool.blocks \subseteq p.blocks
    BY <1>0, AllocMemSound DEF RingBuffer, AllocArray, Placing
  <2> HIDE DEF p
  <2>3. PoolType(q) /\ PoolSound(q) /\ p.blocks \subseteq q.blocks
    BY <2>2, AllocMemSound DEF AllocArray, Placing
  <2> HIDE DEF q
  <2>4. hc \in HostController(Addresses(q)) /\ driver \in D(q) /\ q.last \in Addresses(q)
    BY <2>2, <2>3, PoolGrows DEF PoolType
  <2>5. hc' \in HostController(Addresses(q))
    BY <2>1, <2>4, WriteType
  <2>6. driver' \in D(q)
    BY <2>1, <2>4 DEF Places, PastOwner
  <2> QED BY <2>1, <2>3, <2>5, <2>6 DEF DriverType
<1>13. CASE EnableInterrupts
  <2>1. Write("interrupts", TRUE)
    BY <1>13 DEF EnableInterrupts
  <2>2. hc' \in HostController(Addresses(pool))
    BY <1>0, <2>1, WriteType
  <2> QED BY <1>2, <1>13, <2>2 DEF EnableInterrupts, Step, Places, PastOwner
<1>14. CASE Run
  <2>1. Write("run", TRUE)
    BY <1>14 DEF Run
  <2>2. hc' \in HostController(Addresses(pool))
    BY <1>0, <2>1, WriteType
  <2> QED BY <1>2, <1>14, <2>2 DEF Run, Step, Places, PastOwner
<1> QED BY <1>1, <1>3, <1>4, <1>5, <1>6, <1>7, <1>8, <1>9, <1>10, <1>11, <1>12, <1>13, <1>14
        DEF XhciInitialize

\* The rings are allocated in the pool as it is.
LEMMA RingsGrow ==
  ASSUME DriverType, SetCommandRing \/ SetEventRing PROVE pool.blocks \subseteq pool'.blocks
<1> DEFINE p == RingBuffer(pool)
<1>1. PoolType(p) /\ PoolSound(p) /\ pool.blocks \subseteq p.blocks
  BY AllocMemSound DEF DriverType, RingBuffer, AllocArray, Placing
<1>2. pool' = p \/ pool' = AllocArray(p, 16, 1, 64, 64 * 1024)
  BY DEF SetCommandRing, SetEventRing
<1> HIDE DEF p
<1>3. p.blocks \subseteq AllocArray(p, 16, 1, 64, 64 * 1024).blocks
  BY <1>1, AllocMemSound DEF AllocArray, Placing
<1> QED BY <1>1, <1>2, <1>3

\* Every step of the driver keeps the order, and takes the steps that StartsInOrder
\* is about only when it may.
OrderStep ==
  /\ hc'.reset /\ ~hc.reset => hc.halted /\ ~hc.bios
  /\ driver.pc = "run" /\ driver'.pc # "run" =>
       Configured /\ hc'.op.run /\ driver.dcbaa # Null /\ driver.command # Null
\* Fields of what the steps write.
LEMMA DriverFields ==
  ASSUME NEW P, NEW A, NEW d \in [pc : P, dcbaa : A, pages : Nat, command : A, events : A],
         NEW pc, NEW last, NEW e, e = [d EXCEPT !.pc = pc, !.dcbaa = last]
  PROVE  e.pc = pc /\ e.dcbaa = last
BY DEF Places
LEMMA OpEnabled ==
  ASSUME NEW s, NEW a, NEW b, NEW c
  PROVE  [[Cleared EXCEPT !.slots = s, !.dcbaap = a, !.crcr = b, !.erst = c]
             EXCEPT !.interrupts = TRUE]
         = [Cleared EXCEPT !.interrupts = TRUE, !.slots = s, !.dcbaap = a, !.crcr = b, !.erst = c]
BY DEF Cleared
Prepared(s, a, b, c) ==
  [Cleared EXCEPT !.interrupts = TRUE, !.slots = s, !.dcbaap = a, !.crcr = b, !.erst = c]
LEMMA OpStopped ==
  ASSUME NEW s, NEW a, NEW b, NEW c PROVE Prepared(s, a, b, c).run = FALSE
BY DEF Cleared, Prepared
LEMMA InitializeOrder ==
  ASSUME DriverType, StartInv, XhciInitialize PROVE StartInv' /\ OrderStep
<1> DEFINE A == Addresses(pool)
<1>0. /\ driver \in [pc : Places, dcbaa : A, pages : Nat, command : A, events : A]
      /\ hc \in HostController(A)
  BY DEF DriverType
<1> HIDE DEF A
<1>1. CASE DeviceManagerInitialize
  <2>1. UNCHANGED hc /\ driver.pc = "devmgr"
    BY <1>1 DEF DeviceManagerInitialize
  <2>2. driver'.pc = "failed" \/ (driver'.pc = "own" /\ driver'.dcbaa # Null)
    <3> DEFINE p == AllocArray(AllocArray(pool, 8, kDeviceSize + 1, 0, 0), 8, kDeviceSize + 1, 64, 4096)
    <3>1. driver' = [driver EXCEPT !.pc = IF p.last = Null THEN "failed" ELSE "own",
                                   !.dcbaa = p.last]
      BY <1>1 DEF DeviceManagerInitialize
    <3> HIDE DEF p
    <3>2. CASE p.last = Null
      <4>1. driver' = [driver EXCEPT !.pc = "failed", !.dcbaa = p.last]
        BY <3>1, <3>2
      <4> QED BY <1>0, <4>1, DriverFields
    <3>3. CASE p.last # Null
      <4>1. driver' = [driver EXCEPT !.pc = "own", !.dcbaa = p.last]
        BY <3>1, <3>3
      <4> QED BY <1>0, <3>3, <4>1, DriverFields
    <3> QED BY <3>2, <3>3
  <2> QED BY <2>1, <2>2 DEF StartInv, OrderStep, PastOwner, Configuring
<1>2. CASE RequestHCOwnership
  <2>1. /\ driver.pc = "own" /\ driver' = [driver EXCEPT !.pc = IF hc.legacy /\ ~hc.os THEN "wait_owned" ELSE "stop"]
        /\ hc' = [hc EXCEPT !.os = hc.legacy] /\ UNCHANGED pool
    BY <1>2 DEF RequestHCOwnership, Step
  <2>2. /\ hc'.reset = hc.reset /\ hc'.cnr = hc.cnr /\ hc'.bios = hc.bios /\ hc'.halted = hc.halted
        /\ hc'.op = hc.op
    BY <1>0, <2>1 DEF HostController
  <2>3. driver'.dcbaa = driver.dcbaa /\ driver'.pc = IF hc.legacy /\ ~hc.os THEN "wait_owned" ELSE "stop"
    BY <1>0, <2>1
  <2> QED BY <2>1, <2>2, <2>3 DEF StartInv, OrderStep, PastOwner, Configuring
<1>3. CASE Owned
  <2>1. /\ driver.pc = "wait_owned" /\ driver'.pc = "stop" /\ driver'.dcbaa = driver.dcbaa
        /\ ~hc.bios /\ UNCHANGED <<hc, pool>>
    BY <1>0, <1>3 DEF Owned, Step
  <2> QED BY <2>1 DEF StartInv, OrderStep, PastOwner, Configuring
<1>4. CASE Stop
  <2>1. /\ driver.pc = "stop" /\ driver'.pc = "wait_halted" /\ driver'.dcbaa = driver.dcbaa
        /\ hc' = [hc EXCEPT !.op.interrupts = FALSE, !.op.run = @ /\ hc.halted] /\ UNCHANGED pool
    BY <1>0, <1>4 DEF Stop, Step
  <2>2. /\ hc'.reset = hc.reset /\ hc'.cnr = hc.cnr /\ hc'.bios = hc.bios /\ hc'.halted = hc.halted
        /\ hc'.op.run = (hc.op.run /\ hc.halted)
    BY <1>0, <2>1 DEF HostController, OperationalRegisters
  <2> QED BY <2>1, <2>2 DEF StartInv, OrderStep, PastOwner, Configuring
<1>5. CASE Halted
  <2>1. /\ driver.pc = "wait_halted" /\ driver'.pc = "reset" /\ driver'.dcbaa = driver.dcbaa
        /\ hc.halted /\ UNCHANGED <<hc, pool>>
    BY <1>0, <1>5 DEF Halted, Step
  <2> QED BY <2>1 DEF StartInv, OrderStep, PastOwner, Configuring
<1>6. CASE Reset
  <2>1. /\ driver.pc = "reset" /\ driver'.pc = "wait_reset" /\ driver'.dcbaa = driver.dcbaa
        /\ hc' = [hc EXCEPT !.reset = TRUE] /\ UNCHANGED pool
    BY <1>0, <1>6 DEF Reset, Step
  <2>2. /\ hc'.reset = TRUE /\ hc'.cnr = hc.cnr /\ hc'.bios = hc.bios /\ hc'.halted = hc.halted
        /\ hc'.op = hc.op
    BY <1>0, <2>1 DEF HostController
  <2> QED BY <2>1, <2>2 DEF StartInv, OrderStep, PastOwner, Configuring
<1>7. CASE ResetDone
  <2>1. /\ driver.pc = "wait_reset" /\ driver'.pc = "wait_ready" /\ driver'.dcbaa = driver.dcbaa
        /\ ~hc.reset /\ UNCHANGED <<hc, pool>>
    BY <1>0, <1>7 DEF ResetDone, Step
  <2> QED BY <2>1 DEF StartInv, OrderStep, PastOwner, Configuring
<1>8. CASE Ready
  <2>1. /\ driver.pc = "wait_ready" /\ driver'.pc = "slots" /\ driver'.dcbaa = driver.dcbaa
        /\ ~hc.cnr /\ UNCHANGED <<hc, pool>>
    BY <1>0, <1>8 DEF Ready, Step
  <2> QED BY <2>1 DEF StartInv, OrderStep, PastOwner, Configuring
<1>9. CASE Running
  <2>1. /\ driver.pc = "wait_running" /\ driver'.pc = "running" /\ driver'.dcbaa = driver.dcbaa
        /\ driver'.command = driver.command /\ UNCHANGED <<hc, pool>>
    BY <1>0, <1>9 DEF Running, Step
  <2> QED BY <2>1 DEF StartInv, OrderStep, PastOwner, Configuring
<1>10. CASE SetSlots
  <2>1. /\ driver.pc = "slots" /\ driver'.pc = "contexts" /\ driver'.dcbaa = driver.dcbaa
        /\ driver'.command = driver.command /\ Write("slots", kDeviceSize) /\ UNCHANGED pool
    BY <1>0, <1>10 DEF SetSlots, Step
  <2>2. kDeviceSize \in 0 .. kDeviceSize
    BY DEF kDeviceSize
  <2>3. ~hc.reset /\ ~hc.cnr /\ ~hc.op.run
    BY <2>1 DEF StartInv, Configuring
  <2>4. /\ hc'.reset = hc.reset /\ hc'.cnr = hc.cnr /\ hc'.bios = hc.bios /\ hc'.halted = hc.halted
        /\ hc'.op = Updated(hc.op, "slots", kDeviceSize)
    BY <1>0, <2>1, <2>2, <2>3, WriteType
  <2>a. hc'.op = [hc.op EXCEPT !.slots = kDeviceSize]
    BY <2>4, UpdatedFields
  <2>5. hc'.op = [Cleared EXCEPT !.slots = kDeviceSize]
    BY <2>1, <2>a DEF StartInv, Cleared, Configured
  <2> QED BY <2>1, <2>3, <2>4, <2>5 DEF StartInv, OrderStep, PastOwner, Configuring, Cleared
<1>11. CASE SetContexts
  <2>1. /\ driver.pc = "scratchpads" /\ driver'.pc = "command_ring" /\ driver'.dcbaa = driver.dcbaa
        /\ driver'.command = driver.command /\ Write("dcbaap", driver.dcbaa) /\ UNCHANGED pool
    BY <1>0, <1>11 DEF SetContexts, Step
  <2>2. driver.dcbaa \in A
    BY <1>0
  <2>3. ~hc.reset /\ ~hc.cnr /\ ~hc.op.run
    BY <2>1 DEF StartInv, Configuring
  <2>4. /\ hc'.reset = hc.reset /\ hc'.cnr = hc.cnr /\ hc'.bios = hc.bios /\ hc'.halted = hc.halted
        /\ hc'.op = Updated(hc.op, "dcbaap", driver.dcbaa)
    BY <1>0, <2>1, <2>2, <2>3, WriteAddress
  <2>a. hc'.op = [hc.op EXCEPT !.dcbaap = driver.dcbaa]
    BY <2>4, UpdatedFields
  <2>5. hc'.op = [Cleared EXCEPT !.slots = kDeviceSize, !.dcbaap = driver'.dcbaa]
    BY <2>1, <2>a DEF StartInv, Cleared, Configured
  <2> QED BY <2>1, <2>3, <2>4, <2>5 DEF StartInv, OrderStep, PastOwner, Configuring, Cleared
<1>12. CASE EnableInterrupts
  <2>1. /\ driver.pc = "interrupts" /\ driver'.pc = "run" /\ driver'.dcbaa = driver.dcbaa
        /\ driver'.command = driver.command /\ Write("interrupts", TRUE) /\ UNCHANGED pool
    BY <1>0, <1>12 DEF EnableInterrupts, Step
  <2>3. ~hc.reset /\ ~hc.cnr /\ ~hc.op.run
    BY <2>1 DEF StartInv, Configuring
  <2>4. /\ hc'.reset = hc.reset /\ hc'.cnr = hc.cnr /\ hc'.bios = hc.bios /\ hc'.halted = hc.halted
        /\ hc'.op = Updated(hc.op, "interrupts", TRUE)
    BY <1>0, <2>1, <2>3, WriteType
  <2>a. hc'.op = [hc.op EXCEPT !.interrupts = TRUE]
    BY <2>4, UpdatedFields
  <2>5. Configured' /\ hc'.op.run = FALSE
    <3>1. hc.op = [Cleared EXCEPT !.slots = kDeviceSize, !.dcbaap = driver.dcbaa,
                                  !.crcr = driver.command, !.erst = pool.last]
      BY <2>1 DEF StartInv
    <3>2. hc'.op = [Cleared EXCEPT !.interrupts = TRUE, !.slots = kDeviceSize,
                     !.dcbaap = driver.dcbaa, !.crcr = driver.command, !.erst = pool.last]
      BY <3>1, <2>a, OpEnabled
    <3>3. pool'.last = pool.last
      BY <2>1
    <3>4. hc'.op = Prepared(kDeviceSize, driver.dcbaa, driver.command, pool.last)
      BY <3>2 DEF Prepared
    <3>5. Prepared(kDeviceSize, driver.dcbaa, driver.command, pool.last).run = FALSE
      BY OpStopped
    <3>6. hc'.op.run = FALSE
      BY <3>4, <3>5, Zenon
    <3> QED BY <3>2, <3>3, <3>6, <2>1 DEF Configured
  <2>7. driver.dcbaa # Null /\ driver.command # Null /\ ~hc.bios /\ hc.halted
    BY <2>1 DEF StartInv, PastOwner, Configuring
  <2> QED BY <2>1, <2>3, <2>4, <2>5, <2>7 DEF StartInv, OrderStep, PastOwner, Configuring
<1>13. CASE Run
  <2>1. /\ driver.pc = "run" /\ driver'.pc = "wait_running" /\ driver'.dcbaa = driver.dcbaa
        /\ driver'.command = driver.command /\ Write("run", TRUE) /\ UNCHANGED pool
    BY <1>0, <1>13 DEF Run, Step
  <2>3. ~hc.reset /\ ~hc.cnr /\ ~hc.op.run
    BY <2>1 DEF StartInv, Configuring
  <2>4. /\ hc'.reset = hc.reset /\ hc'.cnr = hc.cnr /\ hc'.bios = hc.bios /\ hc'.halted = hc.halted
        /\ hc'.op = Updated(hc.op, "run", TRUE)
    BY <1>0, <2>1, <2>3, WriteType
  <2>a. hc'.op = [hc.op EXCEPT !.run = TRUE]
    BY <2>4, UpdatedFields
  <2>5. Configured /\ hc'.op.run
    BY <2>1, <2>a DEF StartInv, Cleared, Configured
  <2> QED BY <2>1, <2>3, <2>4, <2>5 DEF StartInv, OrderStep, PastOwner, Configuring, Cleared
<1>14. CASE SetScratchpads
  <2>1. /\ driver.pc = "contexts" /\ driver'.pc = "scratchpads" /\ driver'.dcbaa = driver.dcbaa
        /\ UNCHANGED hc
    BY <1>0, <1>14 DEF SetScratchpads
  <2> QED BY <2>1 DEF StartInv, OrderStep, PastOwner, Configuring
<1>15. CASE SetScratchpad
  <2>1. /\ driver.pc = "scratchpads" /\ driver'.pc = "scratchpads" /\ driver'.dcbaa = driver.dcbaa
        /\ UNCHANGED hc
    BY <1>0, <1>15 DEF SetScratchpad
  <2> QED BY <2>1 DEF StartInv, OrderStep, PastOwner, Configuring
<1>16. CASE SetCommandRing
  <2> DEFINE q == pool'
  <2>1. /\ driver.pc = "command_ring"
        /\ IF q.last = Null THEN driver' = [driver EXCEPT !.pc = "failed"] /\ UNCHANGED hc
           ELSE /\ driver' = [driver EXCEPT !.pc = "event_ring", !.command = q.last]
                /\ Write("crcr", q.last)
    BY <1>16 DEF SetCommandRing
  <2>2. ~hc.reset /\ ~hc.cnr /\ ~hc.op.run
    BY <2>1 DEF StartInv, Configuring
  <2>3. CASE q.last = Null
    <3>1. driver'.pc = "failed" /\ UNCHANGED hc
      BY <1>0, <2>1, <2>3
    <3> QED BY <2>1, <2>2, <3>1 DEF StartInv, OrderStep, PastOwner, Configuring
  <2>4. CASE q.last # Null
    <3>1. /\ driver'.pc = "event_ring" /\ driver'.dcbaa = driver.dcbaa
          /\ driver'.command = q.last
          /\ Write("crcr", q.last)
      BY <1>0, <2>1, <2>4
    <3>2. hc \in HostController(Addresses(q)) /\ q.last \in Addresses(q)
      <4>1. DriverType'
        BY InitializeType
      <4>2. pool.blocks \subseteq q.blocks
        BY <1>16, RingsGrow
      <4> QED BY <4>1, <4>2, PoolGrows DEF DriverType, PoolType
    <3>3. /\ hc'.reset = hc.reset /\ hc'.cnr = hc.cnr /\ hc'.bios = hc.bios
          /\ hc'.halted = hc.halted /\ hc'.op = Updated(hc.op, "crcr", q.last)
      <4> HIDE DEF q
      <4> QED BY <2>2, <3>1, <3>2, WriteAddress
    <3>a. hc'.op = [hc.op EXCEPT !.crcr = q.last]
      BY <3>3, UpdatedFields
    <3>4. hc'.op = [Cleared EXCEPT !.slots = kDeviceSize, !.dcbaap = driver'.dcbaa,
                                   !.crcr = driver'.command]
      BY <2>1, <3>1, <3>a DEF StartInv, Cleared
    <3> QED BY <2>1, <2>2, <2>4, <3>1, <3>3, <3>4
            DEF StartInv, OrderStep, PastOwner, Configuring, Cleared
  <2> QED BY <2>3, <2>4
<1>17. CASE SetEventRing
  <2> DEFINE q == pool'
  <2>1. /\ driver.pc = "event_ring"
        /\ IF q.last = Null THEN driver' = [driver EXCEPT !.pc = "failed"] /\ UNCHANGED hc
           ELSE /\ driver' = [driver EXCEPT !.pc = "interrupts", !.events = q.last]
                /\ Write("erst", q.last)
    BY <1>17 DEF SetEventRing
  <2>2. ~hc.reset /\ ~hc.cnr /\ ~hc.op.run
    BY <2>1 DEF StartInv, Configuring
  <2>3. CASE q.last = Null
    <3>1. driver'.pc = "failed" /\ UNCHANGED hc
      BY <1>0, <2>1, <2>3
    <3> QED BY <2>1, <2>2, <3>1 DEF StartInv, OrderStep, PastOwner, Configuring
  <2>4. CASE q.last # Null
    <3>1. /\ driver'.pc = "interrupts" /\ driver'.dcbaa = driver.dcbaa
          /\ driver'.command = driver.command
          /\ Write("erst", q.last)
      BY <1>0, <2>1, <2>4
    <3>2. hc \in HostController(Addresses(q)) /\ q.last \in Addresses(q)
      <4>1. DriverType'
        BY InitializeType
      <4>2. pool.blocks \subseteq q.blocks
        BY <1>17, RingsGrow
      <4> QED BY <4>1, <4>2, PoolGrows DEF DriverType, PoolType
    <3>3. /\ hc'.reset = hc.reset /\ hc'.cnr = hc.cnr /\ hc'.bios = hc.bios
          /\ hc'.halted = hc.halted /\ hc'.op = Updated(hc.op, "erst", q.last)
      <4> DEFINE B == Addresses(q)
      <4> DEFINE last == q.last
      <4>1. hc \in HostController(B) /\ last \in B /\ Write("erst", last)
        BY <3>1, <3>2
      <4> HIDE DEF q, B, last
      <4>2. /\ hc'.reset = hc.reset /\ hc'.cnr = hc.cnr /\ hc'.bios = hc.bios
            /\ hc'.halted = hc.halted /\ hc'.op = Updated(hc.op, "erst", last)
        BY <2>2, <4>1, WriteType
      <4> QED BY <4>2 DEF last
    <3>a. hc'.op = [hc.op EXCEPT !.erst = q.last]
      BY <3>3, UpdatedFields
    <3>4. hc'.op = [Cleared EXCEPT !.slots = kDeviceSize, !.dcbaap = driver'.dcbaa,
                                   !.crcr = driver'.command, !.erst = q.last]
      BY <2>1, <3>1, <3>a DEF StartInv, Cleared
    <3> QED BY <2>1, <2>2, <2>4, <3>1, <3>3, <3>4
            DEF StartInv, OrderStep, PastOwner, Configuring, Cleared
  <2> QED BY <2>3, <2>4
<1> QED BY <1>1, <1>2, <1>3, <1>4, <1>5, <1>6, <1>7, <1>8, <1>9, <1>10, <1>11, <1>12, <1>13, <1>14,
           <1>15, <1>16, <1>17 DEF XhciInitialize

\* The controller on its own keeps the order, whatever the driver is waiting for.
LEMMA ControllerOrder ==
  ASSUME DriverType, StartInv, Controller PROVE DriverType' /\ StartInv' /\ OrderStep
<1> DEFINE A == Addresses(pool)
<1>0. hc \in HostController(A) /\ UNCHANGED <<driver, pool>>
  BY DEF DriverType, Controller
<1>1. ASSUME hc' \in HostController(A) PROVE DriverType'
  BY <1>0, <1>1 DEF DriverType
<1> HIDE DEF A
<1>2. CASE BiosLetsGo
  <2>1. /\ hc' = [hc EXCEPT !.bios = FALSE] /\ hc.os
    BY <1>2 DEF BiosLetsGo
  <2>2. /\ hc' \in HostController(A) /\ ~hc'.bios /\ hc'.os = hc.os /\ hc'.halted = hc.halted
        /\ hc'.reset = hc.reset /\ hc'.cnr = hc.cnr /\ hc'.op = hc.op
    BY <1>0, <2>1 DEF HostController
  <2> QED BY <1>0, <1>1, <2>2 DEF StartInv, OrderStep, Configured
<1>3. CASE Stops
  <2>1. /\ hc' = [hc EXCEPT !.halted = TRUE] /\ ~hc.op.run /\ ~hc.halted
    BY <1>3 DEF Stops
  <2>2. /\ hc' \in HostController(A) /\ hc'.bios = hc.bios /\ hc'.os = hc.os /\ hc'.halted
        /\ hc'.reset = hc.reset /\ hc'.cnr = hc.cnr /\ hc'.op = hc.op /\ hc'.legacy = hc.legacy
    BY <1>0, <2>1 DEF HostController
  <2> QED BY <1>0, <1>1, <2>1, <2>2 DEF StartInv, OrderStep, Configured
<1>4. CASE Starts
  <2>1. /\ hc' = [hc EXCEPT !.halted = FALSE] /\ hc.op.run /\ hc.halted
    BY <1>4 DEF Starts
  <2>2. /\ hc' \in HostController(A) /\ hc'.bios = hc.bios /\ hc'.os = hc.os /\ ~hc'.halted
        /\ hc'.reset = hc.reset /\ hc'.cnr = hc.cnr /\ hc'.op = hc.op /\ hc'.legacy = hc.legacy
    BY <1>0, <2>1 DEF HostController
  <2> QED BY <1>0, <1>1, <2>1, <2>2 DEF StartInv, OrderStep, Configured
<1>5. CASE ResetsItself
  <2>1. PICK busy \in BOOLEAN :
          hc' = [hc EXCEPT !.reset = FALSE, !.cnr = busy, !.halted = TRUE, !.op = Cleared]
    BY <1>5 DEF ResetsItself
  <2>2. Cleared \in OperationalRegisters(A)
    BY <1>0 DEF Cleared, OperationalRegisters, A, Addresses, kDeviceSize
  <2> DEFINE op == Cleared
  <2> HIDE DEF op
  <2>3. hc' = [hc EXCEPT !.reset = FALSE, !.cnr = busy, !.halted = TRUE, !.op = op]
    BY <2>1 DEF op
  <2>4. /\ hc' \in HostController(A) /\ hc'.bios = hc.bios /\ hc'.os = hc.os /\ hc'.halted
        /\ ~hc'.reset /\ hc'.op = op /\ hc'.legacy = hc.legacy
    BY <1>0, <2>2, <2>3 DEF HostController, op
  <2>5. driver.pc = "wait_reset" /\ hc.reset
    BY <1>5 DEF StartInv, ResetsItself
  <2>6. ~op.run
    BY DEF op, Cleared
  <2> QED BY <1>0, <1>1, <2>4, <2>5, <2>6 DEF StartInv, OrderStep, PastOwner, Configuring, op
<1>6. CASE GetsReady
  <2>1. hc' = [hc EXCEPT !.cnr = FALSE]
    BY <1>6 DEF GetsReady
  <2>2. /\ hc' \in HostController(A) /\ hc'.bios = hc.bios /\ hc'.os = hc.os /\ hc'.halted = hc.halted
        /\ hc'.reset = hc.reset /\ ~hc'.cnr /\ hc'.op = hc.op /\ hc'.legacy = hc.legacy
    BY <1>0, <2>1 DEF HostController
  <2> QED BY <1>0, <1>1, <2>2 DEF StartInv, OrderStep, Configured
<1> QED BY <1>2, <1>3, <1>4, <1>5, <1>6 DEF Controller

\* What the driver allocates later leaves the controller alone.
LEMMA LaterOrder ==
  ASSUME DriverType, StartInv, AllocateLater PROVE DriverType' /\ StartInv' /\ OrderStep
<1>1. /\ driver.pc = "running" /\ UNCHANGED <<hc, driver>>
  BY DEF AllocateLater
<1>2. PICK size \in DeviceSizes, alignment \in {0, 64} :
        pool' = AllocMem(pool, size, alignment, IF alignment = 0 THEN 0 ELSE 4096)
  BY DEF AllocateLater
<1>3. size \in Nat \ {0}
  BY XhciStartAssumption
<1>4. PoolType(pool') /\ PoolSound(pool') /\ pool.blocks \subseteq pool'.blocks
  <2>1. CASE alignment = 0
    BY <1>2, <1>3, <2>1, AllocMemSound DEF DriverType, Placing
  <2>2. CASE alignment = 64
    BY <1>2, <1>3, <2>2, AllocMemSound DEF DriverType, Placing
  <2> QED BY <2>1, <2>2
<1>5. DriverType'
  <2> DEFINE q == pool'
  <2>1. PoolType(q) /\ PoolSound(q) /\ pool.blocks \subseteq q.blocks
    BY <1>4
  <2> HIDE DEF q
  <2>2. /\ hc \in HostController(Addresses(q))
        /\ driver \in [pc : Places, dcbaa : Addresses(q), pages : Nat,
                       command : Addresses(q), events : Addresses(q)]
    BY <2>1, PoolGrows
  <2> QED BY <1>1, <2>1, <2>2 DEF DriverType, q
<1>6. StartInv' /\ OrderStep
  BY <1>1 DEF StartInv, OrderStep, PastOwner, Configuring
<1> QED BY <1>5, <1>6

\* The controller that is chosen, with a pool of its own.
LEMMA ChosenOrder ==
  ASSUME DriverType, StartInv, driver.pc = "none",
         hc' \in Xhcs, driver' = NewDriver("devmgr"), pool' \in Pools
  PROVE  DriverType' /\ StartInv' /\ OrderStep
<1>1. PICK base \in PoolBases :
        pool' = [base |-> base, next |-> base, last |-> Null, blocks |-> {}]
  BY DEF Pools
<1>2. base \in Nat
  BY XhciStartAssumption
<1>3. PoolType(pool') /\ PoolSound(pool') /\ Addresses(pool') = {Null}
  BY <1>1, <1>2 DEF PoolType, PoolSound, Addresses, Null
<1> DEFINE A == Addresses(pool')
<1>4. PICK bios \in BOOLEAN, legacy \in BOOLEAN, halted \in BOOLEAN, n \in Scratchpads :
        hc' = [bios |-> bios /\ legacy, os |-> FALSE, legacy |-> legacy, halted |-> halted,
               reset |-> FALSE, cnr |-> FALSE, scratchpads |-> n,
               op |-> [Cleared EXCEPT !.run = ~halted]]
  BY DEF Xhcs
<1> DEFINE op == [Cleared EXCEPT !.run = ~halted]
<1>5. op \in OperationalRegisters(A) /\ op.run = ~halted
  <2> DEFINE run == ~halted
  <2>1. run \in BOOLEAN /\ Null \in A
    BY <1>3
  <2> HIDE DEF run, A
  <2> DEFINE cleared == Cleared
  <2>a. cleared \in OperationalRegisters(A)
    BY <2>1 DEF Cleared, OperationalRegisters, kDeviceSize
  <2> HIDE DEF cleared
  <2>b. /\ [cleared EXCEPT !.run = run] \in OperationalRegisters(A)
        /\ [cleared EXCEPT !.run = run].run = run
    BY <2>1, <2>a DEF OperationalRegisters
  <2> QED BY <2>b DEF run, cleared
<1> HIDE DEF op
<1>6. hc' = [bios |-> bios /\ legacy, os |-> FALSE, legacy |-> legacy, halted |-> halted,
             reset |-> FALSE, cnr |-> FALSE, scratchpads |-> n, op |-> op]
  BY <1>4 DEF op
<1>7. (bios /\ legacy) \in BOOLEAN
  OBVIOUS
<1>8. /\ hc' \in HostController(A) /\ hc'.bios = (bios /\ legacy) /\ ~hc'.os /\ hc'.legacy = legacy
      /\ hc'.halted = halted /\ ~hc'.reset /\ ~hc'.cnr /\ hc'.op = op
  <2> HIDE DEF A
  <2> QED BY <1>5, <1>6, <1>7 DEF HostController
<1>9. /\ driver' \in [pc : Places, dcbaa : A, pages : Nat, command : A, events : A]
      /\ driver'.pc = "devmgr"
  BY <1>3 DEF NewDriver, Places
<1>10. DriverType'
  BY <1>3, <1>8, <1>9 DEF DriverType
<1>11. StartInv' /\ OrderStep
  BY <1>5, <1>8, <1>9 DEF StartInv, OrderStep, PastOwner, Configuring
<1> QED BY <1>10, <1>11

\* Every step of the boot keeps the driver and its pool sound and the controller in
\* its order.
XhcInv == DriverType /\ StartInv
LEMMA XhcStart == Init => XhcInv
<1> SUFFICES ASSUME Init PROVE DriverType /\ StartInv
  BY DEF XhcInv
<1>1. /\ hc = [bios |-> FALSE, os |-> FALSE, legacy |-> FALSE, halted |-> TRUE, reset |-> FALSE,
               cnr |-> FALSE, scratchpads |-> 0, op |-> Cleared]
      /\ driver = NewDriver("none")
      /\ pool = [base |-> Null, next |-> Null, last |-> Null, blocks |-> {}]
  BY DEF Init
<1>2. PoolType(pool) /\ PoolSound(pool) /\ Addresses(pool) = {Null}
  BY <1>1 DEF PoolType, PoolSound, Addresses, Null
<1>3. Cleared \in OperationalRegisters(Addresses(pool))
  BY <1>2 DEF Cleared, OperationalRegisters, kDeviceSize
<1>4. hc \in HostController(Addresses(pool))
  BY <1>1, <1>3 DEF HostController
<1>5. /\ driver \in [pc : Places, dcbaa : Addresses(pool), pages : Nat,
                     command : Addresses(pool), events : Addresses(pool)]
      /\ driver.pc = "none"
  BY <1>1, <1>2 DEF NewDriver, Places
<1>6. DriverType
  BY <1>2, <1>4, <1>5 DEF DriverType
<1>7. StartInv
  BY <1>1, <1>5 DEF StartInv, PastOwner, Configuring
<1> QED BY <1>6, <1>7

LEMMA XhcStep ==
  ASSUME XhcInv, [Next]_vars
  PROVE  XhcInv' /\ (OrderStep \/ UNCHANGED <<hc, driver>>)
<1>0. DriverType /\ StartInv
  BY DEF XhcInv
<1>1. CASE UNCHANGED xhcVars
  BY <1>0, <1>1 DEF XhcInv, xhcVars, DriverType, StartInv, Configured
<1>2. CASE UNCHANGED vars
  BY <1>1, <1>2 DEF vars, xhcVars
<1>3. CASE Load \/ KernelMain \/ Initialize \/ ScanDevices \/ AcpiInitialize
             \/ WaitMilliseconds \/ Poll \/ InitializeLAPICTimer \/ InitializeTask
  BY <1>1, <1>3 DEF Load, KernelMain, Initialize, ScanDevices, AcpiInitialize, WaitMilliseconds,
                    Poll, InitializeLAPICTimer, InitializeTask
<1>4. CASE ChooseController
  <2>1. \/ UNCHANGED xhcVars
        \/ /\ driver.pc = "none" /\ hc' \in Xhcs /\ driver' = NewDriver("devmgr")
           /\ pool' \in Pools
    BY <1>4 DEF ChooseController, xhcVars
  <2> QED BY <1>0, <1>1, <2>1, ChosenOrder DEF XhcInv
<1>5. CASE StartController
  BY <1>0, <1>5, InitializeType, InitializeOrder DEF XhcInv, StartController
<1>6. CASE ControllerMoves
  BY <1>0, <1>6, ControllerOrder DEF XhcInv, ControllerMoves
<1>7. CASE Allocate
  BY <1>0, <1>7, LaterOrder DEF XhcInv, Allocate
<1>8. CASE ControllerStarted \/ NewTask \/ TimerInterrupt \/ XhciInterrupt \/ ReceiveInterruptXHCI
  BY <1>1, <1>8 DEF ControllerStarted, NewTask, TimerInterrupt, XhciInterrupt, ReceiveInterruptXHCI
<1> QED BY <1>2, <1>3, <1>4, <1>5, <1>6, <1>7, <1>8 DEF Next

\* What AllocMem hands out is in the pool, aligned, within its boundary and apart,
\* whatever is asked of it and in whatever order, and every address the controller
\* works with is that of such a block (usb/memory.cpp, Controller::Initialize).
THEOREM TheBlocksAreSound == Spec => []BlocksAreSound
<1>1. XhcInv => BlocksAreSound
  <2> SUFFICES ASSUME XhcInv PROVE BlocksAreSound
    OBVIOUS
  <2>1. PoolSound(pool) /\ hc \in HostController(Addresses(pool))
    BY DEF XhcInv, DriverType
  <2>2. hc \in HostController({b.at : b \in pool.blocks} \cup {Null})
    BY <2>1 DEF Addresses
  <2> QED BY <2>1, <2>2 DEF BlocksAreSound, PoolSound, IsPlaced
<1>2. XhcInv /\ [Next]_vars => XhcInv'
  BY XhcStep
<1> QED BY <1>1, <1>2, XhcStart, PTL DEF Spec

\* The controller is reset only when it is halted and the BIOS has let go of it, and
\* is started only with its slots, contexts, rings and interrupts in place: no register
\* was written while it could not take the value (the waits of Controller::Initialize).
THEOREM TheControllerStartsInOrder == Spec => StartsInOrder
<1>1. XhcInv /\ [Next]_vars =>
        [/\ hc'.reset /\ ~hc.reset => hc.halted /\ ~hc.bios
         /\ driver.pc = "run" /\ driver'.pc # "run" =>
              Configured /\ hc'.op.run /\ driver.dcbaa # Null /\ driver.command # Null]_<<hc, driver>>
  BY XhcStep DEF OrderStep
<1>2. XhcInv /\ [Next]_vars => XhcInv'
  BY XhcStep
<1> QED BY <1>1, <1>2, XhcStart, PTL DEF Spec, StartsInOrder


-----------------------------------------------------------------------------
(***************************************************************************)
(* The boot loader: its inductive invariant.                               *)
(***************************************************************************)
\* The two records have their fields, the maps have a type for each page.
ShapeInv ==
  /\ firmware = [types |-> firmware.types, key |-> firmware.key]
  /\ loader = [pc |-> loader.pc, map |-> loader.map, key |-> loader.key,
               kernel |-> loader.kernel, first |-> loader.first, pages |-> loader.pages,
               buffer |-> loader.buffer, volume |-> loader.volume,
               contents |-> loader.contents]
  /\ firmware.key \in Nat /\ loader.key \in Nat
  /\ firmware.types \in MemoryMap /\ loader.map \in MemoryMap

\* A key stands for one map, and once ExitBootServices has taken it the firmware
\* changes nothing any more.
KeyInv ==
  /\ loader.key <= firmware.key
  /\ loader.key = firmware.key => loader.map = firmware.types
  /\ loader.pc \in {"exited", "kernel"} => loader.key = firmware.key

\* What the loader has allocated is its own until it frees it.
Allocated(fw, pages) == \A p \in pages : p \in Page /\ fw.types[p] = "loader data"
KeptInv ==
  /\ Allocated(firmware, loader.pages) /\ Allocated(firmware, loader.volume)
  /\ Allocated(firmware, loader.buffer)
  /\ loader.buffer \cap (loader.pages \cup loader.volume) = {}

\* Where UefiMain is when the kernel's file is read, its pages are allocated and
\* its segments are copied.
Copied == {"read volume", "exit", "read map again", "exit again", "exited", "kernel"}
WholeInv ==
  /\ loader.pc \in {"allocate", "copy"} \cup Copied => loader.kernel \in Kernels
  /\ loader.pc \in {"copy"} \cup Copied =>
       \A h \in Loadable(loader.kernel), a \in Address :
         Covers(h, a) => PageOf(a) \in loader.pages
  /\ loader.pc \in Copied =>
       \A h \in Loadable(loader.kernel), a \in Address :
         Covers(h, a) => loader.contents[a] = SegmentAt(h, a)

LoaderInv == ShapeInv /\ KeyInv /\ KeptInv /\ WholeInv

-----------------------------------------------------------------------------
(***************************************************************************)
(* CalcLoadAddressRange and the pages of the kernel.                       *)
(***************************************************************************)
\* A set of natural numbers that is not empty has a least element.
LEMMA Least ==
  ASSUME NEW S, S \subseteq Nat, S # {}
  PROVE  \E x \in S : \A y \in S : x <= y
<1>1. PICK x \in S : \A y \in S : <<y, x>> \notin OpToRel(<, Nat)
  BY WFMin, NatLessThanWellFounded
<1>2. ASSUME NEW y \in S PROVE x <= y
  <2>1. <<y, x>> \notin {ss \in Nat \X Nat : ss[1] < ss[2]}
    BY <1>1 DEF OpToRel
  <2>2. x \in Nat /\ y \in Nat /\ ~(y < x)
    BY <2>1
  <2> QED BY <2>2
<1> QED BY <1>2

\* ... and a greatest, if it is bounded.
LEMMA Greatest ==
  ASSUME NEW S, S \subseteq Nat, S # {}, NEW bound \in Nat, \A y \in S : y <= bound
  PROVE  \E x \in S : \A y \in S : x >= y
<1> DEFINE T == {bound - y : y \in S}
<1>1. T \subseteq Nat /\ T # {}
  <2>1. \A y \in S : bound - y \in Nat
    OBVIOUS
  <2> QED BY <2>1
<1> HIDE DEF T
<1>2. PICK t \in T : \A u \in T : t <= u
  BY <1>1, Least
<1>3. PICK x \in S : t = bound - x
  BY DEF T
<1>4. ASSUME NEW y \in S PROVE x >= y
  <2>1. bound - y \in T
    BY DEF T
  <2>2. bound - x <= bound - y
    BY <1>2, <1>3, <2>1
  <2>3. x \in Nat /\ y \in Nat
    OBVIOUS
  <2> QED BY <2>2, <2>3
<1> QED BY <1>4

\* CalcLoadAddressRange: the range begins with the first segment and contains
\* every address of every segment.
LEMMA RangeCovers ==
  ASSUME NEW file \in Kernels
  PROVE  LET range == CalcLoadAddressRange(file) IN
         /\ range.first \in Nat /\ range.last \in Nat
         /\ \A h \in Loadable(file), a \in Address :
              Covers(h, a) => range.first <= a /\ a < range.last
<1> DEFINE firsts == {h.vaddr : h \in Loadable(file)}
           lasts == {h.vaddr + h.memsz : h \in Loadable(file)}
           range == CalcLoadAddressRange(file)
<1>0. kPage * Pages \in Nat
  BY LoaderAssumption
<1>1. \A h \in Loadable(file) :
        /\ h.vaddr \in Nat /\ h.memsz \in Nat /\ h.vaddr + h.memsz <= kPage * Pages
  BY LoaderAssumption DEF Loadable, Elf64_Ehdr, Elf64_Phdr
<1>2. firsts \subseteq Nat /\ lasts \subseteq Nat /\ firsts # {} /\ lasts # {}
  <2>1. Loadable(file) # {}
    BY LoaderAssumption DEF Loadable, Elf64_Ehdr, Elf64_Phdr
  <2> QED BY <1>1, <2>1
<1>3. \A y \in lasts : y <= kPage * Pages
  BY <1>1
<1>4. range.first = CHOOSE a \in firsts : \A h \in Loadable(file) : a <= h.vaddr
  BY DEF CalcLoadAddressRange
<1>5. range.last = CHOOSE a \in lasts : \A h \in Loadable(file) : a >= h.vaddr + h.memsz
  BY DEF CalcLoadAddressRange
<1>6. \E a \in firsts : \A h \in Loadable(file) : a <= h.vaddr
  <2>1. PICK x \in firsts : \A y \in firsts : x <= y
    BY <1>2, Least
  <2> QED BY <2>1
<1>7. \E a \in lasts : \A h \in Loadable(file) : a >= h.vaddr + h.memsz
  <2>1. PICK x \in lasts : \A y \in lasts : x >= y
    BY <1>0, <1>2, <1>3, Greatest
  <2> QED BY <2>1
<1> HIDE DEF firsts, lasts, range
<1>8. range.first \in firsts /\ \A h \in Loadable(file) : range.first <= h.vaddr
  BY <1>4, <1>6
<1>9. range.last \in lasts /\ \A h \in Loadable(file) : range.last >= h.vaddr + h.memsz
  BY <1>5, <1>7
<1>10. range.first \in Nat /\ range.last \in Nat
  BY <1>2, <1>8, <1>9
<1>11. ASSUME NEW h \in Loadable(file), NEW a \in Address, Covers(h, a)
       PROVE  range.first <= a /\ a < range.last
  <2>1. h.vaddr <= a /\ a < h.vaddr + h.memsz /\ a \in Nat
    BY <1>0, <1>1, <1>11 DEF Covers, Address
  <2> QED BY <1>1, <1>8, <1>9, <1>10, <2>1
<1> QED BY <1>10, <1>11 DEF range

\* Division by the size of a page.
LEMMA PageDivision ==
  ASSUME NEW a \in Nat
  PROVE  /\ PageOf(a) \in Nat /\ kPage * PageOf(a) \in Nat
         /\ kPage * PageOf(a) <= a /\ a < kPage * PageOf(a) + kPage
         /\ a % kPage = 0 => a = kPage * PageOf(a)
<1>1. kPage \in Nat /\ kPage > 0
  BY LoaderAssumption
<1>2. /\ PageOf(a) \in Nat /\ (a % kPage) \in 0 .. kPage - 1
      /\ a = kPage * PageOf(a) + (a % kPage)
  BY <1>1 DEF PageOf
<1>3. kPage * PageOf(a) \in Nat
  BY <1>1, <1>2
<1> QED BY <1>1, <1>2, <1>3

\* Multiples of the page are ordered as their factors.
LEMMA PageOrder ==
  ASSUME NEW m \in Int, NEW n \in Int
  PROVE  /\ m < n => kPage * m + kPage <= kPage * n
         /\ kPage * m < kPage * n => m < n
<1>1. kPage \in Nat /\ kPage > 0
  BY LoaderAssumption
<1>2. ASSUME m < n PROVE kPage * m + kPage <= kPage * n
  <2>1. n - m - 1 \in Nat
    BY <1>2
  <2>2. kPage * (n - m - 1) >= 0
    BY <1>1, <2>1
  <2>3. kPage * (n - m - 1) = kPage * n - kPage * m - kPage
    BY <1>1
  <2> QED BY <1>1, <2>2, <2>3
<1>3. ASSUME kPage * m < kPage * n PROVE m < n
  <2>1. CASE n <= m
    <3>1. m - n \in Nat
      BY <2>1
    <3>2. kPage * (m - n) >= 0
      BY <1>1, <3>1
    <3>3. kPage * (m - n) = kPage * m - kPage * n
      BY <1>1
    <3> QED BY <1>1, <1>3, <3>2, <3>3
  <2> QED BY <2>1
<1> QED BY <1>2, <1>3

\* The pages that AllocatePages asks for contain every address of the range.
LEMMA PagesCover ==
  ASSUME NEW first \in Nat, NEW last \in Nat, first % kPage = 0,
         NEW a \in Address, first <= a, a < last
  PROVE  LET range == [first |-> first, last |-> last] IN
         PageOf(a) \in {p \in Page : p >= PageOf(range.first)
                                     /\ p < PageOf(range.first) + NumPages(range)}
<1> DEFINE num == (last - first + kPage - 1) \div kPage
<1>1. kPage \in Nat /\ kPage > 0 /\ Pages \in Nat
  BY LoaderAssumption
<1>2. kPage * Pages \in Nat /\ a \in Nat /\ a < kPage * Pages
  BY <1>1 DEF Address
<1>3. PageOf(a) \in Nat /\ kPage * PageOf(a) <= a /\ a < kPage * PageOf(a) + kPage
  BY <1>2, PageDivision
<1>4. PageOf(first) \in Nat /\ first = kPage * PageOf(first)
  BY PageDivision
<1>5. num \in Nat /\ last - first <= kPage * num
  <2>1. last - first + kPage - 1 \in Nat
    BY <1>1, <1>2
  <2>2. PageOf(last - first + kPage - 1) = num
    BY DEF PageOf
  <2> HIDE DEF num
  <2>3. /\ num \in Nat /\ kPage * num \in Nat
        /\ last - first + kPage - 1 < kPage * num + kPage
    BY <2>1, <2>2, PageDivision
  <2> QED BY <1>1, <2>3
<1> HIDE DEF num
<1>6. PageOf(a) < Pages
  BY <1>1, <1>2, <1>3, PageOrder
<1>7. PageOf(first) <= PageOf(a)
  <2>1. kPage * (PageOf(a) + 1) = kPage * PageOf(a) + kPage
    BY <1>1, <1>3
  <2>2. kPage * PageOf(first) < kPage * (PageOf(a) + 1)
    <3>1. kPage * PageOf(a) \in Nat
      BY <1>2, PageDivision
    <3>2. first < kPage * PageOf(a) + kPage
      BY <1>1, <1>2, <1>3, <3>1
    <3> QED BY <1>4, <2>1, <3>2
  <2>3. PageOf(first) < PageOf(a) + 1
    BY <1>3, <1>4, <2>2, PageOrder
  <2> QED BY <1>3, <1>4, <2>3
<1>8. PageOf(a) < PageOf(first) + num
  <2>1. kPage * (PageOf(first) + num) = kPage * PageOf(first) + kPage * num
    BY <1>1, <1>4, <1>5
  <2>2. kPage * PageOf(a) \in Nat /\ kPage * num \in Nat
    BY <1>1, <1>3, <1>5
  <2>3. kPage * PageOf(a) < kPage * (PageOf(first) + num)
    BY <1>2, <1>3, <1>4, <1>5, <2>1, <2>2
  <2> QED BY <1>3, <1>4, <1>5, <2>3, PageOrder
<1>9. PageOf(a) \in Page
  BY <1>1, <1>3, <1>6 DEF Page
<1> QED BY <1>7, <1>8, <1>9 DEF NumPages, num

\* CopyLoadSegments puts every segment in memory: segments lie apart, so there is
\* one for each address.
LEMMA CopyIsWhole ==
  ASSUME NEW file \in Kernels, NEW contents, NEW h \in Loadable(file),
         NEW a \in Address, Covers(h, a)
  PROVE  CopyLoadSegments(contents, file)[a] = SegmentAt(h, a)
<1>1. ASSUME NEW g \in Loadable(file), Covers(g, a) PROVE g = h
  <2>1. /\ g.vaddr \in Nat /\ g.memsz \in Nat /\ h.vaddr \in Nat /\ h.memsz \in Nat
        /\ g # h => g.vaddr + g.memsz <= h.vaddr \/ h.vaddr + h.memsz <= g.vaddr
    BY LoaderAssumption DEF Loadable, Elf64_Ehdr, Elf64_Phdr
  <2>2. a \in Int
    BY LoaderAssumption DEF Address
  <2> QED BY <1>1, <2>1, <2>2 DEF Covers
<1>2. (CHOOSE g \in Loadable(file) : Covers(g, a)) = h
  BY <1>1
<1> QED BY <1>2 DEF CopyLoadSegments

-----------------------------------------------------------------------------
(***************************************************************************)
(* The invariant is inductive.                                             *)
(***************************************************************************)
\* The start: nothing is allocated, and the map has its first key.
LEMMA LoaderInvInit == LoaderInit => LoaderInv
BY DEF LoaderInit, LoaderInv, ShapeInv, KeyInv, KeptInv, Allocated, WholeInv, NewLoader,
       NewMap, MemoryMap, MemoryType, NoPages, Copied

\* A change of the firmware's map: the new key, and the pages it leaves alone.
LEMMA RetypedMap ==
  ASSUME ShapeInv, NEW pages, NEW type \in MemoryType, firmware' = Retyped(pages, type)
  PROVE  /\ firmware' = [types |-> firmware'.types, key |-> firmware'.key]
         /\ firmware'.key \in Nat /\ firmware'.key = firmware.key + 1
         /\ firmware'.types \in MemoryMap
         /\ \A p \in Page : firmware'.types[p] = IF p \in pages THEN type ELSE firmware.types[p]
BY DEF ShapeInv, Retyped, MemoryMap

\* The types that the steps give to pages.
LEMMA Types == "loader data" \in MemoryType /\ Free \in MemoryType /\ "boot services" \in MemoryType
BY DEF MemoryType

\* A step that changes the loader's pc only, or to that and the map.
LEMMA QuietStep ==
  ASSUME LoaderInv, UNCHANGED firmware,
         NEW pc \in {"open", "read kernel", "halted", "exited", "read map again", "kernel"},
         loader' = Moves(pc),
         pc \in {"read map again", "exited", "kernel"} => loader.pc \in Copied,
         pc \in {"exited", "kernel"} => loader.key = firmware.key
  PROVE  LoaderInv'
<1>1. /\ loader'.pc = pc /\ loader'.map = loader.map /\ loader'.key = loader.key
      /\ loader'.kernel = loader.kernel /\ loader'.pages = loader.pages
      /\ loader'.buffer = loader.buffer /\ loader'.volume = loader.volume
      /\ loader'.contents = loader.contents
  BY DEF LoaderInv, ShapeInv, Moves
<1>2. ShapeInv'
  BY DEF LoaderInv, ShapeInv, Moves
<1>3. KeyInv'
  BY <1>1 DEF LoaderInv, KeyInv
<1>4. KeptInv'
  BY <1>1 DEF LoaderInv, KeptInv, Allocated
<1>5. WholeInv'
  BY <1>1 DEF LoaderInv, WholeInv, Copied
<1> QED BY <1>2, <1>3, <1>4, <1>5 DEF LoaderInv

\* The map that is read comes with its key.
LEMMA ReadKey ==
  ASSUME LoaderInv, UNCHANGED firmware, loader'.key = firmware.key,
         loader'.map = firmware.types, loader'.pc \notin {"exited", "kernel"}
  PROVE  KeyInv'
<1>1. firmware.key \in Nat
  BY DEF LoaderInv, ShapeInv
<1> QED BY <1>1 DEF KeyInv

\* A step that reads the map.
LEMMA MapReadStep ==
  ASSUME LoaderInv, UNCHANGED firmware, NEW pc \in {"open", "exit again"},
         loader' = MapRead(pc), pc = "exit again" => loader.pc \in Copied
  PROVE  LoaderInv'
<1>1. /\ loader'.pc = pc /\ loader'.map = firmware.types /\ loader'.key = firmware.key
      /\ loader'.kernel = loader.kernel /\ loader'.pages = loader.pages
      /\ loader'.buffer = loader.buffer /\ loader'.volume = loader.volume
      /\ loader'.contents = loader.contents
  BY DEF LoaderInv, ShapeInv, MapRead
<1>2. ShapeInv'
  BY DEF LoaderInv, ShapeInv, MapRead
<1>3. KeyInv'
  BY <1>1, ReadKey
<1>4. KeptInv'
  BY <1>1 DEF LoaderInv, KeptInv, Allocated
<1>5. WholeInv'
  BY <1>1 DEF LoaderInv, WholeInv, Copied
<1> QED BY <1>2, <1>3, <1>4, <1>5 DEF LoaderInv

\* A step in which the firmware's map changes gives it a key of its own.
LEMMA NewKey ==
  ASSUME LoaderInv, firmware'.key = firmware.key + 1, loader'.key = loader.key,
         loader'.pc \notin {"exited", "kernel"}
  PROVE  KeyInv'
<1>1. firmware.key \in Nat /\ loader.key \in Nat /\ loader.key <= firmware.key
  BY DEF LoaderInv, ShapeInv, KeyInv
<1> QED BY <1>1 DEF KeyInv

\* Pages that were allocated stay so when free ones are allocated.
LEMMA AllocatedStays ==
  ASSUME ShapeInv, NEW pages, pages \subseteq FreePages,
         firmware' = Retyped(pages, "loader data"), NEW own, Allocated(firmware, own)
  PROVE  /\ Allocated(firmware', own) /\ own \cap pages = {}
         /\ \A p \in pages : p \in Page /\ firmware'.types[p] = "loader data"
BY RetypedMap, Types DEF Allocated, FreePages, Free

\* ReadKernel: a buffer is allocated.
LEMMA ReadKernelStep == LoaderInv /\ ReadKernel => LoaderInv'
<1> SUFFICES ASSUME LoaderInv, ReadKernel PROVE LoaderInv'
  OBVIOUS
<1>1. CASE Halts /\ UNCHANGED firmware
  BY <1>1, QuietStep DEF Halts
<1>2. ASSUME NEW file \in Kernels, NEW p \in FreePages,
             firmware' = Retyped({p}, "loader data"),
             loader' = [Moves("allocate") EXCEPT !.kernel = file, !.buffer = {p}]
      PROVE  LoaderInv'
  <2>1. ShapeInv
    BY DEF LoaderInv
  <2>2. /\ loader'.pc = "allocate" /\ loader'.map = loader.map /\ loader'.key = loader.key
        /\ loader'.kernel = file /\ loader'.pages = loader.pages
        /\ loader'.buffer = {p} /\ loader'.volume = loader.volume
    BY <1>2, <2>1 DEF ShapeInv, Moves
  <2>3. ShapeInv'
    BY <1>2, <2>1, RetypedMap, Types DEF ShapeInv, Moves
  <2>4. KeyInv'
    BY <1>2, <2>1, <2>2, RetypedMap, Types, NewKey
  <2>5. KeptInv'
    <3>1. Allocated(firmware', loader.pages) /\ loader.pages \cap {p} = {}
      BY <1>2, <2>1, AllocatedStays DEF LoaderInv, KeptInv
    <3>2. Allocated(firmware', loader.volume) /\ loader.volume \cap {p} = {}
      BY <1>2, <2>1, AllocatedStays DEF LoaderInv, KeptInv
    <3>3. p \in Page /\ firmware'.types[p] = "loader data"
      BY <1>2, <2>1, RetypedMap, Types DEF FreePages
    <3> QED BY <2>2, <3>1, <3>2, <3>3 DEF KeptInv, Allocated
  <2>6. WholeInv'
    BY <1>2, <2>2 DEF WholeInv, Copied
  <2> QED BY <2>3, <2>4, <2>5, <2>6 DEF LoaderInv
<1> QED BY <1>1, <1>2 DEF ReadKernel

\* AllocatePages: pages for the range of the segments.
LEMMA AllocatePagesStep == LoaderInv /\ AllocatePages => LoaderInv'
<1> SUFFICES ASSUME LoaderInv, AllocatePages PROVE LoaderInv'
  OBVIOUS
<1>0. loader.kernel \in Kernels
  BY DEF LoaderInv, WholeInv, AllocatePages, At
<1>1. CASE Halts /\ UNCHANGED firmware
  BY <1>1, QuietStep DEF Halts
<1> DEFINE range == CalcLoadAddressRange(loader.kernel)
           pages == {p \in Page : p >= PageOf(range.first)
                                 /\ p < PageOf(range.first) + NumPages(range)}
<1>2. ASSUME range.first % kPage = 0, pages \subseteq FreePages,
             firmware' = Retyped(pages, "loader data"),
             loader' = [Moves("copy") EXCEPT !.first = range.first, !.pages = pages]
      PROVE  LoaderInv'
  <2>1. ShapeInv
    BY DEF LoaderInv
  <2>2. ASSUME NEW h \in Loadable(loader.kernel), NEW a \in Address, Covers(h, a)
        PROVE  PageOf(a) \in pages
    <3>1. range.first \in Nat /\ range.last \in Nat /\ range.first <= a /\ a < range.last
      BY <1>0, <2>2, RangeCovers
    <3>2. range = [first |-> range.first, last |-> range.last]
      BY DEF CalcLoadAddressRange
    <3> HIDE DEF range
    <3> QED BY <1>2, <3>1, <3>2, PagesCover
  <2> HIDE DEF range, pages
  <2>3. /\ loader'.pc = "copy" /\ loader'.map = loader.map /\ loader'.key = loader.key
        /\ loader'.kernel = loader.kernel /\ loader'.pages = pages
        /\ loader'.buffer = loader.buffer /\ loader'.volume = loader.volume
    BY <1>2, <2>1 DEF ShapeInv, Moves
  <2>4. ShapeInv'
    BY <1>2, <2>1, RetypedMap, Types DEF ShapeInv, Moves
  <2>5. KeyInv'
    BY <1>2, <2>1, <2>3, RetypedMap, Types, NewKey
  <2>6. KeptInv'
    <3>1. Allocated(firmware', loader.buffer) /\ loader.buffer \cap pages = {}
      BY <1>2, <2>1, AllocatedStays DEF LoaderInv, KeptInv
    <3>2. Allocated(firmware', loader.volume)
      BY <1>2, <2>1, AllocatedStays DEF LoaderInv, KeptInv
    <3>3. \A p \in pages : p \in Page /\ firmware'.types[p] = "loader data"
      BY <1>2, <2>1, RetypedMap, Types DEF FreePages
    <3>4. loader.buffer \cap loader.volume = {}
      BY DEF LoaderInv, KeptInv
    <3> QED BY <2>3, <3>1, <3>2, <3>3, <3>4 DEF KeptInv, Allocated
  <2>7. WholeInv'
    BY <1>0, <2>2, <2>3 DEF WholeInv, Copied
  <2> QED BY <2>4, <2>5, <2>6, <2>7 DEF LoaderInv
<1> QED BY <1>1, <1>2 DEF AllocatePages

\* Copy: the segments are in memory, and the buffer is given back.
LEMMA CopyStep == LoaderInv /\ Copy => LoaderInv'
<1> SUFFICES ASSUME LoaderInv, Copy PROVE LoaderInv'
  OBVIOUS
<1>1. ShapeInv /\ loader.pc = "copy" /\ loader.kernel \in Kernels
  BY DEF LoaderInv, WholeInv, Copy, At
<1>2. firmware' = Retyped(loader.buffer, Free)
  BY DEF Copy
<1>3. /\ loader'.pc = "read volume" /\ loader'.map = loader.map /\ loader'.key = loader.key
      /\ loader'.kernel = loader.kernel /\ loader'.pages = loader.pages
      /\ loader'.buffer = {} /\ loader'.volume = loader.volume
      /\ loader'.contents = CopyLoadSegments(loader.contents, loader.kernel)
  BY <1>1 DEF Copy, ShapeInv, Moves, NoPages
<1>4. ShapeInv'
  BY <1>1, <1>2, RetypedMap, Types DEF Copy, ShapeInv, Moves
<1>5. KeyInv'
  BY <1>1, <1>2, <1>3, RetypedMap, Types, NewKey
<1>6. KeptInv'
  <2>1. /\ \A p \in loader.pages \cup loader.volume : p \in Page /\ firmware.types[p] = "loader data"
        /\ loader.buffer \cap (loader.pages \cup loader.volume) = {}
    BY DEF LoaderInv, KeptInv, Allocated
  <2>2. \A p \in loader.pages \cup loader.volume : p \in Page /\ firmware'.types[p] = "loader data"
    <3>1. \A p \in Page : p \notin loader.buffer => firmware'.types[p] = firmware.types[p]
      BY <1>1, <1>2, RetypedMap, Types
    <3> QED BY <2>1, <3>1
  <2> QED BY <1>3, <2>2 DEF KeptInv, Allocated
<1>7. WholeInv'
  <2>1. \A h \in Loadable(loader.kernel), a \in Address :
          Covers(h, a) => loader'.contents[a] = SegmentAt(h, a)
    <3>1. ASSUME NEW h \in Loadable(loader.kernel), NEW a \in Address, Covers(h, a)
          PROVE  CopyLoadSegments(loader.contents, loader.kernel)[a] = SegmentAt(h, a)
      BY <1>1, <3>1, CopyIsWhole
    <3> QED BY <1>3, <3>1
  <2>2. \A h \in Loadable(loader.kernel), a \in Address : Covers(h, a) => PageOf(a) \in loader.pages
    BY <1>1 DEF LoaderInv, WholeInv
  <2> QED BY <1>1, <1>3, <2>1, <2>2 DEF WholeInv
<1> QED BY <1>4, <1>5, <1>6, <1>7 DEF LoaderInv

\* ReadVolume: the volume gets pages of its own.
LEMMA ReadVolumeStep == LoaderInv /\ ReadVolume => LoaderInv'
<1> SUFFICES ASSUME LoaderInv, ReadVolume PROVE LoaderInv'
  OBVIOUS
<1>1. CASE Halts /\ UNCHANGED firmware
  BY <1>1, QuietStep DEF Halts
<1>2. ASSUME NEW p \in FreePages, firmware' = Retyped({p}, "loader data"),
             loader' = [Moves("exit") EXCEPT !.volume = {p}]
      PROVE  LoaderInv'
  <2>1. ShapeInv
    BY DEF LoaderInv
  <2>2. /\ loader'.pc = "exit" /\ loader'.map = loader.map /\ loader'.key = loader.key
        /\ loader'.kernel = loader.kernel /\ loader'.pages = loader.pages
        /\ loader'.buffer = loader.buffer /\ loader'.volume = {p}
        /\ loader'.contents = loader.contents
    BY <1>2, <2>1 DEF ShapeInv, Moves
  <2>3. ShapeInv'
    BY <1>2, <2>1, RetypedMap, Types DEF ShapeInv, Moves
  <2>4. KeyInv'
    BY <1>2, <2>1, <2>2, RetypedMap, Types, NewKey
  <2>5. KeptInv'
    <3>1. Allocated(firmware', loader.pages)
      BY <1>2, <2>1, AllocatedStays DEF LoaderInv, KeptInv
    <3>2. Allocated(firmware', loader.buffer) /\ loader.buffer \cap {p} = {}
      BY <1>2, <2>1, AllocatedStays DEF LoaderInv, KeptInv
    <3>3. p \in Page /\ firmware'.types[p] = "loader data"
      BY <1>2, <2>1, RetypedMap, Types DEF FreePages
    <3>4. loader.buffer \cap loader.pages = {}
      BY DEF LoaderInv, KeptInv
    <3> QED BY <2>2, <3>1, <3>2, <3>3, <3>4 DEF KeptInv, Allocated
  <2>6. WholeInv'
    <3>1. loader.pc = "read volume"
      BY DEF ReadVolume, At
    <3> QED BY <2>2, <3>1 DEF LoaderInv, WholeInv, Copied
  <2> QED BY <2>3, <2>4, <2>5, <2>6 DEF LoaderInv
<1> QED BY <1>1, <1>2 DEF ReadVolume

\* The firmware leaves alone what was allocated, and has nothing to say once it
\* is left.
LEMMA FirmwareStep == LoaderInv /\ FirmwareChanges => LoaderInv'
<1> SUFFICES ASSUME LoaderInv, FirmwareChanges PROVE LoaderInv'
  OBVIOUS
<1>1. PICK p \in Page, type \in {Free, "boot services"} :
        /\ firmware.types[p] \in {Free, "boot services"} \ {type}
        /\ firmware' = Retyped({p}, type)
  BY DEF FirmwareChanges
<1>2. ShapeInv /\ loader' = loader /\ loader.pc \notin {"exited", "kernel"}
  BY DEF LoaderInv, FirmwareChanges
<1>0. type \in MemoryType
  BY Types
<1>3. ShapeInv'
  BY <1>0, <1>1, <1>2, RetypedMap DEF ShapeInv
<1>4. KeyInv'
  BY <1>0, <1>1, <1>2, RetypedMap, NewKey
<1>5. KeptInv'
  <2>1. \A q \in Page : firmware.types[q] = "loader data" => firmware'.types[q] = "loader data"
    <3>1. firmware.types[p] # "loader data"
      BY <1>1 DEF Free
    <3>2. \A q \in Page : firmware'.types[q] = IF q \in {p} THEN type ELSE firmware.types[q]
      BY <1>0, <1>1, <1>2, RetypedMap
    <3> QED BY <3>1, <3>2
  <2> QED BY <1>2, <2>1 DEF LoaderInv, KeptInv, Allocated
<1>6. WholeInv'
  BY <1>2 DEF LoaderInv, WholeInv
<1> QED BY <1>3, <1>4, <1>5, <1>6 DEF LoaderInv

\* Every step keeps the invariant.
LEMMA LoaderInvStep == LoaderInv /\ [LoaderNext]_<<firmware, loader>> => LoaderInv'
<1> SUFFICES ASSUME LoaderInv, [LoaderNext]_<<firmware, loader>> PROVE LoaderInv'
  OBVIOUS
<1>1. CASE GetMemoryMap
  BY <1>1, MapReadStep, QuietStep DEF GetMemoryMap, Halts
<1>2. CASE Open
  BY <1>2, QuietStep DEF Open, SaveMemoryMap
<1>3. CASE ExitBootServices
  <2>1. loader.pc \in Copied
    BY <1>3 DEF ExitBootServices, At, Copied
  <2> QED BY <1>3, <2>1, QuietStep DEF ExitBootServices
<1>4. CASE ReadMapAgain
  <2>1. loader.pc \in Copied
    BY <1>4 DEF ReadMapAgain, At, Copied
  <2> QED BY <1>4, <2>1, MapReadStep, QuietStep DEF ReadMapAgain, Halts
<1>5. CASE ExitAgain
  <2>1. loader.pc \in Copied
    BY <1>5 DEF ExitAgain, At, Copied
  <2> QED BY <1>5, <2>1, QuietStep DEF ExitAgain
<1>6. CASE EnterKernel
  <2>1. loader.pc \in Copied /\ loader.key = firmware.key
    BY <1>6 DEF EnterKernel, At, Copied, LoaderInv, KeyInv
  <2> QED BY <1>6, <2>1, QuietStep DEF EnterKernel
<1>7. CASE UNCHANGED <<firmware, loader>>
  BY <1>7 DEF LoaderInv, ShapeInv, KeyInv, KeptInv, WholeInv
<1> QED BY <1>1, <1>2, <1>3, <1>4, <1>5, <1>6, <1>7, ReadKernelStep, AllocatePagesStep,
           CopyStep, ReadVolumeStep, FirmwareStep DEF LoaderNext

-----------------------------------------------------------------------------
(***************************************************************************)
(* The boot loader: its theorems.                                          *)
(***************************************************************************)
\* UefiMain keeps the invariant, however the firmware's memory map changes
\* between and in its calls.
THEOREM LoaderInvariant == LoaderSpec => []LoaderInv
<1> QED BY LoaderInvInit, LoaderInvStep, PTL DEF LoaderSpec

LEMMA LoaderInvGives == LoaderInv => KernelIsLoaded
<1> SUFFICES ASSUME LoaderInv, loader.pc = "kernel"
             PROVE  loader.map \in MemoryMap /\ LoadedIsKept /\ KernelIsWhole
  BY DEF KernelIsLoaded
<1>1. loader.map = firmware.types
  BY DEF LoaderInv, KeyInv
<1>2. \A p \in loader.pages \cup loader.volume : loader.map[p] = "loader data"
  BY <1>1 DEF LoaderInv, KeptInv, Allocated
<1>3. (loader.pages \cup loader.volume) \cap AvailableToKernel = {}
  BY <1>2 DEF AvailableToKernel, Free
<1>4. KernelIsWhole
  BY DEF LoaderInv, WholeInv, Copied, KernelIsWhole
<1> QED BY <1>1, <1>3, <1>4 DEF LoadedIsKept, LoaderInv, ShapeInv

\* Until KernelMain forgets it, the loader keeps its invariant.
HandedOverInv == LoaderInv \/ loader.pc = "gone"

\* When UefiMain calls the kernel's entry point, the map that it passes on is the
\* firmware's last one, no page of the kernel or of the volume is free in it, and
\* every segment is in memory as in the file, for every size of a page and of
\* memory and every kernel.
THEOREM KernelIsLoadedHolds == Spec => []KernelIsLoaded
<1>1. Init => HandedOverInv
  BY LoaderInvInit DEF Init, HandedOverInv
<1>2. ASSUME HandedOverInv, [Next]_vars PROVE HandedOverInv'
  <2>1. ASSUME LoaderNext PROVE LoaderInv'
    <3>1. loader.pc # "gone"
      BY <2>1 DEF LoaderNext, GetMemoryMap, Open, ReadKernel, AllocatePages, Copy, ReadVolume,
                  ExitBootServices, ReadMapAgain, ExitAgain, EnterKernel, FirmwareChanges, At
    <3> QED BY <1>2, <2>1, <3>1, LoaderInvStep DEF HandedOverInv
  <2>2. ASSUME UNCHANGED <<firmware, loader>> PROVE HandedOverInv'
    <3>1. CASE LoaderInv
      BY <2>2, <3>1, LoaderInvStep DEF HandedOverInv
    <3>2. CASE loader.pc = "gone"
      BY <2>2, <3>2 DEF HandedOverInv
    <3> QED BY <1>2, <3>1, <3>2 DEF HandedOverInv
  <2>3. CASE UNCHANGED vars
    BY <2>2, <2>3 DEF vars
  <2>4. CASE Load
    BY <2>1, <2>4 DEF Load, HandedOverInv
  <2>5. CASE KernelMain
    BY <2>5 DEF KernelMain, NewLoader, HandedOverInv
  <2>6. CASE Initialize \/ ScanDevices \/ InitializeLAPICTimer \/ ControllerMoves
    BY <2>2, <2>6 DEF Initialize, ScanDevices, InitializeLAPICTimer, ControllerMoves, Elsewhere
  <2>7. CASE AcpiInitialize \/ WaitMilliseconds \/ Poll \/ InitializeTask
    BY <2>2, <2>7 DEF AcpiInitialize, WaitMilliseconds, Poll, InitializeTask, Elsewhere
  <2>8. CASE ChooseController \/ StartController \/ ControllerStarted \/ NewTask
    BY <2>2, <2>8 DEF ChooseController, StartController, ControllerStarted, NewTask, Elsewhere
  <2>9. CASE TimerInterrupt \/ XhciInterrupt \/ ReceiveInterruptXHCI \/ Allocate
    BY <2>2, <2>9 DEF TimerInterrupt, XhciInterrupt, ReceiveInterruptXHCI, Allocate, Elsewhere
  <2> QED BY <1>2, <2>3, <2>4, <2>5, <2>6, <2>7, <2>8, <2>9 DEF Next
<1>3. HandedOverInv => KernelIsLoaded
  BY LoaderInvGives DEF HandedOverInv, KernelIsLoaded
<1> QED BY <1>1, <1>2, <1>3, PTL DEF Spec
=============================================================================
