-------------------------------- MODULE Boot --------------------------------
(***************************************************************************)
(* From the boot loader to the main loop: KernelMainNewStack               *)
(* (kernel/main.cpp) with the steps it takes in order, the interrupts that *)
(* arrive once they are on, and the tasks that run in between.             *)
(*                                                                         *)
(* Loader, Pci and XhciStart model the longer steps; the wait for the PM   *)
(* timer, by which the LAPIC timer is measured (acpi.cpp), is here.  What  *)
(* the hardware is like is chosen when the code first looks at it, and     *)
(* forgotten when the code has no use for it any more.                     *)
(***************************************************************************)
EXTENDS Loader, Pci, XhciStart

CONSTANTS
  AcpiTables,  \* [rsdp, xsdt, entries]: what the firmware may leave; an entry is a
               \* FADT if its signature says so, .wide: bit 8 of its flags
  PmPeriods,   \* [TRUE |-> 2^32, FALSE |-> 2^24] ticks, scaled down
  kWait,       \* ticks of 100 milliseconds
  PollTicks,   \* bound: ticks between two reads of the PM timer
  EndMissed    \* may the wait end in the last PollTicks of a period?  The code
               \* may then see none of them and wait another period

\* The tables, with what the kernel reads of them; sums are those of all bytes, of
\* the RSDP of the first 20 and of all 36.
RSDP == [signature : {"RSD PTR ", "other"}, revision : Nat, sum20 : 0 .. 255, sum36 : 0 .. 255]
DescriptionHeader(signatures) == [signature : signatures, sum : 0 .. 255, wide : BOOLEAN]
ASSUME AcpiAssumption ==
  \A tables \in AcpiTables :
    /\ tables.rsdp \in RSDP /\ tables.xsdt \in DescriptionHeader({"XSDT", "other"})
    /\ \A k \in DOMAIN tables.entries :
         tables.entries[k] \in DescriptionHeader({"FACP", "APIC", "other"})

ASSUME BootAssumption ==
  /\ PmPeriods \in [BOOLEAN -> Nat \ {0}] /\ PmPeriods[TRUE] % PmPeriods[FALSE] = 0
  /\ kWait \in Nat \ {0} /\ PollTicks \in Nat \ {0} /\ kWait + 2 * PollTicks <= PmPeriods[FALSE]
  /\ EndMissed \in BOOLEAN

VARIABLES
  kernel,  \* [step, ready, missed]: the number of the step, what is initialised,
           \* and what somebody used before it was
  cpu,     \* [enabled, timer, told, terminal]: the interrupt flag, is the LAPIC timer
           \* running, has the main task a message of the xHC, the terminal's task
  bus,     \* [space, found, msi, routed]: the PCI devices, what the scan found, the
           \* xHC's MSI capability, do its ports get the EHCI's devices
  pm       \* [pc, wide, start, now, elapsed]: the PM timer and WaitMilliseconds

vars == <<firmware, loader, hc, driver, pool, kernel, cpu, bus, pm>>
kernelVars == <<kernel, cpu, bus, pm>>
xhcVars == <<hc, driver, pool>>

(***************************************************************************)
(* The steps, with what each uses and what it initialises.  A short one is *)
(* one action; some of them may exit(1).                                   *)
(***************************************************************************)
ShortStep(name, uses, gives, fails) ==
  [name |-> name, uses |-> uses, gives |-> gives, fails |-> fails, long |-> FALSE]
LongStep(name, uses, gives) ==
  [name |-> name, uses |-> uses, gives |-> gives, fails |-> TRUE, long |-> TRUE]

InitializeGraphics == ShortStep("InitializeGraphics", {"frame_buffer"},
                                  {"screen"}, TRUE)
InitializeConsole == ShortStep("InitializeConsole", {"screen"}, {"console"}, FALSE)
InitializeSegmentation == ShortStep("InitializeSegmentation", {}, {"gdt"}, FALSE)
InitializePaging == ShortStep("InitializePaging", {}, {"page_tables"}, FALSE)
InitializeMemoryManager == ShortStep("InitializeMemoryManager", {"memory_map", "console"},
                                       {"frames", "heap"}, TRUE)
InitializeTSS == ShortStep("InitializeTSS", {"frames", "gdt"}, {"tss"}, TRUE)
InitializeInterrupt == ShortStep("InitializeInterrupt", {"gdt"}, {"idt"}, FALSE)
FatInitialize == ShortStep("FatInitialize", {"volume"}, {"files"}, FALSE)
InitializeFont == ShortStep("InitializeFont", {"files", "heap"}, {"font"}, TRUE)
InitializeLayer == ShortStep("InitializeLayer", {"screen", "console", "heap"},
                               {"layers", "active_layer", "layer_tasks"}, TRUE)
InitializeWindows == ShortStep("InitializeWindows", {"layers", "heap"},
                                 {"windows"}, FALSE)
AddTimer == ShortStep("AddTimer", {"timers"}, {}, FALSE)
InitializeSyscall == ShortStep("InitializeSyscall", {"gdt"}, {"syscalls"}, FALSE)
InitializeKeyboard == ShortStep("InitializeKeyboard", {}, {"keyboard_observer"}, FALSE)
InitializeMouse == ShortStep("InitializeMouse", {"layers", "active_layer", "heap"},
                               {"mouse_observer", "mouse_layer"}, FALSE)

Steps ==
  <<InitializeGraphics, InitializeConsole, InitializeSegmentation, InitializePaging,
    InitializeMemoryManager, InitializeTSS, InitializeInterrupt, FatInitialize, InitializeFont,
    LongStep("InitializePCI", {"console"}, {"devices"}), InitializeLayer, InitializeWindows,
    LongStep("acpi_Initialize", {"acpi_table", "console"}, {"fadt"}),
    LongStep("InitializeLAPICTimer", {"fadt", "heap"}, {"timers"}), AddTimer, InitializeSyscall,
    LongStep("InitializeTask", {"timers", "heap"}, {"tasks"}),
    LongStep("xhci_Initialize", {"devices", "heap"}, {"xhc"}),
    InitializeKeyboard, InitializeMouse,
    LongStep("NewTask", {"tasks", "heap"}, {"app_loads"}),
    LongStep("main_loop", {"tasks", "timers", "windows", "layers"}, {})>>

StepName ==
  CASE kernel.step = 0 -> "loader" [] kernel.step > Len(Steps) -> "exit"
    [] OTHER -> Steps[kernel.step].name
Uses(things) == things \ kernel.ready
Misses(things) == [kernel EXCEPT !.missed = @ \cup Uses(things)]

\* One step is done: what it needed, what it leaves.
Done(step) ==
  kernel' = [step |-> kernel.step + 1, ready |-> kernel.ready \cup step.gives,
             missed |-> kernel.missed \cup Uses(step.uses)]
Fails == kernel' = [kernel EXCEPT !.step = Len(Steps) + 1]     \* exit(1)

\* The handlers are the code that interrupts run (IntHandlerLAPICTimer,
\* IntHandlerXHCI); the task of the terminal is TaskTerminal.
TimerHandler == {"idt", "tss", "page_tables", "timers", "tasks"}
XhciHandler == {"idt", "page_tables", "tasks"}
TaskTerminal == {"layers", "active_layer", "mouse_layer", "layer_tasks", "files", "font", "app_loads"}
ProcessEvents == {"xhc", "keyboard_observer", "mouse_observer"}

(***************************************************************************)
(* The loader.                                                             *)
(***************************************************************************)
Load ==
  /\ StepName = "loader"
  /\ LoaderNext
  /\ UNCHANGED <<kernelVars, xhcVars>>
KernelMain ==
  /\ StepName = "loader" /\ loader.pc = "kernel"
  /\ kernel' = [kernel EXCEPT !.step = 1,
                  !.ready = {"frame_buffer", "memory_map", "volume", "acpi_table"}]
  /\ firmware' = [types |-> NewMap, key |-> 0]
  /\ loader' = NewLoader("gone", NewMap)
  /\ UNCHANGED <<cpu, bus, pm, xhcVars>>

(***************************************************************************)
(* The steps that are only steps, and InitializePCI.                       *)
(***************************************************************************)
Elsewhere == UNCHANGED <<firmware, loader>>
\* What is still of use of the devices.
Useful(b) ==
  [b EXCEPT !.space = <<>>,
            !.found.devices = IF b.space = <<>> THEN @ ELSE HostControllers(b.space, @)]
Initialize ==
  /\ StepName \notin {"loader", "exit"} /\ ~Steps[kernel.step].long
  /\ \/ Done(Steps[kernel.step])
     \/ Steps[kernel.step].fails /\ Fails
  /\ bus' = Useful(bus)
  /\ UNCHANGED <<cpu, pm, xhcVars>> /\ Elsewhere

ScanDevices ==
  /\ StepName = "InitializePCI"
  /\ \E space \in Spaces : \E found \in {ScanAllBus(space)} :
       /\ bus' = [bus EXCEPT !.space = space, !.found = found]
       /\ IF found.full THEN Fails ELSE Done(Steps[kernel.step])
  /\ UNCHANGED <<cpu, pm, xhcVars>> /\ Elsewhere

(***************************************************************************)
(* ACPI and the LAPIC timer.                                               *)
(***************************************************************************)
\* RSDP::IsValid
RsdpIsValid(rsdp) ==
  /\ rsdp.signature = "RSD PTR " /\ rsdp.revision = 2
  /\ rsdp.sum20 = 0 /\ rsdp.sum36 = 0
\* DescriptionHeader::IsValid
IsValid(table, expected_signature) ==
  table.signature = expected_signature /\ table.sum = 0
Fadts(entries) == {k \in DOMAIN entries : IsValid(entries[k], "FACP")}
AcpiInitialize ==
  /\ StepName = "acpi_Initialize"
  /\ \E tables \in AcpiTables :
       IF /\ RsdpIsValid(tables.rsdp) /\ IsValid(tables.xsdt, "XSDT")
          /\ Fadts(tables.entries) # {}
       THEN \E fadt \in Fadts(tables.entries) :
              /\ \A k \in Fadts(tables.entries) : fadt <= k
              /\ pm' = [pm EXCEPT !.wide = tables.entries[fadt].wide]
              /\ Done(Steps[kernel.step])
       ELSE Fails /\ UNCHANGED pm
  /\ UNCHANGED <<cpu, bus, xhcVars>> /\ Elsewhere

Period == PmPeriods[pm.wide]
\* `end` has 32 bits, and 24 when the timer has.
End == (pm.start + kWait) % Period
\* A change of the code, which WaitIsLongEnough notices: it does not wait for the
\* timer to go round.
WaitBeginsAtEnd(start, end) == "until_end"
WaitBegins(start, end) == IF end < start THEN "until_wrap" ELSE "until_end"

WaitMilliseconds ==
  /\ StepName = "InitializeLAPICTimer" /\ pm.pc = "idle"
  /\ \E start \in 0 .. Period - 1 :
       /\ EndMissed \/ (start + kWait) % Period <= Period - PollTicks
       /\ pm' = [pm EXCEPT !.pc = WaitBegins(start, (start + kWait) % Period),
                           !.start = start, !.now = start]
  /\ UNCHANGED <<kernel, cpu, bus, xhcVars>> /\ Elsewhere

\* One read of the timer.
Poll ==
  /\ pm.pc \in {"until_wrap", "until_end"}
  /\ \E ticks \in 1 .. PollTicks : \E now \in {(pm.now + ticks) % Period} :
       pm' = [pm EXCEPT !.now = now, !.elapsed = IF @ < kWait + 2 * PollTicks THEN @ + ticks ELSE @,
                !.pc = CASE @ = "until_wrap" -> IF now >= pm.start THEN @ ELSE "until_end"
                         [] @ = "until_end" -> IF now < End THEN @ ELSE "measured"]
  /\ UNCHANGED <<kernel, cpu, bus, xhcVars>> /\ Elsewhere

InitializeLAPICTimer ==
  /\ pm.pc = "measured"
  /\ Done(Steps[kernel.step])
  /\ cpu' = [cpu EXCEPT !.timer = TRUE]
  /\ pm' = [pm EXCEPT !.pc = "idle", !.now = 0, !.start = 0, !.elapsed = 0, !.wide = FALSE]
  /\ UNCHANGED <<bus, xhcVars>> /\ Elsewhere

(***************************************************************************)
(* Tasks, the xHC and the main loop.                                       *)
(***************************************************************************)
\* A change of the code, which FindsInitialised notices: interrupts are on before
\* the task manager is there.
InitializeTaskEnablesFirst ==
  /\ StepName = "InitializeTask"
  /\ Done(Steps[kernel.step]) \/ kernel' = kernel
  /\ cpu' = [cpu EXCEPT !.enabled = TRUE]
  /\ UNCHANGED <<bus, pm, xhcVars>> /\ Elsewhere

InitializeTask ==
  /\ StepName = "InitializeTask"
  /\ Done(Steps[kernel.step])
  /\ cpu' = [cpu EXCEPT !.enabled = TRUE]
  /\ UNCHANGED <<bus, pm, xhcVars>> /\ Elsewhere

\* usb::xhci::Initialize, which drops the error of ConfigureMSIFixedDestination.
ChooseController ==
  /\ StepName = "xhci_Initialize" /\ driver.pc = "none"
  /\ \E xhc \in {ChooseXhc(bus.found.devices)} :
       IF xhc = {} THEN Fails /\ UNCHANGED <<bus, xhcVars>>
       ELSE \E x \in xhc :
              /\ bus' = [bus EXCEPT !.msi = ConfigureMSI(x, 0), !.found = Scan,
                           !.routed = SwitchEhci2Xhci(x, bus.found.devices)]
              /\ hc' \in Xhcs /\ driver' = NewDriver("devmgr") /\ pool' \in Pools
              /\ UNCHANGED kernel
  /\ UNCHANGED <<cpu, pm>> /\ Elsewhere
StartController ==
  /\ StepName = "xhci_Initialize"
  /\ XhciInitialize
  /\ UNCHANGED kernelVars /\ Elsewhere
ControllerStarted ==
  /\ StepName = "xhci_Initialize"
  /\ \/ driver.pc = "running" /\ Done(Steps[kernel.step])
     \/ driver.pc = "failed" /\ Fails
  /\ UNCHANGED <<cpu, bus, pm, xhcVars>> /\ Elsewhere
ControllerMoves == Controller /\ UNCHANGED kernelVars /\ Elsewhere

NewTask ==
  /\ StepName = "NewTask"
  /\ Done(Steps[kernel.step])
  /\ cpu' = [cpu EXCEPT !.terminal = "ready"]
  /\ UNCHANGED <<bus, pm, xhcVars>> /\ Elsewhere

\* The interrupts, in the steps as in the main loop; that of the timer may switch
\* to the terminal.
TimerInterrupt ==
  /\ cpu.enabled /\ cpu.timer /\ StepName # "exit"
  /\ \/ kernel' = Misses(TimerHandler) /\ UNCHANGED cpu
     \/ /\ cpu.terminal = "ready"
        /\ kernel' = Misses(TimerHandler \cup TaskTerminal)
        /\ cpu' = [cpu EXCEPT !.terminal = "running"]
  /\ UNCHANGED <<bus, pm, xhcVars>> /\ Elsewhere
XhciInterrupt ==
  /\ cpu.enabled /\ bus.msi.msi_enable /\ hc.op.interrupts /\ ~hc.halted /\ StepName # "exit"
  /\ kernel' = Misses(XhciHandler)
  /\ cpu' = [cpu EXCEPT !.told = TRUE]
  /\ UNCHANGED <<bus, pm, xhcVars>> /\ Elsewhere

ReceiveInterruptXHCI ==
  /\ StepName = "main_loop" /\ cpu.told
  /\ kernel' = Misses(ProcessEvents)
  /\ cpu' = [cpu EXCEPT !.told = FALSE]
  /\ UNCHANGED <<bus, pm, xhcVars>> /\ Elsewhere
Allocate == StepName = "main_loop" /\ AllocateLater /\ UNCHANGED kernelVars /\ Elsewhere

Init ==
  /\ LoaderInit
  /\ hc = [bios |-> FALSE, os |-> FALSE, legacy |-> FALSE, halted |-> TRUE, reset |-> FALSE,
           cnr |-> FALSE, scratchpads |-> 0, op |-> Cleared]
  /\ driver = NewDriver("none")
  /\ pool = [base |-> Null, next |-> Null, last |-> Null, blocks |-> {}]
  /\ kernel = [step |-> 0, ready |-> {}, missed |-> {}]
  /\ cpu = [enabled |-> FALSE, timer |-> FALSE, told |-> FALSE, terminal |-> "none"]
  /\ bus = [space |-> <<>>, found |-> Scan, msi |-> Disabled, routed |-> FALSE]
  /\ pm = [pc |-> "idle", wide |-> FALSE, start |-> 0, now |-> 0, elapsed |-> 0]

Next ==
  \/ Load \/ KernelMain \/ Initialize \/ ScanDevices \/ AcpiInitialize
  \/ WaitMilliseconds \/ Poll \/ InitializeLAPICTimer \/ InitializeTask
  \/ ChooseController \/ StartController \/ ControllerStarted \/ ControllerMoves
  \/ NewTask \/ TimerInterrupt \/ XhciInterrupt \/ ReceiveInterruptXHCI \/ Allocate

\* Nobody stands still for ever: the processor runs, and the controller and the
\* BIOS answer.
Spec == Init /\ [][Next]_vars /\ WF_vars(Next)

(***************************************************************************)
(* Properties.                                                             *)
(***************************************************************************)
\* Every function that can be reached is in the table once, or the table is full
\* and the boot stops (ScanAllBus).
AllDevicesFound ==
  bus.space # <<>> /\ Numbered(bus.space) =>
    LET reached == Reached(bus.space, RootBuses(bus.space))
    IN  /\ bus.found.full <=> Cardinality(reached) > kMaxDevices
        /\ ~bus.found.full =>
             /\ {bus.found.devices[k] : k \in DOMAIN bus.found.devices} = reached
             /\ Len(bus.found.devices) = Cardinality(reached)

\* WaitMilliseconds takes as long as it says, to two reads of the timer, whether
\* the timer has 24 or 32 bits and wherever it stands.
WaitIsLongEnough ==
  pm.pc = "measured" => pm.elapsed \in kWait .. kWait + 2 * PollTicks - 1

\* No step, no handler and no task uses what is not initialised yet
\* (KernelMainNewStack's order, and the place where interrupts are enabled).
FindsInitialised == kernel.missed = {}

\* The boot ends in the main loop or in one of its exits (the waits of
\* WaitMilliseconds, RequestHCOwnership, Controller::Initialize and Run).
BootEnds == <>(loader.pc = "halted" \/ StepName \in {"exit", "main_loop"})
=============================================================================
