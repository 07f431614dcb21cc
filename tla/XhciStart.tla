----------------------------- MODULE XhciStart -----------------------------
(***************************************************************************)
(* How the driver takes over the xHC and starts it (RequestHCOwnership,    *)
(* Controller::Initialize and Run in usb/xhci/xhci.cpp), out of a pool of  *)
(* memory that is never given back (usb/memory.cpp).                       *)
(*                                                                         *)
(* The controller works on its own: it takes time to stop, to reset itself *)
(* and to start, the BIOS takes time to let go, and what is written into   *)
(* the operational registers before it is ready is lost.  Addresses and    *)
(* sizes are those of the code, in bytes.                                  *)
(***************************************************************************)
EXTENDS Integers, FiniteSets

CONSTANTS
  PoolBases,       \* addresses the pool may have, 64-byte aligned
  Scratchpads,     \* the numbers of scratchpad buffers an xHC may ask for
  DeviceSizes,     \* sizeof(Device), sizeof(HIDKeyboardDriver), ...
  MaxBlocks        \* bound: blocks in use when more are allocated

kMemoryPoolSize == 4096 * 32
kDeviceSize == 8
Null == 0

ASSUME XhciStartAssumption ==
  /\ \A base \in PoolBases : base \in Nat \ {Null} /\ base % 64 = 0
  /\ Scratchpads \subseteq 0 .. 1023
  /\ DeviceSizes \subseteq Nat \ {0}

VARIABLES
  hc,      \* the controller: semaphores, status and operational registers
  driver,  \* [pc, dcbaa, pages, command, events]: where Initialize is, what it allocated,
           \* scratchpad buffers yet to allocate
  pool     \* [base, next, last, blocks]: alloc_ptr, the address that AllocMem
           \* returned last and everything it handed out

(***************************************************************************)
(* AllocMem.                                                               *)
(***************************************************************************)
Ceil(value, alignment) == ((value + alignment - 1) \div alignment) * alignment
Aligned(at, alignment) == IF alignment > 0 THEN Ceil(at, alignment) ELSE at

Within(at, size, boundary) ==
  IF boundary > 0 /\ Ceil(at, boundary) < at + size THEN Ceil(at, boundary) ELSE at

Handed(p, at, size, alignment, boundary) ==
  IF p.base + kMemoryPoolSize < at + size THEN [p EXCEPT !.next = at, !.last = Null]
  ELSE [p EXCEPT !.next = at + size, !.last = at,
                 !.blocks = @ \cup {[at |-> at, size |-> size, alignment |-> alignment,
                                     boundary |-> boundary]}]

\* A change of the code, which BlocksAreSound notices: the boundary is looked for
\* before the alignment.
AllocMemBoundaryFirst(p, size, alignment, boundary) ==
  CHOOSE q \in {Handed(t, Aligned(Within(t.next, size, boundary), alignment), size,
                       alignment, boundary) : t \in {p}} : TRUE

AllocMem(p, size, alignment, boundary) ==
  CHOOSE q \in {Handed(t, Within(Aligned(t.next, alignment), size, boundary), size,
                       alignment, boundary) : t \in {p}} : TRUE

\* AllocArray of num_obj objects of so many bytes.
AllocArray(p, size, num_obj, alignment, boundary) ==
  AllocMem(p, size * num_obj, alignment, boundary)

(***************************************************************************)
(* The controller.                                                         *)
(***************************************************************************)
\* The registers with what the driver reads of them, addresses among the given.
OperationalRegisters(addresses) ==
  [run : BOOLEAN, interrupts : BOOLEAN, slots : 0 .. kDeviceSize, dcbaap : addresses,
   crcr : addresses, erst : addresses]
HostController(addresses) ==
  [bios : BOOLEAN, os : BOOLEAN, legacy : BOOLEAN, scratchpads : Scratchpads \cup {0},
   halted : BOOLEAN, reset : BOOLEAN, cnr : BOOLEAN, op : OperationalRegisters(addresses)]
Cleared == [run |-> FALSE, interrupts |-> FALSE, slots |-> 0, dcbaap |-> Null,
            crcr |-> Null, erst |-> Null]
Write(register, value) ==
  hc' = IF hc.reset \/ hc.cnr THEN hc ELSE [hc EXCEPT !.op[register] = value]

BiosLetsGo == hc.bios /\ hc.os /\ hc' = [hc EXCEPT !.bios = FALSE]
Stops == ~hc.op.run /\ ~hc.halted /\ hc' = [hc EXCEPT !.halted = TRUE]
Starts == hc.op.run /\ hc.halted /\ hc' = [hc EXCEPT !.halted = FALSE]
ResetsItself ==
  /\ hc.reset
  /\ \E busy \in BOOLEAN :
       hc' = [hc EXCEPT !.reset = FALSE, !.cnr = busy, !.halted = TRUE, !.op = Cleared]
GetsReady == hc.cnr /\ hc' = [hc EXCEPT !.cnr = FALSE]

Controller ==
  /\ BiosLetsGo \/ Stops \/ Starts \/ ResetsItself \/ GetsReady
  /\ UNCHANGED <<driver, pool>>

(***************************************************************************)
(* The driver.                                                             *)
(***************************************************************************)
Step(from, to) == driver.pc = from /\ driver' = [driver EXCEPT !.pc = to]

\* DeviceManager::Initialize.
DeviceManagerInitialize ==
  /\ driver.pc = "devmgr"
  /\ \E p \in {AllocArray(AllocArray(pool, 8, kDeviceSize + 1, 0, 0),
                        8, kDeviceSize + 1, 64, 4096)} :
       /\ pool' = p
       /\ driver' = [driver EXCEPT !.pc = IF p.last = Null THEN "failed" ELSE "own",
                                  !.dcbaa = p.last]
  /\ UNCHANGED hc

\* RequestHCOwnership, when the xHC has the capability.
RequestHCOwnership ==
  /\ Step("own", IF hc.legacy /\ ~hc.os THEN "wait_owned" ELSE "stop")
  /\ hc' = [hc EXCEPT !.os = hc.legacy]
  /\ UNCHANGED pool
Owned == Step("wait_owned", "stop") /\ ~hc.bios /\ hc.os /\ UNCHANGED <<hc, pool>>

\* A change of the code, which BootEnds notices: run_stop is not cleared.
StopForgotten ==
  /\ Step("stop", "wait_halted")
  /\ hc' = [hc EXCEPT !.op.interrupts = FALSE]
  /\ UNCHANGED pool
Stop ==
  /\ Step("stop", "wait_halted")
  /\ hc' = [hc EXCEPT !.op.interrupts = FALSE, !.op.run = @ /\ hc.halted]
  /\ UNCHANGED pool
Halted == Step("wait_halted", "reset") /\ hc.halted /\ UNCHANGED <<hc, pool>>

Reset ==
  /\ Step("reset", "wait_reset")
  /\ hc' = [hc EXCEPT !.reset = TRUE]
  /\ UNCHANGED pool
ResetDone == Step("wait_reset", "wait_ready") /\ ~hc.reset /\ UNCHANGED <<hc, pool>>

\* A change of the code, which StartsInOrder notices: it does not wait for
\* controller_not_ready.
ReadyAtOnce == Step("wait_ready", "slots") /\ UNCHANGED <<hc, pool>>
Ready == Step("wait_ready", "slots") /\ ~hc.cnr /\ UNCHANGED <<hc, pool>>

SetSlots ==
  /\ Step("slots", "contexts") /\ Write("slots", kDeviceSize) /\ UNCHANGED pool

\* The array of scratchpad buffers goes to the first device context, a page into
\* each of its elements; that AllocMem may return null is not looked at.
SetScratchpads ==
  /\ driver.pc = "contexts"
  /\ driver' = [driver EXCEPT !.pc = "scratchpads", !.pages = hc.scratchpads]
  /\ pool' = IF hc.scratchpads = 0 THEN pool ELSE AllocArray(pool, 8, hc.scratchpads, 64, 4096)
  /\ UNCHANGED hc
SetScratchpad ==
  /\ driver.pc = "scratchpads" /\ driver.pages > 0
  /\ driver' = [driver EXCEPT !.pages = @ - 1]
  /\ pool' = AllocMem(pool, 4096, 4096, 4096)
  /\ UNCHANGED hc
SetContexts ==
  /\ Step("scratchpads", "command_ring") /\ driver.pages = 0
  /\ Write("dcbaap", driver.dcbaa) /\ UNCHANGED pool

RingBuffer(p) == AllocArray(p, 16, 32, 64, 64 * 1024)
SetCommandRing ==
  /\ driver.pc = "command_ring"
  /\ \E p \in {RingBuffer(pool)} :
       /\ pool' = p
       /\ IF p.last = Null THEN driver' = [driver EXCEPT !.pc = "failed"] /\ UNCHANGED hc
          ELSE /\ driver' = [driver EXCEPT !.pc = "event_ring", !.command = p.last]
               /\ Write("crcr", p.last)
SetEventRing ==
  /\ driver.pc = "event_ring"
  /\ \E p \in {AllocArray(RingBuffer(pool), 16, 1, 64, 64 * 1024)} :
       /\ pool' = p
       /\ IF p.last = Null THEN driver' = [driver EXCEPT !.pc = "failed"] /\ UNCHANGED hc
          ELSE /\ driver' = [driver EXCEPT !.pc = "interrupts", !.events = p.last]
               /\ Write("erst", p.last)

EnableInterrupts ==
  /\ Step("interrupts", "run") /\ Write("interrupts", TRUE) /\ UNCHANGED pool
Run ==
  /\ Step("run", "wait_running") /\ Write("run", TRUE) /\ UNCHANGED pool
Running == Step("wait_running", "running") /\ ~hc.halted /\ UNCHANGED <<hc, pool>>

\* Devices, rings and class drivers, once it runs (DeviceManager::AllocDevice,
\* Device::AllocTransferRing, HIDKeyboardDriver::operator new).
AllocateLater ==
  /\ driver.pc = "running"
  /\ \E size \in DeviceSizes, alignment \in {0, 64} :
       pool' = AllocMem(pool, size, alignment, IF alignment = 0 THEN 0 ELSE 4096)
  /\ Cardinality(pool.blocks) < MaxBlocks
  /\ UNCHANGED <<hc, driver>>

\* The controllers and pools that Initialize may begin with.
Xhcs ==
  {[bios |-> bios /\ legacy, os |-> FALSE, legacy |-> legacy, halted |-> halted,
    reset |-> FALSE, cnr |-> FALSE, scratchpads |-> n,
    op |-> [Cleared EXCEPT !.run = ~halted]] :
   bios \in BOOLEAN, legacy \in BOOLEAN, halted \in BOOLEAN, n \in Scratchpads}
Pools == {[base |-> base, next |-> base, last |-> Null, blocks |-> {}] : base \in PoolBases}
NewDriver(pc) == [pc |-> pc, dcbaa |-> Null, pages |-> 0, command |-> Null, events |-> Null]

XhciInitialize ==
  \/ DeviceManagerInitialize \/ RequestHCOwnership \/ Owned \/ Stop \/ Halted
  \/ Reset \/ ResetDone \/ Ready \/ SetSlots
  \/ SetScratchpads \/ SetScratchpad \/ SetContexts
  \/ SetCommandRing \/ SetEventRing \/ EnableInterrupts \/ Run \/ Running

(***************************************************************************)
(* Properties.                                                             *)
(***************************************************************************)
Configured ==
  hc.op = [Cleared EXCEPT !.interrupts = TRUE, !.slots = kDeviceSize, !.dcbaap = driver.dcbaa,
                          !.crcr = driver.command, !.erst = pool.last]

\* The controller is reset only when it is halted, by its owner, and is started
\* with everything it needs (the waits of Controller::Initialize).
StartsInOrder ==
  [][/\ hc'.reset /\ ~hc.reset => hc.halted /\ ~hc.bios
     /\ driver.pc = "run" /\ driver'.pc # "run" =>
          Configured /\ hc'.op.run /\ driver.dcbaa # Null /\ driver.command # Null]_<<hc, driver>>

\* What AllocMem hands out is in the pool, aligned, apart, and within its
\* boundary if it is no larger (memory.hpp); the controller works on such blocks.
BlocksAreSound ==
  /\ \A b \in pool.blocks :
       /\ b.at >= pool.base /\ b.at + b.size <= pool.base + kMemoryPoolSize
       /\ b.alignment > 0 => b.at % b.alignment = 0
       /\ b.boundary > 0 /\ b.size <= b.boundary =>
            b.at \div b.boundary = (b.at + b.size - 1) \div b.boundary
  /\ hc \in HostController({b.at : b \in pool.blocks} \cup {Null})
  /\ \A b, c \in pool.blocks : b # c => b.at + b.size <= c.at \/ c.at + c.size <= b.at
=============================================================================
