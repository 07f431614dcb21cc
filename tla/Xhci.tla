-------------------------------- MODULE Xhci --------------------------------
(***************************************************************************)
(* The USB stack from the ports of the xHCI controller to the class        *)
(* drivers (usb/xhci/xhci.cpp with its devices and rings): the main task   *)
(* configures the ports that are connected, then handles the events the    *)
(* controller puts into the event ring, each time an interrupt handler     *)
(* sends it a message.                                                     *)
(*                                                                         *)
(* The controller and the bus are external: they run between any two steps *)
(* of the main task, devices come and go, and transfers may fail.  An event*)
(* is handled and popped in one step: only the rings and the registers are *)
(* shared, and a handler reads each of those at most once before it writes *)
(* it.                                                                     *)
(***************************************************************************)
EXTENDS Rings, UsbDevice
SE == INSTANCE SequencesExt

CONSTANTS
  kPorts,        \* ports of the root hub
  kDeviceSize,   \* device slots (8 in the code)
  kCommandRing,  \* TRBs of the command ring (32 in the code)
  kEventRing,    \* TRBs of the event ring (32 in the code)
  Descriptors,   \* Descriptors[p]: the configuration of the device for port p
  Unreliable,    \* the ports whose devices are unplugged or fail
  MaxFaults      \* bound: devices unplugged and transfers failed

Port == 1 .. kPorts
Slot == 0 .. kDeviceSize
NoPort == 0

ASSUME PortAssumption ==
  /\ kPorts \in Nat \ {0} /\ kDeviceSize \in Nat \ {0}
  /\ Unreliable \subseteq Port
\* An interface has as many endpoints after it as it says (the reader would go on
\* behind the buffer), a keyboard or a mouse one or two.
ASSUME DescriptorAssumption ==
  \A p \in Port :
    /\ \A i \in DOMAIN Descriptors[p] : Descriptors[p][i] \in Descriptor
    /\ \A i \in Driven(Descriptors[p]) :
         Cardinality({j \in DOMAIN Descriptors[p] :
                        j > i /\ Descriptors[p][j].kind = "endpoint"})
           >= Descriptors[p][i].num_endpoints
    /\ Driven(Descriptors[p]) # {} => NumClassDrivers(Descriptors[p]) \in 1 .. 2
\* The driver never asks whether the command ring has room; it has more TRBs than
\* ports can have commands.
ASSUME RingAssumption ==
  /\ kCommandRing \in Nat /\ kCommandRing >= 3 /\ kCommandRing > kPorts
  /\ kEventRing \in Nat /\ kEventRing >= 2
ASSUME TableAssumption == kSetupStages \in Nat /\ kWaiters \in Nat /\ MaxFaults \in Nat

ConfigPhase == {"kNotConnected", "kWaitingAddressed", "kResettingPort", "kEnablingSlot",
  "kAddressingDevice", "kInitializingDevice", "kConfiguringEndpoints", "kConfigured"}

VARIABLES
  port_config_phase,
  addressing_port,   \* the port between reset and address, or NoPort
  devices_,          \* DeviceManager: the devices of the slots that have one
  cr_,               \* the command ring
  er_,               \* the event ring
  main,              \* where the main task is: Initialize, its wait for a
                     \* message, or the loop of ProcessEvents
  next_port,         \* the loop variable of Initialize
  message,           \* is a kInterruptXHCI waiting?  (more are like one)
  \* external
  bus,               \* the device at each port
  portsc,            \* the port status and control registers
  owed,              \* ports whose change event is not in the ring yet
  slots,             \* slots the controller has enabled
  ipe,               \* an event came since the last interrupt
  event_handler_busy, \* set by the interrupt, cleared with ERDP
  faults

driver == <<port_config_phase, addressing_port, devices_, main, next_port>>
hub == <<bus, portsc, owed>>
interrupter == <<message, ipe, event_handler_busy>>
vars == <<driver, hub, interrupter, cr_, er_, slots, faults>>

Endpoints == [p \in Port |-> NumClassDrivers(Descriptors[p])]

\* The contexts a command hands to the controller, who copies them to the device
\* context; here the port in the slot context.
SlotContext == [root_hub_port_num : Port]
InputContext == [slot_context : SlotContext]
InitializeContexts(port_id) == [slot_context |-> [root_hub_port_num |-> port_id]]

EnableSlotTRB == [type |-> "EnableSlot"]
AddressDeviceTRB(slot_id, input_context) ==
  [type |-> "AddressDevice", slot_id |-> slot_id, input_context |-> input_context]
ConfigureEndpointTRB(slot_id) == [type |-> "ConfigureEndpoint", slot_id |-> slot_id]

PortEvent(p) == [type |-> "PortStatusChange", port_id |-> p]
CommandEvent(i, slot_id) == [type |-> "CommandCompletion", trb |-> i, slot_id |-> slot_id]
TransferEvent(slot_id, trb, ok) ==
  [type |-> "Transfer", slot_id |-> slot_id, trb |-> trb, ok |-> ok]

PORTSC_Bitmap ==
  [connected : BOOLEAN, enabled : BOOLEAN, connect_change : BOOLEAN, reset_change : BOOLEAN]

Init ==
  /\ port_config_phase = [p \in Port |-> "kNotConnected"]
  /\ addressing_port = NoPort
  /\ devices_ = << >>
  /\ cr_ = NewRing(kCommandRing)
  /\ er_ = NewRing(kEventRing)
  /\ main = "Initialize"
  /\ next_port = 1
  /\ message = FALSE
  /\ bus = [p \in Port |-> "absent"]
  /\ portsc = [p \in Port |-> [connected |-> FALSE, enabled |-> FALSE,
                               connect_change |-> FALSE, reset_change |-> FALSE]]
  /\ owed = {}
  /\ slots = 0
  /\ ipe = FALSE
  /\ event_handler_busy = FALSE
  /\ faults = 0

(***************************************************************************)
(* The controller and the bus                                              *)
(***************************************************************************)
\* A change bit of port p is set.  The controller owes an event if none was set
\* before; if another was, some send a second one and some do not.
Changed(p, register) ==
  /\ portsc' = [portsc EXCEPT ![p] = register]
  /\ LET before == portsc[p].connect_change \/ portsc[p].reset_change
         risen == \/ register.connect_change /\ ~portsc[p].connect_change
                  \/ register.reset_change /\ ~portsc[p].reset_change
     IN \/ risen /\ owed' = owed \cup {p}
        \/ (before \/ ~risen) /\ owed' = owed

Plug(p) ==
  /\ bus[p] = "absent"
  /\ bus' = [bus EXCEPT ![p] = "attached"]
  /\ Changed(p, [portsc[p] EXCEPT !.connected = TRUE, !.connect_change = TRUE])
  /\ UNCHANGED <<driver, interrupter, cr_, er_, slots, faults>>

Unplug(p) ==
  /\ bus[p] # "absent"
  /\ p \in Unreliable /\ faults < MaxFaults
  /\ faults' = faults + 1
  /\ bus' = [bus EXCEPT ![p] = "absent"]
  /\ Changed(p, [portsc[p] EXCEPT !.connected = FALSE, !.enabled = FALSE,
                                  !.connect_change = TRUE])
  /\ UNCHANGED <<driver, interrupter, cr_, er_, slots>>

\* An event goes into the event ring and makes an interrupt pending.
Send(event) ==
  /\ HasRoom(er_, kEventRing)
  /\ er_' = Post(er_, kEventRing, event)
  /\ ipe' = TRUE
  /\ UNCHANGED <<message, event_handler_busy>>

SendPortEvent(p) ==
  /\ p \in owed
  /\ Send(PortEvent(p))
  /\ owed' = owed \ {p}
  /\ UNCHANGED <<driver, bus, portsc, cr_, slots, faults>>

\* The interrupt, as late as the controller likes while the ring is not empty:
\* IntHandlerXHCI sends the main task a message.
Interrupt ==
  /\ ipe /\ ~event_handler_busy /\ er_.dequeue # er_.write_index_
  /\ ipe' = FALSE
  /\ event_handler_busy' = TRUE
  /\ message' = TRUE
  /\ UNCHANGED <<driver, hub, cr_, er_, slots, faults>>

\* The controller executes the command in front.  Without a slot left,
\* EnableSlot completes with slot 0; an address is given to the device that
\* waits for one, and only then is the device context written.
ExecuteCommand ==
  LET trb == Front(cr_) IN
  /\ HasFront(cr_)
  /\ cr_' = Fetch(cr_, kCommandRing)
  /\ \/ /\ trb.type = "EnableSlot"
        /\ LET slot_id == IF slots < kDeviceSize THEN slots + 1 ELSE 0 IN
           /\ slots' = slots + (IF slot_id = 0 THEN 0 ELSE 1)
           /\ Send(CommandEvent(cr_.dequeue, slot_id))
        /\ UNCHANGED <<bus, devices_>>
     \/ /\ trb.type = "AddressDevice"
        /\ Send(CommandEvent(cr_.dequeue, trb.slot_id))
        /\ \E p \in {trb.input_context.slot_context.root_hub_port_num} :
             IF bus[p] = "default"
             THEN /\ bus' = [bus EXCEPT ![p] = "addressed"]
                  /\ devices_' = [devices_ EXCEPT ![trb.slot_id].port = p]
             ELSE UNCHANGED <<bus, devices_>>
        /\ UNCHANGED slots
     \/ /\ trb.type = "ConfigureEndpoint"
        /\ Send(CommandEvent(cr_.dequeue, trb.slot_id))
        /\ UNCHANGED <<bus, devices_, slots>>
  /\ UNCHANGED <<port_config_phase, addressing_port, main, next_port, portsc, owed, faults>>

Present(s) ==
  /\ s \in DOMAIN devices_
  /\ devices_[s].port # NoPort
  /\ bus[devices_[s].port] = "addressed"

\* A transfer on slot s ends: well, or badly because the device is gone or stalls.
TransferEnds(s, trb, ok) ==
  /\ ok => Present(s)
  /\ ~ok /\ Present(s) => devices_[s].port \in Unreliable /\ faults < MaxFaults
  /\ faults' = faults + (IF ~ok /\ Present(s) THEN 1 ELSE 0)
  /\ Send(TransferEvent(s, trb, ok))
  /\ UNCHANGED <<port_config_phase, addressing_port, main, next_port, hub, cr_, slots>>

\* The transfer in front of endpoint 0, up to its status stage, and the TRB of it
\* that is reported (of a failed one, only the failure is read).
ControlTransferEnds(s, ok) ==
  /\ s \in DOMAIN devices_
  /\ devices_[s].ep0 # << >> /\ ~devices_[s].halted
  /\ LET ep0 == devices_[s].ep0
         last == SE!SelectInSeq(ep0, LAMBDA trb : trb.stage = "status")
         reported == SE!SelectInSeq(ep0, LAMBDA trb : trb.ioc)
     IN /\ TransferEnds(s, ep0[reported], ok)
        /\ devices_' = [devices_ EXCEPT ![s].ep0 = SubSeq(ep0, last + 1, Len(ep0)),
                                        ![s].halted = ~ok]

\* A keyboard or mouse reports, or its interrupt transfer fails.
InterruptTransferEnds(s, ok) ==
  /\ s \in DOMAIN devices_
  /\ devices_[s].in > 0
  /\ TransferEnds(s, NormalTRB, ok)
  /\ devices_' = [devices_ EXCEPT ![s].in = @ - 1]

(***************************************************************************)
(* The driver                                                              *)
(***************************************************************************)
\* Port::Reset, until PR reads 0: it clears CSC, and the end of the reset sets
\* PRC.  The device answers to address 0 from now on.
Reset(p) ==
  /\ bus' = [bus EXCEPT ![p] = "default"]
  /\ portsc' = [portsc EXCEPT ![p].enabled = TRUE, ![p].connect_change = FALSE,
                              ![p].reset_change = TRUE]
  /\ owed' = IF portsc[p].reset_change THEN owed ELSE owed \cup {p}

\* ResetPort, given the phases and the addressing port it finds.
ResetPortAnyway(p, phases, addressing) ==
  IF ~portsc[p].connected
  THEN port_config_phase' = phases /\ addressing_port' = addressing /\ UNCHANGED hub
  ELSE /\ port_config_phase' = [phases EXCEPT ![p] = "kResettingPort"]
       /\ addressing_port' = p
       /\ Reset(p)

ResetPort(p, phases, addressing) ==
  \/ /\ ~portsc[p].connected
     /\ port_config_phase' = phases /\ addressing_port' = addressing
     /\ UNCHANGED hub
  \/ /\ portsc[p].connected /\ addressing # NoPort
     /\ port_config_phase' = [phases EXCEPT ![p] = "kWaitingAddressed"]
     /\ addressing_port' = addressing
     /\ UNCHANGED hub
  \/ /\ portsc[p].connected /\ addressing = NoPort
     /\ IF phases[p] \in {"kNotConnected", "kWaitingAddressed"}
        THEN /\ port_config_phase' = [phases EXCEPT ![p] = "kResettingPort"]
             /\ addressing_port' = p
             /\ Reset(p)
        ELSE port_config_phase' = phases /\ addressing_port' = addressing /\ UNCHANGED hub

PushCommand(r, trb) == cr_' = Push(r, kCommandRing, trb)

\* Initialize, one turn of its loop over the ports.
ConfigurePort ==
  /\ main = "Initialize"
  /\ next_port' = next_port + 1
  /\ main' = IF next_port = kPorts THEN "wait" ELSE main
  /\ IF port_config_phase[next_port] = "kNotConnected"
     THEN ResetPort(next_port, port_config_phase, addressing_port)
     ELSE UNCHANGED <<port_config_phase, addressing_port, hub>>
  /\ UNCHANGED <<devices_, cr_, er_, interrupter, slots, faults>>

\* The main loop takes the message and calls ProcessEvents, which goes on until
\* the event ring is empty.
ProcessEvents ==
  /\ main = "wait" /\ message
  /\ message' = FALSE
  /\ main' = "loop"
  /\ UNCHANGED <<port_config_phase, addressing_port, devices_, next_port, hub, ipe,
                 event_handler_busy, cr_, er_, slots, faults>>

NoMoreEvents ==
  /\ main = "loop" /\ ~HasFront(er_)
  /\ main' = "wait"
  /\ UNCHANGED <<port_config_phase, addressing_port, devices_, next_port, hub,
                 interrupter, cr_, er_, slots, faults>>

\* EnableSlot, for a port in its reset.
EnableSlot(p) ==
  /\ IF portsc[p].enabled /\ portsc[p].reset_change
     THEN /\ portsc' = [portsc EXCEPT ![p].reset_change = FALSE]
          /\ port_config_phase' = [port_config_phase EXCEPT ![p] = "kEnablingSlot"]
          /\ PushCommand(cr_, EnableSlotTRB)
     ELSE UNCHANGED <<portsc, port_config_phase, cr_>>
  /\ UNCHANGED <<addressing_port, bus, owed>>

\* OnEvent(PortStatusChangeEventTRB): in any other phase the event is lost.
OnPortStatusChange(p) ==
  /\ \/ /\ port_config_phase[p] = "kNotConnected"
        /\ ResetPort(p, port_config_phase, addressing_port)
        /\ UNCHANGED cr_
     \/ /\ port_config_phase[p] = "kResettingPort"
        /\ EnableSlot(p)
     \/ /\ port_config_phase[p] \notin {"kNotConnected", "kResettingPort"}
        /\ UNCHANGED <<port_config_phase, addressing_port, hub, cr_>>
  /\ UNCHANGED devices_

\* A device that the slot has already stays.
AllocDevice(slot_id) ==
  [s \in DOMAIN devices_ \cup {slot_id} |->
     IF s \in DOMAIN devices_ THEN devices_[s] ELSE NewDevice]

AddressDevice(p, slot_id, r) ==
  /\ devices_' = [AllocDevice(slot_id) EXCEPT ![slot_id] = AllocTransferRing(@)]
  /\ port_config_phase' = [port_config_phase EXCEPT ![p] = "kAddressingDevice"]
  /\ PushCommand(r, AddressDeviceTRB(slot_id, InitializeContexts(p)))
  /\ UNCHANGED <<addressing_port, hub>>

Waiting == {p \in Port : port_config_phase[p] = "kWaitingAddressed"}
NextWaiting == CHOOSE p \in Waiting : \A q \in Waiting : p <= q

DeviceAddressedNoNext(p, slot_id) ==
  /\ port_config_phase' = [port_config_phase EXCEPT ![p] = "kInitializingDevice"]
  /\ addressing_port' = NoPort
  /\ devices_' = [devices_ EXCEPT ![slot_id] = StartInitialize(@)]
  /\ UNCHANGED hub

\* The device has its address: the next port that waits is reset, and the
\* descriptors of the device are read.
DeviceAddressed(p, slot_id) ==
  LET phases == [port_config_phase EXCEPT ![p] = "kInitializingDevice"] IN
  /\ \/ /\ Waiting = {}
        /\ port_config_phase' = phases /\ addressing_port' = NoPort
        /\ UNCHANGED hub
     \/ /\ Waiting # {}
        /\ ResetPort(NextWaiting, phases, NoPort)
  /\ devices_' = [devices_ EXCEPT ![slot_id] = StartInitialize(@)]

CompleteConfiguration(p, slot_id) ==
  /\ devices_' = [devices_ EXCEPT ![slot_id] = OnEndpointsConfigured(@, Endpoints[p])]
  /\ port_config_phase' = [port_config_phase EXCEPT ![p] = "kConfigured"]
  /\ UNCHANGED <<addressing_port, hub>>

InvalidPhase == UNCHANGED <<port_config_phase, addressing_port, devices_, hub>>

\* OnEvent(CommandCompletionEventTRB): which command it was is read from the
\* command ring; whether it succeeded is not looked at.
OnCommandCompletion(i, slot_id) ==
  LET issuer == cr_.buf_[i].trb
      read == Forget(cr_, i)
      InPhase(p, phase) == p # NoPort /\ port_config_phase[p] = phase
      port_id == devices_[slot_id].port
  IN
  \/ /\ issuer.type = "EnableSlot"
     /\ IF InPhase(addressing_port, "kEnablingSlot")
        THEN AddressDevice(addressing_port, slot_id, read)
        ELSE InvalidPhase /\ cr_' = read
  \/ /\ issuer.type = "AddressDevice"
     /\ IF port_id = addressing_port /\ InPhase(port_id, "kAddressingDevice")
        THEN DeviceAddressed(port_id, slot_id)
        ELSE InvalidPhase
     /\ cr_' = read
  \/ /\ issuer.type = "ConfigureEndpoint"
     /\ IF InPhase(port_id, "kConfiguringEndpoints")
        THEN CompleteConfiguration(port_id, slot_id)
        ELSE InvalidPhase
     /\ cr_' = read

\* The device's speed, which ConfigureEndpoints needs, reads 0 after it is gone.
ConfigureEndpoints(p, slot_id) ==
  \/ /\ portsc[p].connected
     /\ port_config_phase' = [port_config_phase EXCEPT ![p] = "kConfiguringEndpoints"]
     /\ PushCommand(cr_, ConfigureEndpointTRB(slot_id))
  \/ /\ ~portsc[p].enabled
     /\ UNCHANGED <<port_config_phase, cr_>>

\* OnEvent(TransferEventTRB)
OnTransfer(slot_id, trb, ok) ==
  LET d == devices_[slot_id]
      received == OnTransferEventReceived(
                    d, trb, ok, IF d.port = NoPort THEN 0 ELSE Endpoints[d.port])
  IN
  /\ devices_' = [devices_ EXCEPT ![slot_id] = received]
  /\ IF ok /\ received.is_initialized_ /\ port_config_phase[d.port] = "kInitializingDevice"
     THEN ConfigureEndpoints(d.port, slot_id)
     ELSE UNCHANGED <<port_config_phase, cr_>>
  /\ UNCHANGED <<addressing_port, hub>>

PopEventBusy == er_' = Pop(er_, kEventRing) /\ UNCHANGED interrupter

\* Pop writes ERDP back with the busy flag it read, which clears the flag.
PopEvent ==
  /\ er_' = Pop(er_, kEventRing)
  /\ event_handler_busy' = FALSE
  /\ UNCHANGED <<message, ipe>>

ProcessEvent ==
  LET event == Front(er_) IN
  /\ main = "loop" /\ HasFront(er_)
  /\ \/ /\ event.type = "PortStatusChange"
        /\ OnPortStatusChange(event.port_id)
     \/ /\ event.type = "CommandCompletion"
        /\ OnCommandCompletion(event.trb, event.slot_id)
     \/ /\ event.type = "Transfer"
        /\ OnTransfer(event.slot_id, event.trb, event.ok)
  /\ PopEvent
  /\ UNCHANGED <<main, next_port, slots, faults>>

Main == ConfigurePort \/ ProcessEvents \/ NoMoreEvents \/ ProcessEvent

Controller ==
  \/ \E p \in Port : SendPortEvent(p)
  \/ Interrupt
  \/ ExecuteCommand
  \/ \E s \in Slot, ok \in BOOLEAN : ControlTransferEnds(s, ok)
  \/ \E s \in Slot, ok \in BOOLEAN : InterruptTransferEnds(s, ok)

User == \E p \in Port : Plug(p) \/ Unplug(p)

Next == Main \/ Controller \/ User

Spec == Init /\ [][Next]_vars

\* The main task has the highest level and interrupts are on while it handles
\* events, so it goes on.  Whatever reports fill the event ring, the controller
\* comes to send the other events too: of ports, commands and control transfers.
FairSpec ==
  /\ Spec
  /\ WF_vars(Main)
  /\ WF_vars(Interrupt)
  /\ SF_vars(\E p \in Port : SendPortEvent(p))
  /\ SF_vars(ExecuteCommand)
  /\ SF_vars(\E s \in Slot : ControlTransferEnds(s, TRUE))

-----------------------------------------------------------------------------
(***************************************************************************)
(* Properties                                                              *)
(***************************************************************************)
TRBs == [type : {"none", "link", "EnableSlot"}]
  \cup [type : {"AddressDevice"}, slot_id : Slot, input_context : InputContext]
  \cup [type : {"ConfigureEndpoint"}, slot_id : Slot]
TransferTRBs ==
  {NormalTRB} \cup UNION {{ControlStages(r)[i] : i \in DOMAIN ControlStages(r)} : r \in Request}
Events == [type : {"none"}]
  \cup [type : {"PortStatusChange"}, port_id : Port]
  \cup [type : {"CommandCompletion"}, trb : 0 .. kCommandRing - 2, slot_id : Slot]
  \cup [type : {"Transfer"}, slot_id : Slot, trb : TransferTRBs, ok : BOOLEAN]
RingOf(buf_size_, trbs) ==
  [buf_ : [0 .. buf_size_ - 1 -> [cycle_bit : BOOLEAN, trb : trbs]],
   write_index_ : 0 .. buf_size_ - 1, cycle_bit_ : BOOLEAN,
   dequeue : 0 .. buf_size_ - 1, consumer_cycle : BOOLEAN]
DeviceType ==
  [port : Port \cup {NoPort}, initialize_phase_ : 0 .. 4, is_initialized_ : BOOLEAN,
   hid : 0 .. 2, setup_stage_map_ : Seq(TransferTRBs), event_waiters_ : Seq(Request),
   ep0 : Seq(TransferTRBs), in : Nat, halted : BOOLEAN]

\* Types of every variable; the tables of a device keep to their room.
TypeOK ==
  /\ port_config_phase \in [Port -> ConfigPhase]
  /\ addressing_port \in Port \cup {NoPort}
  /\ DOMAIN devices_ \subseteq Slot
  /\ \A s \in DOMAIN devices_ :
       /\ devices_[s] \in DeviceType
       /\ Len(devices_[s].setup_stage_map_) <= kSetupStages
       /\ Len(devices_[s].event_waiters_) <= kWaiters
  /\ cr_ \in RingOf(kCommandRing, TRBs)
  /\ er_ \in RingOf(kEventRing, Events)
  /\ main \in {"Initialize", "wait", "loop"}
  /\ next_port \in 1 .. kPorts + 1
  /\ message \in BOOLEAN
  /\ bus \in [Port -> {"absent", "attached", "default", "addressed"}]
  /\ portsc \in [Port -> PORTSC_Bitmap]
  /\ owed \subseteq Port
  /\ slots \in 0 .. kDeviceSize
  /\ ipe \in BOOLEAN /\ event_handler_busy \in BOOLEAN
  /\ faults \in 0 .. MaxFaults

\* The comments at ConfigPhase and addressing_port (xhci.cpp:25-29, 43-45): from
\* its reset to its address a port is alone, and it is the addressing port,
\* whatever is plugged, unplugged or waits meanwhile.  So there are never two
\* devices that have been reset and have no address yet: both would answer to
\* address 0.
OneAtATime ==
  /\ \A p \in Port :
       port_config_phase[p] \in {"kResettingPort", "kEnablingSlot", "kAddressingDevice"}
         <=> addressing_port = p
  /\ \A p, q \in Port : bus[p] = "default" /\ bus[q] = "default" => p = q

\* Events the driver has yet to handle.
Unhandled == Contents(er_, kEventRing)

\* Every completion finds who waits for it: a command its port in the phase that
\* sent it, and the command still in the ring; a control transfer its setup stage
\* and, once the device is initialised, its class driver.
CompletionsExpected ==
  \A i \in 1 .. Len(Unhandled) :
    LET e == Unhandled[i] IN
    CASE e.type = "CommandCompletion" ->
           LET issuer == cr_.buf_[e.trb].trb IN
           \/ /\ issuer.type = "EnableSlot"
              /\ port_config_phase[addressing_port] = "kEnablingSlot"
           \/ /\ issuer.type = "AddressDevice" /\ issuer.slot_id = e.slot_id
              /\ issuer.input_context.slot_context.root_hub_port_num = addressing_port
              /\ port_config_phase[addressing_port] = "kAddressingDevice"
           \/ /\ issuer.type = "ConfigureEndpoint" /\ issuer.slot_id = e.slot_id
              /\ port_config_phase[devices_[e.slot_id].port] = "kConfiguringEndpoints"
      [] e.type = "Transfer" /\ e.trb # NormalTRB ->
           LET d == devices_[e.slot_id] IN
           /\ Has(d.setup_stage_map_, e.trb)
           /\ d.is_initialized_ => Has(d.event_waiters_, e.trb.request)
      [] OTHER -> TRUE

\* A class driver has one buffer for reports: no transfer may write to it while
\* a report in it waits to be read, or while another one may.
OneReportInFlight ==
  \A s \in DOMAIN devices_ :
    LET IsReport(e) == e.type = "Transfer" /\ e.slot_id = s /\ e.trb = NormalTRB
    IN devices_[s].in + Len(SelectSeq(Unhandled, IsReport)) <= 1

\* Whatever completes, the driver knows what it was for, and a report that comes
\* is the only one (OnEvent, Device::OnTransferEventReceived, HIDBaseDriver); the
\* variables have their types throughout.
TransfersExpected == TypeOK /\ CompletionsExpected /\ OneReportInFlight

\* When events are left and the main task waits without a message, the
\* interrupt that brings one is still to come.
NoLostInterrupt ==
  main = "wait" /\ ~message /\ HasFront(er_) => ipe /\ ~event_handler_busy

\* Each ring is a queue to its two sides: no TRB is lost, repeated, or seen
\* before it is written, over any number of turns of the cycle bit.
CommandQueue == INSTANCE Queue WITH
  queue <- Contents(cr_, kCommandRing - 1), written <- cr_.write_index_, read <- cr_.dequeue
EventQueue == INSTANCE Queue WITH
  queue <- Contents(er_, kEventRing), written <- er_.write_index_, read <- er_.dequeue
RingsAreQueues == CommandQueue!Spec /\ EventQueue!Spec

\* As long as nothing is unplugged and no transfer fails, a keyboard or mouse
\* that is plugged in comes to be configured and asked for its reports, whatever
\* other ports do.
InUse(p) ==
  /\ port_config_phase[p] = "kConfigured"
  /\ \E s \in DOMAIN devices_ : devices_[s].port = p /\ devices_[s].hid = 2
AllConfigured ==
  [](faults = 0) =>
    \A p \in Port : bus[p] # "absent" /\ Endpoints[p] > 0 ~> InUse(p)
=============================================================================
