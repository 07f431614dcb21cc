----------------------------- MODULE UsbDevice -----------------------------
(***************************************************************************)
(* One USB device as the driver keeps it (usb/device.cpp,                  *)
(* usb/xhci/device.cpp, usb/classdriver/hid.cpp): the phases of its        *)
(* initialisation, the control transfers on endpoint 0 with the two tables *)
(* that lead from a completed transfer to the one who waits for it, and    *)
(* the interrupt transfer into the buffer of its class driver.             *)
(*                                                                         *)
(* Operations take a device and return it changed.  Transfer rings are     *)
(* queues of TRBs here (Xhci shows that a ring is one); a TRB is known by  *)
(* its type and by the request it belongs to, which stands for its address.*)
(***************************************************************************)
EXTENDS Integers, Sequences, FiniteSets

CONSTANTS
  kSetupStages,  \* room in setup_stage_map_ (16 in the code)
  kWaiters       \* room in event_waiters_ (4 in the code)

\* The requests, named for the descriptor, configuration or protocol they are about.
Request == {"device", "config", "SetConfiguration", "SetProtocol"}

(***************************************************************************)
(* TRBs of transfers.  The controller reports the one with                 *)
(* interrupt_on_completion, and setup_stage_map_ leads from its address to *)
(* the setup stage, where the request is.                                  *)
(***************************************************************************)
SetupStageTRB(request) == [stage |-> "setup", request |-> request, ioc |-> FALSE]
DataStageTRB(request, ioc) == [stage |-> "data", request |-> request, ioc |-> ioc]
StatusStageTRB(request, ioc) == [stage |-> "status", request |-> request, ioc |-> ioc]
NormalTRB == [stage |-> "normal", request |-> "report", ioc |-> TRUE]

\* The requests that come with a buffer have a data stage.
HasBuffer(request) == request \in {"device", "config"}
ControlStagesStatusReports(request) ==
  IF HasBuffer(request)
  THEN <<SetupStageTRB(request), DataStageTRB(request, FALSE), StatusStageTRB(request, TRUE)>>
  ELSE <<SetupStageTRB(request), StatusStageTRB(request, TRUE)>>
ControlStages(request) ==
  IF HasBuffer(request)
  THEN <<SetupStageTRB(request), DataStageTRB(request, TRUE), StatusStageTRB(request, FALSE)>>
  ELSE <<SetupStageTRB(request), StatusStageTRB(request, TRUE)>>
\* The key under which the setup stage is found again.
MapKey(request) ==
  IF HasBuffer(request) THEN DataStageTRB(request, TRUE) ELSE StatusStageTRB(request, TRUE)

\* The port is in the device context, which the controller writes.
NewDevice ==
  [port |-> 0,
   initialize_phase_ |-> 0,
   is_initialized_ |-> FALSE,
   hid |-> 0,                     \* initialize_phase_ of the class driver
   setup_stage_map_ |-> << >>,    \* the TRBs whose setup stage can be found
   event_waiters_ |-> << >>,      \* requests the class driver waits for
   ep0 |-> << >>,                 \* TRBs of control transfers the controller has
   in |-> 0,                      \* interrupt transfers the controller has
   halted |-> FALSE]              \* endpoint 0 stopped after an error

(***************************************************************************)
(* A configuration is the sequence of the descriptors that follow its own: *)
(* interfaces, each with its HID descriptor and its endpoints after it.    *)
(***************************************************************************)
Descriptor ==
  [kind : {"interface"}, protocol : {"keyboard", "mouse", "other"}, num_endpoints : 0 .. 15]
    \cup [kind : {"endpoint"}, number : 1 .. 15, dir_in : BOOLEAN]
    \cup [kind : {"hid"}]

\* NewClassDriver knows the boot protocols of keyboards and mice.
HasDriver(descriptor) ==
  descriptor.kind = "interface" /\ descriptor.protocol # "other"
\* An endpoint and its direction in one number.
EndpointID(ep_num, dir_in) == 2 * ep_num + (IF dir_in THEN 1 ELSE 0)
Number(ep_id) == ep_id \div 2
MakeEPConfig(descriptor) == [ep_id |-> EndpointID(descriptor.number, descriptor.dir_in)]

\* ConfigurationDescriptorReader: the interface that gets the class driver is the
\* first one that has one, its endpoints are the next ones that the reader finds.
Driven(descriptors) ==
  {i \in DOMAIN descriptors : /\ HasDriver(descriptors[i])
                              /\ \A j \in 1 .. i - 1 : ~HasDriver(descriptors[j])}
EndpointConfigs(descriptors, i) ==
  LET found == SelectSeq(SubSeq(descriptors, i + 1, Len(descriptors)),
                         LAMBDA d : d.kind = "endpoint")
  IN  {MakeEPConfig(found[k]) : k \in 1 .. descriptors[i].num_endpoints}

\* How many of the class_drivers_ are set: one for each endpoint number.
NumClassDrivers(descriptors) ==
  Cardinality(UNION {{Number(config.ep_id) : config \in EndpointConfigs(descriptors, i)} :
                       i \in Driven(descriptors)})

\* For endpoint 0; the ring it had is not freed.
AllocTransferRing(d) == [d EXCEPT !.ep0 = << >>]

\* ArrayMap, keys only; what finds no room is dropped.
Put(table, key, room) == IF Len(table) < room THEN Append(table, key) ELSE table
Has(table, key) == \E i \in 1 .. Len(table) : table[i] = key
DeleteNothing(table, key) == table
Delete(table, key) ==
  IF ~Has(table, key) THEN table
  ELSE LET i == CHOOSE i \in 1 .. Len(table) : table[i] = key
       IN SubSeq(table, 1, i - 1) \o SubSeq(table, i + 1, Len(table))

\* ControlIn and ControlOut with no class driver as their issuer.
Control(d, request) ==
  [d EXCEPT !.ep0 = @ \o ControlStages(request),
            !.setup_stage_map_ = Put(@, MapKey(request), kSetupStages)]

\* ControlOut for the class driver, who will be told.
ControlForDriver(d, request) ==
  Control([d EXCEPT !.event_waiters_ = Put(@, request, kWaiters)], request)

GetDescriptor(d, descriptor) == Control(d, descriptor)
SetConfiguration(d) == Control(d, "SetConfiguration")

InterruptIn(d) == [d EXCEPT !.in = @ + 1]

StartInitialize(d) ==
  GetDescriptor([d EXCEPT !.is_initialized_ = FALSE, !.initialize_phase_ = 1], "device")

InitializePhase1(d) == GetDescriptor([d EXCEPT !.initialize_phase_ = 2], "config")

\* endpoints: NumClassDrivers; a device without a keyboard's or a mouse's
\* interface has 0 and stays in this phase.
InitializePhase2(d, endpoints) ==
  IF endpoints = 0 THEN d
  ELSE SetConfiguration([d EXCEPT !.initialize_phase_ = 3])

InitializePhase3(d) == [d EXCEPT !.initialize_phase_ = 4, !.is_initialized_ = TRUE]

\* HIDBaseDriver::OnControlCompleted
DriverControlCompletedAlways(d) == InterruptIn([d EXCEPT !.hid = 2])
DriverControlCompleted(d) ==
  IF d.hid = 1 THEN InterruptIn([d EXCEPT !.hid = 2]) ELSE d

OnControlCompleted(d, request, endpoints) ==
  CASE d.is_initialized_ ->
         IF Has(d.event_waiters_, request) THEN DriverControlCompleted(d) ELSE d
    [] ~d.is_initialized_ /\ d.initialize_phase_ = 1 /\ request = "device" ->
         InitializePhase1(d)
    [] ~d.is_initialized_ /\ d.initialize_phase_ = 2 /\ request = "config" ->
         InitializePhase2(d, endpoints)
    [] ~d.is_initialized_ /\ d.initialize_phase_ = 3 /\ request = "SetConfiguration" ->
         InitializePhase3(d)
    [] OTHER -> d

\* HIDBaseDriver::OnInterruptCompleted reads the buffer and asks for the next
\* report into it.
OnInterruptCompleted(d) == InterruptIn(d)

\* OnTransferEventReceived: a failed transfer changes nothing, its setup stage
\* stays in the table.
OnTransferEventReceived(d, trb, ok, endpoints) ==
  CASE ~ok -> d
    [] ok /\ trb = NormalTRB -> OnInterruptCompleted(d)
    [] ok /\ trb # NormalTRB /\ Has(d.setup_stage_map_, trb) ->
         OnControlCompleted(
           [d EXCEPT !.setup_stage_map_ = Delete(@, trb)], trb.request, endpoints)
    [] OTHER -> d

\* HIDBaseDriver::OnEndpointsConfigured
DriverEndpointsConfigured(d) == ControlForDriver([d EXCEPT !.hid = 1], "SetProtocol")

\* Device::OnEndpointsConfigured: the class driver is entered once for each of
\* its endpoint numbers (one or two), and called as often.
OnEndpointsConfigured(d, endpoints) ==
  CASE endpoints = 2 -> DriverEndpointsConfigured(DriverEndpointsConfigured(d))
    [] endpoints = 1 -> DriverEndpointsConfigured(d)
    [] OTHER -> d
=============================================================================
