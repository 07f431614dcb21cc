-------------------------------- MODULE Pci --------------------------------
(***************************************************************************)
(* PCI configuration (kernel/pci.cpp): the scan of all buses through the   *)
(* bridges into the table of devices, the choice of the xHC among them     *)
(* (usb::xhci::Initialize) and its message signalled interrupts.           *)
(*                                                                         *)
(* The configuration space is a function from the functions that answer,   *)
(* <<bus, device, function>>, to what their registers say.                 *)
(***************************************************************************)
EXTENDS Integers, Sequences, FiniteSets

LOCAL SE == INSTANCE SequencesExt

CONSTANTS
  Buses, Slots, Functions,  \* numbers from 0
  kMaxDevices,              \* devices.size()
  Spaces                    \* the configuration spaces

Capability == [cap_id : {"msi", "msix", "other"}, multi_msg_capable : 0 .. 5]
Register ==
  [class : {"other", "bridge", "xhci", "ehci"}, intel : BOOLEAN,
   multi : BOOLEAN,                  \* bit 7 of the header type
   secondary : Buses,                \* of a bridge
   capabilities : Seq(Capability)]   \* the list from register 0x34

ASSUME PciAssumption ==
  /\ \A n \in {Buses, Slots, Functions} : 0 \in n /\ n \subseteq Nat
  /\ Functions \subseteq Buses  \* a host bridge's function is the number of a bus
  /\ kMaxDevices \in Nat
  /\ \A space \in Spaces :
       /\ DOMAIN space \subseteq Buses \X Slots \X Functions
       /\ \A f \in DOMAIN space : space[f] \in Register

InOrder(numbers) == SE!SetToSortSeq(numbers, <)
Kind(space, f) == space[f].class
\* ReadHeaderType of a function that is not there reads all ones.
IsSingleFunctionDevice(space, bus, device) ==
  <<bus, device, 0>> \in DOMAIN space /\ ~space[bus, device, 0].multi

(***************************************************************************)
(* The scan.  `found` is the table of devices and `full`, which every      *)
(* caller returns at once; a bridge back to its own bus ends in a full one.*)
(***************************************************************************)
Scan == [devices |-> <<>>, full |-> FALSE]
The(set) == CHOOSE x \in set : TRUE
AddDevice(found, f) ==
  The({IF Len(t.devices) = kMaxDevices THEN [t EXCEPT !.full = TRUE]
       ELSE [t EXCEPT !.devices = Append(@, f)] : t \in {found}})

\* `scan` is the function that scans a bus: a bridge calls it for the bus behind it.
ScanFunction(scan, space, found, f) ==
  The({IF added.full \/ Kind(space, f) # "bridge" THEN added
       ELSE scan[added, space[f].secondary] : added \in {AddDevice(found, f)}})
ScanFunctions(scan, space, found, bus, device, functions) ==
  SE!FoldLeft(LAMBDA so_far, n : ScanFunction(scan, space, so_far, <<bus, device, n>>), found,
    InOrder({n \in functions : <<bus, device, n>> \in DOMAIN space}))
ScanDevice(scan, space, found, bus, device) ==
  ScanFunctions(scan, space, found, bus, device,
    IF IsSingleFunctionDevice(space, bus, device) THEN {0} ELSE Functions)

\* A change of the code, which AllDevicesFound notices: the scan of a bus ends
\* at the first device that is not there.
ScanBusToGap(scan, space, found, bus) ==
  SE!FoldLeft(LAMBDA so_far, device : ScanDevice(scan, space, so_far, bus, device), found,
    InOrder({device \in Slots : \A d \in 0 .. device : <<bus, d, 0>> \in DOMAIN space}))

ScanBus(scan, space, found, bus) ==
  SE!FoldLeft(LAMBDA so_far, device : ScanDevice(scan, space, so_far, bus, device), found,
    InOrder({device \in Slots : <<bus, device, 0>> \in DOMAIN space}))
Found == [devices : Seq(Buses \X Slots \X Functions), full : BOOLEAN]
Scanner(space) ==
  LET scan[found \in Found, bus \in Buses] == ScanBus(scan, space, found, bus) IN scan

\* A host bridge with several functions is the root of as many buses.
ScanAllBus(space) ==
  IF IsSingleFunctionDevice(space, 0, 0) THEN Scanner(space)[Scan, 0]
  ELSE SE!FoldLeft(LAMBDA so_far, n : Scanner(space)[so_far, n], Scan,
         InOrder({n \in Functions : <<0, 0, n>> \in DOMAIN space}))

(***************************************************************************)
(* usb::xhci::Initialize: the first xHC by Intel, or else the last one.    *)
(***************************************************************************)
\* The registers of the devices that it looks for.
HostControllers(space, devices) ==
  SelectSeq([k \in DOMAIN devices |-> space[devices[k]]],
            LAMBDA d : d.class \in {"xhci", "ehci"})
ChooseXhc(controllers) ==
  LET xhcs == SelectSeq(controllers, LAMBDA d : d.class = "xhci")
      intels == SelectSeq(xhcs, LAMBDA d : d.intel)
  IN  IF xhcs = <<>> THEN {}
      ELSE {IF intels # <<>> THEN Head(intels) ELSE xhcs[Len(xhcs)]}
SwitchEhci2Xhci(xhc, controllers) ==
  xhc.intel /\ \E k \in DOMAIN controllers : controllers[k].class = "ehci" /\ controllers[k].intel

\* The MSI capability as it is written back: at most as many vectors as the caller
\* asks for, 2^exponent.
Disabled == [msi_enable |-> FALSE, multi_msg_enable |-> 0]
ConfigureMSIRegister(capability, exponent) ==
  [msi_enable |-> TRUE,
   multi_msg_enable |-> IF capability.multi_msg_capable <= exponent
                        THEN capability.multi_msg_capable ELSE exponent]
\* The last MSI capability of the list; MSI-X is not implemented.
ConfigureMSI(device, exponent) ==
  LET msi == SelectSeq(device.capabilities, LAMBDA c : c.cap_id = "msi")
  IN  IF msi = <<>> THEN Disabled ELSE ConfigureMSIRegister(msi[Len(msi)], exponent)

(***************************************************************************)
(* What the scan is for, defined without it.                               *)
(***************************************************************************)
RootBuses(space) ==
  IF IsSingleFunctionDevice(space, 0, 0) THEN {0}
  ELSE {n \in Functions : <<0, 0, n>> \in DOMAIN space}
Answering(space, bus) ==
  {f \in DOMAIN space : f[1] = bus /\ <<bus, f[2], 0>> \in DOMAIN space
                        /\ (f[3] = 0 \/ space[bus, f[2], 0].multi)}
Behind(space, fs) == {space[f].secondary : f \in {g \in fs : Kind(space, g) = "bridge"}}
Reached(space, buses) ==
  LET reach[from \in SUBSET Buses] ==
        LET fs == UNION {Answering(space, bus) : bus \in from}
        IN  IF Behind(space, fs) \subseteq from THEN fs ELSE reach[from \cup Behind(space, fs)]
  IN  reach[buses]

\* A bus has one way to it, as firmware numbers them; host bridges with several
\* functions have no bridge among them.
Numbered(space) ==
  LET bridges == {f \in DOMAIN space : Kind(space, f) = "bridge"}
  IN  /\ <<0, 0, 0>> \in DOMAIN space
      /\ \A f \in bridges : space[f].secondary > f[1] /\ space[f].secondary \notin RootBuses(space)
      /\ \A f, g \in bridges : space[f].secondary = space[g].secondary => f = g
=============================================================================
