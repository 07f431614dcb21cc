------------------------------- MODULE MCBoot -------------------------------
(***************************************************************************)
(* Boot with six pages of memory, kernels whose segments begin a page or   *)
(* not, the configuration spaces of six functions on three buses, numbered *)
(* well or not, and a pool at two places of a page.                        *)
(***************************************************************************)
EXTENDS Boot

Header(id, load, vaddr, filesz, memsz) ==
  [id |-> id, load |-> load, vaddr |-> vaddr, filesz |-> filesz, memsz |-> memsz]
TwoKernels ==
  {{Header(1, TRUE, 2, 1, 2), Header(2, TRUE, 4, 1, 3), Header(3, FALSE, 0, 1, 1)},
   {Header(1, TRUE, 3, 2, 2), Header(2, TRUE, 5, 1, 2)}}

CapabilityOf(id) == [cap_id |-> id, multi_msg_capable |-> 3]

\* A function of the given kind; a bridge leads to the next bus, or back.
FunctionOf(kind, b, multi) ==
  [class |-> IF kind = "intel" THEN "xhci" ELSE IF kind = "back" THEN "bridge" ELSE kind,
   intel |-> kind \in {"intel", "ehci"}, multi |-> multi,
   secondary |-> IF kind = "back" THEN 0 ELSE IF b < 2 THEN b + 1 ELSE 0,
   capabilities |-> CASE kind = "intel" -> <<CapabilityOf("msi"), CapabilityOf("msix")>>
                       [] kind = "xhci"  -> <<CapabilityOf("other"), CapabilityOf("msix")>>
                       [] OTHER          -> <<>>]
Places == {<<0, 0, 1>>, <<0, 1, 0>>, <<0, 2, 0>>, <<1, 0, 0>>, <<1, 0, 1>>, <<2, 1, 0>>}
Kinds(place) ==
  CASE place = <<0, 0, 1>> -> {"none", "xhci"}
    [] place = <<0, 1, 0>> -> {"none", "bridge", "intel"}
    [] place = <<0, 2, 0>> -> {"none", "bridge", "xhci"}
    [] place = <<1, 0, 0>> -> {"none", "bridge"}
    [] place = <<1, 0, 1>> -> {"none", "bridge", "intel"}
    [] place = <<2, 1, 0>> -> {"none", "back", "ehci"}
SpaceOf(kinds) ==
  [f \in {<<0, 0, 0>>} \cup {p \in Places : kinds[p] # "none"} |->
     IF f = <<0, 0, 0>> THEN FunctionOf("other", 0, kinds[0, 0, 1] # "none")
     ELSE FunctionOf(kinds[f], f[1], f = <<1, 0, 0>>)]
AllSpaces ==
  {SpaceOf(kinds) : kinds \in {k \in [Places -> {"none", "bridge", "back", "xhci", "intel", "ehci"}] :
                                 \A p \in Places : k[p] \in Kinds(p)}}

\* Another table before the FADT, one FADT that is broken before one that is not,
\* none at all, and pointers that are broken.
Table(signature, sum, wide) == [signature |-> signature, sum |-> sum, wide |-> wide]
Rsdp(revision, sum) == [signature |-> "RSD PTR ", revision |-> revision, sum20 |-> 0, sum36 |-> sum]
Left(rsdp, entries) == [rsdp |-> rsdp, xsdt |-> Table("XSDT", 0, FALSE), entries |-> entries]
Firmwares ==
  {Left(Rsdp(2, 0), <<Table("APIC", 0, TRUE), Table("FACP", 0, FALSE)>>),
   Left(Rsdp(2, 0), <<Table("FACP", 3, FALSE), Table("FACP", 0, TRUE), Table("FACP", 0, FALSE)>>),
   Left(Rsdp(2, 0), <<Table("APIC", 0, TRUE)>>),
   Left(Rsdp(2, 1), <<Table("FACP", 0, TRUE)>>), Left(Rsdp(0, 0), <<Table("FACP", 0, TRUE)>>)}
Periods == [wide \in BOOLEAN |-> IF wide THEN 32 ELSE 16]
=============================================================================
