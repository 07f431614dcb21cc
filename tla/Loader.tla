------------------------------- MODULE Loader -------------------------------
(***************************************************************************)
(* The UEFI boot loader (MikanLoaderPkg/Main.c): it reads the kernel and   *)
(* the volume image into memory, leaves the boot services and enters the   *)
(* kernel with the memory map.                                             *)
(*                                                                         *)
(* Memory is pages of kPage addresses.  The firmware keeps the type of     *)
(* every page and a key that changes with each of them; it allocates and   *)
(* frees pages of its own in every call, and when its timer fires.         *)
(***************************************************************************)
EXTENDS Integers, FiniteSets

CONSTANTS
  kPage, Pages,    \* addresses of a page, number of pages
  Kernels,         \* the kernel files: sets of program headers
  BufferSize,      \* descriptors that memmap_buf holds
  MaxKey           \* bound: changes of the firmware's memory map

\* A program header, .load: is its type PT_LOAD?  The header of the file leads to
\* all of them.
Elf64_Phdr == [id : Nat, load : BOOLEAN, vaddr : Nat, filesz : Nat, memsz : Nat]
Elf64_Ehdr == SUBSET Elf64_Phdr

ASSUME LoaderAssumption ==
  /\ kPage \in Nat \ {0} /\ Pages \in Nat \ {0}
  /\ BufferSize \in Nat /\ MaxKey \in Nat
  /\ \A kernel \in Kernels : kernel \in Elf64_Ehdr /\ \E h \in kernel : h.load
  /\ \A kernel \in Kernels : \A h \in kernel :
       /\ h.memsz >= h.filesz /\ h.vaddr + h.memsz <= kPage * Pages
       \* A linker lays the segments out apart.
       /\ \A g \in kernel : g # h => g.vaddr + g.memsz <= h.vaddr \/ h.vaddr + h.memsz <= g.vaddr

VARIABLES
  firmware,  \* [types, key]: the memory map as the firmware has it
  loader     \* [pc, map, key, kernel, first, pages, buffer, volume, contents]

Page == 0 .. Pages - 1
Address == 0 .. kPage * Pages - 1
PageOf(a) == a \div kPage
Free == "conventional"
MemoryType == {"reserved", "loader data", "boot services", Free}
MemoryMap == [Page -> MemoryType]
NoPages == {}

\* GetMemoryMap needs a descriptor for each run of pages of one type.
Descriptors(types) ==
  Cardinality({p \in Page : p = 0 \/ types[p - 1] # types[p]})
FitsBuffer == Descriptors(firmware.types) <= BufferSize

Retyped(pages, type) ==
  [types |-> [p \in Page |-> IF p \in pages THEN type ELSE firmware.types[p]],
   key |-> firmware.key + 1]
FreePages == {p \in Page : firmware.types[p] = Free}

(***************************************************************************)
(* The steps of UefiMain.  Each call that can fail halts the loader.       *)
(***************************************************************************)
At(pc) == loader.pc = pc
Moves(pc) == [loader EXCEPT !.pc = pc]
Halts == loader' = Moves("halted")

\* GetMemoryMap into memmap_buf.
MapRead(pc) ==
  [loader EXCEPT !.pc = pc, !.map = firmware.types, !.key = firmware.key]
GetMemoryMap ==
  /\ At("start")
  /\ IF FitsBuffer THEN loader' = MapRead("open") ELSE Halts
  /\ UNCHANGED firmware

\* SaveMemoryMap writes the map into a file; it goes on or fails.
SaveMemoryMap == {Moves("read kernel"), Moves("halted")}
\* OpenRootDir, \memmap (whose failure to open is ignored), OpenGOP.
Open ==
  /\ At("open")
  /\ loader' \in SaveMemoryMap \cup {Moves("read kernel"), Moves("halted")}
  /\ UNCHANGED firmware

\* ReadFile of \kernel.elf: AllocatePool of loader data.
ReadKernel ==
  /\ At("read kernel")
  /\ \/ \E kernel \in Kernels, p \in FreePages :
          /\ firmware' = Retyped({p}, "loader data")
          /\ loader' = [Moves("allocate") EXCEPT !.kernel = kernel, !.buffer = {p}]
     \/ Halts /\ UNCHANGED firmware

Loadable(kernel) == {h \in kernel : h.load}
CalcLoadAddressRange(kernel) ==
  [first |-> CHOOSE a \in {h.vaddr : h \in Loadable(kernel)} :
               \A h \in Loadable(kernel) : a <= h.vaddr,
   last |-> CHOOSE a \in {h.vaddr + h.memsz : h \in Loadable(kernel)} :
              \A h \in Loadable(kernel) : a >= h.vaddr + h.memsz]
NumPages(range) == (range.last - range.first + kPage - 1) \div kPage

\* AllocatePages at the address of the first segment, which must begin a page.
AllocatePages ==
  /\ At("allocate")
  /\ \E range \in {CalcLoadAddressRange(loader.kernel)} :
       \E pages \in {{p \in Page : p >= PageOf(range.first)
                                   /\ p < PageOf(range.first) + NumPages(range)}} :
         IF range.first % kPage = 0 /\ pages \subseteq FreePages
         THEN /\ firmware' = Retyped(pages, "loader data")
              /\ loader' = [Moves("copy") EXCEPT !.first = range.first, !.pages = pages]
         ELSE Halts /\ UNCHANGED firmware

\* What a program header puts at an address: a byte of the file, or zero.
SegmentAt(h, a) == IF a < h.vaddr + h.filesz THEN <<h.id, a - h.vaddr>> ELSE <<0, 0>>
Covers(h, a) == a >= h.vaddr /\ a < h.vaddr + h.memsz
Unwritten == <<-1, -1>>

\* A change of the code, which KernelIsLoaded notices: the rest of a segment is
\* not cleared.
CopyFileBytes(contents, kernel) ==
  [a \in Address |->
     IF \E h \in Loadable(kernel) : a >= h.vaddr /\ a < h.vaddr + h.filesz
     THEN SegmentAt(CHOOSE h \in Loadable(kernel) : Covers(h, a), a) ELSE contents[a]]

CopyLoadSegments(contents, kernel) ==
  [a \in Address |->
     IF \E h \in Loadable(kernel) : Covers(h, a)
     THEN SegmentAt(CHOOSE h \in Loadable(kernel) : Covers(h, a), a) ELSE contents[a]]

\* CopyLoadSegments and FreePool(kernel_buffer).
Copy ==
  /\ At("copy")
  /\ loader' = [Moves("read volume") EXCEPT
                  !.contents = CopyLoadSegments(@, loader.kernel), !.buffer = NoPages]
  /\ firmware' = Retyped(loader.buffer, Free)

\* The volume, from the file \fat_disk or from the disk's first blocks.
ReadVolume ==
  /\ At("read volume")
  /\ \/ \E p \in FreePages :
          /\ firmware' = Retyped({p}, "loader data")
          /\ loader' = [Moves("exit") EXCEPT !.volume = {p}]
     \/ Halts /\ UNCHANGED firmware

\* ExitBootServices, which the firmware refuses when the key is an old one.
ExitBootServices ==
  /\ At("exit")
  /\ loader' = Moves(IF loader.key = firmware.key THEN "exited" ELSE "read map again")
  /\ UNCHANGED firmware
\* A change of the code, which KernelIsLoaded notices: the map that was
\* read first is passed on.
ReadKeyAgain ==
  /\ At("read map again")
  /\ IF FitsBuffer THEN loader' = [Moves("exit again") EXCEPT !.key = firmware.key] ELSE Halts
  /\ UNCHANGED firmware

ReadMapAgain ==
  /\ At("read map again")
  /\ IF FitsBuffer THEN loader' = MapRead("exit again") ELSE Halts
  /\ UNCHANGED firmware
ExitAgain ==
  /\ At("exit again")
  /\ loader' = Moves(IF loader.key = firmware.key THEN "exited" ELSE "halted")
  /\ UNCHANGED firmware

\* The pixel format and the call of the kernel's entry point.
EnterKernel ==
  /\ At("exited")
  /\ loader' \in {Moves("kernel"), Moves("halted")}
  /\ UNCHANGED firmware

\* The firmware takes or gives back a page, while it is in charge.
FirmwareChanges ==
  /\ loader.pc \in {"start", "open", "read kernel", "allocate", "copy", "read volume",
                    "exit", "read map again", "exit again"}
  /\ firmware.key < MaxKey
  /\ \E p \in Page, type \in {Free, "boot services"} :
       /\ firmware.types[p] \in {Free, "boot services"} \ {type}
       /\ firmware' = Retyped({p}, type)
  /\ UNCHANGED loader

NewLoader(pc, types) ==
  [pc |-> pc, map |-> types, key |-> 0, kernel |-> {}, first |-> 0, pages |-> NoPages,
   buffer |-> NoPages, volume |-> NoPages, contents |-> [a \in Address |-> Unwritten]]
NewMap == [p \in Page |-> IF p = 0 THEN "reserved" ELSE Free]
LoaderInit ==
  /\ firmware = [types |-> NewMap, key |-> 0]
  /\ loader = NewLoader("start", NewMap)

LoaderNext ==
  \/ GetMemoryMap \/ Open \/ ReadKernel \/ AllocatePages \/ Copy \/ ReadVolume
  \/ ExitBootServices \/ ReadMapAgain \/ ExitAgain \/ EnterKernel
  \/ FirmwareChanges

LoaderSpec == LoaderInit /\ [][LoaderNext]_<<firmware, loader>>

(***************************************************************************)
(* Properties.                                                             *)
(***************************************************************************)
\* IsAvailable (memory_map.hpp): the pages that the kernel takes for free.
AvailableToKernel == {p \in Page : loader.map[p] \in {Free, "boot services"}}

\* The kernel is entered with a map in which neither its image nor the volume
\* is free, and that is the firmware's (UefiMain's second GetMemoryMap).
LoadedIsKept ==
  /\ loader.map = firmware.types
  /\ (loader.pages \cup loader.volume) \cap AvailableToKernel = {}

\* Each segment is in memory as in the file, with zeros after it, in pages that
\* were allocated for it (CalcLoadAddressRange, CopyLoadSegments).
KernelIsWhole ==
  \A h \in Loadable(loader.kernel), a \in Address :
    Covers(h, a) => loader.contents[a] = SegmentAt(h, a) /\ PageOf(a) \in loader.pages

\* When UefiMain calls the entry point the kernel and the volume are whole, and
\* the memory map that it passes on does not give them away.
KernelIsLoaded ==
  loader.pc = "kernel" => loader.map \in MemoryMap /\ LoadedIsKept /\ KernelIsWhole
=============================================================================
