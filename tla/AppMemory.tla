----------------------------- MODULE AppMemory -----------------------------
(***************************************************************************)
(* The memory of applications (kernel/paging.cpp, and in terminal.cpp and  *)
(* syscall.cpp what uses it): page maps, the cache of loaded applications  *)
(* whose pages are shared and copied on the first write, demand paging and *)
(* mapped files.                                                           *)
(*                                                                         *)
(* A page map has kEntries entries and the tree two levels: levels 3 and 2 *)
(* of the four do what level 4 does.  Addresses are page numbers.  The     *)
(* entries below kUserBegin are the kernel's, the same in every space, and *)
(* are left out.  A step is one iteration of a loop over pages or entries, *)
(* or a page fault, which is handled with interrupts masked.               *)
(***************************************************************************)
EXTENDS Integers, Sequences, FiniteSets

CONSTANTS
  Task,            \* terminals, each running one application at a time
  App,             \* files that can be named as a command
  Elf,             \* ... those that are executables
  kFrames,         \* frames of physical memory
  kEntries,        \* entries of a page map
  kUserBegin,      \* first entry of the top level that is the applications'
  kStackPages,     \* pages of an application's stack
  Zero,            \* the content of a page of zeros
  Args,            \* ... of the page of the arguments
  Stale,           \* ... of a free frame: what its last owner left
  Written,         \* what applications and system calls store
  Image,           \* Image[a]: the pages an executable is loaded to
  File,            \* File[fd]: the pages of a file that may be mapped
  MaxRuns,         \* bound: how many applications are started
  Touched,         \* bound: the pages that applications and system calls access
  SharedBuffers,   \* may system calls store into pages still shared?
  LongArguments    \* may the arguments be too long for their page?

Frame == 0 .. kFrames - 1
Entry == 0 .. kEntries - 1
UserEntry == kUserBegin .. kEntries - 1

\* The pages of the applications: the image first, the arguments last, below
\* them a page left free and the stack.
FirstPage == kUserBegin * kEntries
ArgsPage == kEntries * kEntries - 1
StackPage == ArgsPage - 1 - kStackPages
Page == FirstPage .. ArgsPage

None == -1
Kernel == kFrames  \* CR3 of a task in the kernel's own address space

\* Part(4, v) of the tree, and Part(1, v).
Upper(v) == v \div kEntries
Lower(v) == v % kEntries

FileContents == UNION {{File[f][k] : k \in DOMAIN File[f]} : f \in DOMAIN File}
ImageContents == UNION {{Image[a][k] : k \in DOMAIN Image[a]} : a \in Elf}
Content == {Zero, Args, Stale, Written} \cup FileContents \cup ImageContents

PageMapEntry == [present : BOOLEAN, writable : BOOLEAN, frame : Frame]
FileMapping == [fd : DOMAIN File, begin : Page, end : Page]

ASSUME SizeAssumption ==
  /\ kFrames \in Nat \ {0} /\ kEntries \in Nat \ {0}
  /\ kUserBegin \in Entry /\ kStackPages \in Nat \ {0} /\ MaxRuns \in Nat
  /\ Touched \subseteq Page
  /\ SharedBuffers \in BOOLEAN /\ LongArguments \in BOOLEAN
\* Images begin at the first page of the applications and end below the stack.
ASSUME ImageAssumption ==
  /\ Elf \subseteq App
  /\ \A a \in Elf : Len(Image[a]) \in 1 .. StackPage - FirstPage
\* A file is a sequence of pages.
ASSUME FileAssumption == \A fd \in DOMAIN File : File[fd] \in Seq(FileContents)

VARIABLES
  used,            \* frames the memory manager has handed out
  page_map,        \* page_map[f]: frame f as a page map
  content,         \* content[f]: frame f as a page
  app_loads,       \* app_loads[a]: the top page map of the cached image, or None
  cr3,             \* cr3[t]: the top page map of t, Kernel if the kernel's
  temp_pml4,       \* temp_pml4[t]: the one LoadApp copies from
  pc,              \* pc[t]: where t is in ExecuteFile
  app,             \* app[t]: the file t executes
  next,            \* next[t]: next page or entry of the loop t is in
  dpaging_begin_, dpaging_end_, file_map_end_, file_maps_,  \* of Task
  runs,            \* applications started (bound)
  abandoned        \* has an ExecuteFile left an address space behind? (history)

memory == <<used, page_map, content>>
areas == <<dpaging_begin_, dpaging_end_, file_map_end_, file_maps_>>
vars == <<memory, app_loads, cr3, temp_pml4, pc, app, next, areas, runs, abandoned>>

-----------------------------------------------------------------------------
(* Page maps.  The operators take and return the state of the memory as a  *)
(* record, so that a page fault can be one step.                           *)

Absent == [present |-> FALSE, writable |-> FALSE, frame |-> 0]
NoEntries == [e \in Entry |-> Absent]

Memory == [used |-> used, page_map |-> page_map, content |-> content]

SetMemory(m) ==
  /\ used' = m.used
  /\ page_map' = m.page_map
  /\ content' = m.content

Full(m) == m.used = Frame

\* First fit, as FrameAllocator promises one frame.
NewFrame(m) == CHOOSE f \in Frame \ m.used : \A g \in Frame \ m.used : f <= g

NewPageMapUncleared(m) ==
  [used |-> m.used \cup {NewFrame(m)},
   page_map |-> [m.page_map EXCEPT ![NewFrame(m)] = NoEntries],
   content |-> m.content]

NewPageMap(m) ==
  [used |-> m.used \cup {NewFrame(m)},
   page_map |-> [m.page_map EXCEPT ![NewFrame(m)] = NoEntries],
   content |-> [m.content EXCEPT ![NewFrame(m)] = Zero]]

Free(m, frames) ==
  [used |-> m.used \ frames,
   page_map |-> [f \in Frame |-> IF f \in frames THEN NoEntries ELSE m.page_map[f]],
   content |-> [f \in Frame |-> IF f \in frames THEN Stale ELSE m.content[f]]]

\* The entry of page v in the leaf page map, if there is one.
Leaf(m, root, v) ==
  LET upper == m.page_map[root][Upper(v)] IN
  IF upper.present THEN m.page_map[upper.frame][Lower(v)] ELSE Absent

\* SetNewPageMapIfNotPresent for entry e of page map f.
NewMapAt(m, f, e, writable) ==
  IF m.page_map[f][e].present
  THEN [m EXCEPT !.page_map[f][e].writable = writable]
  ELSE [NewPageMap(m) EXCEPT !.page_map[f][e] =
          [present |-> TRUE, writable |-> writable, frame |-> NewFrame(m)]]
NewMapFails(m, f, e) == ~m.page_map[f][e].present /\ Full(m)

\* SetupPageMaps for one page, writable or not: an error leaves the page map of
\* the upper level behind.
SetupPage(m, root, v, writable) ==
  IF NewMapFails(m, root, Upper(v))
  THEN [mem |-> m, ok |-> FALSE]
  ELSE LET n == NewMapAt(m, root, Upper(v), TRUE)
           leaf == n.page_map[root][Upper(v)].frame
       IN IF NewMapFails(n, leaf, Lower(v))
          THEN [mem |-> n, ok |-> FALSE]
          ELSE [mem |-> NewMapAt(n, leaf, Lower(v), writable), ok |-> TRUE]

Fill(m, root, v, x) == [m EXCEPT !.content[Leaf(m, root, v).frame] = x]

-----------------------------------------------------------------------------
Init ==
  /\ used = {}
  /\ page_map = [f \in Frame |-> NoEntries]
  /\ content = [f \in Frame |-> Stale]
  /\ app_loads = [a \in App |-> None]
  /\ cr3 = [t \in Task |-> Kernel]
  /\ temp_pml4 = [t \in Task |-> None]
  /\ pc = [t \in Task |-> "idle"]
  /\ app = [t \in Task |-> None]
  /\ next = [t \in Task |-> 0]
  /\ dpaging_begin_ = [t \in Task |-> 0]
  /\ dpaging_end_ = [t \in Task |-> 0]
  /\ file_map_end_ = [t \in Task |-> 0]
  /\ file_maps_ = [t \in Task |-> <<>>]
  /\ runs = 0
  /\ abandoned = FALSE

Goto(t, label, first) ==
  /\ pc' = [pc EXCEPT ![t] = label]
  /\ next' = [next EXCEPT ![t] = first]

\* ExecuteFile returns an error; CR3 stays what it is.
ReturnError(t) ==
  /\ Goto(t, "idle", 0)
  /\ abandoned' = TRUE

\* SetupPML4: a new address space (with the kernel's entries) becomes t's.
SetupPML4(t) ==
  /\ SetMemory(NewPageMap(Memory))
  /\ cr3' = [cr3 EXCEPT ![t] = NewFrame(Memory)]


Loading == {"load", "cache"}

\* LoadApp: a new address space, then the cache.  A file that is no executable
\* and one of another format are both found out after SetupPML4.
LoadApp(t, a) ==
  /\ pc[t] = "idle"
  /\ runs < MaxRuns
  /\ app' = [app EXCEPT ![t] = a]
  /\ runs' = runs + 1
  /\ IF Full(Memory)
     THEN ReturnError(t) /\ UNCHANGED <<memory, cr3, temp_pml4>>
     ELSE /\ SetupPML4(t)
          /\ temp_pml4' = [temp_pml4 EXCEPT ![t] = app_loads[a]]
          /\ \/ a \notin Elf /\ ReturnError(t)
             \/ /\ a \in Elf
                /\ IF app_loads[a] # None
                   THEN Goto(t, "copy", kUserBegin)
                   ELSE Goto(t, "load", FirstPage)
                /\ UNCHANGED abandoned
  /\ UNCHANGED <<app_loads, areas>>

\* SetupPageMaps(root, v, writable) as a step of the loop at pc[t] that goes on
\* until page last, then continues at label; the page is filled with x, unless
\* that is Unfilled.
Unfilled == "unfilled"
ASSUME FillAssumption ==
  /\ Args # Unfilled
  /\ \A a \in Elf : \A k \in 1 .. Len(Image[a]) : Image[a][k] # Unfilled
SetupStep(t, last, writable, x, label, first) ==
  LET s == SetupPage(Memory, cr3[t], next[t], writable) IN
  IF ~s.ok
  THEN SetMemory(s.mem) /\ ReturnError(t)
  ELSE /\ SetMemory(IF x = Unfilled THEN s.mem ELSE Fill(s.mem, cr3[t], next[t], x))
       /\ IF next[t] = last THEN Goto(t, label, first) ELSE Goto(t, pc[t], next[t] + 1)
       /\ UNCHANGED abandoned

\* CopyLoadSegments: pages are set up read-only, and filled by the kernel.
LastImagePage(a) == FirstPage + Len(Image[a]) - 1
ImagePage(a, v) == Image[a][v - FirstPage + 1]

LoadSegment(t) ==
  /\ pc[t] = "load"
  /\ SetupStep(t, LastImagePage(app[t]), FALSE, ImagePage(app[t], next[t]), "cache", 0)
  /\ UNCHANGED <<app_loads, cr3, temp_pml4, app, areas, runs>>

\* The space just loaded becomes the cached one, and the application gets another
\* that shares its pages.  insert leaves an entry that another terminal has made
\* meanwhile, and the space then belongs to nobody.
CacheApp(t) ==
  /\ pc[t] = "cache"
  /\ app_loads' = [app_loads EXCEPT ![app[t]] = IF @ = None THEN cr3[t] ELSE @]
  /\ temp_pml4' = [temp_pml4 EXCEPT ![t] = cr3[t]]
  /\ IF Full(Memory)
     THEN ReturnError(t) /\ UNCHANGED <<memory, cr3>>
     ELSE /\ SetupPML4(t)
          /\ Goto(t, "copy", kUserBegin)
          /\ abandoned' = (abandoned \/ app_loads[app[t]] # None)
  /\ UNCHANGED <<app, areas, runs>>

\* The entries of a leaf page map as CopyPageMaps copies them.
SharedWritable(leaf) == [e \in Entry |-> [leaf[e] EXCEPT !.writable = leaf[e].present]]
SharedReadOnly(leaf) == [e \in Entry |-> [leaf[e] EXCEPT !.writable = FALSE]]

\* CopyPageMaps for entry next[t] of the upper level.
CopyPageMap(t) ==
  LET e == next[t]
      src == page_map[temp_pml4[t]][e]
      n == NewFrame(Memory)
  IN
  /\ pc[t] = "copy"
  /\ IF src.present /\ Full(Memory)
     THEN ReturnError(t) /\ UNCHANGED memory
     ELSE /\ SetMemory(IF ~src.present THEN Memory ELSE
               [NewPageMap(Memory) EXCEPT
                  !.page_map[cr3[t]][e] = [src EXCEPT !.frame = n],
                  !.page_map[n] = SharedReadOnly(page_map[src.frame])])
          /\ IF e = kEntries - 1 THEN Goto(t, "args", ArgsPage) ELSE Goto(t, "copy", e + 1)
          /\ UNCHANGED abandoned
  /\ UNCHANGED <<app_loads, cr3, temp_pml4, app, areas, runs>>

\* The page of the arguments; MakeArgVector fails if they do not fit.
SetupArgs(t) ==
  /\ pc[t] = "args"
  /\ LET s == SetupPage(Memory, cr3[t], ArgsPage, TRUE) IN
     \/ SetupStep(t, ArgsPage, TRUE, Args, "stack", StackPage)
     \/ /\ LongArguments /\ s.ok
        /\ SetMemory(Fill(s.mem, cr3[t], ArgsPage, Args))
        /\ ReturnError(t)
  /\ UNCHANGED <<app_loads, cr3, temp_pml4, app, areas, runs>>

\* The stack, then CallApp.
SetupStack(t) ==
  /\ pc[t] = "stack"
  /\ SetupStep(t, StackPage + kStackPages - 1, TRUE, Unfilled, "call", 0)
  /\ UNCHANGED <<app_loads, cr3, temp_pml4, app, areas, runs>>

CallApp(t) ==
  LET elf_next_page == LastImagePage(app[t]) + 1 IN
  /\ pc[t] = "call"
  /\ dpaging_begin_' = [dpaging_begin_ EXCEPT ![t] = elf_next_page]
  /\ dpaging_end_' = [dpaging_end_ EXCEPT ![t] = elf_next_page]
  /\ file_map_end_' = [file_map_end_ EXCEPT ![t] = StackPage]
  /\ Goto(t, "run", 0)
  /\ UNCHANGED <<memory, app_loads, cr3, temp_pml4, app, file_maps_, runs, abandoned>>

-----------------------------------------------------------------------------
(* The application runs: its own accesses, page faults and system calls.   *)

DemandPageAfterFirst(t, v) == dpaging_begin_[t] < v /\ v < dpaging_end_[t]

DemandPage(t, v) == dpaging_begin_[t] <= v /\ v < dpaging_end_[t]

Mapped(t, v) == {k \in DOMAIN file_maps_[t] :
                   file_maps_[t][k].begin <= v /\ v < file_maps_[t][k].end}

\* FindFileMapping, and what Load reads into the page.
FindFileMapping(t, v) ==
  file_maps_[t][CHOOSE k \in Mapped(t, v) : \A l \in Mapped(t, v) : k <= l]
FilePage(t, v) ==
  LET m == FindFileMapping(t, v) IN File[m.fd][v - m.begin + 1]

CopyOnePageInPlace(m, root, v) ==
  LET leaf == m.page_map[root][Upper(v)].frame IN
  [ok |-> TRUE, mem |-> [m EXCEPT !.page_map[leaf][Lower(v)].writable = TRUE]]

CopyOnePage(m, root, v) ==
  LET leaf == m.page_map[root][Upper(v)].frame IN
  IF Full(m) THEN [mem |-> m, ok |-> FALSE]
  ELSE [ok |-> TRUE,
        mem |-> [NewPageMap(m) EXCEPT
          !.content[NewFrame(m)] = m.content[Leaf(m, root, v).frame],
          !.page_map[leaf][Lower(v)].frame = NewFrame(m),
          !.page_map[leaf][Lower(v)].writable = TRUE]]

HandlePageFault(t, v, rw, user) ==
  LET m == Memory
      present == Leaf(m, cr3[t], v).present
      s == SetupPage(m, cr3[t], v, TRUE)
  IN CASE present /\ rw /\ user -> CopyOnePage(m, cr3[t], v)
       [] present /\ ~(rw /\ user) -> [mem |-> m, ok |-> FALSE]
       [] ~present /\ DemandPage(t, v) -> s
       [] ~present /\ ~DemandPage(t, v) /\ Mapped(t, v) # {} ->
            IF s.ok THEN [s EXCEPT !.mem = Fill(@, cr3[t], v, FilePage(t, v))] ELSE s
       [] OTHER -> [mem |-> m, ok |-> FALSE]

\* CallApp returns, by Exit or KillApp.
Leave(t) ==
  /\ file_maps_' = [file_maps_ EXCEPT ![t] = <<>>]
  /\ Goto(t, "clean", kUserBegin)
  /\ UNCHANGED <<dpaging_begin_, dpaging_end_, file_map_end_>>

Exit(t) ==
  /\ pc[t] = "run"
  /\ Leave(t)
  /\ UNCHANGED <<memory, app_loads, cr3, temp_pml4, app, runs, abandoned>>

\* A store the page map allows; loads change nothing.
UserStore(t, v) ==
  /\ pc[t] = "run"
  /\ Leaf(Memory, cr3[t], v).writable
  /\ SetMemory(Fill(Memory, cr3[t], v, Written))
  /\ UNCHANGED <<app_loads, cr3, temp_pml4, pc, app, next, areas, runs, abandoned>>

\* An access it does not allow: the application goes on or is killed.
PageFault(t, v, rw) ==
  LET leaf == Leaf(Memory, cr3[t], v)
      s == HandlePageFault(t, v, rw, TRUE)
  IN
  /\ pc[t] = "run"
  /\ ~leaf.present \/ (rw /\ ~leaf.writable)
  /\ SetMemory(s.mem)
  /\ IF s.ok THEN UNCHANGED <<pc, next, areas>> ELSE Leave(t)
  /\ UNCHANGED <<app_loads, cr3, temp_pml4, app, runs, abandoned>>

ImagePages(a) == FirstPage .. LastImagePage(a)
StackPages == StackPage .. StackPage + kStackPages - 1

\* The pages the application may use.
Valid(t) == ImagePages(app[t]) \cup StackPages \cup {ArgsPage}
              \cup {v \in Page : dpaging_begin_[t] <= v /\ v < dpaging_end_[t]}
              \cup {v \in Page : Mapped(t, v) # {}}

\* A system call stores into a buffer of the application.  The kernel's stores
\* ignore the writable bit (CR0.WP is clear), but a page may be missing.
KernelStore(t, v) ==
  IF Leaf(Memory, cr3[t], v).present
  THEN [mem |-> Fill(Memory, cr3[t], v, Written), ok |-> TRUE]
  ELSE LET s == HandlePageFault(t, v, TRUE, FALSE) IN
       IF s.ok THEN [s EXCEPT !.mem = Fill(@, cr3[t], v, Written)] ELSE s

Buffer(t) ==
  {v \in Valid(t) : LET leaf == Leaf(Memory, cr3[t], v) IN
     SharedBuffers \/ ~leaf.present \/ leaf.writable}

\* A fault in the kernel that cannot be handled stops the machine.
SystemCallStores(t, v) ==
  LET s == KernelStore(t, v) IN
  /\ pc[t] = "run"
  /\ v \in Buffer(t)
  /\ SetMemory(s.mem)
  /\ IF s.ok THEN UNCHANGED <<pc, next>> ELSE Goto(t, "halt", 0)

\* ReadFile and ReadEvent, as far as memory goes.
ReadIntoBuffer(t, v) ==
  /\ SystemCallStores(t, v)
  /\ UNCHANGED <<app_loads, cr3, temp_pml4, app, areas, runs, abandoned>>

\* The application asks for no more than lies between the areas.
DemandPages(t, num_pages) ==
  /\ pc[t] = "run"
  /\ dpaging_end_[t] + num_pages <= file_map_end_[t]
  /\ dpaging_end_' = [dpaging_end_ EXCEPT ![t] = @ + num_pages]
  /\ UNCHANGED <<memory, app_loads, cr3, temp_pml4, pc, app, next, dpaging_begin_,
                 file_map_end_, file_maps_, runs, abandoned>>

\* The size of the file is stored in page v.
MapFile(t, fd, v) ==
  LET vaddr_end == file_map_end_[t]
      vaddr_begin == vaddr_end - Len(File[fd])
  IN
  /\ dpaging_end_[t] <= vaddr_begin
  /\ SystemCallStores(t, v)
  /\ IF KernelStore(t, v).ok
     THEN /\ file_map_end_' = [file_map_end_ EXCEPT ![t] = vaddr_begin]
          /\ file_maps_' = [file_maps_ EXCEPT ![t] =
               Append(@, [fd |-> fd, begin |-> vaddr_begin, end |-> vaddr_end])]
     ELSE UNCHANGED <<file_map_end_, file_maps_>>
  /\ UNCHANGED <<app_loads, cr3, temp_pml4, app, dpaging_begin_, dpaging_end_, runs, abandoned>>

-----------------------------------------------------------------------------
FreedPagesShared(leaf) == {leaf[e].frame : e \in {e \in Entry : leaf[e].present}}

\* What CleanPageMap gives back of a leaf page map.
FreedPages(leaf) == {leaf[e].frame : e \in {e \in Entry : leaf[e].writable}}

\* CleanPageMap for entry next[t] of the upper level.
CleanPageMap(t) ==
  LET e == next[t]
      upper == page_map[cr3[t]][e]
      freed == FreedPages(page_map[upper.frame]) \cup
                 (IF upper.writable THEN {upper.frame} ELSE {})
  IN
  /\ pc[t] = "clean"
  /\ SetMemory(IF ~upper.present THEN Memory ELSE
       [Free(Memory, freed) EXCEPT !.page_map[cr3[t]][e] = Absent])
  /\ IF e = kEntries - 1 THEN Goto(t, "free", 0) ELSE Goto(t, "clean", e + 1)
  /\ UNCHANGED <<app_loads, cr3, temp_pml4, app, areas, runs, abandoned>>

FreePML4Kept(t) ==
  /\ pc[t] = "free"
  /\ cr3' = [cr3 EXCEPT ![t] = Kernel]
  /\ Goto(t, "idle", 0)
  /\ UNCHANGED <<memory, app_loads, temp_pml4, app, areas, runs, abandoned>>

FreePML4(t) ==
  /\ pc[t] = "free"
  /\ SetMemory(Free(Memory, {cr3[t]}))
  /\ cr3' = [cr3 EXCEPT ![t] = Kernel]
  /\ Goto(t, "idle", 0)
  /\ UNCHANGED <<app_loads, temp_pml4, app, areas, runs, abandoned>>

Halted == \E t \in Task : pc[t] = "halt"

Next == ~Halted /\ \E t \in Task :
  \/ \E a \in App : LoadApp(t, a)
  \/ LoadSegment(t) \/ CacheApp(t) \/ CopyPageMap(t)
  \/ SetupArgs(t) \/ SetupStack(t) \/ CallApp(t)
  \/ \E v \in Touched : UserStore(t, v)
  \/ \E v \in Touched, rw \in BOOLEAN : PageFault(t, v, rw)
  \/ \E v \in Touched : ReadIntoBuffer(t, v)
  \/ \E n \in 1 .. StackPage : DemandPages(t, n)
  \/ \E fd \in DOMAIN File, v \in Touched : MapFile(t, fd, v)
  \/ Exit(t) \/ CleanPageMap(t) \/ FreePML4(t)

Spec == Init /\ [][Next]_vars

-----------------------------------------------------------------------------
(* Properties.                                                             *)

\* Every variable keeps its type; in particular no page map is entered for a
\* frame that does not exist.
TypeOK ==
  /\ used \in SUBSET Frame
  /\ page_map \in [Frame -> [Entry -> PageMapEntry]]
  /\ content \in [Frame -> Content]
  /\ app_loads \in [App -> Frame \cup {None}]
  /\ cr3 \in [Task -> Frame \cup {Kernel}]
  /\ temp_pml4 \in [Task -> Frame \cup {None}]
  /\ pc \in [Task -> {"idle", "load", "cache", "copy", "args", "stack", "call",
                       "run", "clean", "free", "halt"}]
  /\ app \in [Task -> App \cup {None}]
  /\ next \in [Task -> 0 .. ArgsPage]
  /\ dpaging_begin_ \in [Task -> 0 .. StackPage]
  /\ dpaging_end_ \in [Task -> 0 .. StackPage]
  /\ file_map_end_ \in [Task -> 0 .. StackPage]
  /\ file_maps_ \in [Task -> Seq(FileMapping)]
  /\ runs \in 0 .. MaxRuns
  /\ abandoned \in BOOLEAN

Spaces == {cr3[t] : t \in Task} \ {Kernel}
Cached == {app_loads[a] : a \in App} \ {None}
CopiedFrom == {temp_pml4[t] : t \in Task} \ {None}  \* also what a lost insert left
Roots == Spaces \cup Cached \cup CopiedFrom

Tables(root) == {page_map[root][e].frame : e \in {e \in Entry : page_map[root][e].present}}
Present(root) == {v \in Page : Leaf(Memory, root, v).present}
Pages(root) == {Leaf(Memory, root, v).frame : v \in Present(root)}
PrivatePages(root) ==
  {Leaf(Memory, root, v).frame : v \in {v \in Page : Leaf(Memory, root, v).writable}}

\* Spaces whose read-only pages are their own: those that others are copied
\* from, and those that are copied from none.
Owners == Cached \cup CopiedFrom \cup
            ({cr3[t] : t \in {t \in Task : temp_pml4[t] = None}} \ {Kernel})

Owned(root) ==
  {root} \cup Tables(root) \cup (IF root \in Owners THEN Pages(root) ELSE PrivatePages(root))

\* A page that an application can store to is in no other address space, and not
\* in the cache (CopyPageMaps, CopyOnePage).
NoSharedWritable ==
  \A r, q \in Roots : \A v \in Page :
    Leaf(Memory, r, v).writable =>
      \A w \in Page : (Leaf(Memory, q, w).present /\ <<r, v>> # <<q, w>>) =>
        Leaf(Memory, q, w).frame # Leaf(Memory, r, v).frame

\* The cached image of an application is that of its file, whatever those that
\* were started from it have done since.  (CopyLoadSegments: "setup pagemaps as
\* readonly".)
ImageIntact ==
  \A a \in App : app_loads[a] # None =>
    \A v \in ImagePages(a) :
      content[Leaf(Memory, app_loads[a], v).frame] = ImagePage(a, v)

\* Every frame of an address space is allocated, belongs to it alone or is a
\* page shared from the cache: CleanPageMaps has given nothing back that somebody
\* still uses.
FramesOwnedOnce ==
  /\ \A r \in Roots :
       /\ Owned(r) \subseteq used
       /\ Pages(r) \subseteq UNION {Owned(q) : q \in Roots}
       /\ \A q \in Roots \ {r} : Owned(r) \cap Owned(q) = {}
  /\ \A t, u \in Task : t # u /\ cr3[t] = cr3[u] => cr3[t] = Kernel

\* Unless an ExecuteFile has failed, or loaded what another one has cached
\* meanwhile, every allocated frame is part of an address space or of the cache:
\* what an application used is given back when it ends.
NoLeak == ~abandoned => used = UNION {Owned(r) : r \in Spaces \cup Cached}

\* Every frame is accounted for, whatever fails or overlaps: what is in use has
\* one owner (CleanPageMaps), what can be written is seen by its owner only
\* (CopyPageMaps, CopyOnePage), and what is allocated is in use (ExecuteFile's
\* clean-up, FreePML4).
FramesAccounted == FramesOwnedOnce /\ NoSharedWritable /\ NoLeak

\* As long as there is memory, HandlePageFault can handle every page fault in a
\* system call: buffers may lie in pages that are not there yet.
HaltsOnlyWhenFull == Halted => used = Frame

\* The memory of the application that t runs: what its pages contain, or what
\* they will contain when they are first used.
PageContent(t, v) ==
  LET leaf == Leaf(Memory, cr3[t], v) IN
  IF leaf.present THEN content[leaf.frame]
  ELSE IF DemandPage(t, v) THEN Zero
  ELSE FilePage(t, v)

InitialMemory(a) ==
  [v \in ImagePages(a) \cup StackPages \cup {ArgsPage} |->
     IF v \in ImagePages(a) THEN ImagePage(a, v) ELSE IF v = ArgsPage THEN Args ELSE Zero]

Private == INSTANCE PrivateMemory WITH
  App <- Elf,
  space <- [t \in Task |->
    IF pc[t] = "run" THEN [v \in Valid(t) |-> PageContent(t, v)] ELSE <<>>]

\* Sharing, copying on write, demand paging and file mappings cannot be seen by
\* applications: each has a memory of its own.
ImplementsPrivateMemory == Private!Spec
=============================================================================
