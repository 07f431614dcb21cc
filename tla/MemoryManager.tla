--------------------------- MODULE MemoryManager ---------------------------
(***************************************************************************)
(* The frame allocator (kernel/memory_manager.cpp, .hpp): one bit for each *)
(* 4 KiB frame of physical memory, set up from the UEFI memory map, then a *)
(* first-fit search for free runs.                                         *)
(*                                                                         *)
(* Allocate and Free take no lock and do not mask interrupts, so a task    *)
(* can be preempted between any two frames of their loops: a step is one   *)
(* iteration.  Preemptible = FALSE is the discipline under which the       *)
(* allocator is correct, one call at a time.                               *)
(*                                                                         *)
(* A UEFI page and a frame are both 4 KiB, so addresses are frame numbers. *)
(***************************************************************************)
EXTENDS Integers, Sequences

CONSTANTS
  kFrameCount,      \* frames the bitmap covers
  kBitsPerMapLine,  \* frames of one line of the bitmap
  kHeapFrames,      \* frames of the kernel heap
  Task,             \* who calls the allocator
  Main,             \* ... and the one that boots
  Requests,         \* how many frames are asked for or given back at once
  MemoryMaps,       \* the memory maps the loader may pass
  Preemptible       \* may a call begin while another one is going on?

Frame == 0 .. kFrameCount - 1

\* What of a MemoryDescriptor is used; available is IsAvailable(type).
Descriptor == [physical_start : Frame, number_of_pages : Nat, available : BOOLEAN]

ASSUME FrameAssumption ==
  /\ kFrameCount \in Nat \ {0} /\ kBitsPerMapLine \in Nat \ {0}
  /\ kHeapFrames \in Nat \ {0} /\ Requests \subseteq Nat \ {0}
ASSUME CallerAssumption == Main \in Task /\ Preemptible \in BOOLEAN
\* The bitmap is not indexed beyond its end: all memory lies within its 128 GiB.
ASSUME MapAssumption ==
  /\ MemoryMaps \subseteq Seq(Descriptor)
  /\ \A m \in MemoryMaps : \A k \in 1 .. Len(m) :
       m[k].physical_start + m[k].number_of_pages <= kFrameCount

VARIABLES
  memory_map,      \* the memory map (constant)
  phase,           \* "scan" the map, allocate the "heap", "run", or "exit"
  iter,            \* next descriptor
  available_end,   \* end of the last available descriptor so far
  alloc_map_,      \* alloc_map_[f]: the bit of frame f
  range_begin_, range_end_,
  program_break,   \* first frame of the heap
  pc,              \* pc[t]: the loop that t is in
  num_frames, start_frame_id, i,   \* its arguments and locals
  held,            \* held[f]: how many callers own f (history)
  reserved         \* frames marked at the end of the scan (history)

boot == <<memory_map, iter, available_end, range_begin_, range_end_, reserved>>
vars == <<boot, phase, alloc_map_, program_break, pc, num_frames,
          start_frame_id, i, held>>

Run(first, n) == first .. first + n - 1
HeapRun == IF phase = "run" THEN Run(program_break, kHeapFrames) ELSE {}

-----------------------------------------------------------------------------
\* The bitmap is zero-initialised, every frame free.
Init ==
  /\ memory_map \in MemoryMaps
  /\ phase = "scan"
  /\ iter = 1
  /\ available_end = 0
  /\ alloc_map_ = [f \in Frame |-> FALSE]
  /\ range_begin_ = 0 /\ range_end_ = kFrameCount
  /\ program_break = 0
  /\ pc = [t \in Task |-> "idle"]
  /\ num_frames = [t \in Task |-> 0]
  /\ start_frame_id = [t \in Task |-> 0]
  /\ i = [t \in Task |-> 0]
  /\ held = [f \in Frame |-> 0]
  /\ reserved = {}

\* The frames one descriptor makes InitializeMemoryManager mark: the gap before
\* it, and itself unless its type is available.
GapIgnored(desc) ==
  {f \in Run(desc.physical_start, desc.number_of_pages) : ~desc.available}
Unusable(desc) ==
  {f \in Run(desc.physical_start, desc.number_of_pages) : ~desc.available}
    \cup (available_end .. desc.physical_start - 1)

PhysicalEnd(desc) == desc.physical_start + desc.number_of_pages

ScanDescriptor ==
  LET desc == memory_map[iter] IN
  /\ phase = "scan"
  /\ iter <= Len(memory_map)
  /\ alloc_map_' = [f \in Frame |-> alloc_map_[f] \/ f \in Unusable(desc)]
  /\ available_end' = IF desc.available THEN PhysicalEnd(desc) ELSE available_end
  /\ iter' = iter + 1
  /\ UNCHANGED <<memory_map, range_begin_, range_end_, reserved, phase,
                 program_break, pc, num_frames, start_frame_id, i, held>>

\* Entering Allocate: the search starts at the beginning of the range.
BeginSearch(t, n, first) ==
  /\ pc' = [pc EXCEPT ![t] = "test"]
  /\ num_frames' = [num_frames EXCEPT ![t] = n]
  /\ start_frame_id' = [start_frame_id EXCEPT ![t] = first]
  /\ i' = [i EXCEPT ![t] = 0]

\* The end of InitializeMemoryManager: frame 0 is kept out of the range, and
\* InitializeHeap calls Allocate.
SetMemoryRange ==
  /\ phase = "scan"
  /\ iter > Len(memory_map)
  /\ range_begin_' = 1
  /\ range_end_' = available_end
  /\ reserved' = {f \in Frame : alloc_map_[f]}
  /\ phase' = "heap"
  /\ BeginSearch(Main, kHeapFrames, 1)
  /\ UNCHANGED <<memory_map, iter, available_end, alloc_map_, program_break, held>>

-----------------------------------------------------------------------------
CanCall(t) ==
  /\ phase = "run"
  /\ pc[t] = "idle"
  /\ Preemptible \/ \A u \in Task : pc[u] = "idle"

Allocate(t, n) ==
  /\ CanCall(t)
  /\ BeginSearch(t, n, range_begin_)
  /\ UNCHANGED <<boot, phase, alloc_map_, program_break, held>>

Candidate(t) == start_frame_id[t] + i[t]

BeyondEnd(t) == Candidate(t) >= range_end_

\* kNoEnoughMemory; for the heap the kernel gives up.
Exhausted(t) ==
  /\ pc[t] = "test"
  /\ BeyondEnd(t)
  /\ pc' = [pc EXCEPT ![t] = "idle"]
  /\ phase' = IF phase = "heap" THEN "exit" ELSE phase
  /\ UNCHANGED <<boot, alloc_map_, program_break, num_frames, start_frame_id, i, held>>

\* A used frame: the search restarts at the frame after it.
Restart(t) == Candidate(t) + 1

FrameUsed(t) ==
  /\ pc[t] = "test"
  /\ ~BeyondEnd(t)
  /\ alloc_map_[Candidate(t)]
  /\ start_frame_id' = [start_frame_id EXCEPT ![t] = Restart(t)]
  /\ i' = [i EXCEPT ![t] = 0]
  /\ UNCHANGED <<boot, phase, alloc_map_, program_break, pc, num_frames, held>>

LastFrameShort(t) == i[t] + 2 >= num_frames[t]
LastFrame(t) == i[t] + 1 = num_frames[t]

FrameFree(t) ==
  /\ pc[t] = "test"
  /\ ~BeyondEnd(t)
  /\ ~alloc_map_[Candidate(t)]
  /\ i' = [i EXCEPT ![t] = IF LastFrame(t) THEN 0 ELSE @ + 1]
  /\ pc' = [pc EXCEPT ![t] = IF LastFrame(t) THEN "mark" ELSE "test"]
  /\ UNCHANGED <<boot, phase, alloc_map_, program_break, num_frames,
                 start_frame_id, held>>

\* SetBit(frame, true); after the last one Allocate returns the run.
MarkAllocated(t) ==
  /\ pc[t] = "mark"
  /\ alloc_map_' = [alloc_map_ EXCEPT ![Candidate(t)] = TRUE]
  /\ i' = [i EXCEPT ![t] = @ + 1]
  /\ \/ /\ ~LastFrame(t)
        /\ UNCHANGED <<phase, pc, program_break, held>>
     \/ /\ LastFrame(t)
        /\ held' = [f \in Frame |->
             IF f \in Run(start_frame_id[t], num_frames[t]) THEN held[f] + 1 ELSE held[f]]
        /\ pc' = [pc EXCEPT ![t] = "idle"]
        /\ program_break' = IF phase = "heap" THEN start_frame_id[t] ELSE program_break
        /\ phase' = "run"
  /\ UNCHANGED <<boot, num_frames, start_frame_id>>

\* The callers give back frames they were granted (the heap never is).  Bound:
\* a frame that was handed out twice is kept, so that held stays finite.
Free(t, first, n) ==
  /\ CanCall(t)
  /\ Run(first, n) \subseteq {f \in Frame : held[f] = 1} \ HeapRun
  /\ held' = [f \in Frame |-> IF f \in Run(first, n) THEN held[f] - 1 ELSE held[f]]
  /\ pc' = [pc EXCEPT ![t] = "free"]
  /\ num_frames' = [num_frames EXCEPT ![t] = n]
  /\ start_frame_id' = [start_frame_id EXCEPT ![t] = first]
  /\ i' = [i EXCEPT ![t] = 0]
  /\ UNCHANGED <<boot, phase, alloc_map_, program_break>>

\* SetBit(frame, false).
ClearFrame(t) ==
  /\ pc[t] = "free"
  /\ alloc_map_' = [alloc_map_ EXCEPT ![Candidate(t)] = FALSE]
  /\ i' = [i EXCEPT ![t] = @ + 1]
  /\ pc' = [pc EXCEPT ![t] = IF LastFrame(t) THEN "idle" ELSE "free"]
  /\ UNCHANGED <<boot, phase, program_break, num_frames, start_frame_id, held>>

\* The kernel's exit(1) stops everything.
Exit ==
  /\ phase = "exit"
  /\ UNCHANGED vars

Iterate(t) ==
  Exhausted(t) \/ FrameUsed(t) \/ FrameFree(t) \/ MarkAllocated(t) \/ ClearFrame(t)

Next ==
  \/ ScanDescriptor
  \/ SetMemoryRange
  \/ \E t \in Task, n \in Requests : Allocate(t, n)
  \/ \E t \in Task, first \in Frame, n \in Requests : Free(t, first, n)
  \/ \E t \in Task : Iterate(t)
  \/ Exit

Spec == Init /\ [][Next]_vars

\* Round robin gives every ready task the CPU again and again.
FairSpec == Spec /\ \A t \in Task : WF_vars(Iterate(t))

-----------------------------------------------------------------------------
(***************************************************************************)
(* Properties                                                              *)
(***************************************************************************)
\* Types of every variable.
TypeOK ==
  /\ memory_map \in MemoryMaps
  /\ phase \in {"scan", "heap", "run", "exit"}
  /\ iter \in 1 .. Len(memory_map) + 1
  /\ available_end \in 0 .. kFrameCount
  /\ alloc_map_ \in [Frame -> BOOLEAN]
  /\ range_begin_ \in {0, 1} /\ range_end_ \in 0 .. kFrameCount
  /\ program_break \in Nat
  /\ pc \in [Task -> {"idle", "test", "mark", "free"}]
  /\ num_frames \in [Task -> Nat]
  /\ start_frame_id \in [Task -> Nat]
  /\ i \in [Task -> Nat]
  /\ held \in [Frame -> Nat]
  /\ reserved \subseteq Frame

\* Allocate hands a frame to at most one owner at a time: what the tests of
\* Allocate and Free expect of two calls, and what page tables rely on.
SingleUse == \A f \in Frame : held[f] <= 1

\* A frame that is handed out lies in available memory of the memory map, in
\* nothing the map says is in use, and is not frame 0 (whose address is null),
\* whatever the order of the descriptors.
OnlyUsable ==
  \A f \in Frame : held[f] > 0 =>
    LET In(k) == f \in Run(memory_map[k].physical_start, memory_map[k].number_of_pages)
    IN /\ f # 0
       /\ \E k \in 1 .. Len(memory_map) : memory_map[k].available /\ In(k)
       /\ \A k \in 1 .. Len(memory_map) : In(k) => memory_map[k].available

\* Between calls the bitmap says of every frame what the header promises,
\* 0: free, 1: used; nothing leaks and nothing is lost.
BitmapExact ==
  phase = "run" /\ (\A t \in Task : pc[t] = "idle") =>
    \A f \in Frame : alloc_map_[f] <=> f \in reserved \/ held[f] > 0

\* InitializeMemoryManager, Allocate and Free together: what is handed out may
\* be used, and what the bitmap says is so.
FramesExact == OnlyUsable /\ BitmapExact

Used(first, n) == \E f \in Run(first, n) \cap Frame : alloc_map_[f]

\* The search skips no run: everything before the run it takes, or is looking
\* at, holds a used frame, so Allocate is first fit.
FirstFit ==
  \A t \in Task : pc[t] \in {"test", "mark"} =>
    \A first \in range_begin_ .. start_frame_id[t] - 1 : Used(first, num_frames[t])

\* Allocate reports kNoEnoughMemory only when no run of that length is free.
FailsOnlyWhenFull ==
  [][\A t \in Task : pc[t] = "test" /\ pc'[t] = "idle" =>
       \A first \in range_begin_ .. range_end_ - num_frames[t] :
         Used(first, num_frames[t])]_vars

\* Every call of Allocate and Free returns, whatever the other tasks do between
\* its iterations.
CallsReturn == \A t \in Task : pc[t] # "idle" ~> pc[t] = "idle"

\* The allocator that FrameAllocator describes; a run changes hands when
\* Allocate returns and when Free is called.
Allocator == INSTANCE FrameAllocator WITH used <- {f \in Frame : held[f] > 0}
ImplementsAllocator == Allocator!Spec

-----------------------------------------------------------------------------
(***************************************************************************)
(* The inductive invariant.  Its first part needs no discipline of the     *)
(* callers.                                                                *)
(***************************************************************************)
\* What each phase of booting has established.
PhaseInv ==
  /\ phase \in {"scan", "exit"} => \A t \in Task : pc[t] = "idle"
  /\ phase = "heap" => /\ pc[Main] \in {"test", "mark"}
                        /\ \A t \in Task \ {Main} : pc[t] = "idle"
  /\ phase = "scan" => \A f \in Frame : held[f] = 0
  /\ phase # "scan" => /\ range_begin_ = 1 /\ range_end_ = available_end
                        /\ iter = Len(memory_map) + 1

\* The loops stay within their run, and the run within the range.
LoopInv ==
  \A t \in Task :
    /\ pc[t] # "idle" => i[t] < num_frames[t] /\ start_frame_id[t] >= 1
    /\ pc[t] = "test" => Candidate(t) <= range_end_ \/ i[t] = 0
    /\ pc[t] \in {"mark", "free"} => start_frame_id[t] + num_frames[t] <= range_end_

Within(f, desc) == f \in Run(desc.physical_start, desc.number_of_pages)
Blocked(f) == IF phase = "scan" THEN alloc_map_[f] ELSE f \in reserved

\* Of the descriptors before iter: what is in use is marked, and below
\* available_end what is not marked is available.
ScanInv ==
  /\ \A f \in Frame, k \in 1 .. iter - 1 :
       Within(f, memory_map[k]) /\ ~memory_map[k].available => Blocked(f)
  /\ \A f \in Frame : f < available_end /\ ~Blocked(f) =>
       \E k \in 1 .. iter - 1 : memory_map[k].available /\ Within(f, memory_map[k])

\* The frames of its run that t has found free, or works on.
Chosen(t) ==
  CASE pc[t] = "idle" -> {}
    [] pc[t] = "test" -> Run(start_frame_id[t], i[t])
    [] OTHER -> Run(start_frame_id[t], num_frames[t])

\* What boot marked stays marked, and is in nobody's hands.
UsableInv ==
  phase # "scan" =>
    /\ \A f \in reserved : alloc_map_[f]
    /\ \A f \in Frame : held[f] > 0 => f \notin reserved /\ 1 <= f /\ f < range_end_
    /\ \A t \in Task : Chosen(t) \cap reserved = {}

AnyInv == TypeOK /\ PhaseInv /\ LoopInv /\ ScanInv /\ UsableInv

\* One call at a time.
OneCall == \A t, u \in Task : pc[t] # "idle" /\ pc[u] # "idle" => t = u

\* The marked frames of the call going on.
Marked(t) ==
  CASE pc[t] = "mark" -> Run(start_frame_id[t], i[t])
    [] pc[t] = "free" -> Candidate(t) .. start_frame_id[t] + num_frames[t] - 1
    [] OTHER -> {}

\* BitmapExact in the middle of a call.
BitsInv ==
  phase # "scan" =>
    \A f \in Frame :
      alloc_map_[f] <=> \/ f \in reserved \/ held[f] > 0
                        \/ \E t \in Task : f \in Marked(t)

\* A run that is looked for, taken or given back belongs to nobody.
RunInv ==
  \A t \in Task : \A f \in Chosen(t) \cap Frame :
    held[f] = 0 /\ (pc[t] = "test" => ~alloc_map_[f])

ExclusiveInv == OneCall /\ SingleUse /\ BitsInv /\ RunInv /\ FirstFit

IInv == AnyInv /\ (~Preemptible => ExclusiveInv)
=============================================================================
