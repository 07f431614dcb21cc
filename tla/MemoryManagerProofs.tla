------------------------ MODULE MemoryManagerProofs ------------------------
(***************************************************************************)
(* Proofs about MemoryManager for every size of memory, memory map, number *)
(* of callers and sizes of requests.                                       *)
(***************************************************************************)
EXTENDS MemoryManager, TLAPS

\* A descriptor of the memory map lies within the bitmap.
LEMMA DescriptorFits ==
  ASSUME TypeOK, NEW k \in 1 .. Len(memory_map)
  PROVE  /\ memory_map \in Seq(Descriptor)
         /\ memory_map[k] \in Descriptor
         /\ memory_map[k].physical_start \in Frame
         /\ memory_map[k].number_of_pages \in Nat
         /\ memory_map[k].available \in BOOLEAN
         /\ memory_map[k].physical_start + memory_map[k].number_of_pages <= kFrameCount
<1>1. memory_map \in Seq(Descriptor)
  BY MapAssumption DEF TypeOK
<1>2. memory_map[k] \in Descriptor
  BY <1>1
<1> QED BY <1>1, <1>2, MapAssumption DEF TypeOK, Descriptor

\* Every action keeps the types.
LEMMA TypeStep == TypeOK /\ [Next]_vars => TypeOK'
<1> SUFFICES ASSUME TypeOK, [Next]_vars PROVE TypeOK'
  OBVIOUS
<1> USE FrameAssumption, CallerAssumption
<1>1. CASE ScanDescriptor
  <2>1. iter \in 1 .. Len(memory_map) /\ Len(memory_map) \in Nat
    BY <1>1, MapAssumption DEF ScanDescriptor, TypeOK
  <2> DEFINE desc == memory_map[iter]
  <2>2. /\ desc.physical_start \in Frame /\ desc.number_of_pages \in Nat
        /\ desc.physical_start + desc.number_of_pages <= kFrameCount
    BY <2>1, DescriptorFits
  <2>3. available_end' \in {available_end, PhysicalEnd(desc)}
    BY <1>1 DEF ScanDescriptor
  <2>4. available_end' \in 0 .. kFrameCount
    BY <2>2, <2>3 DEF TypeOK, PhysicalEnd, Frame
  <2>5. alloc_map_' \in [Frame -> BOOLEAN]
    BY <1>1 DEF ScanDescriptor, TypeOK
  <2> QED BY <1>1, <2>1, <2>4, <2>5 DEF ScanDescriptor, TypeOK
<1>2. CASE SetMemoryRange
  BY <1>2 DEF SetMemoryRange, BeginSearch, TypeOK
<1>3. ASSUME NEW t \in Task, NEW n \in Requests, Allocate(t, n) PROVE TypeOK'
  BY <1>3 DEF Allocate, BeginSearch, boot, TypeOK
<1>4. ASSUME NEW t \in Task, NEW first \in Frame, NEW n \in Requests, Free(t, first, n)
      PROVE  TypeOK'
  <2>1. held' \in [Frame -> Nat]
    BY <1>4 DEF Free, TypeOK, Frame, Run
  <2> QED BY <1>4, <2>1 DEF Free, boot, TypeOK, Frame
<1>5. ASSUME NEW t \in Task, Exhausted(t) PROVE TypeOK'
  BY <1>5 DEF Exhausted, boot, TypeOK
<1>6. ASSUME NEW t \in Task, FrameUsed(t) PROVE TypeOK'
  BY <1>6 DEF FrameUsed, Restart, Candidate, boot, TypeOK
<1>7. ASSUME NEW t \in Task, FrameFree(t) PROVE TypeOK'
  <2>1. i' \in [Task -> Nat] /\ pc' \in [Task -> {"idle", "test", "mark", "free"}]
    BY <1>7 DEF FrameFree, TypeOK
  <2>2. UNCHANGED <<boot, phase, alloc_map_, program_break, num_frames,
                    start_frame_id, held>>
    BY <1>7 DEF FrameFree
  <2> QED BY <2>1, <2>2 DEF boot, TypeOK
<1>8. ASSUME NEW t \in Task, MarkAllocated(t) PROVE TypeOK'
  <2>1. alloc_map_' \in [Frame -> BOOLEAN]
    BY <1>8 DEF MarkAllocated, TypeOK
  <2>0. i' \in [Task -> Nat]
    BY <1>8 DEF MarkAllocated, TypeOK
  <2>2. held' \in [Frame -> Nat]
    BY <1>8 DEF MarkAllocated, TypeOK
  <2>3. /\ pc' \in [Task -> {"idle", "test", "mark", "free"}]
        /\ phase' \in {"scan", "heap", "run", "exit"} /\ program_break' \in Nat
    BY <1>8 DEF MarkAllocated, TypeOK
  <2>4. UNCHANGED <<boot, num_frames, start_frame_id>>
    BY <1>8 DEF MarkAllocated
  <2> QED BY <2>0, <2>1, <2>2, <2>3, <2>4 DEF boot, TypeOK
<1>9. ASSUME NEW t \in Task, ClearFrame(t) PROVE TypeOK'
  <2>1. alloc_map_' \in [Frame -> BOOLEAN]
    BY <1>9 DEF ClearFrame, TypeOK
  <2>2. i' \in [Task -> Nat]
    BY <1>9 DEF ClearFrame, TypeOK
  <2>3. pc' \in [Task -> {"idle", "test", "mark", "free"}]
    BY <1>9 DEF ClearFrame, TypeOK
  <2>4. UNCHANGED <<boot, phase, program_break, num_frames, start_frame_id, held>>
    BY <1>9 DEF ClearFrame
  <2> QED BY <2>1, <2>2, <2>3, <2>4 DEF boot, TypeOK
<1>10. CASE Exit \/ UNCHANGED vars
  BY <1>10 DEF Exit, vars, boot, TypeOK
<1> QED BY <1>1, <1>2, <1>3, <1>4, <1>5, <1>6, <1>7, <1>8, <1>9, <1>10
        DEF Next, Iterate

-----------------------------------------------------------------------------
(* What holds with and without preemption.                                 *)

\* An iteration of a call changes the locals of that caller only.
LEMMA OthersKeep ==
  ASSUME TypeOK, NEW t \in Task, Iterate(t)
  PROVE  /\ UNCHANGED boot /\ pc[t] # "idle"
         /\ UNCHANGED num_frames
         /\ \A u \in Task \ {t} : /\ pc'[u] = pc[u] /\ i'[u] = i[u]
                                  /\ start_frame_id'[u] = start_frame_id[u]
<1>1. CASE Exhausted(t)
  BY <1>1 DEF Exhausted, TypeOK
<1>2. CASE FrameUsed(t)
  BY <1>2 DEF FrameUsed, TypeOK
<1>3. CASE FrameFree(t)
  BY <1>3 DEF FrameFree, TypeOK
<1>4. CASE MarkAllocated(t)
  BY <1>4 DEF MarkAllocated, TypeOK
<1>5. CASE ClearFrame(t)
  BY <1>5 DEF ClearFrame, TypeOK
<1> QED BY <1>1, <1>2, <1>3, <1>4, <1>5 DEF Iterate

\* The scan: every descriptor marks what is in use and the gap before it.
LEMMA ScanStep == AnyInv /\ [Next]_vars => ScanInv'
<1> SUFFICES ASSUME AnyInv, [Next]_vars PROVE ScanInv'
  OBVIOUS
<1> USE DEF AnyInv
<1>a. CASE phase # "scan" /\ phase' # "scan" /\ UNCHANGED boot
  BY <1>a DEF ScanInv, Blocked, boot
<1>1. CASE ScanDescriptor
  <2> DEFINE desc == memory_map[iter]
  <2>1. iter \in 1 .. Len(memory_map) /\ Len(memory_map) \in Nat
    BY <1>1, MapAssumption DEF ScanDescriptor, TypeOK
  <2>2. /\ desc.physical_start \in Nat /\ desc.number_of_pages \in Nat
        /\ desc.available \in BOOLEAN /\ available_end \in Nat
    BY <2>1, DescriptorFits DEF TypeOK, Frame
  <2>3. /\ \A f \in Frame : alloc_map_'[f] <=> alloc_map_[f] \/ f \in Unusable(desc)
        /\ available_end' = IF desc.available THEN PhysicalEnd(desc) ELSE available_end
        /\ memory_map' = memory_map /\ iter' = iter + 1
        /\ phase = "scan" /\ phase' = "scan"
    BY <1>1 DEF ScanDescriptor
  <2>4. \A f \in Frame : Blocked(f)' <=> Blocked(f) \/ f \in Unusable(desc)
    BY <2>3 DEF Blocked
  <2>5. ASSUME NEW f \in Frame, NEW k \in 1 .. iter' - 1,
               Within(f, memory_map[k]), ~memory_map[k].available
        PROVE  Blocked(f)'
    <3>1. CASE k = iter
      BY <2>4, <2>5, <3>1 DEF Unusable, Within
    <3>2. CASE k # iter
      <4>1. k \in 1 .. iter - 1
        BY <2>1, <2>3, <3>2
      <4> QED BY <2>4, <2>5, <4>1 DEF ScanInv
    <3> QED BY <3>1, <3>2
  <2>6. ASSUME NEW f \in Frame, f < available_end', ~Blocked(f)'
        PROVE  \E k \in 1 .. iter' - 1 : memory_map[k].available /\ Within(f, memory_map[k])
    <3>1. f \notin Unusable(desc) /\ ~Blocked(f)
      BY <2>4, <2>6
    <3>2. CASE f < available_end
      <4>1. PICK k \in 1 .. iter - 1 : memory_map[k].available /\ Within(f, memory_map[k])
        BY <3>1, <3>2 DEF ScanInv
      <4>2. k \in 1 .. iter' - 1
        BY <2>1, <2>3
      <4> QED BY <4>1, <4>2
    <3>3. CASE f >= available_end
      <4>1. desc.available /\ f < PhysicalEnd(desc)
        BY <2>2, <2>3, <2>6, <3>3 DEF Frame
      <4>2. f >= desc.physical_start
        BY <2>2, <3>1, <3>3 DEF Unusable, Frame
      <4>3. Within(f, desc)
        BY <2>2, <4>1, <4>2 DEF Within, Run, PhysicalEnd, Frame
      <4>4. iter \in 1 .. iter' - 1
        BY <2>1, <2>3
      <4> QED BY <4>1, <4>3, <4>4
    <3> QED BY <2>2, <3>2, <3>3 DEF Frame
  <2> QED BY <2>3, <2>5, <2>6 DEF ScanInv, Within
<1>2. CASE SetMemoryRange
  <2>1. \A f \in Frame : Blocked(f)' <=> Blocked(f)
    BY <1>2 DEF SetMemoryRange, Blocked
  <2> QED BY <1>2, <2>1 DEF SetMemoryRange, ScanInv, Within
<1>3. ASSUME NEW t \in Task, Iterate(t) PROVE ScanInv'
  <2>1. phase # "scan" /\ UNCHANGED boot
    BY <1>3, OthersKeep DEF PhaseInv
  <2>2. phase' # "scan"
    BY <1>3, <2>1 DEF Iterate, Exhausted, FrameUsed, FrameFree, MarkAllocated, ClearFrame
  <2> QED BY <1>a, <2>1, <2>2
<1>4. ASSUME NEW t \in Task, NEW n \in Requests, Allocate(t, n) PROVE ScanInv'
  BY <1>a, <1>4 DEF Allocate, CanCall
<1>5. ASSUME NEW t \in Task, NEW first \in Frame, NEW n \in Requests, Free(t, first, n)
      PROVE  ScanInv'
  BY <1>a, <1>5 DEF Free, CanCall
<1>6. CASE Exit \/ UNCHANGED vars
  BY <1>6 DEF Exit, vars, boot, ScanInv, Blocked, Within
<1> QED BY <1>1, <1>2, <1>3, <1>4, <1>5, <1>6 DEF Next

\* The phases of booting.
LEMMA PhaseStep == AnyInv /\ [Next]_vars => PhaseInv'
<1> SUFFICES ASSUME AnyInv, [Next]_vars PROVE PhaseInv'
  OBVIOUS
<1> USE CallerAssumption DEF AnyInv
<1>1. CASE ScanDescriptor
  BY <1>1 DEF ScanDescriptor, PhaseInv
<1>2. CASE SetMemoryRange
  <2>1. pc' = [t \in Task |-> IF t = Main THEN "test" ELSE "idle"]
    BY <1>2 DEF SetMemoryRange, BeginSearch, PhaseInv, TypeOK
  <2>2. iter = Len(memory_map) + 1
    BY <1>2, MapAssumption DEF SetMemoryRange, TypeOK
  <2> QED BY <1>2, <2>1, <2>2 DEF SetMemoryRange, PhaseInv
<1>3. ASSUME NEW t \in Task, NEW n \in Requests, Allocate(t, n) PROVE PhaseInv'
  BY <1>3 DEF Allocate, CanCall, BeginSearch, boot, PhaseInv
<1>4. ASSUME NEW t \in Task, NEW first \in Frame, NEW n \in Requests, Free(t, first, n)
      PROVE  PhaseInv'
  BY <1>4 DEF Free, CanCall, boot, PhaseInv
<1>5. ASSUME NEW t \in Task, Iterate(t) PROVE PhaseInv'
  <2>1. /\ UNCHANGED boot /\ pc[t] # "idle"
        /\ \A u \in Task \ {t} : pc'[u] = pc[u]
    BY <1>5, OthersKeep
  <2>2. phase \in {"heap", "run"} /\ (phase = "heap" => t = Main)
    BY <2>1 DEF PhaseInv, TypeOK
  <2>3. CASE Exhausted(t)
    <3>1. pc'[t] = "idle"
      BY <2>3 DEF Exhausted, TypeOK
    <3> QED BY <2>1, <2>2, <2>3, <3>1 DEF Exhausted, boot, PhaseInv
  <2>4. CASE FrameUsed(t)
    BY <2>1, <2>4 DEF FrameUsed, boot, PhaseInv
  <2>5. CASE FrameFree(t)
    <3>1. pc'[t] \in {"test", "mark"}
      BY <2>5 DEF FrameFree, TypeOK
    <3> QED BY <2>1, <2>2, <2>5, <3>1 DEF FrameFree, boot, PhaseInv
  <2>6. CASE MarkAllocated(t)
    <3>1. phase' = "run" \/ (phase' = phase /\ pc' = pc)
      BY <2>6 DEF MarkAllocated
    <3> QED BY <2>1, <2>2, <3>1 DEF boot, PhaseInv
  <2>7. CASE ClearFrame(t)
    <3>1. phase = "run" /\ phase' = "run"
      BY <2>2, <2>7 DEF ClearFrame, PhaseInv
    <3> QED BY <2>1, <3>1 DEF boot, PhaseInv
  <2> QED BY <1>5, <2>3, <2>4, <2>5, <2>6, <2>7 DEF Iterate
<1>6. CASE Exit \/ UNCHANGED vars
  BY <1>6 DEF Exit, vars, boot, PhaseInv
<1> QED BY <1>1, <1>2, <1>3, <1>4, <1>5, <1>6 DEF Next

\* The loops' bounds.
LEMMA LoopStep == AnyInv /\ [Next]_vars => LoopInv'
<1> SUFFICES ASSUME AnyInv, [Next]_vars PROVE LoopInv'
  OBVIOUS
<1> USE FrameAssumption, CallerAssumption DEF AnyInv
<1>0. /\ range_end_ \in Nat /\ range_begin_ \in Nat
      /\ \A u \in Task : /\ num_frames[u] \in Nat /\ start_frame_id[u] \in Nat
                         /\ i[u] \in Nat /\ pc[u] \in {"idle", "test", "mark", "free"}
  BY DEF TypeOK
<1>1. CASE ScanDescriptor
  BY <1>1 DEF ScanDescriptor, LoopInv, Candidate
<1>2. CASE SetMemoryRange
  <2>1. /\ pc' = [u \in Task |-> IF u = Main THEN "test" ELSE "idle"]
        /\ i'[Main] = 0 /\ num_frames'[Main] = kHeapFrames /\ start_frame_id'[Main] = 1
    BY <1>2 DEF SetMemoryRange, BeginSearch, PhaseInv, TypeOK
  <2> QED BY <2>1 DEF LoopInv
<1>3. ASSUME NEW t \in Task, NEW n \in Requests, Allocate(t, n) PROVE LoopInv'
  <2>1. range_begin_ = 1
    BY <1>3 DEF Allocate, CanCall, PhaseInv
  <2>2. /\ pc'[t] = "test" /\ num_frames'[t] = n /\ i'[t] = 0 /\ start_frame_id'[t] = 1
        /\ range_end_' = range_end_
        /\ \A u \in Task \ {t} : /\ pc'[u] = pc[u] /\ num_frames'[u] = num_frames[u]
                                 /\ i'[u] = i[u]
                                 /\ start_frame_id'[u] = start_frame_id[u]
    BY <1>3, <2>1 DEF Allocate, BeginSearch, boot, TypeOK
  <2> QED BY <1>0, <2>2 DEF LoopInv, Candidate
<1>4. ASSUME NEW t \in Task, NEW first \in Frame, NEW n \in Requests, Free(t, first, n)
      PROVE  LoopInv'
  <2>1. \A f \in Run(first, n) : f \in Frame /\ 1 <= f /\ f < range_end_
    BY <1>4 DEF Free, CanCall, UsableInv
  <2>2. first \in Run(first, n) /\ first + n - 1 \in Run(first, n)
    BY DEF Run, Frame
  <2>3. first >= 1 /\ first + n <= range_end_
    BY <1>0, <2>1, <2>2 DEF Frame
  <2>4. /\ pc'[t] = "free" /\ num_frames'[t] = n /\ i'[t] = 0 /\ start_frame_id'[t] = first
        /\ range_end_' = range_end_
        /\ \A u \in Task \ {t} : /\ pc'[u] = pc[u] /\ num_frames'[u] = num_frames[u]
                                 /\ i'[u] = i[u]
                                 /\ start_frame_id'[u] = start_frame_id[u]
    BY <1>4 DEF Free, boot, TypeOK
  <2> QED BY <1>0, <2>3, <2>4 DEF LoopInv, Candidate
<1>5. ASSUME NEW t \in Task, Iterate(t) PROVE LoopInv'
  <2>1. /\ range_end_' = range_end_ /\ pc[t] # "idle" /\ num_frames' = num_frames
        /\ \A u \in Task \ {t} : /\ pc'[u] = pc[u] /\ i'[u] = i[u]
                                 /\ start_frame_id'[u] = start_frame_id[u]
    BY <1>5, OthersKeep DEF boot
  <2>2. i[t] < num_frames[t] /\ start_frame_id[t] >= 1
    BY <2>1 DEF LoopInv
  <2> SUFFICES ASSUME pc'[t] # "idle"
               PROVE /\ i'[t] < num_frames[t] /\ start_frame_id'[t] >= 1
                     /\ pc'[t] = "test" =>
                          start_frame_id'[t] + i'[t] <= range_end_ \/ i'[t] = 0
                     /\ pc'[t] \in {"mark", "free"} =>
                          start_frame_id'[t] + num_frames[t] <= range_end_
    BY <1>0, <2>1 DEF LoopInv, Candidate
  <2>3. CASE Exhausted(t)
    BY <2>3 DEF Exhausted, TypeOK
  <2>4. CASE FrameUsed(t)
    <3>1. i'[t] = 0 /\ start_frame_id'[t] = Restart(t) /\ pc'[t] = "test"
      BY <2>4 DEF FrameUsed, TypeOK
    <3> QED BY <1>0, <2>2, <3>1 DEF Restart, Candidate
  <2>5. CASE FrameFree(t)
    <3>1. /\ Candidate(t) < range_end_ /\ start_frame_id' = start_frame_id
          /\ i'[t] = IF LastFrame(t) THEN 0 ELSE i[t] + 1
          /\ pc'[t] = IF LastFrame(t) THEN "mark" ELSE "test"
      BY <1>0, <2>5 DEF FrameFree, BeyondEnd, Candidate, TypeOK
    <3> QED BY <1>0, <2>2, <3>1 DEF Candidate, LastFrame
  <2>6. CASE MarkAllocated(t)
    <3>1. ~LastFrame(t) /\ pc'[t] = pc[t] /\ pc[t] = "mark"
      BY <2>6 DEF MarkAllocated, TypeOK
    <3>2. i'[t] = i[t] + 1 /\ start_frame_id' = start_frame_id
      BY <2>6 DEF MarkAllocated, TypeOK
    <3> QED BY <1>0, <2>2, <3>1, <3>2 DEF LoopInv, LastFrame
  <2>7. CASE ClearFrame(t)
    <3>1. ~LastFrame(t) /\ pc'[t] = pc[t] /\ pc[t] = "free"
      BY <2>7 DEF ClearFrame, TypeOK
    <3>2. i'[t] = i[t] + 1 /\ start_frame_id' = start_frame_id
      BY <2>7 DEF ClearFrame, TypeOK
    <3> QED BY <1>0, <2>2, <3>1, <3>2 DEF LoopInv, LastFrame
  <2> QED BY <1>5, <2>3, <2>4, <2>5, <2>6, <2>7 DEF Iterate
<1>6. CASE Exit \/ UNCHANGED vars
  BY <1>6 DEF Exit, vars, boot, LoopInv, Candidate
<1> QED BY <1>1, <1>2, <1>3, <1>4, <1>5, <1>6 DEF Next

\* What an iteration does to the bits and to the owners, and the run it works on
\* afterwards.
LEMMA IterationEffect ==
  ASSUME AnyInv, NEW t \in Task, Iterate(t)
  PROVE  /\ phase # "scan" /\ UNCHANGED <<boot, num_frames>>
         /\ \A u \in Task \ {t} : Chosen(u)' = Chosen(u)
         /\ \/ /\ Chosen(t)' = {}
               /\ UNCHANGED <<alloc_map_, held>>
               /\ Exhausted(t) \/ FrameUsed(t)
            \/ /\ FrameFree(t)
               /\ Chosen(t)' = Chosen(t) \cup {Candidate(t)}
               /\ Candidate(t) \in Frame /\ ~alloc_map_[Candidate(t)]
               /\ UNCHANGED <<alloc_map_, held>>
            \/ /\ MarkAllocated(t)
               /\ Chosen(t) = Run(start_frame_id[t], num_frames[t])
               /\ Candidate(t) \in Chosen(t) \cap Frame
               /\ Chosen(t)' \in {Chosen(t), {}}
               /\ alloc_map_' = [alloc_map_ EXCEPT ![Candidate(t)] = TRUE]
               /\ \/ held' = held /\ Chosen(t)' = Chosen(t)
                  \/ /\ held' = [f \in Frame |-> IF f \in Chosen(t) THEN held[f] + 1 ELSE held[f]]
                     /\ Chosen(t)' = {}
            \/ /\ ClearFrame(t)
               /\ Chosen(t) = Run(start_frame_id[t], num_frames[t])
               /\ Candidate(t) \in Chosen(t) \cap Frame
               /\ Chosen(t)' \in {Chosen(t), {}}
               /\ alloc_map_' = [alloc_map_ EXCEPT ![Candidate(t)] = FALSE]
               /\ UNCHANGED held
<1> USE DEF AnyInv
<1>0. /\ range_end_ \in Nat /\ range_end_ <= kFrameCount
      /\ \A u \in Task : /\ num_frames[u] \in Nat /\ start_frame_id[u] \in Nat
                         /\ i[u] \in Nat /\ pc[u] \in {"idle", "test", "mark", "free"}
  BY DEF TypeOK
<1>1. /\ UNCHANGED boot /\ pc[t] # "idle" /\ num_frames' = num_frames
      /\ \A u \in Task \ {t} : /\ pc'[u] = pc[u] /\ i'[u] = i[u]
                               /\ start_frame_id'[u] = start_frame_id[u]
  BY OthersKeep
<1>2. phase # "scan"
  BY <1>1 DEF PhaseInv
<1>3. \A u \in Task \ {t} : Chosen(u)' = Chosen(u)
  BY <1>1 DEF Chosen, Run
<1>4. i[t] < num_frames[t] /\ start_frame_id[t] >= 1
  BY <1>1 DEF LoopInv
<1>5. kFrameCount \in Nat
  BY FrameAssumption
<1>6. CASE Exhausted(t)
  <2>1. pc'[t] = "idle" /\ UNCHANGED <<alloc_map_, held>>
    BY <1>6 DEF Exhausted, TypeOK
  <2>2. Chosen(t)' = {}
    BY <2>1 DEF Chosen
  <2> QED BY <1>1, <1>2, <1>3, <1>6, <2>1, <2>2
<1>7. CASE FrameUsed(t)
  <2>1. pc'[t] = "test" /\ i'[t] = 0 /\ start_frame_id'[t] = Restart(t)
        /\ UNCHANGED <<alloc_map_, held>>
    BY <1>7 DEF FrameUsed, TypeOK
  <2>2. Restart(t) \in Nat
    BY <1>0 DEF Restart, Candidate
  <2>3. Chosen(t)' = {}
    BY <2>1, <2>2 DEF Chosen, Run
  <2> QED BY <1>1, <1>2, <1>3, <1>7, <2>1, <2>3
<1>8. CASE FrameFree(t)
  <2>1. /\ Candidate(t) < range_end_ /\ start_frame_id' = start_frame_id
        /\ pc[t] = "test" /\ ~alloc_map_[Candidate(t)] /\ UNCHANGED <<alloc_map_, held>>
    BY <1>0, <1>8 DEF FrameFree, BeyondEnd, Candidate
  <2>a. /\ i'[t] = IF LastFrame(t) THEN 0 ELSE i[t] + 1
        /\ pc'[t] = IF LastFrame(t) THEN "mark" ELSE "test"
    BY <1>8 DEF FrameFree, TypeOK
  <2>2. Chosen(t) = start_frame_id[t] .. start_frame_id[t] + i[t] - 1
    BY <2>1 DEF Chosen, Run
  <2>3. Chosen(t)' = start_frame_id[t] .. start_frame_id[t] + i[t]
    <3>1. CASE LastFrame(t)
      BY <1>0, <1>1, <2>1, <2>a, <3>1 DEF Chosen, Run, LastFrame
    <3>2. CASE ~LastFrame(t)
      BY <1>0, <1>1, <2>1, <2>a, <3>2 DEF Chosen, Run, LastFrame
    <3> QED BY <3>1, <3>2
  <2>4. Chosen(t)' = Chosen(t) \cup {Candidate(t)}
    BY <1>0, <2>2, <2>3 DEF Candidate
  <2>5. Candidate(t) \in Frame
    BY <1>0, <1>5, <2>1 DEF Frame, Candidate
  <2> QED BY <1>1, <1>2, <1>3, <1>8, <2>1, <2>4, <2>5
<1>9. ASSUME pc[t] \in {"mark", "free"}
      PROVE  /\ Chosen(t) = Run(start_frame_id[t], num_frames[t])
             /\ Candidate(t) \in Chosen(t) \cap Frame
             /\ pc'[t] = "idle" => Chosen(t)' = {}
             /\ start_frame_id' = start_frame_id /\ pc' = pc => Chosen(t)' = Chosen(t)
  <2>1. Chosen(t) = Run(start_frame_id[t], num_frames[t])
    BY <1>9 DEF Chosen
  <2>2. start_frame_id[t] + num_frames[t] <= range_end_
    BY <1>9 DEF LoopInv
  <2>3. Candidate(t) \in Chosen(t) \cap Frame
    BY <1>0, <1>4, <1>5, <2>1, <2>2 DEF Candidate, Run, Frame
  <2>4. pc'[t] = "idle" => Chosen(t)' = {}
    BY DEF Chosen
  <2>5. start_frame_id' = start_frame_id /\ pc' = pc => Chosen(t)' = Chosen(t)
    BY <1>1, <1>9 DEF Chosen, Run
  <2> QED BY <2>1, <2>3, <2>4, <2>5
<1>10. CASE MarkAllocated(t)
  <2>1. /\ pc[t] = "mark" /\ start_frame_id' = start_frame_id
        /\ alloc_map_' = [alloc_map_ EXCEPT ![Candidate(t)] = TRUE]
    BY <1>10 DEF MarkAllocated
  <2>2. \/ held' = held /\ pc' = pc
        \/ /\ held' = [f \in Frame |->
               IF f \in Run(start_frame_id[t], num_frames[t]) THEN held[f] + 1 ELSE held[f]]
           /\ pc'[t] = "idle"
    BY <1>10 DEF MarkAllocated, TypeOK
  <2> QED BY <1>1, <1>2, <1>3, <1>9, <1>10, <2>1, <2>2
<1>11. CASE ClearFrame(t)
  <2>1. /\ pc[t] = "free" /\ start_frame_id' = start_frame_id
        /\ alloc_map_' = [alloc_map_ EXCEPT ![Candidate(t)] = FALSE]
        /\ held' = held
    BY <1>11 DEF ClearFrame
  <2>2. pc'[t] \in {"free", "idle"} /\ (pc'[t] = "free" => pc' = pc)
    BY <1>11, <2>1 DEF ClearFrame, TypeOK
  <2> QED BY <1>1, <1>2, <1>3, <1>9, <1>11, <2>1, <2>2
<1> QED BY <1>6, <1>7, <1>8, <1>10, <1>11 DEF Iterate

\* What the scan marked is never handed out, whoever is preempted where.
LEMMA UsableStep == AnyInv /\ [Next]_vars => UsableInv'
<1> SUFFICES ASSUME AnyInv, [Next]_vars, phase' # "scan" PROVE UsableInv'
  BY DEF UsableInv
<1> USE CallerAssumption DEF AnyInv
<1>0. /\ alloc_map_ \in [Frame -> BOOLEAN] /\ held \in [Frame -> Nat] /\ reserved \subseteq Frame
      /\ range_end_ \in Nat /\ range_end_ <= kFrameCount
  BY DEF TypeOK
<1>1. CASE ScanDescriptor
  BY <1>1 DEF ScanDescriptor
<1>2. CASE SetMemoryRange
  <2>1. /\ pc' = [u \in Task |-> IF u = Main THEN "test" ELSE "idle"]
        /\ i'[Main] = 0 /\ start_frame_id'[Main] = 1
    BY <1>2 DEF SetMemoryRange, BeginSearch, PhaseInv, TypeOK
  <2>2. \A u \in Task : Chosen(u)' = {}
    BY <2>1 DEF Chosen, Run
  <2>3. /\ alloc_map_' = alloc_map_ /\ reserved' = {f \in Frame : alloc_map_[f]}
        /\ \A f \in Frame : held'[f] = 0
    BY <1>2 DEF SetMemoryRange, PhaseInv
  <2> QED BY <2>2, <2>3 DEF UsableInv
<1>3. ASSUME NEW t \in Task, NEW n \in Requests, Allocate(t, n) PROVE UsableInv'
  <2>1. /\ pc'[t] = "test" /\ i'[t] = 0 /\ start_frame_id'[t] = range_begin_
        /\ \A u \in Task \ {t} : /\ pc'[u] = pc[u] /\ num_frames'[u] = num_frames[u]
                                 /\ i'[u] = i[u]
                                 /\ start_frame_id'[u] = start_frame_id[u]
        /\ UNCHANGED boot /\ UNCHANGED <<alloc_map_, held>> /\ phase # "scan"
    BY <1>3 DEF Allocate, CanCall, BeginSearch, TypeOK
  <2>2. Chosen(t)' = {}
    BY <2>1 DEF Chosen, Run, TypeOK
  <2>3. \A u \in Task \ {t} : Chosen(u)' = Chosen(u)
    BY <2>1 DEF Chosen, Run
  <2> QED BY <2>1, <2>2, <2>3 DEF UsableInv, boot
<1>4. ASSUME NEW t \in Task, NEW first \in Frame, NEW n \in Requests, Free(t, first, n)
      PROVE  UsableInv'
  <2>1. /\ pc'[t] = "free" /\ num_frames'[t] = n /\ start_frame_id'[t] = first
        /\ \A u \in Task \ {t} : /\ pc'[u] = pc[u] /\ num_frames'[u] = num_frames[u]
                                 /\ i'[u] = i[u]
                                 /\ start_frame_id'[u] = start_frame_id[u]
        /\ UNCHANGED boot /\ alloc_map_' = alloc_map_ /\ phase # "scan"
    BY <1>4 DEF Free, CanCall, TypeOK
  <2>2. \A f \in Run(first, n) : f \in Frame /\ held[f] = 1
    BY <1>4 DEF Free
  <2>3. \A f \in Frame : held'[f] > 0 => held[f] > 0
    BY <1>0, <1>4, <2>2 DEF Free
  <2>4. Chosen(t)' = Run(first, n)
    BY <2>1 DEF Chosen, Run
  <2>5. \A u \in Task \ {t} : Chosen(u)' = Chosen(u)
    BY <2>1 DEF Chosen, Run
  <2>6. Run(first, n) \cap reserved = {}
    BY <2>1, <2>2 DEF UsableInv
  <2> QED BY <2>1, <2>3, <2>4, <2>5, <2>6 DEF UsableInv, boot
<1>5. ASSUME NEW t \in Task, Iterate(t) PROVE UsableInv'
  <2>1. /\ phase # "scan" /\ reserved' = reserved /\ range_end_' = range_end_
        /\ \A u \in Task \ {t} : Chosen(u)' = Chosen(u)
    BY <1>5, IterationEffect DEF boot
  <2>2. /\ \A f \in reserved : alloc_map_[f]
        /\ \A f \in Frame : held[f] > 0 => f \notin reserved /\ 1 <= f /\ f < range_end_
        /\ \A u \in Task : Chosen(u) \cap reserved = {}
    BY <2>1 DEF UsableInv
  <2>3. Chosen(t)' \cap reserved = {}
    BY <1>0, <1>5, <2>2, IterationEffect
  <2>4. \A f \in reserved : alloc_map_'[f]
    <3>1. alloc_map_' = alloc_map_ \/ \E b \in BOOLEAN :
            /\ Candidate(t) \in Chosen(t)
            /\ alloc_map_' = [alloc_map_ EXCEPT ![Candidate(t)] = b]
      BY <1>5, IterationEffect
    <3> QED BY <1>0, <2>2, <3>1
  <2>5. ASSUME NEW f \in Frame, held'[f] > 0
        PROVE  f \notin reserved /\ 1 <= f /\ f < range_end_
    <3>1. held'[f] = held[f] \/ (MarkAllocated(t) /\ f \in Chosen(t))
      BY <1>0, <1>5, IterationEffect
    <3>2. CASE held'[f] = held[f]
      BY <2>2, <2>5, <3>2
    <3>3. CASE MarkAllocated(t) /\ f \in Chosen(t)
      <4>1. pc[t] = "mark"
        BY <3>3 DEF MarkAllocated
      <4>2. /\ start_frame_id[t] >= 1 /\ start_frame_id[t] + num_frames[t] <= range_end_
            /\ start_frame_id[t] \in Nat /\ num_frames[t] \in Nat
        BY <4>1 DEF LoopInv, TypeOK
      <4>3. f \in start_frame_id[t] .. start_frame_id[t] + num_frames[t] - 1
        BY <3>3, <4>1 DEF Chosen, Run
      <4> QED BY <1>0, <2>2, <3>3, <4>2, <4>3
    <3> QED BY <3>1, <3>2, <3>3
  <2> QED BY <2>1, <2>2, <2>3, <2>4, <2>5 DEF UsableInv
<1>6. CASE Exit \/ UNCHANGED vars
  BY <1>6 DEF Exit, vars, boot, UsableInv, Chosen, Run
<1> QED BY <1>1, <1>2, <1>3, <1>4, <1>5, <1>6 DEF Next

-----------------------------------------------------------------------------
(* What holds when one call is made at a time.                             *)

\* The call that goes on is the only one: nobody else marks or chooses anything.
LEMMA OthersIdle ==
  ASSUME TypeOK, OneCall, NEW t \in Task, Iterate(t)
  PROVE  /\ \A u \in Task \ {t} : /\ pc[u] = "idle" /\ pc'[u] = "idle"
                                  /\ Marked(u) = {} /\ Marked(u)' = {}
                                  /\ Chosen(u) = {} /\ Chosen(u)' = {}
         /\ OneCall'
<1>1. pc[t] # "idle" /\ \A u \in Task \ {t} : pc'[u] = pc[u]
  BY OthersKeep
<1>2. \A u \in Task \ {t} : pc[u] = "idle"
  BY <1>1 DEF OneCall
<1> QED BY <1>1, <1>2 DEF OneCall, Marked, Chosen

\* The bits of the bitmap after one iteration.
LEMMA BitsStep ==
  ASSUME AnyInv, ExclusiveInv, NEW t \in Task, Iterate(t)
  PROVE  BitsInv'
<1> USE DEF AnyInv, ExclusiveInv
<1>0. /\ alloc_map_ \in [Frame -> BOOLEAN] /\ held \in [Frame -> Nat]
      /\ num_frames[t] \in Nat /\ start_frame_id[t] \in Nat /\ i[t] \in Nat
  BY DEF TypeOK
<1>1. /\ phase # "scan" /\ reserved' = reserved /\ num_frames' = num_frames
  BY IterationEffect DEF boot
<1>2. \A u \in Task \ {t} : Marked(u) = {} /\ Marked(u)' = {}
  BY OthersIdle
<1>3. \A f \in Frame : alloc_map_[f] <=> f \in reserved \/ held[f] > 0 \/ f \in Marked(t)
  BY <1>1, <1>2 DEF BitsInv
<1> SUFFICES ASSUME NEW f \in Frame
             PROVE  alloc_map_'[f] <=> f \in reserved \/ held'[f] > 0 \/ f \in Marked(t)'
  BY <1>1, <1>2 DEF BitsInv
<1>4. i[t] < num_frames[t]
  BY OthersKeep DEF LoopInv
<1>5. CASE Exhausted(t) \/ FrameUsed(t) \/ FrameFree(t)
  <2>1. UNCHANGED <<alloc_map_, held>> /\ Marked(t) = {}
    BY <1>5 DEF Exhausted, FrameUsed, FrameFree, Marked
  <2>2. Marked(t)' = {}
    <3>1. CASE Exhausted(t) \/ FrameUsed(t)
      <4>1. pc'[t] \in {"idle", "test"}
        BY <3>1 DEF Exhausted, FrameUsed, TypeOK
      <4> QED BY <4>1 DEF Marked
    <3>2. CASE FrameFree(t)
      <4>1. /\ pc'[t] = "test" \/ (pc'[t] = "mark" /\ i'[t] = 0)
            /\ start_frame_id' = start_frame_id
        BY <3>2 DEF FrameFree, TypeOK
      <4> QED BY <1>0, <4>1 DEF Marked, Run
    <3> QED BY <1>5, <3>1, <3>2
  <2> QED BY <1>3, <2>1, <2>2
<1>6. CASE MarkAllocated(t)
  <2>1. /\ pc[t] = "mark" /\ i'[t] = i[t] + 1 /\ start_frame_id' = start_frame_id
        /\ alloc_map_' = [alloc_map_ EXCEPT ![Candidate(t)] = TRUE]
    BY <1>6 DEF MarkAllocated, TypeOK
  <2>2. alloc_map_'[f] <=> alloc_map_[f] \/ f = Candidate(t)
    BY <1>0, <2>1
  <2>3. Marked(t) = start_frame_id[t] .. start_frame_id[t] + i[t] - 1
    BY <2>1 DEF Marked, Run
  <2>4. CASE ~LastFrame(t)
    <3>1. held' = held /\ pc' = pc
      BY <1>6, <2>4 DEF MarkAllocated
    <3>2. Marked(t)' = start_frame_id[t] .. start_frame_id[t] + i[t]
      BY <1>0, <2>1, <3>1 DEF Marked, Run
    <3> QED BY <1>0, <1>3, <2>2, <2>3, <3>1, <3>2 DEF Candidate
  <2>5. CASE LastFrame(t)
    <3>1. /\ held'[f] = IF f \in Run(start_frame_id[t], num_frames[t])
                        THEN held[f] + 1 ELSE held[f]
          /\ pc'[t] = "idle"
      BY <1>6, <2>5 DEF MarkAllocated, TypeOK
    <3>2. Marked(t)' = {}
      BY <3>1 DEF Marked
    <3>3. Run(start_frame_id[t], num_frames[t]) =
            start_frame_id[t] .. start_frame_id[t] + i[t]
      BY <1>0, <2>5 DEF Run, LastFrame
    <3>4. held[f] \in Nat
      BY <1>0
    <3> QED BY <1>0, <1>3, <2>2, <2>3, <3>1, <3>2, <3>3, <3>4 DEF Candidate
  <2> QED BY <2>4, <2>5
<1>7. CASE ClearFrame(t)
  <2>1. /\ pc[t] = "free" /\ i'[t] = i[t] + 1 /\ start_frame_id' = start_frame_id
        /\ alloc_map_' = [alloc_map_ EXCEPT ![Candidate(t)] = FALSE]
        /\ held' = held /\ pc'[t] = IF LastFrame(t) THEN "idle" ELSE "free"
    BY <1>7 DEF ClearFrame, TypeOK
  <2>2. alloc_map_'[f] <=> alloc_map_[f] /\ f # Candidate(t)
    BY <1>0, <2>1
  <2>3. Candidate(t) \in Chosen(t) \cap Frame
    BY <2>1, IterationEffect DEF Exhausted, FrameUsed, FrameFree, MarkAllocated
  <2>4. held[Candidate(t)] = 0 /\ Candidate(t) \notin reserved
    BY <1>1, <2>3 DEF RunInv, UsableInv
  <2>5. Marked(t) = Candidate(t) .. start_frame_id[t] + num_frames[t] - 1
    BY <2>1 DEF Marked
  <2>6. Marked(t)' = Candidate(t) + 1 .. start_frame_id[t] + num_frames[t] - 1
    <3>1. CASE LastFrame(t)
      BY <1>0, <2>1, <3>1 DEF Marked, LastFrame, Candidate
    <3>2. CASE ~LastFrame(t)
      <4>1. pc'[t] = "free" /\ Candidate(t)' = Candidate(t) + 1
        BY <1>0, <2>1, <3>2 DEF Candidate
      <4> QED BY <1>1, <2>1, <4>1 DEF Marked
    <3> QED BY <3>1, <3>2
  <2>7. f \in Marked(t)' <=> f \in Marked(t) /\ f # Candidate(t)
    BY <1>0, <2>5, <2>6 DEF Candidate, Frame
  <2> QED BY <1>3, <2>1, <2>2, <2>4, <2>7
<1> QED BY <1>5, <1>6, <1>7 DEF Iterate

\* The frames looked at, and the runs passed over, after one iteration.
LEMMA SearchStep ==
  ASSUME AnyInv, ExclusiveInv, NEW t \in Task, Iterate(t)
  PROVE  SingleUse' /\ RunInv' /\ FirstFit'
<1> USE DEF AnyInv, ExclusiveInv
<1>0. /\ alloc_map_ \in [Frame -> BOOLEAN] /\ held \in [Frame -> Nat]
      /\ num_frames[t] \in Nat /\ start_frame_id[t] \in Nat /\ i[t] \in Nat
      /\ range_begin_ \in Nat /\ range_end_ \in Nat /\ kFrameCount \in Nat
      /\ range_end_ <= kFrameCount
  BY FrameAssumption DEF TypeOK
<1>1. phase # "scan" /\ UNCHANGED <<boot, num_frames>>
  BY IterationEffect
<1>2. \A u \in Task \ {t} : pc'[u] = "idle" /\ Chosen(u)' = {}
  BY OthersIdle
<1>3. \A f \in Chosen(t) \cap Frame : held[f] = 0 /\ (pc[t] = "test" => ~alloc_map_[f])
  BY DEF RunInv
<1>4. SingleUse'
  <2>1. held' = held \/
        held' = [f \in Frame |-> IF f \in Chosen(t) THEN held[f] + 1 ELSE held[f]]
    BY IterationEffect
  <2>2. ASSUME held' = held PROVE SingleUse'
    BY <2>2 DEF SingleUse
  <2>3. ASSUME held' = [f \in Frame |-> IF f \in Chosen(t) THEN held[f] + 1 ELSE held[f]]
        PROVE  SingleUse'
    BY <1>0, <1>3, <2>3 DEF SingleUse
  <2> QED BY <2>1, <2>2, <2>3
<1>5. RunInv'
  <2> SUFFICES ASSUME NEW f \in Chosen(t)' \cap Frame
               PROVE  held'[f] = 0 /\ (pc'[t] = "test" => ~alloc_map_'[f])
    BY <1>2 DEF RunInv
  <2>1. CASE FrameFree(t)
    <3>1. /\ Chosen(t)' = Chosen(t) \cup {Candidate(t)} /\ ~alloc_map_[Candidate(t)]
          /\ UNCHANGED <<alloc_map_, held>> /\ Candidate(t) \in Frame /\ pc[t] = "test"
      BY <2>1, IterationEffect
      DEF Exhausted, FrameUsed, FrameFree, MarkAllocated, ClearFrame, BeyondEnd
    <3>2. held[Candidate(t)] = 0
      BY <1>0, <1>1, <3>1 DEF BitsInv
    <3> QED BY <1>3, <3>1, <3>2
  <2>2. CASE MarkAllocated(t) \/ ClearFrame(t)
    <3>0. pc[t] # "test" /\ ~FrameFree(t)
      BY <2>2 DEF MarkAllocated, ClearFrame, FrameFree
    <3>1. held' = held /\ Chosen(t)' = Chosen(t)
      BY <3>0, IterationEffect
    <3>2. pc'[t] # "test"
      BY <2>2 DEF MarkAllocated, ClearFrame, TypeOK
    <3> QED BY <1>3, <3>1, <3>2
  <2>3. CASE Exhausted(t) \/ FrameUsed(t)
    BY <2>3, IterationEffect DEF Exhausted, FrameUsed, FrameFree, MarkAllocated, ClearFrame
  <2> QED BY <2>1, <2>2, <2>3 DEF Iterate
<1>6. FirstFit'
  <2> SUFFICES ASSUME pc'[t] \in {"test", "mark"},
                      NEW first \in range_begin_ .. start_frame_id'[t] - 1
               PROVE  Used(first, num_frames[t])'
    BY <1>1, <1>2 DEF FirstFit, boot
  <2>1. CASE FrameUsed(t)
    <3>1. /\ pc[t] = "test" /\ start_frame_id'[t] = Candidate(t) + 1
          /\ alloc_map_[Candidate(t)] /\ alloc_map_' = alloc_map_
          /\ Candidate(t) < range_end_
      BY <1>0, <2>1 DEF FrameUsed, Restart, BeyondEnd, Candidate, TypeOK
    <3>2. i[t] < num_frames[t]
      BY <3>1 DEF LoopInv
    <3>3. CASE first <= start_frame_id[t] - 1
      <4>1. first \in range_begin_ .. start_frame_id[t] - 1
        BY <1>0, <3>3
      <4>2. Used(first, num_frames[t])
        BY <3>1, <4>1 DEF FirstFit
      <4> QED BY <1>1, <3>1, <4>2 DEF Used
    <3>4. CASE first > start_frame_id[t] - 1
      <4>1. Candidate(t) \in Run(first, num_frames[t]) \cap Frame
        BY <1>0, <3>1, <3>2, <3>4 DEF Run, Frame, Candidate
      <4> QED BY <1>1, <3>1, <4>1 DEF Used
    <3> QED BY <1>0, <3>3, <3>4
  <2>2. CASE FrameFree(t) \/ MarkAllocated(t)
    <3>1. /\ pc[t] \in {"test", "mark"} /\ start_frame_id' = start_frame_id
          /\ alloc_map_' = alloc_map_
             \/ alloc_map_' = [alloc_map_ EXCEPT ![Candidate(t)] = TRUE]
      BY <2>2 DEF FrameFree, MarkAllocated
    <3>2. Used(first, num_frames[t])
      BY <3>1 DEF FirstFit
    <3>3. \A f \in Frame : alloc_map_[f] => alloc_map_'[f]
      BY <1>0, <3>1
    <3> QED BY <1>1, <3>2, <3>3 DEF Used
  <2>3. CASE Exhausted(t) \/ ClearFrame(t)
    BY <2>3 DEF Exhausted, ClearFrame, TypeOK
  <2> QED BY <2>1, <2>2, <2>3 DEF Iterate
<1> QED BY <1>4, <1>5, <1>6

\* One call at a time: nobody gets a frame that is in use, the bitmap is exact and
\* the search first fit.
LEMMA ExclusiveStep == IInv /\ ~Preemptible /\ [Next]_vars => ExclusiveInv'
<1> SUFFICES ASSUME AnyInv, ExclusiveInv, ~Preemptible, [Next]_vars PROVE ExclusiveInv'
  BY DEF IInv
<1> USE CallerAssumption DEF AnyInv, ExclusiveInv
<1>0. /\ alloc_map_ \in [Frame -> BOOLEAN] /\ held \in [Frame -> Nat]
      /\ range_begin_ \in Nat /\ Main \in Task
  BY DEF TypeOK
<1>1. CASE ScanDescriptor
  <2>1. /\ phase = "scan" /\ phase' = "scan" /\ held' = held
        /\ UNCHANGED <<pc, num_frames, start_frame_id, i>>
    BY <1>1 DEF ScanDescriptor
  <2>2. \A t \in Task : pc[t] = "idle"
    BY <2>1 DEF PhaseInv
  <2>3. OneCall' /\ SingleUse' /\ BitsInv'
    BY <2>1, <2>2 DEF OneCall, SingleUse, BitsInv
  <2>4. RunInv' /\ FirstFit'
    BY <2>1, <2>2 DEF RunInv, Chosen, FirstFit
  <2> QED BY <2>3, <2>4
<1>2. ASSUME NEW t \in Task, pc'[t] = "test", i'[t] = 0, start_frame_id'[t] = range_begin_',
             range_begin_' \in Nat, \A u \in Task \ {t} : pc'[u] = "idle",
             UNCHANGED <<alloc_map_, held>>,
             phase # "scan" => UNCHANGED reserved /\ \A u \in Task : Marked(u) = {},
             phase = "scan" => reserved' = {f \in Frame : alloc_map_[f]}
      PROVE  ExclusiveInv'
  <2>1. \A u \in Task : Marked(u)' = {} /\ Chosen(u)' = {}
    BY <1>2 DEF Marked, Chosen, Run
  <2>2. OneCall' /\ SingleUse' /\ RunInv'
    BY <1>2, <2>1 DEF OneCall, SingleUse, RunInv
  <2>3. BitsInv'
    BY <1>0, <1>2, <2>1 DEF BitsInv, PhaseInv
  <2>4. FirstFit'
    BY <1>2 DEF FirstFit
  <2> QED BY <2>2, <2>3, <2>4
<1>3. CASE SetMemoryRange
  <2>1. \A t \in Task : pc[t] = "idle"
    BY <1>3 DEF SetMemoryRange, PhaseInv
  <2>2. /\ pc'[Main] = "test" /\ i'[Main] = 0 /\ start_frame_id'[Main] = 1
        /\ \A u \in Task \ {Main} : pc'[u] = "idle"
    BY <1>3, <2>1 DEF SetMemoryRange, BeginSearch, TypeOK
  <2>3. /\ phase = "scan" /\ range_begin_' = 1 /\ UNCHANGED <<alloc_map_, held>>
        /\ reserved' = {f \in Frame : alloc_map_[f]}
    BY <1>3 DEF SetMemoryRange
  <2> QED BY <1>0, <1>2, <2>2, <2>3
<1>4. ASSUME NEW t \in Task, NEW n \in Requests, Allocate(t, n) PROVE ExclusiveInv'
  <2>1. /\ phase # "scan" /\ \A u \in Task : pc[u] = "idle"
        /\ UNCHANGED boot /\ UNCHANGED <<alloc_map_, held>>
    BY <1>4 DEF Allocate, CanCall
  <2>2. /\ pc'[t] = "test" /\ i'[t] = 0 /\ start_frame_id'[t] = range_begin_
        /\ \A u \in Task \ {t} : pc'[u] = "idle"
    BY <1>4, <2>1 DEF Allocate, BeginSearch, TypeOK
  <2>3. \A u \in Task : Marked(u) = {}
    BY <2>1 DEF Marked
  <2> QED BY <1>0, <1>2, <2>1, <2>2, <2>3 DEF boot
<1>5. ASSUME NEW t \in Task, NEW first \in Frame, NEW n \in Requests, Free(t, first, n)
      PROVE  ExclusiveInv'
  <2>1. /\ phase # "scan" /\ \A u \in Task : pc[u] = "idle"
        /\ UNCHANGED boot /\ alloc_map_' = alloc_map_
        /\ held' = [f \in Frame |-> IF f \in Run(first, n) THEN held[f] - 1 ELSE held[f]]
        /\ \A f \in Run(first, n) : f \in Frame /\ held[f] = 1
    BY <1>5 DEF Free, CanCall
  <2>2. /\ pc'[t] = "free" /\ i'[t] = 0 /\ start_frame_id'[t] = first
        /\ num_frames'[t] = n /\ \A u \in Task \ {t} : pc'[u] = "idle"
    BY <1>5, <2>1 DEF Free, TypeOK
  <2>3. \A u \in Task : Marked(u) = {}
    BY <2>1 DEF Marked
  <2>4. /\ Marked(t)' = Run(first, n) /\ Chosen(t)' = Run(first, n)
        /\ \A u \in Task \ {t} : Marked(u)' = {} /\ Chosen(u)' = {}
    <3>1. Candidate(t)' = first
      BY <2>2 DEF Candidate, Frame
    <3> QED BY <2>2, <3>1 DEF Marked, Chosen, Run
  <2>5. OneCall' /\ SingleUse' /\ FirstFit'
    BY <1>0, <2>1, <2>2 DEF OneCall, SingleUse, FirstFit
  <2>6. RunInv'
    BY <1>0, <2>1, <2>2, <2>4 DEF RunInv
  <2>7. BitsInv'
    <3>1. \A f \in Frame : alloc_map_[f] <=> f \in reserved \/ held[f] > 0
      BY <2>1, <2>3 DEF BitsInv
    <3>2. \A f \in Frame : held[f] > 0 <=> held'[f] > 0 \/ f \in Run(first, n)
      BY <1>0, <2>1
    <3>3. \A f \in Frame : (\E u \in Task : f \in Marked(u)') <=> f \in Run(first, n)
      BY <2>4
    <3>4. alloc_map_' = alloc_map_ /\ reserved' = reserved
      BY <2>1 DEF boot
    <3> QED BY <3>1, <3>2, <3>3, <3>4 DEF BitsInv
  <2> QED BY <2>5, <2>6, <2>7
<1>6. ASSUME NEW t \in Task, Iterate(t) PROVE ExclusiveInv'
  BY <1>6, OthersIdle, BitsStep, SearchStep
<1>7. CASE Exit \/ UNCHANGED vars
  <2>1. UNCHANGED vars
    BY <1>7 DEF Exit
  <2> QED BY <2>1 DEF vars, boot, OneCall, SingleUse, BitsInv, RunInv, FirstFit,
                      Marked, Chosen, Candidate, Run, Used
<1> QED BY <1>1, <1>3, <1>4, <1>5, <1>6, <1>7 DEF Next

\* Before the scan nothing is marked, called or owned.
LEMMA InitIInv == Init => IInv
<1> SUFFICES ASSUME Init PROVE IInv
  OBVIOUS
<1> USE FrameAssumption, CallerAssumption, MapAssumption DEF Init
<1>1. TypeOK
  BY DEF TypeOK, Frame
<1>2. PhaseInv /\ LoopInv /\ UsableInv
  BY DEF PhaseInv, LoopInv, UsableInv
<1>3. ScanInv
  BY DEF ScanInv, Frame
<1>4. OneCall /\ SingleUse /\ BitsInv /\ RunInv /\ FirstFit
  BY DEF OneCall, SingleUse, BitsInv, RunInv, FirstFit, Chosen
<1> QED BY <1>1, <1>2, <1>3, <1>4 DEF IInv, AnyInv, ExclusiveInv

-----------------------------------------------------------------------------
\* The inductive invariant: its first part without any discipline of the
\* callers, all of it when one call is made at a time.
THEOREM InductiveInvariant == Spec => []IInv
<1>1. IInv /\ [Next]_vars => IInv'
  BY TypeStep, PhaseStep, LoopStep, ScanStep, UsableStep, ExclusiveStep
  DEF IInv, AnyInv
<1> QED BY InitIInv, <1>1, PTL DEF Spec

\* Every reachable state is well typed, a preempted allocator's too.
THEOREM TypeCorrect == Spec => []TypeOK
<1>1. IInv => TypeOK
  BY DEF IInv, AnyInv
<1> QED BY InductiveInvariant, <1>1, PTL

\* Whatever the memory map and whoever is preempted, Allocate hands out only
\* memory the map calls available, and never frame 0.
THEOREM OnlyUsableHolds == Spec => []OnlyUsable
<1>1. IInv => OnlyUsable
  <2> SUFFICES ASSUME AnyInv, NEW f \in Frame, held[f] > 0
               PROVE /\ f # 0
                     /\ \E k \in 1 .. Len(memory_map) :
                          memory_map[k].available /\ Within(f, memory_map[k])
                     /\ \A k \in 1 .. Len(memory_map) :
                          Within(f, memory_map[k]) => memory_map[k].available
    BY DEF IInv, OnlyUsable, Within
  <2> USE DEF AnyInv
  <2>1. phase # "scan"
    BY DEF PhaseInv, TypeOK
  <2>2. /\ iter - 1 = Len(memory_map) /\ range_end_ = available_end
    BY <2>1, MapAssumption DEF PhaseInv, TypeOK
  <2>3. f \notin reserved /\ 1 <= f /\ f < available_end /\ ~Blocked(f)
    BY <2>1, <2>2 DEF UsableInv, Blocked
  <2> QED BY <2>2, <2>3 DEF ScanInv
<1> QED BY InductiveInvariant, <1>1, PTL

\* One call at a time: no frame has two owners.
THEOREM SingleUseHolds == ASSUME ~Preemptible PROVE Spec => []SingleUse
<1>1. IInv => SingleUse
  BY DEF IInv, ExclusiveInv
<1> QED BY InductiveInvariant, <1>1, PTL

\* One call at a time: the bitmap says exactly which frames are in use.
THEOREM BitmapExactHolds == ASSUME ~Preemptible PROVE Spec => []BitmapExact
<1>1. IInv => BitmapExact
  BY DEF IInv, ExclusiveInv, BitsInv, BitmapExact, Marked
<1> QED BY InductiveInvariant, <1>1, PTL

\* One call at a time: the bitmap is exact, and what it gives out is available
\* memory, for every memory map.
THEOREM FramesExactHolds == ASSUME ~Preemptible PROVE Spec => []FramesExact
<1>1. OnlyUsable /\ BitmapExact => FramesExact
  BY DEF FramesExact
<1> QED BY <1>1, OnlyUsableHolds, BitmapExactHolds, PTL

\* One call at a time: Allocate skips no free run.
THEOREM FirstFitHolds == ASSUME ~Preemptible PROVE Spec => []FirstFit
<1>1. IInv => FirstFit
  BY DEF IInv, ExclusiveInv
<1> QED BY InductiveInvariant, <1>1, PTL

\* One call at a time: kNoEnoughMemory means that no run of that length is free.
THEOREM FailsOnlyWhenFullHolds == ASSUME ~Preemptible PROVE Spec => FailsOnlyWhenFull
<1>1. ASSUME IInv, [Next]_vars, NEW t \in Task, pc[t] = "test", pc'[t] = "idle",
             NEW first \in range_begin_ .. range_end_ - num_frames[t]
      PROVE  Used(first, num_frames[t])
  <2> USE <1>1, CallerAssumption DEF IInv, AnyInv, ExclusiveInv
  <2>0. /\ range_begin_ \in Nat /\ range_end_ \in Nat /\ num_frames[t] \in Nat
        /\ start_frame_id[t] \in Nat /\ i[t] \in Nat
    BY DEF TypeOK
  <2>1. phase # "scan" /\ i[t] < num_frames[t]
    BY DEF PhaseInv, LoopInv
  <2>2. ASSUME NEW u \in Task, Iterate(u) PROVE Exhausted(t)
    <3>1. u = t
      BY <2>2, OthersKeep
    <3>2. ~FrameUsed(t)
      BY DEF FrameUsed
    <3>3. ~FrameFree(t)
      BY DEF FrameFree, TypeOK
    <3>4. ~MarkAllocated(t) /\ ~ClearFrame(t)
      BY DEF MarkAllocated, ClearFrame
    <3> QED BY <2>2, <3>1, <3>2, <3>3, <3>4 DEF Iterate
  <2>3. ASSUME NEW u \in Task, NEW n \in Requests, Allocate(u, n) PROVE FALSE
    BY <2>3 DEF Allocate, CanCall, BeginSearch, TypeOK
  <2>4. ASSUME NEW u \in Task, NEW from \in Frame, NEW n \in Requests, Free(u, from, n)
        PROVE  FALSE
    BY <2>4 DEF Free, CanCall, TypeOK
  <2>5. Exhausted(t)
    BY <2>1, <2>2, <2>3, <2>4 DEF Next, ScanDescriptor, SetMemoryRange, Exit, vars
  <2>6. Candidate(t) >= range_end_
    BY <2>5 DEF Exhausted, BeyondEnd
  <2>7. first \in range_begin_ .. start_frame_id[t] - 1
    BY <2>0, <2>1, <2>6 DEF Candidate
  <2> QED BY <2>7 DEF FirstFit
<1>2. IInv /\ [Next]_vars =>
        [\A t \in Task : pc[t] = "test" /\ pc'[t] = "idle" =>
           \A first \in range_begin_ .. range_end_ - num_frames[t] :
             Used(first, num_frames[t])]_vars
  BY <1>1
<1> QED BY InductiveInvariant, <1>2, PTL DEF Spec, FailsOnlyWhenFull

\* One call at a time: every step hands out or takes back a whole run that nobody
\* uses, or is internal.
LEMMA StepRefines ==
  ASSUME IInv, ~Preemptible, [Next]_vars
  PROVE  [Allocator!Next]_{f \in Frame : held[f] > 0}
<1> DEFINE used == {f \in Frame : held[f] > 0}
<1> USE FrameAssumption, CallerAssumption DEF IInv, AnyInv, ExclusiveInv
<1>0. held \in [Frame -> Nat] /\ range_end_ \in Nat /\ range_end_ <= kFrameCount
  BY DEF TypeOK
<1>1. CASE held' = held
  BY <1>1
<1>2. ASSUME NEW t \in Task, NEW first \in Frame, NEW n \in Requests, Free(t, first, n)
      PROVE  Allocator!Next
  <2> DEFINE last == first + n - 1
  <2>1. /\ \A f \in first .. last : f \in Frame /\ held[f] = 1
        /\ held' = [f \in Frame |-> IF f \in first .. last THEN held[f] - 1 ELSE held[f]]
    BY <1>2 DEF Free, Run
  <2>2. first <= last /\ last \in Frame
    <3>1. first <= last /\ last \in first .. last
      BY DEF Frame
    <3> QED BY <2>1, <3>1
  <2>3. first .. last \subseteq used /\ used' = used \ (first .. last)
    BY <1>0, <2>1
  <2>4. Allocator!Release(first .. last)
    BY <2>3 DEF Allocator!Release
  <2> QED BY <2>2, <2>4 DEF Allocator!Next
<1>3. ASSUME NEW t \in Task, Iterate(t), held' # held PROVE Allocator!Next
  <2> DEFINE first == start_frame_id[t]
             last == start_frame_id[t] + num_frames[t] - 1
  <2>1. /\ MarkAllocated(t)
        /\ Chosen(t) = first .. last
        /\ held' = [f \in Frame |-> IF f \in first .. last THEN held[f] + 1 ELSE held[f]]
    BY <1>3, IterationEffect DEF Run
  <2>2. pc[t] = "mark"
    BY <2>1 DEF MarkAllocated
  <2>3. /\ first \in Nat /\ num_frames[t] \in Nat /\ i[t] \in Nat /\ i[t] < num_frames[t]
        /\ first + num_frames[t] <= range_end_
    BY <2>2 DEF LoopInv, TypeOK
  <2>4. first .. last \subseteq Frame /\ first \in Frame /\ last \in Frame /\ first <= last
    <3>1. kFrameCount \in Nat /\ last < kFrameCount
      BY <1>0, <2>3
    <3>2. first <= last
      BY <2>3
    <3>3. \A f \in first .. last : f \in Frame
      BY <2>3, <3>1 DEF Frame
    <3> QED BY <2>3, <3>1, <3>2, <3>3 DEF Frame
  <2>5. \A f \in first .. last : held[f] = 0
    BY <2>1, <2>4 DEF RunInv
  <2>6. first .. last \subseteq Frame \ used /\ used' = used \cup (first .. last)
    BY <1>0, <2>1, <2>4, <2>5
  <2>7. PICK a \in Frame, b \in Frame : a = first /\ b = last
    BY <2>4
  <2>8. a <= b /\ Allocator!Grant(a .. b)
    BY <2>4, <2>6, <2>7 DEF Allocator!Grant
  <2> QED BY <2>8 DEF Allocator!Next
<1>4. ASSUME NEW t \in Task, NEW n \in Requests, Allocate(t, n) PROVE held' = held
  BY <1>4 DEF Allocate
<1> QED BY <1>1, <1>2, <1>3, <1>4 DEF Next, ScanDescriptor, SetMemoryRange, Exit, vars

\* One call at a time: the bitmap and its first-fit search implement the allocator
\* of FrameAllocator.
THEOREM Refinement == ASSUME ~Preemptible PROVE Spec => ImplementsAllocator
<1>1. Init => Allocator!Init
  BY DEF Init, Allocator!Init
<1> QED BY <1>1, StepRefines, InductiveInvariant, PTL
        DEF Spec, ImplementsAllocator, Allocator!Spec
=============================================================================
