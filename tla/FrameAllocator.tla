--------------------------- MODULE FrameAllocator ---------------------------
(***************************************************************************)
(* What the users of the memory manager rely on, without a bitmap: frames  *)
(* are handed out in contiguous runs nobody else uses, and given back.     *)
(* MemoryManager implements this specification.                            *)
(***************************************************************************)
EXTENDS Integers

CONSTANT Frame  \* frame numbers

VARIABLE used   \* frames handed out and not given back

Init == used = {}

Grant(run) ==
  /\ run \subseteq Frame \ used
  /\ used' = used \cup run

Release(run) ==
  /\ run \subseteq used
  /\ used' = used \ run

Next == \E first, last \in Frame :
  first <= last /\ (Grant(first .. last) \/ Release(first .. last))

Spec == Init /\ [][Next]_used
=============================================================================
