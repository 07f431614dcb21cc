-------------------------- MODULE MCMemoryManager --------------------------
(***************************************************************************)
(* MemoryManager on small instances.                                       *)
(***************************************************************************)
EXTENDS MemoryManager

Area(first, n, available) ==
  [physical_start |-> first, number_of_pages |-> n, available |-> available]

\* One map with memory in use at the bottom and in the middle.
FragmentedMap == <<Area(0, 1, TRUE), Area(1, 1, FALSE), Area(2, kFrameCount - 2, TRUE)>>

\* Every map of up to three areas in the first five frames, in any order, with
\* gaps and overlaps.
AnyMap ==
  LET areas == {Area(first, n, available) :
                  first \in 0 .. 4, n \in {1, 3}, available \in BOOLEAN}
      fits == {a \in areas : a.physical_start + a.number_of_pages <= 5}
  IN UNION {[1 .. n -> fits] : n \in 0 .. 3}

OneMap == {FragmentedMap}
AllMaps == AnyMap \cup OneMap
=============================================================================
