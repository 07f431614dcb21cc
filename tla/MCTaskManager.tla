--------------------------- MODULE MCTaskManager ---------------------------
(***************************************************************************)
(* TaskManager on small instances.                                         *)
(***************************************************************************)
EXTENDS TaskManagerRefinement

SE == INSTANCE SequencesExt

\* Erase is std::remove + erase on every queue without duplicates.
ASSUME EraseIsRemove ==
  \A n \in 0 .. 4 : \A q \in [1 .. n -> 1 .. 4] : \A t \in 1 .. 4 :
    NoDuplicates(q) => Erase(q, t) = SE!Remove(q, t)

AllLevels == Level
NoLevels == {}
=============================================================================
