---------------------------- MODULE MCAppMemory ----------------------------
(***************************************************************************)
(* AppMemory on small instances: one executable and one file that is none; *)
(* page maps of three entries, so that the image shares a page map of the  *)
(* lower level with demanded and mapped pages.                             *)
(***************************************************************************)
EXTENDS AppMemory, TLC

CONSTANTS elf, text

Programs == {elf}
Files == {elf, text}
TwoPages == [a \in {elf} |-> <<"text", "data">>]
OneFile == [fd \in {3} |-> <<"file">>]
TaskSymmetry == Permutations(Task)
=============================================================================
