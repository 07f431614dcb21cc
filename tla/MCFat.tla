------------------------------- MODULE MCFat -------------------------------
(***************************************************************************)
(* Fat on a volume of six clusters of two bytes or two entries: the root   *)
(* (cluster 2) is full with the file /a (cluster 3) and the directory /d   *)
(* (cluster 4), which holds a deleted entry; clusters 5 to 7 are free and  *)
(* hold anything.                                                          *)
(***************************************************************************)
EXTENDS Fat, TLC

Letters == [c \in {"a", "A", "b", "B", "d", "D", "e", "E", "x", "X", "."} |->
              CASE c = "a" -> "A" [] c = "b" -> "B" [] c = "d" -> "D"
                [] c = "e" -> "E" [] c = "x" -> "X" [] OTHER -> c]

Anything == [i \in 1 .. 2 |->
  [name |-> <<"?", "?">>, directory |-> FALSE, first |-> 0, size |-> 0]]
NoEntry == [name |-> <<>>, directory |-> FALSE, first |-> 0, size |-> 0]
FileA == [name |-> <<"A", " ", " ">>, directory |-> FALSE, first |-> 3, size |-> 2]
DirD == [name |-> <<"D", " ", " ">>, directory |-> TRUE, first |-> 4, size |-> 0]
Gone == [NoEntry EXCEPT !.name = <<"?">>]

Six == [
  fat |-> [c \in 2 .. 7 |-> IF c <= 4 THEN 8 ELSE 0],
  dir |-> [c \in 2 .. 7 |-> CASE c = 2 -> <<FileA, DirD>>
                              [] c = 4 -> <<Gone, NoEntry>>
                              [] OTHER -> Anything],
  sector |-> [c \in 2 .. 7 |-> IF c = 3 THEN <<"p", "q">> ELSE <<"?", "?">>],
  text |-> (<<<<"A">>>> :> <<"p", "q">>) @@ (<<<<"B", ".", "X">>>> :> <<"no file">>)
             @@ (<<<<"D">>, <<"E">>>> :> <<"no file">>)]

Plain(n) == [names |-> n, slash |-> FALSE]
Paths == {Plain(<<<<"a">>>>), Plain(<<<<"b", ".", "x">>>>), Plain(<<<<"D">>, <<"e">>>>)}
Texts == {<<"m">>, <<"n", "o", "p", "q", "r", "s">>}
Symmetry == Permutations(Task)
=============================================================================
