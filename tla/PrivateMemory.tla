--------------------------- MODULE PrivateMemory ---------------------------
(***************************************************************************)
(* What an application may believe of its memory, without page maps,       *)
(* frames, faults or a cache: it starts with the image in its file, only   *)
(* its own stores change its pages, pages it demands are zero, and pages   *)
(* it maps show the file.  AppMemory implements this specification.        *)
(***************************************************************************)
EXTENDS Integers, Sequences

CONSTANTS
  Task,             \* terminals, each running one application at a time
  App,              \* executable files
  Page,             \* page numbers of the applications' half of memory
  Zero,             \* what a page of zeros holds
  Written,          \* what applications and system calls store
  File,             \* File[f]: the pages of a file that may be mapped
  InitialMemory(_)  \* InitialMemory(a): the pages application a starts with

VARIABLE space  \* space[t]: the memory of t's application, a function on pages

NoPages == <<>>  \* no application

\* The pages of m, and those of new that m has not.
With(m, new) ==
  [v \in DOMAIN m \cup DOMAIN new |-> IF v \in DOMAIN m THEN m[v] ELSE new[v]]

Init == space = [t \in Task |-> NoPages]

Start(t) ==
  /\ space[t] = NoPages
  /\ \E a \in App : space' = [space EXCEPT ![t] = InitialMemory(a)]

Store(t) ==
  \E v \in DOMAIN space[t] : space' = [space EXCEPT ![t][v] = Written]

Demand(t) ==
  /\ DOMAIN space'[t] \subseteq Page
  /\ space' = [space EXCEPT ![t] = With(@, [v \in DOMAIN space'[t] |-> Zero])]

\* The size of the file is stored in page v.
MapFile(t) ==
  \E f \in DOMAIN File, first \in Page, v \in DOMAIN space[t] :
    LET new == first .. first + Len(File[f]) - 1 IN
    /\ new \cap DOMAIN space[t] = {}
    /\ space' = [space EXCEPT ![t] =
         With([@ EXCEPT ![v] = Written], [p \in new |-> File[f][p - first + 1]])]

Exit(t) == space' = [space EXCEPT ![t] = NoPages]

Next == \E t \in Task : Start(t) \/ Store(t) \/ Demand(t) \/ MapFile(t) \/ Exit(t)

Spec == Init /\ [][Next]_space
=============================================================================
