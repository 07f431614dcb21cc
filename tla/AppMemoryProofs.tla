-------------------------- MODULE AppMemoryProofs --------------------------
(***************************************************************************)
(* Theorems about AppMemory, for any number of tasks, applications, frames *)
(* and entries of a page map: whatever fails and however the terminals     *)
(* overlap, frames are accounted for, a system call only meets a fault     *)
(* that it cannot handle when memory is full, and unless system calls      *)
(* store into shared pages, each application has a memory of its own and   *)
(* the cached image does not change.                                       *)
(***************************************************************************)
EXTENDS AppMemory, WellFoundedInduction, TLAPS

-----------------------------------------------------------------------------
(* Address spaces as their leaf entries.  P is the state of all page maps, *)
(* r the top page map of a space, e an entry of it and l one of the page   *)
(* map below.                                                              *)

Has(P, r, e) == P[r][e].present
Table(P, r, e) == P[r][e].frame
LeafAt(P, r, e, l) == P[Table(P, r, e)][l]

\* Leaf(m, root, v) without the rest of the memory.
At(P, r, v) ==
  IF Has(P, r, Upper(v)) THEN LeafAt(P, r, Upper(v), Lower(v)) ELSE Absent

SlotPage(e, l) == (e * kEntries) + l

\* U are the frames in use, R the top page maps, O those whose read-only pages
\* are their own.
FramesSound(U, P, R, O) ==
  /\ U \subseteq Frame /\ R \subseteq U /\ O \subseteq R
  /\ P \in [Frame -> [Entry -> PageMapEntry]]

\* Page maps of the lower level are in use, each in one space and at one place.
TableSound(U, P, R, r, e) ==
  /\ e \in UserEntry /\ P[r][e].writable
  /\ Table(P, r, e) \in U \ R
TablesSound(U, P, R) == \A r \in R, e \in Entry : Has(P, r, e) => TableSound(U, P, R, r, e)
TablesApart(P, R) ==
  \A r, q \in R, e, d \in Entry :
    Has(P, r, e) /\ Has(P, q, d) /\ Table(P, r, e) = Table(P, q, d) => r = q /\ e = d

\* Pages are in use, and are no page maps.
HasPage(P, r, e, l) == Has(P, r, e) /\ LeafAt(P, r, e, l).present
LeafSound(U, P, R, r, e, l) ==
  /\ LeafAt(P, r, e, l).writable => LeafAt(P, r, e, l).present
  /\ LeafAt(P, r, e, l).present => LeafAt(P, r, e, l).frame \in U \ R
LeavesSound(U, P, R) ==
  \A r \in R, e, l \in Entry : Has(P, r, e) => LeafSound(U, P, R, r, e, l)
LeavesAreNoTables(P, R) ==
  \A r, q \in R, e, d, l \in Entry :
    HasPage(P, r, e, l) /\ Has(P, q, d) => LeafAt(P, r, e, l).frame # Table(P, q, d)

SamePlace(r, e, l, q, d, k) == r = q /\ e = d /\ l = k

\* A page that can be written is in one space and at one place.
WritableApart(P, R) ==
  \A r, q \in R, e, d, l, k \in Entry :
    /\ HasPage(P, r, e, l) /\ LeafAt(P, r, e, l).writable
    /\ HasPage(P, q, d, k)
    /\ LeafAt(P, r, e, l).frame = LeafAt(P, q, d, k).frame
    => SamePlace(r, e, l, q, d, k)

\* Spaces that others are copied from, or may come to be, cannot be written, have
\* no stack or arguments yet, and have no page in common.
OwnersReadOnly(P, O) ==
  \A r \in O, e, l \in Entry :
    HasPage(P, r, e, l) => ~LeafAt(P, r, e, l).writable /\ SlotPage(e, l) < StackPage
OwnersApart(P, O) ==
  \A r, q \in O, e, d, l, k \in Entry :
    /\ HasPage(P, r, e, l) /\ HasPage(P, q, d, k)
    /\ LeafAt(P, r, e, l).frame = LeafAt(P, q, d, k).frame
    => SamePlace(r, e, l, q, d, k)

Sound(U, P, R, O) ==
  /\ FramesSound(U, P, R, O)
  /\ TablesSound(U, P, R) /\ TablesApart(P, R)
  /\ LeavesSound(U, P, R) /\ LeavesAreNoTables(P, R)
  /\ WritableApart(P, R) /\ OwnersReadOnly(P, O) /\ OwnersApart(P, O)

\* Frame f is a part of space r that no other space has.
PartOf(P, O, r, f) ==
  \/ f = r
  \/ \E e \in Entry : Has(P, r, e) /\ f = Table(P, r, e)
  \/ \E e, l \in Entry :
       /\ HasPage(P, r, e, l) /\ f = LeafAt(P, r, e, l).frame
       /\ r \in O \/ LeafAt(P, r, e, l).writable

\* Every frame in use is a part of a space in S.
Accounted(U, P, S, O) == \A f \in U : \E r \in S : PartOf(P, O, r, f)

-----------------------------------------------------------------------------
(* The inductive invariant.                                                *)

\* The pages of V are in space r, or none of them is; entries of E have no tables.
AllAt(P, r, V) == \A v \in Page : v \in V => At(P, r, v).present
NoneAt(P, r, V) == \A v \in Page : v \in V => ~At(P, r, v).present
NoTables(P, r, E) == \A e \in Entry : e \in E => ~Has(P, r, e)

\* What space r cannot write, it shares with space q, from which it was copied.
SharedOK(P, r, q) == r # Kernel /\ q # None =>
  \A v \in Page : At(P, r, v).present /\ ~At(P, r, v).writable =>
    At(P, q, v).present /\ At(P, q, v).frame = At(P, r, v).frame

\* How far a task at p is in making space r for a, or in giving it back: k is the
\* next page or entry, and q the space that r is copied from.
LoadingOK(P, p, r, a, k) ==
  /\ p = "load" =>
       /\ k \in ImagePages(a)
       /\ AllAt(P, r, FirstPage .. k - 1) /\ NoneAt(P, r, k .. ArgsPage)
  /\ p = "cache" => AllAt(P, r, ImagePages(a))

\* The pages of the image below entry e.
ImageBelow(a, e) == {v \in ImagePages(a) : Upper(v) < e}

CopyingOK(P, p, r, q, a, k) ==
  /\ p = "copy" =>
       /\ k \in UserEntry /\ NoTables(P, r, k .. kEntries - 1)
       /\ AllAt(P, q, ImagePages(a))
       /\ AllAt(P, r, ImageBelow(a, k))
  /\ p \in {"copy", "args"} => NoneAt(P, r, StackPage .. ArgsPage)

ReadyOK(P, p, r, a, k) ==
  /\ p \in {"args", "stack", "call", "run"} => AllAt(P, r, ImagePages(a))
  /\ p = "args" => k = ArgsPage
  /\ p \in {"stack", "call", "run"} => AllAt(P, r, {ArgsPage})
  /\ p = "stack" =>
       /\ k \in StackPages /\ AllAt(P, r, StackPage .. k - 1)
       /\ NoneAt(P, r, k .. ArgsPage - 1)
  /\ p \in {"call", "run"} => AllAt(P, r, StackPages)

CleaningOK(P, p, r, k) ==
  /\ p = "clean" => k \in UserEntry /\ NoTables(P, r, 0 .. k - 1)
  /\ p = "free" => NoTables(P, r, Entry)

TaskOK(P, p, r, q, a, k) ==
  /\ SharedOK(P, r, q) /\ LoadingOK(P, p, r, a, k) /\ CopyingOK(P, p, r, q, a, k)
  /\ ReadyOK(P, p, r, a, k) /\ CleaningOK(P, p, r, k)

IsContent(C) == C = [f \in Frame |-> C[f]]

Pc == {"idle", "load", "cache", "copy", "args", "stack", "call", "run", "clean", "free", "halt"}

TypeInv ==
  /\ IsContent(content)
  /\ app_loads \in [App -> Frame \cup {None}]
  /\ cr3 \in [Task -> Frame \cup {Kernel}]
  /\ temp_pml4 \in [Task -> Frame \cup {None}]
  /\ pc \in [Task -> Pc]
  /\ app \in [Task -> App \cup {None}]
  /\ next \in [Task -> Int]
  /\ abandoned \in BOOLEAN

\* Who has which top page map: a task that is in ExecuteFile has one of its own.
RootsInv ==
  /\ \A t, u \in Task : t # u /\ cr3[t] = cr3[u] => cr3[t] = Kernel
  /\ \A t \in Task : pc[t] # "idle" =>
       /\ cr3[t] # Kernel /\ cr3[t] \notin Cached \cup CopiedFrom
       /\ app[t] \in Elf
       /\ temp_pml4[t] = None <=> pc[t] \in Loading
  /\ \A a \in App : app_loads[a] # None => a \in Elf

SpacesInv == Sound(used, page_map, Roots, Owners)

TasksInv ==
  \A t \in Task : TaskOK(page_map, pc[t], cr3[t], temp_pml4[t], app[t], next[t])

\* The cached spaces have all pages of the image.
CachedInv ==
  \A a \in App : app_loads[a] # None => AllAt(page_map, app_loads[a], ImagePages(a))

\* Nothing is lost as long as nothing has failed.
LeakInv == ~abandoned =>
  /\ Accounted(used, page_map, Spaces \cup Cached, Owners)
  /\ CopiedFrom \subseteq Cached
  /\ \A t \in Task : pc[t] = "idle" => cr3[t] = Kernel

IInv ==
  /\ TypeInv /\ RootsInv /\ SpacesInv /\ TasksInv /\ CachedInv /\ LeakInv
  /\ HaltsOnlyWhenFull

-----------------------------------------------------------------------------
(* Page numbers.                                                           *)

LEMMA Division ==
  ASSUME NEW K \in Nat \ {0}, NEW v \in Nat
  PROVE  v \div K \in Nat /\ v % K \in 0 .. K - 1 /\ v = ((v \div K) * K) + (v % K)
BY Z3

LEMMA Quotient ==
  ASSUME NEW K \in Nat \ {0}, NEW e \in Nat, NEW l \in 0 .. K - 1
  PROVE  ((e * K) + l) \div K = e /\ ((e * K) + l) % K = l
BY Z3

LEMMA Product ==
  ASSUME NEW K \in Nat, NEW a \in Nat, NEW b \in Nat, a <= b
  PROVE  a * K <= b * K /\ a * K \in Nat
<1>1. (b - a) * K >= 0
  BY Z3
<1>2. (b - a) * K = (b * K) - (a * K)
  BY Z3
<1> QED BY <1>1, <1>2, Z3

\* Every page of the applications has one place in the page maps, and every
\* place one page.
LEMMA Places ==
  /\ \A v \in Page : Upper(v) \in UserEntry /\ Lower(v) \in Entry /\ SlotPage(Upper(v), Lower(v)) = v
  /\ \A e \in UserEntry, l \in Entry :
       SlotPage(e, l) \in Page /\ Upper(SlotPage(e, l)) = e /\ Lower(SlotPage(e, l)) = l
  /\ \A v \in Page : v \in Int
  /\ UserEntry \subseteq Entry
<1> DEFINE K == kEntries
<1>0. K \in Nat \ {0} /\ kUserBegin \in 0 .. K - 1 /\ UserEntry \subseteq Entry
  BY SizeAssumption DEF Entry, UserEntry
<1>1. kUserBegin * K \in Nat /\ K * K \in Nat
  BY <1>0, Product
<1>2. ASSUME NEW v \in Page
      PROVE  Upper(v) \in UserEntry /\ Lower(v) \in Entry /\ SlotPage(Upper(v), Lower(v)) = v /\ v \in Int
  <2> DEFINE e == v \div K
             l == v % K
  <2>1. v \in Nat /\ kUserBegin * K <= v /\ v < K * K
    BY <1>0, <1>1 DEF Page, FirstPage, ArgsPage
  <2>2. e \in Nat /\ l \in 0 .. K - 1 /\ v = (e * K) + l
    BY <1>0, <2>1, Division
  <2> HIDE DEF e, l, K
  <2>3. e < K
    <3> SUFFICES ASSUME e >= K PROVE FALSE
      BY <1>0, <2>2
    <3>1. K * K <= e * K
      BY <1>0, <2>2, Product
    <3> QED BY <1>0, <1>1, <2>1, <2>2, <3>1
  <2>4. kUserBegin <= e
    <3> SUFFICES ASSUME e + 1 <= kUserBegin PROVE FALSE
      BY <1>0, <2>2
    <3>1. (e + 1) * K <= kUserBegin * K
      BY <1>0, <2>2, Product
    <3>2. (e + 1) * K = (e * K) + K
      BY <1>0, <2>2, Z3
    <3> QED BY <1>0, <1>1, <2>1, <2>2, <3>1, <3>2, Product
  <2>5. e \in UserEntry /\ l \in Entry
    BY <1>0, <2>2, <2>3, <2>4 DEF UserEntry, Entry, K
  <2> QED BY <2>1, <2>2, <2>5 DEF Upper, Lower, SlotPage, e, l, K
<1>3. ASSUME NEW e \in UserEntry, NEW l \in Entry
      PROVE  SlotPage(e, l) \in Page /\ Upper(SlotPage(e, l)) = e /\ Lower(SlotPage(e, l)) = l
  <2>1. e \in Nat /\ kUserBegin <= e /\ e + 1 <= K /\ l \in 0 .. K - 1
    BY <1>0 DEF UserEntry, Entry
  <2> HIDE DEF K
  <2>2. kUserBegin * K <= e * K /\ (e + 1) * K <= K * K /\ e * K \in Nat
    BY <1>0, <2>1, Product
  <2>3. (e + 1) * K = (e * K) + K
    BY <1>0, <2>1, Z3
  <2>4. (e * K) + l \in (kUserBegin * K) .. ((K * K) - 1)
    BY <1>0, <1>1, <2>1, <2>2, <2>3
  <2>5. ((e * K) + l) \div K = e /\ ((e * K) + l) % K = l
    BY <1>0, <2>1, Quotient
  <2> QED BY <2>4, <2>5 DEF SlotPage, Upper, Lower, Page, FirstPage, ArgsPage, K
<1> QED BY <1>0, <1>2, <1>3

\* A set of natural numbers that is not empty has a least element.
LEMMA Least ==
  ASSUME NEW S, S \subseteq Nat, S # {}
  PROVE  \E x \in S : \A y \in S : x <= y
<1>1. PICK x \in S : \A y \in S : <<y, x>> \notin OpToRel(<, Nat)
  BY WFMin, NatLessThanWellFounded
<1>2. ASSUME NEW y \in S PROVE x <= y
  <2>1. <<y, x>> \notin {ss \in Nat \X Nat : ss[1] < ss[2]}
    BY <1>1 DEF OpToRel
  <2>2. x \in Nat /\ y \in Nat /\ ~(y < x)
    BY <2>1
  <2> QED BY <2>2
<1> QED BY <1>2

\* NewPageMap is given a frame that nobody has.
LEMMA FreshFrame ==
  ASSUME NEW m, m.used \subseteq Frame, ~Full(m)
  PROVE  NewFrame(m) \in Frame \ m.used
<1>1. Frame \ m.used \subseteq Nat
  BY SizeAssumption DEF Frame
<1>a. Frame \ m.used # {}
  BY DEF Full
<1>2. \E x \in Frame \ m.used : \A y \in Frame \ m.used : x <= y
  BY <1>1, <1>a, Least
<1> QED BY <1>2 DEF NewFrame

-----------------------------------------------------------------------------
(* What the operations on page maps do to sound ones.                      *)

\* The spaces in S have the entries in Q that they have in P.
SameEntry(P, Q, q, d) ==
  /\ Q[q][d] = P[q][d]
  /\ Has(P, q, d) => \A k \in Entry : LeafAt(Q, q, d, k) = LeafAt(P, q, d, k)
SameSpaces(P, Q, S) == \A q \in S, d \in Entry : SameEntry(P, Q, q, d)

\* Page maps are sound whose entries are some of sound ones.
LEMMA FewerEntries ==
  ASSUME NEW U, NEW P, NEW R, NEW O, Sound(U, P, R, O),
         NEW V, NEW Q, NEW S, NEW N, FramesSound(V, Q, S, N),
         \A r \in S, e \in Entry : Has(Q, r, e) =>
           r \in R /\ SameEntry(P, Q, r, e) /\ Table(P, r, e) \in V \ S,
         \A r \in S, e, l \in Entry :
           Has(Q, r, e) /\ HasPage(P, r, e, l) => LeafAt(P, r, e, l).frame \in V \ S,
         \A r \in N, e \in Entry : Has(Q, r, e) => r \in O
  PROVE  Sound(V, Q, S, N)
<1>1. ASSUME NEW r \in S, NEW e \in Entry, Has(Q, r, e)
      PROVE  /\ r \in R /\ Has(P, r, e) /\ Table(Q, r, e) = Table(P, r, e)
             /\ TableSound(V, Q, S, r, e)
  <2>1. r \in R /\ Q[r][e] = P[r][e] /\ Table(P, r, e) \in V \ S
    BY <1>1 DEF SameEntry
  <2>2. Has(P, r, e) /\ Table(Q, r, e) = Table(P, r, e)
    BY <1>1, <2>1 DEF Has, Table
  <2>3. TableSound(U, P, R, r, e)
    BY <2>1, <2>2 DEF Sound, TablesSound
  <2> QED BY <2>1, <2>2, <2>3 DEF TableSound
<1>2. ASSUME NEW r \in S, NEW e \in Entry, NEW l \in Entry, Has(Q, r, e)
      PROVE  /\ LeafAt(Q, r, e, l) = LeafAt(P, r, e, l)
             /\ HasPage(Q, r, e, l) => HasPage(P, r, e, l)
             /\ LeafSound(V, Q, S, r, e, l)
  <2>1. r \in R /\ Has(P, r, e) /\ SameEntry(P, Q, r, e)
    BY <1>1, <1>2
  <2>2. LeafAt(Q, r, e, l) = LeafAt(P, r, e, l)
    BY <2>1 DEF SameEntry
  <2>3. LeafSound(U, P, R, r, e, l)
    BY <2>1 DEF Sound, LeavesSound
  <2>4. HasPage(P, r, e, l) => LeafAt(P, r, e, l).frame \in V \ S
    BY <1>2
  <2> QED BY <2>1, <2>2, <2>3, <2>4 DEF LeafSound, HasPage
<1>3. \A r \in S, e, l \in Entry : HasPage(Q, r, e, l) =>
        r \in R /\ Has(Q, r, e) /\ HasPage(P, r, e, l) /\ LeafAt(Q, r, e, l) = LeafAt(P, r, e, l)
  BY <1>1, <1>2 DEF HasPage
<1>4. TablesSound(V, Q, S) /\ LeavesSound(V, Q, S)
  BY <1>1, <1>2 DEF TablesSound, LeavesSound
<1>5. TablesApart(Q, S)
  BY <1>1 DEF Sound, TablesApart
<1>6. LeavesAreNoTables(Q, S)
  BY <1>1, <1>3 DEF Sound, LeavesAreNoTables
<1>7. WritableApart(Q, S)
  BY <1>3 DEF Sound, WritableApart
<1>8. N \subseteq S
  BY DEF FramesSound
<1>9. OwnersReadOnly(Q, N)
  BY <1>3, <1>8 DEF Sound, OwnersReadOnly
<1>10. OwnersApart(Q, N)
  BY <1>3, <1>8 DEF Sound, OwnersApart
<1> QED BY <1>4, <1>5, <1>6, <1>7, <1>9, <1>10 DEF Sound

\* Fewer spaces, and fewer owners, are sound as well.
LEMMA FewerSpaces ==
  ASSUME NEW U, NEW P, NEW R, NEW O, Sound(U, P, R, O),
         NEW S \in SUBSET R, NEW N \in SUBSET O, N \subseteq S
  PROVE  Sound(U, P, S, N)
<1>1. FramesSound(U, P, S, N)
  BY DEF Sound, FramesSound
<1>2. ASSUME NEW r \in S, NEW e \in Entry, Has(P, r, e)
      PROVE  r \in R /\ SameEntry(P, P, r, e) /\ Table(P, r, e) \in U \ S
  BY <1>2 DEF Sound, TablesSound, TableSound, SameEntry
<1>3. \A r \in S, e, l \in Entry :
        Has(P, r, e) /\ HasPage(P, r, e, l) => LeafAt(P, r, e, l).frame \in U \ S
  BY DEF Sound, LeavesSound, LeafSound, HasPage
<1> QED BY <1>1, <1>2, <1>3, FewerEntries

LEMMA NoEntriesType == NoEntries \in [Entry -> PageMapEntry] /\ Absent \in PageMapEntry
BY SizeAssumption DEF NoEntries, Absent, PageMapEntry, Frame

\* Changing page maps that are no part of the spaces in S changes nothing there.
LEMMA UntouchedEntry ==
  ASSUME NEW P, NEW Q, NEW q, NEW d, Q[q][d] = P[q][d],
         Has(P, q, d) => Q[Table(P, q, d)] = P[Table(P, q, d)]
  PROVE  SameEntry(P, Q, q, d) /\ (Has(Q, q, d) <=> Has(P, q, d))
BY DEF SameEntry, LeafAt, Has, Table

SpacePut(P, Q, n) ==
  /\ Q \in [Frame -> [Entry -> PageMapEntry]] /\ Q[n] = NoEntries
  /\ \A f \in Frame \ {n} : Q[f] = P[f]

EmptySpace(Q, n) == \A e \in Entry : ~Has(Q, n, e)

\* SetupPML4: a page map without entries is a new space.
LEMMA NewSpace ==
  ASSUME NEW U, NEW P, NEW R, NEW O, Sound(U, P, R, O), NEW n \in Frame \ U,
         NEW Q, SpacePut(P, Q, n), NEW N \in SUBSET (O \cup {n})
  PROVE  Sound(U \cup {n}, Q, R \cup {n}, N) /\ SameSpaces(P, Q, R) /\ EmptySpace(Q, n)
<1> DEFINE V == U \cup {n}
           S == R \cup {n}
<1>1. FramesSound(U, P, R, O)
  BY DEF Sound
<1>2. \A f \in Frame : f # n => Q[f] = P[f]
  BY DEF SpacePut
<1>3. \A e \in Entry : ~Has(Q, n, e)
  BY DEF Has, NoEntries, Absent, SpacePut
<1>4. FramesSound(V, Q, S, N)
  BY <1>1, <1>2 DEF FramesSound, SpacePut
<1>5. ASSUME NEW q \in R, NEW d \in Entry
      PROVE  SameEntry(P, Q, q, d) /\ (Has(P, q, d) => Table(P, q, d) \in V \ S)
  <2>1. q # n /\ q \in Frame
    BY <1>1 DEF FramesSound
  <2>2. Has(P, q, d) => Table(P, q, d) \in U \ R /\ Table(P, q, d) \in Frame /\ Table(P, q, d) # n
    BY <1>1 DEF FramesSound, Sound, TablesSound, TableSound
  <2>3. SameEntry(P, Q, q, d)
    BY <1>2, <2>1, <2>2, UntouchedEntry
  <2> QED BY <2>2, <2>3
<1>6. ASSUME NEW r \in S, NEW e \in Entry, Has(Q, r, e)
      PROVE  r \in R /\ SameEntry(P, Q, r, e) /\ Table(P, r, e) \in V \ S
  <2>1. r \in R /\ Q[r][e] = P[r][e]
    BY <1>3, <1>5, <1>6 DEF SameEntry
  <2> QED BY <1>5, <1>6, <2>1 DEF Has
<1>7. ASSUME NEW r \in S, NEW e \in Entry, NEW l \in Entry, Has(Q, r, e), HasPage(P, r, e, l)
      PROVE  LeafAt(P, r, e, l).frame \in V \ S
  <2>1. r \in R
    BY <1>6, <1>7
  <2> QED BY <1>7, <2>1 DEF Sound, LeavesSound, LeafSound, HasPage
<1>8. \A r \in N, e \in Entry : Has(Q, r, e) => r \in O
  BY <1>3
<1>9. Sound(V, Q, S, N)
  <2>1. \A r \in S, e \in Entry : Has(Q, r, e) =>
          r \in R /\ SameEntry(P, Q, r, e) /\ Table(P, r, e) \in V \ S
    BY <1>6
  <2>2. \A r \in S, e, l \in Entry :
          Has(Q, r, e) /\ HasPage(P, r, e, l) => LeafAt(P, r, e, l).frame \in V \ S
    BY <1>7
  <2> HIDE DEF V, S
  <2>3. FramesSound(V, Q, S, N) /\ Sound(U, P, R, O)
    BY <1>4
  <2>4. \A r \in N, e \in Entry : Has(Q, r, e) => r \in O
    BY <1>8
  <2> QED BY <2>1, <2>2, <2>3, <2>4, FewerEntries
<1> QED BY <1>3, <1>5, <1>9 DEF SameSpaces, EmptySpace

\* In Q entry e of space r is gone, and the frames in F with it.
EntryCleaned(P, Q, r, e, F) ==
  /\ F = FreedPages(P[Table(P, r, e)]) \cup {Table(P, r, e)}
  /\ Q \in [Frame -> [Entry -> PageMapEntry]]
  /\ Q[r][e] = Absent /\ \A d \in Entry \ {e} : Q[r][d] = P[r][d]
  /\ \A f \in Frame \ {r} : Q[f] = IF f \in F THEN NoEntries ELSE P[f]

OneEntryLess(P, Q, R, r, e) ==
  /\ \A q \in R, d \in Entry : <<q, d>> # <<r, e>> => SameEntry(P, Q, q, d)
  /\ ~Has(Q, r, e)

\* CleanPageMap for entry e of a space whose read-only pages are another's: what
\* it gives back is in no other place.
LEMMA CleanEntry ==
  ASSUME NEW U, NEW P, NEW R, NEW O, Sound(U, P, R, O), NEW r \in R \ O, NEW e \in Entry,
         Has(P, r, e), NEW F, NEW Q, EntryCleaned(P, Q, r, e, F)
  PROVE  Sound(U \ F, Q, R, O) /\ OneEntryLess(P, Q, R, r, e)
<1> DEFINE V == U \ F
<1>0. /\ F = FreedPages(P[Table(P, r, e)]) \cup {Table(P, r, e)}
      /\ Q \in [Frame -> [Entry -> PageMapEntry]]
      /\ Q[r][e] = Absent /\ \A d \in Entry \ {e} : Q[r][d] = P[r][d]
      /\ \A f \in Frame \ {r} : Q[f] = IF f \in F THEN NoEntries ELSE P[f]
  BY DEF EntryCleaned
<1>1. FramesSound(U, P, R, O) /\ r \in Frame /\ R \subseteq Frame /\ U \subseteq Frame
  BY DEF Sound, FramesSound
<1>2. ~Has(Q, r, e) /\ \A d \in Entry : d # e => Q[r][d] = P[r][d]
  BY <1>0, <1>1 DEF Has, Absent, FramesSound
<1>3. TableSound(U, P, R, r, e)
  BY DEF Sound, TablesSound
<1>4. \A f \in F : \/ f = Table(P, r, e)
                   \/ \E l \in Entry : /\ HasPage(P, r, e, l) /\ LeafAt(P, r, e, l).writable
                                       /\ f = LeafAt(P, r, e, l).frame
  <2>1. \A l \in Entry : LeafAt(P, r, e, l).writable => HasPage(P, r, e, l)
    BY DEF Sound, LeavesSound, LeafSound, HasPage
  <2> QED BY <1>0, <2>1 DEF FreedPages, LeafAt
<1>5. F \cap R = {}
  <2>1. \A l \in Entry : HasPage(P, r, e, l) => LeafAt(P, r, e, l).frame \notin R
    BY DEF Sound, LeavesSound, LeafSound, HasPage
  <2> QED BY <1>3, <1>4, <2>1 DEF TableSound
<1>6. FramesSound(V, Q, R, O)
  BY <1>0, <1>1, <1>5 DEF FramesSound
<1>7. ASSUME NEW q \in R, NEW d \in Entry, <<q, d>> # <<r, e>>
      PROVE  /\ SameEntry(P, Q, q, d) /\ (Has(Q, q, d) <=> Has(P, q, d))
             /\ Has(P, q, d) => Table(P, q, d) \in V \ R
  <2>1. Q[q][d] = P[q][d]
    BY <1>0, <1>1, <1>2, <1>5, <1>7
  <2>2. ASSUME Has(P, q, d)
        PROVE  Table(P, q, d) \in U \ R /\ Table(P, q, d) \notin F
    <3>1. Table(P, q, d) \in U \ R
      BY <2>2 DEF Sound, TablesSound, TableSound
    <3>2. Table(P, q, d) # Table(P, r, e)
      BY <1>7, <2>2 DEF Sound, TablesApart
    <3>3. \A l \in Entry : HasPage(P, r, e, l) => LeafAt(P, r, e, l).frame # Table(P, q, d)
      BY <2>2 DEF Sound, LeavesAreNoTables
    <3> QED BY <1>4, <3>1, <3>2, <3>3
  <2>3. Has(P, q, d) => Q[Table(P, q, d)] = P[Table(P, q, d)]
    BY <1>0, <1>1, <2>2
  <2> QED BY <2>1, <2>2, <2>3, UntouchedEntry
<1>8. ASSUME NEW q \in R, NEW d \in Entry, Has(Q, q, d)
      PROVE  q \in R /\ SameEntry(P, Q, q, d) /\ Table(P, q, d) \in V \ R
  BY <1>2, <1>7, <1>8
<1>9. ASSUME NEW q \in R, NEW d \in Entry, NEW k \in Entry, Has(Q, q, d), HasPage(P, q, d, k)
      PROVE  LeafAt(P, q, d, k).frame \in V \ R
  <2>1. LeafAt(P, q, d, k).frame \in U \ R
    BY <1>9 DEF Sound, LeavesSound, LeafSound, HasPage
  <2>2. LeafAt(P, q, d, k).frame # Table(P, r, e)
    BY <1>9 DEF Sound, LeavesAreNoTables
  <2>3. <<q, d>> # <<r, e>>
    BY <1>2, <1>9
  <2>4. \A l \in Entry : HasPage(P, r, e, l) /\ LeafAt(P, r, e, l).writable =>
          LeafAt(P, r, e, l).frame # LeafAt(P, q, d, k).frame
    BY <1>9, <2>3 DEF Sound, WritableApart, SamePlace
  <2> QED BY <1>4, <2>1, <2>2, <2>4
<1>10. \A q \in O, d \in Entry : Has(Q, q, d) => q \in O
  OBVIOUS
<1>11. Sound(V, Q, R, O)
  <2> HIDE DEF V
  <2> QED BY <1>6, <1>8, <1>9, <1>10, FewerEntries
<1> QED BY <1>2, <1>7, <1>11 DEF OneEntryLess

SpaceGone(P, Q, r) ==
  Q \in [Frame -> [Entry -> PageMapEntry]] /\ \A f \in Frame \ {r} : Q[f] = P[f]

\* FreePML4: a space without entries goes.
LEMMA OldSpace ==
  ASSUME NEW U, NEW P, NEW R, NEW O, Sound(U, P, R, O), NEW r \in R,
         EmptySpace(P, r), NEW Q, SpaceGone(P, Q, r)
  PROVE  Sound(U \ {r}, Q, R \ {r}, O \ {r}) /\ SameSpaces(P, Q, R \ {r})
<1> DEFINE V == U \ {r}
           S == R \ {r}
<1>1. FramesSound(U, P, R, O) /\ FramesSound(V, Q, S, O \ {r}) /\ S \subseteq Frame /\ U \subseteq Frame
  BY DEF Sound, FramesSound, SpaceGone
<1>2. ASSUME NEW q \in S, NEW d \in Entry
      PROVE  /\ SameEntry(P, Q, q, d) /\ (Has(Q, q, d) <=> Has(P, q, d))
             /\ Has(P, q, d) => Table(P, q, d) \in V \ S
  <2>1. Has(P, q, d) => Table(P, q, d) \in U \ R
    BY DEF Sound, TablesSound, TableSound
  <2>2. Has(P, q, d) => Q[Table(P, q, d)] = P[Table(P, q, d)]
    BY <1>1, <2>1 DEF SpaceGone
  <2>3. Q[q][d] = P[q][d]
    BY <1>1 DEF SpaceGone
  <2> QED BY <2>1, <2>2, <2>3, UntouchedEntry
<1>3. ASSUME NEW q \in S, NEW d \in Entry, NEW k \in Entry, HasPage(P, q, d, k)
      PROVE  LeafAt(P, q, d, k).frame \in V \ S
  BY <1>3 DEF Sound, LeavesSound, LeafSound, HasPage
<1>4. Sound(V, Q, S, O \ {r})
  <2>1. \A q \in O \ {r}, d \in Entry : Has(Q, q, d) => q \in O
    OBVIOUS
  <2>2. \A q \in S, d \in Entry : Has(Q, q, d) =>
          q \in R /\ SameEntry(P, Q, q, d) /\ Table(P, q, d) \in V \ S
    BY <1>2
  <2>3. \A q \in S, d, k \in Entry :
          Has(Q, q, d) /\ HasPage(P, q, d, k) => LeafAt(P, q, d, k).frame \in V \ S
    BY <1>3
  <2> HIDE DEF V, S
  <2> QED BY <1>1, <2>1, <2>2, <2>3, FewerEntries
<1> QED BY <1>2, <1>4 DEF SameSpaces

\* In Q frame n is the page map of entry e of space r.
TablePut(P, Q, O, r, e, n) ==
  /\ Q \in [Frame -> [Entry -> PageMapEntry]]
  /\ Q[r][e].present /\ Q[r][e].writable /\ Q[r][e].frame = n
  /\ \A d \in Entry \ {e} : Q[r][d] = P[r][d]
  /\ \A f \in Frame \ {n, r} : Q[f] = P[f]
  /\ \A l \in Entry :
       /\ ~Q[n][l].writable
       /\ Q[n][l].present =>
            /\ r \notin O
            /\ \E q \in O, d, k \in Entry :
                 HasPage(P, q, d, k) /\ LeafAt(P, q, d, k).frame = Q[n][l].frame

\* Nothing else has changed.
OneTable(P, Q, R, r, e, n) ==
  /\ \A q \in R, d \in Entry : <<q, d>> # <<r, e>> => SameEntry(P, Q, q, d)
  /\ Has(Q, r, e) /\ Table(Q, r, e) = n
  /\ \A l \in Entry : LeafAt(Q, r, e, l) = Q[n][l]

\* SetNewPageMapIfNotPresent and CopyPageMaps: a new page map for entry e, in which
\* nothing can be written and everything is an owner's.
LEMMA NewTable ==
  ASSUME NEW U, NEW P, NEW R, NEW O, Sound(U, P, R, O), NEW n \in Frame \ U,
         NEW r \in R, NEW e \in UserEntry, ~Has(P, r, e),
         NEW Q, TablePut(P, Q, O, r, e, n)
  PROVE  Sound(U \cup {n}, Q, R, O) /\ OneTable(P, Q, R, r, e, n)
<1> DEFINE V == U \cup {n}
<1>1. FramesSound(U, P, R, O) /\ r \in Frame /\ R \subseteq Frame /\ U \subseteq Frame /\ R \subseteq U /\ O \subseteq R
  BY DEF Sound, FramesSound
<1>2. e \in Entry
  BY Places
<1>3. /\ Q[r][e].present /\ Q[r][e].writable /\ Q[r][e].frame = n
      /\ \A d \in Entry : d # e => Q[r][d] = P[r][d]
      /\ \A f \in Frame \ {n, r} : Q[f] = P[f]
  BY DEF TablePut
<1>4. Has(Q, r, e) /\ Table(Q, r, e) = n /\ \A l \in Entry : LeafAt(Q, r, e, l) = Q[n][l]
  BY <1>3 DEF Has, Table, LeafAt
<1>a. \A l \in Entry :
        /\ ~Q[n][l].writable
        /\ Q[n][l].present =>
             /\ r \notin O
             /\ \E q \in O, d, k \in Entry :
                  HasPage(P, q, d, k) /\ LeafAt(P, q, d, k).frame = Q[n][l].frame
  BY DEF TablePut
<1>5. ASSUME NEW q \in R, NEW d \in Entry, <<q, d>> # <<r, e>>
      PROVE  /\ SameEntry(P, Q, q, d) /\ (Has(Q, q, d) <=> Has(P, q, d))
             /\ Has(P, q, d) => Table(P, q, d) \in U \ R
             /\ Table(Q, q, d) = Table(P, q, d)
  <2>1. Q[q][d] = P[q][d]
    BY <1>1, <1>3, <1>5
  <2>2. Has(P, q, d) => Table(P, q, d) \in U \ R
    BY DEF Sound, TablesSound, TableSound
  <2>3. Has(P, q, d) => Q[Table(P, q, d)] = P[Table(P, q, d)]
    BY <1>1, <1>3, <2>2
  <2> QED BY <2>1, <2>2, <2>3, UntouchedEntry DEF Table
<1>6. ASSUME NEW q \in R, NEW d \in Entry, <<q, d>> # <<r, e>>, NEW k \in Entry
      PROVE  /\ HasPage(Q, q, d, k) <=> HasPage(P, q, d, k)
             /\ Has(P, q, d) => LeafAt(Q, q, d, k) = LeafAt(P, q, d, k)
  BY <1>5, <1>6 DEF SameEntry, HasPage
<1>7. FramesSound(V, Q, R, O)
  BY <1>1 DEF FramesSound, TablePut
<1>8. \A q \in R, d, k \in Entry : HasPage(P, q, d, k) => LeafAt(P, q, d, k).frame \in U \ R
  BY DEF Sound, LeavesSound, LeafSound, HasPage
<1>9. ASSUME NEW l \in Entry, HasPage(Q, r, e, l)
      PROVE  \E q \in O, d, k \in Entry :
               /\ HasPage(P, q, d, k) /\ LeafAt(P, q, d, k).frame = LeafAt(Q, r, e, l).frame
               /\ q # r
  BY <1>a, <1>4, <1>9 DEF HasPage
<1>10. TablesSound(V, Q, R)
  <2> SUFFICES ASSUME NEW q \in R, NEW d \in Entry, Has(Q, q, d) PROVE TableSound(V, Q, R, q, d)
    BY DEF TablesSound
  <2>1. CASE <<q, d>> = <<r, e>>
    BY <1>1, <1>3, <1>4, <2>1 DEF TableSound
  <2>2. CASE <<q, d>> # <<r, e>>
    <3>1. TableSound(U, P, R, q, d) /\ Q[q][d] = P[q][d]
      BY <1>5, <2>2 DEF Sound, TablesSound, SameEntry
    <3> QED BY <1>5, <2>2, <3>1 DEF TableSound
  <2> QED BY <2>1, <2>2
<1>11. TablesApart(Q, R)
  <2> SUFFICES ASSUME NEW q \in R, NEW p \in R, NEW d \in Entry, NEW c \in Entry,
                      Has(Q, q, d), Has(Q, p, c), Table(Q, q, d) = Table(Q, p, c)
               PROVE  q = p /\ d = c
    BY DEF TablesApart
  <2>1. CASE <<q, d>> # <<r, e>> /\ <<p, c>> # <<r, e>>
    BY <1>5, <2>1 DEF Sound, TablesApart
  <2>2. CASE <<q, d>> = <<r, e>> /\ <<p, c>> # <<r, e>>
    <3>1. Table(Q, p, c) \in U
      BY <1>5, <2>2
    <3>2. Table(Q, q, d) = n
      BY <1>4, <2>2
    <3> QED BY <3>1, <3>2
  <2>3. CASE <<q, d>> # <<r, e>> /\ <<p, c>> = <<r, e>>
    <3>1. Table(Q, q, d) \in U
      BY <1>5, <2>3
    <3>2. Table(Q, p, c) = n
      BY <1>4, <2>3
    <3> QED BY <3>1, <3>2
  <2> QED BY <2>1, <2>2, <2>3
<1>12. LeavesSound(V, Q, R)
  <2> SUFFICES ASSUME NEW q \in R, NEW d \in Entry, NEW k \in Entry, Has(Q, q, d)
               PROVE  LeafSound(V, Q, R, q, d, k)
    BY DEF LeavesSound
  <2>1. CASE <<q, d>> = <<r, e>>
    <3>1. ~LeafAt(Q, r, e, k).writable
      BY <1>a, <1>4
    <3>2. LeafAt(Q, r, e, k).present => LeafAt(Q, r, e, k).frame \in U \ R
      BY <1>1, <1>4, <1>8, <1>9 DEF HasPage
    <3> QED BY <1>1, <2>1, <3>1, <3>2 DEF LeafSound
  <2>2. CASE <<q, d>> # <<r, e>>
    <3>1. LeafSound(U, P, R, q, d, k)
      BY <1>5, <2>2 DEF Sound, LeavesSound
    <3> QED BY <1>1, <1>5, <1>6, <2>2, <3>1 DEF LeafSound
  <2> QED BY <2>1, <2>2
<1>13. LeavesAreNoTables(Q, R)
  <2> SUFFICES ASSUME NEW q \in R, NEW p \in R, NEW d \in Entry, NEW c \in Entry, NEW k \in Entry,
                      HasPage(Q, q, d, k), Has(Q, p, c)
               PROVE  LeafAt(Q, q, d, k).frame # Table(Q, p, c)
    BY DEF LeavesAreNoTables
  <2>1. \E p_ \in R, c_, k_ \in Entry :
          HasPage(P, p_, c_, k_) /\ LeafAt(P, p_, c_, k_).frame = LeafAt(Q, q, d, k).frame
    <3>1. CASE <<q, d>> = <<r, e>>
      BY <1>1, <1>9, <3>1
    <3>2. CASE <<q, d>> # <<r, e>>
      BY <1>6, <3>2 DEF HasPage
    <3> QED BY <3>1, <3>2
  <2>2. CASE <<p, c>> = <<r, e>>
    BY <1>4, <1>8, <2>1, <2>2
  <2>3. CASE <<p, c>> # <<r, e>>
    BY <1>5, <2>1, <2>3 DEF Sound, LeavesAreNoTables
  <2> QED BY <2>2, <2>3
<1>14. WritableApart(Q, R)
  <2> SUFFICES ASSUME NEW q \in R, NEW p \in R, NEW d \in Entry, NEW c \in Entry,
                      NEW k \in Entry, NEW m \in Entry,
                      HasPage(Q, q, d, k), LeafAt(Q, q, d, k).writable, HasPage(Q, p, c, m),
                      LeafAt(Q, q, d, k).frame = LeafAt(Q, p, c, m).frame
               PROVE  SamePlace(q, d, k, p, c, m)
    BY DEF WritableApart
  <2>1. <<q, d>> # <<r, e>>
    BY <1>a, <1>4
  <2>2. HasPage(P, q, d, k) /\ LeafAt(P, q, d, k) = LeafAt(Q, q, d, k)
    BY <1>6, <2>1 DEF HasPage
  <2>3. CASE <<p, c>> # <<r, e>>
    BY <1>6, <2>2, <2>3 DEF Sound, WritableApart, HasPage
  <2>4. CASE <<p, c>> = <<r, e>>
    <3>1. PICK p_ \in O, c_, k_ \in Entry :
            HasPage(P, p_, c_, k_) /\ LeafAt(P, p_, c_, k_).frame = LeafAt(Q, q, d, k).frame
      BY <1>9, <2>4
    <3>2. SamePlace(q, d, k, p_, c_, k_)
      BY <1>1, <2>2, <3>1 DEF Sound, WritableApart
    <3>3. ~LeafAt(P, p_, c_, k_).writable
      BY <3>1 DEF Sound, OwnersReadOnly
    <3> QED BY <2>2, <3>2, <3>3 DEF SamePlace
  <2> QED BY <2>3, <2>4
<1>15. \A q \in O, d, k \in Entry : HasPage(Q, q, d, k) =>
         HasPage(P, q, d, k) /\ LeafAt(Q, q, d, k) = LeafAt(P, q, d, k)
  <2> SUFFICES ASSUME NEW q \in O, NEW d \in Entry, NEW k \in Entry, HasPage(Q, q, d, k)
               PROVE  HasPage(P, q, d, k) /\ LeafAt(Q, q, d, k) = LeafAt(P, q, d, k)
    OBVIOUS
  <2>1. <<q, d>> # <<r, e>>
    BY <1>a, <1>4 DEF HasPage
  <2> QED BY <1>1, <1>6, <2>1 DEF HasPage
<1>16. OwnersReadOnly(Q, O)
  BY <1>15 DEF Sound, OwnersReadOnly
<1>17. OwnersApart(Q, O)
  BY <1>15 DEF Sound, OwnersApart
<1> QED BY <1>4, <1>5, <1>7, <1>10, <1>11, <1>12, <1>13, <1>14, <1>16, <1>17 DEF Sound, OneTable

\* In Q frame n is the page of entry l below entry e of space r.
LeafPut(P, Q, r, e, l, n, w) ==
  LET T == Table(P, r, e) IN
  /\ Q \in [Frame -> [Entry -> PageMapEntry]]
  /\ Q[T][l].present /\ Q[T][l].writable = w /\ Q[T][l].frame = n
  /\ \A k \in Entry \ {l} : Q[T][k] = P[T][k]
  /\ \A f \in Frame \ {n, T} : Q[f] = P[f]

\* Nothing else has changed.
OneLeaf(P, Q, R, r, e, l, n, w) ==
  /\ \A q \in R, d \in Entry : Q[q][d] = P[q][d]
  /\ \A q \in R, d, k \in Entry : Has(P, q, d) /\ ~SamePlace(q, d, k, r, e, l) =>
       LeafAt(Q, q, d, k) = LeafAt(P, q, d, k)
  /\ LeafAt(Q, r, e, l).present /\ LeafAt(Q, r, e, l).writable = w
  /\ LeafAt(Q, r, e, l).frame = n

\* SetNewPageMapIfNotPresent for a page, and CopyOnePage: a new page for entry l
\* below entry e, which an owner cannot write.
LEMMA NewLeaf ==
  ASSUME NEW U, NEW P, NEW R, NEW O, Sound(U, P, R, O), NEW n \in Frame \ U,
         NEW r \in R, NEW e \in Entry, NEW l \in Entry, Has(P, r, e),
         NEW w \in BOOLEAN, r \in O => ~w /\ SlotPage(e, l) < StackPage,
         NEW Q, LeafPut(P, Q, r, e, l, n, w)
  PROVE  Sound(U \cup {n}, Q, R, O) /\ OneLeaf(P, Q, R, r, e, l, n, w)
<1> DEFINE V == U \cup {n}
           T == Table(P, r, e)
<1>1. FramesSound(U, P, R, O) /\ r \in Frame /\ R \subseteq Frame /\ U \subseteq Frame /\ R \subseteq U /\ O \subseteq R
  BY DEF Sound, FramesSound
<1>0. /\ Q \in [Frame -> [Entry -> PageMapEntry]]
      /\ Q[T][l].present /\ Q[T][l].writable = w /\ Q[T][l].frame = n
      /\ \A k \in Entry \ {l} : Q[T][k] = P[T][k]
      /\ \A f \in Frame \ {n, T} : Q[f] = P[f]
  BY DEF LeafPut
<1>2. T \in U \ R
  BY DEF Sound, TablesSound, TableSound
<1>3. \A q \in R : Q[q] = P[q]
  BY <1>0, <1>1, <1>2
<1>4. \A q \in R, d \in Entry :
        /\ Q[q][d] = P[q][d] /\ (Has(Q, q, d) <=> Has(P, q, d))
        /\ Table(Q, q, d) = Table(P, q, d)
  BY <1>3 DEF Has, Table
<1>5. \A k \in Entry : k # l => Q[T][k] = P[T][k]
  BY <1>0
<1>6. /\ LeafAt(Q, r, e, l).present /\ LeafAt(Q, r, e, l).writable = w
      /\ LeafAt(Q, r, e, l).frame = n
  BY <1>0, <1>4 DEF LeafAt
<1>7. ASSUME NEW q \in R, NEW d \in Entry, NEW k \in Entry, Has(P, q, d), ~SamePlace(q, d, k, r, e, l)
      PROVE  LeafAt(Q, q, d, k) = LeafAt(P, q, d, k)
  <2>1. CASE q = r /\ d = e
    BY <1>4, <1>5, <1>7, <2>1 DEF LeafAt, SamePlace
  <2>2. CASE ~(q = r /\ d = e)
    <3>1. Table(P, q, d) \in U \ R
      BY <1>7 DEF Sound, TablesSound, TableSound
    <3>2. Table(P, q, d) # T
      BY <1>7, <2>2 DEF Sound, TablesApart
    <3>3. Q[Table(P, q, d)] = P[Table(P, q, d)]
      BY <1>0, <1>1, <3>1, <3>2
    <3> QED BY <1>4, <3>3 DEF LeafAt
  <2> QED BY <2>1, <2>2
<1>8. \A q \in R, d, k \in Entry : ~SamePlace(q, d, k, r, e, l) =>
        /\ HasPage(Q, q, d, k) <=> HasPage(P, q, d, k)
        /\ HasPage(Q, q, d, k) => LeafAt(Q, q, d, k) = LeafAt(P, q, d, k)
  BY <1>4, <1>7 DEF HasPage
<1>9. FramesSound(V, Q, R, O)
  BY <1>0, <1>1 DEF FramesSound
<1>10. \A q \in R, d, k \in Entry : HasPage(P, q, d, k) => LeafAt(P, q, d, k).frame \in U \ R
  BY DEF Sound, LeavesSound, LeafSound, HasPage
<1>11. TablesSound(V, Q, R)
  BY <1>4 DEF Sound, TablesSound, TableSound
<1>12. TablesApart(Q, R)
  BY <1>4 DEF Sound, TablesApart
<1>13. LeavesSound(V, Q, R)
  <2> SUFFICES ASSUME NEW q \in R, NEW d \in Entry, NEW k \in Entry, Has(Q, q, d)
               PROVE  LeafSound(V, Q, R, q, d, k)
    BY DEF LeavesSound
  <2>1. CASE SamePlace(q, d, k, r, e, l)
    BY <1>1, <1>6, <2>1 DEF LeafSound, SamePlace
  <2>2. CASE ~SamePlace(q, d, k, r, e, l)
    <3>1. LeafSound(U, P, R, q, d, k) /\ LeafAt(Q, q, d, k) = LeafAt(P, q, d, k)
      BY <1>4, <1>7, <2>2 DEF Sound, LeavesSound
    <3> QED BY <3>1 DEF LeafSound
  <2> QED BY <2>1, <2>2
<1>14. LeavesAreNoTables(Q, R)
  <2> SUFFICES ASSUME NEW q \in R, NEW p \in R, NEW d \in Entry, NEW c \in Entry, NEW k \in Entry,
                      HasPage(Q, q, d, k), Has(Q, p, c)
               PROVE  LeafAt(Q, q, d, k).frame # Table(Q, p, c)
    BY DEF LeavesAreNoTables
  <2>1. Has(P, p, c) /\ Table(Q, p, c) = Table(P, p, c) /\ Table(P, p, c) \in U
    BY <1>4 DEF Sound, TablesSound, TableSound
  <2>2. CASE SamePlace(q, d, k, r, e, l)
    BY <1>6, <2>1, <2>2 DEF SamePlace
  <2>3. CASE ~SamePlace(q, d, k, r, e, l)
    BY <1>8, <2>1, <2>3 DEF Sound, LeavesAreNoTables
  <2> QED BY <2>2, <2>3
<1>15. WritableApart(Q, R)
  <2> SUFFICES ASSUME NEW q \in R, NEW p \in R, NEW d \in Entry, NEW c \in Entry,
                      NEW k \in Entry, NEW m \in Entry,
                      HasPage(Q, q, d, k), LeafAt(Q, q, d, k).writable, HasPage(Q, p, c, m),
                      LeafAt(Q, q, d, k).frame = LeafAt(Q, p, c, m).frame
               PROVE  SamePlace(q, d, k, p, c, m)
    BY DEF WritableApart
  <2>1. CASE ~SamePlace(q, d, k, r, e, l) /\ ~SamePlace(p, c, m, r, e, l)
    BY <1>8, <2>1 DEF Sound, WritableApart
  <2>2. CASE SamePlace(q, d, k, r, e, l) /\ ~SamePlace(p, c, m, r, e, l)
    <3>1. LeafAt(Q, p, c, m).frame \in U
      BY <1>8, <1>10, <2>2
    <3>2. LeafAt(Q, q, d, k).frame = n
      BY <1>6, <2>2 DEF SamePlace
    <3> QED BY <3>1, <3>2
  <2>3. CASE ~SamePlace(q, d, k, r, e, l) /\ SamePlace(p, c, m, r, e, l)
    <3>1. LeafAt(Q, q, d, k).frame \in U
      BY <1>8, <1>10, <2>3
    <3>2. LeafAt(Q, p, c, m).frame = n
      BY <1>6, <2>3 DEF SamePlace
    <3> QED BY <3>1, <3>2
  <2>4. CASE SamePlace(q, d, k, r, e, l) /\ SamePlace(p, c, m, r, e, l)
    BY <2>4 DEF SamePlace
  <2> QED BY <2>1, <2>2, <2>3, <2>4
<1>16. OwnersReadOnly(Q, O)
  <2> SUFFICES ASSUME NEW q \in O, NEW d \in Entry, NEW k \in Entry, HasPage(Q, q, d, k)
               PROVE  ~LeafAt(Q, q, d, k).writable /\ SlotPage(d, k) < StackPage
    BY DEF OwnersReadOnly
  <2>1. CASE SamePlace(q, d, k, r, e, l)
    BY <1>6, <2>1 DEF SamePlace
  <2>2. CASE ~SamePlace(q, d, k, r, e, l)
    BY <1>1, <1>8, <2>2 DEF Sound, OwnersReadOnly
  <2> QED BY <2>1, <2>2
<1>17. OwnersApart(Q, O)
  <2> SUFFICES ASSUME NEW q \in O, NEW p \in O, NEW d \in Entry, NEW c \in Entry,
                      NEW k \in Entry, NEW m \in Entry,
                      HasPage(Q, q, d, k), HasPage(Q, p, c, m),
                      LeafAt(Q, q, d, k).frame = LeafAt(Q, p, c, m).frame
               PROVE  SamePlace(q, d, k, p, c, m)
    BY DEF OwnersApart
  <2>1. CASE ~SamePlace(q, d, k, r, e, l) /\ ~SamePlace(p, c, m, r, e, l)
    BY <1>1, <1>8, <2>1 DEF Sound, OwnersApart
  <2>2. CASE SamePlace(q, d, k, r, e, l) /\ ~SamePlace(p, c, m, r, e, l)
    <3>1. LeafAt(Q, p, c, m).frame \in U
      BY <1>1, <1>8, <1>10, <2>2
    <3>2. LeafAt(Q, q, d, k).frame = n
      BY <1>6, <2>2 DEF SamePlace
    <3> QED BY <3>1, <3>2
  <2>3. CASE ~SamePlace(q, d, k, r, e, l) /\ SamePlace(p, c, m, r, e, l)
    <3>1. LeafAt(Q, q, d, k).frame \in U
      BY <1>1, <1>8, <1>10, <2>3
    <3>2. LeafAt(Q, p, c, m).frame = n
      BY <1>6, <2>3 DEF SamePlace
    <3> QED BY <3>1, <3>2
  <2>4. CASE SamePlace(q, d, k, r, e, l) /\ SamePlace(p, c, m, r, e, l)
    BY <2>4 DEF SamePlace
  <2> QED BY <2>1, <2>2, <2>3, <2>4
<1> QED BY <1>4, <1>6, <1>7, <1>9, <1>11, <1>12, <1>13, <1>14, <1>15, <1>16, <1>17 DEF Sound, OneLeaf

-----------------------------------------------------------------------------
(* The operations as AppMemory defines them.                               *)

Mem(U, P, C) == [used |-> U, page_map |-> P, content |-> C]

\* The entry for a new page or page map.
EntryFor(n, writable) == [present |-> TRUE, writable |-> writable, frame |-> n]

\* P when NewPageMap has cleared frame n, and entry e of page map f has become x.
WithEntry(P, n, f, e, x) == [[P EXCEPT ![n] = NoEntries] EXCEPT ![f][e] = x]

WritableIs(P, f, e, w) == [P EXCEPT ![f][e].writable = w]
Zeroed(C, n) == [C EXCEPT ![n] = Zero]

LEMMA MemFields ==
  ASSUME NEW U, NEW P, NEW C
  PROVE  Mem(U, P, C).used = U /\ Mem(U, P, C).page_map = P /\ Mem(U, P, C).content = C
BY DEF Mem

LEMMA EntryFields ==
  ASSUME NEW n, NEW w
  PROVE  /\ EntryFor(n, w).present /\ EntryFor(n, w).writable = w /\ EntryFor(n, w).frame = n
         /\ n \in Frame /\ w \in BOOLEAN => EntryFor(n, w) \in PageMapEntry
BY DEF EntryFor, PageMapEntry

LEMMA MemoryIsMem ==
  ASSUME TRUE
  PROVE  /\ Memory = Mem(used, page_map, content)
         /\ \A r, v : Leaf(Memory, r, v) = At(page_map, r, v)
BY DEF Memory, Mem, Leaf, At, Has, Table, LeafAt

LEMMA NewMapPresent ==
  ASSUME NEW U, NEW P, NEW C, NEW f, NEW e, NEW w, Has(P, f, e)
  PROVE  NewMapAt(Mem(U, P, C), f, e, w) = Mem(U, WritableIs(P, f, e, w), C)
BY DEF NewMapAt, Mem, Has, WritableIs

LEMMA NewMapAbsent ==
  ASSUME NEW U, NEW P, NEW C, NEW f, NEW e, NEW w, ~Has(P, f, e),
         NEW n, n = NewFrame(Mem(U, P, C))
  PROVE  NewMapAt(Mem(U, P, C), f, e, w) =
           Mem(U \cup {n}, WithEntry(P, n, f, e, EntryFor(n, w)), Zeroed(C, n))
<1>1. NewPageMap(Mem(U, P, C)) = Mem(U \cup {n}, [P EXCEPT ![n] = NoEntries], [C EXCEPT ![n] = Zero])
  BY DEF NewPageMap, Mem
<1>2. NewMapAt(Mem(U, P, C), f, e, w) =
        [NewPageMap(Mem(U, P, C)) EXCEPT !.page_map[f][e] = EntryFor(n, w)]
  BY DEF NewMapAt, Mem, Has, EntryFor
<1> QED BY <1>1, <1>2 DEF Mem, WithEntry, Zeroed

\* A page map of the upper level with a new page map in it.
LEMMA EntrySet ==
  ASSUME NEW P \in [Frame -> [Entry -> PageMapEntry]], NEW n \in Frame, NEW f \in Frame, f # n,
         NEW e \in Entry, NEW x \in PageMapEntry
  PROVE  /\ WithEntry(P, n, f, e, x) \in [Frame -> [Entry -> PageMapEntry]]
         /\ WithEntry(P, n, f, e, x)[n] = NoEntries
         /\ WithEntry(P, n, f, e, x)[f][e] = x
         /\ \A d \in Entry \ {e} : WithEntry(P, n, f, e, x)[f][d] = P[f][d]
         /\ \A g \in Frame \ {n, f} : WithEntry(P, n, f, e, x)[g] = P[g]
BY NoEntriesType DEF WithEntry

LEMMA WritableSet ==
  ASSUME NEW P \in [Frame -> [Entry -> PageMapEntry]], NEW f \in Frame, NEW e \in Entry,
         NEW w, P[f][e].writable = w
  PROVE  WritableIs(P, f, e, w) = P
<1>1. P[f][e] \in PageMapEntry /\ P[f][e].writable = w
  BY DEF PageMapEntry
<1>2. [P[f][e] EXCEPT !.writable = w] = P[f][e]
  BY <1>1 DEF PageMapEntry
<1>3. [P[f] EXCEPT ![e] = P[f][e]] = P[f]
  OBVIOUS
<1>4. [P EXCEPT ![f] = P[f]] = P
  OBVIOUS
<1> QED BY <1>2, <1>3, <1>4 DEF WritableIs

LEMMA SameAt ==
  ASSUME NEW P, NEW Q, NEW q, NEW v \in Page, SameEntry(P, Q, q, Upper(v))
  PROVE  At(Q, q, v) = At(P, q, v)
BY Places DEF SameEntry, At, Has

-----------------------------------------------------------------------------
(* Nothing leaks.                                                          *)

LEMMA AccountedNewTable ==
  ASSUME NEW U, NEW P, NEW S, NEW O, Accounted(U, P, S, O), NEW r \in S, NEW e \in Entry,
         NEW Q, NEW n, NEW R, S \subseteq R, OneTable(P, Q, R, r, e, n), ~Has(P, r, e)
  PROVE  Accounted(U \cup {n}, Q, S, O)
<1>0. \A q \in S, d \in Entry : <<q, d>> # <<r, e>> => SameEntry(P, Q, q, d)
  BY DEF OneTable
<1>1. ASSUME NEW f \in U, NEW q \in S, PartOf(P, O, q, f)
      PROVE  PartOf(Q, O, q, f)
  <2>1. \A d \in Entry : Has(P, q, d) =>
          /\ Has(Q, q, d) /\ Table(Q, q, d) = Table(P, q, d)
          /\ \A k \in Entry : LeafAt(Q, q, d, k) = LeafAt(P, q, d, k)
    BY <1>0 DEF SameEntry, Has, Table
  <2> QED BY <1>1, <2>1 DEF PartOf, HasPage
<1>2. PartOf(Q, O, r, n)
  BY DEF PartOf, OneTable
<1> QED BY <1>1, <1>2 DEF Accounted

LEMMA AccountedNewLeaf ==
  ASSUME NEW U, NEW P, NEW S, NEW O, Accounted(U, P, S, O),
         NEW r \in S, NEW e \in Entry, NEW l \in Entry, Has(P, r, e),
         HasPage(P, r, e, l) => r \notin O /\ ~LeafAt(P, r, e, l).writable,
         NEW Q, NEW n, NEW w, r \in O \/ w, NEW R, S \subseteq R,
         OneLeaf(P, Q, R, r, e, l, n, w)
  PROVE  Accounted(U \cup {n}, Q, S, O)
<1>a. /\ \A q \in S, d \in Entry : Q[q][d] = P[q][d]
      /\ \A q \in S, d, k \in Entry : Has(P, q, d) /\ ~SamePlace(q, d, k, r, e, l) =>
           LeafAt(Q, q, d, k) = LeafAt(P, q, d, k)
      /\ LeafAt(Q, r, e, l).present /\ LeafAt(Q, r, e, l).writable = w
      /\ LeafAt(Q, r, e, l).frame = n
  BY DEF OneLeaf
<1>0. \A q \in S, d \in Entry : (Has(Q, q, d) <=> Has(P, q, d)) /\ Table(Q, q, d) = Table(P, q, d)
  BY <1>a DEF Has, Table
<1>1. ASSUME NEW f \in U, NEW q \in S, PartOf(P, O, q, f)
      PROVE  PartOf(Q, O, q, f)
  <2>1. CASE f = q \/ \E d \in Entry : Has(P, q, d) /\ f = Table(P, q, d)
    BY <1>0, <2>1 DEF PartOf
  <2>2. CASE \E d, k \in Entry :
               /\ HasPage(P, q, d, k) /\ f = LeafAt(P, q, d, k).frame
               /\ q \in O \/ LeafAt(P, q, d, k).writable
    <3>1. PICK d \in Entry, k \in Entry :
            /\ HasPage(P, q, d, k) /\ f = LeafAt(P, q, d, k).frame
            /\ q \in O \/ LeafAt(P, q, d, k).writable
      BY <2>2
    <3>2. ~SamePlace(q, d, k, r, e, l)
      BY <3>1 DEF SamePlace
    <3>3. HasPage(Q, q, d, k) /\ LeafAt(Q, q, d, k) = LeafAt(P, q, d, k)
      BY <1>0, <1>a, <3>1, <3>2 DEF HasPage
    <3> QED BY <3>1, <3>3 DEF PartOf
  <2> QED BY <1>1, <2>1, <2>2 DEF PartOf
<1>2. PartOf(Q, O, r, n)
  BY <1>0, <1>a DEF PartOf, HasPage
<1> QED BY <1>1, <1>2 DEF Accounted

-----------------------------------------------------------------------------
(* SetupPageMaps for one page.                                             *)

\* What SetupPage does for page v of space r, that was not there.
PageKept(U, P, C, R, O, r, v, w, V, Q, D) ==
  /\ Sound(V, Q, R, O) /\ U \subseteq V
  /\ IsContent(D) /\ \A f \in U : D[f] = C[f]
  /\ \A q \in R, x \in Page : <<q, x>> # <<r, v>> => At(Q, q, x) = At(P, q, x)
  /\ \A q \in R, d \in Entry : q # r => (Has(Q, q, d) <=> Has(P, q, d))
  /\ \A S \in SUBSET R : r \in S /\ (r \in O \/ w) /\ Accounted(U, P, S, O) => Accounted(V, Q, S, O)
PageIn(U, Q, r, v, w) ==
  At(Q, r, v).present /\ At(Q, r, v).writable = w /\ At(Q, r, v).frame \in Frame \ U

PageSetUp(U, P, C, R, O, r, v, w, V, Q, D, ok) ==
  /\ PageKept(U, P, C, R, O, r, v, w, V, Q, D)
  /\ IF ok THEN PageIn(U, Q, r, v, w) ELSE ~At(Q, r, v).present /\ V = Frame

SetUpResult(U, P, C, R, O, r, v, w, s) ==
  PageSetUp(U, P, C, R, O, r, v, w, s.mem.used, s.mem.page_map, s.mem.content, s.ok)

\* The frame of a page is in use.
LEMMA PageInUse ==
  ASSUME NEW U, NEW P, NEW R, NEW O, Sound(U, P, R, O), NEW r \in R, NEW v \in Page,
         At(P, r, v).present
  PROVE  At(P, r, v).frame \in U
<1>1. Upper(v) \in Entry /\ Lower(v) \in Entry
  BY Places
<1> QED BY <1>1 DEF At, Absent, Sound, LeavesSound, LeafSound

\* What page v of space r contains after s.
Put(s, r, v) == s.mem.content[At(s.mem.page_map, r, v).frame]

LEMMA MapThere ==
  ASSUME NEW U, NEW P, NEW R, NEW O, Sound(U, P, R, O), NEW C,
         NEW r \in R, NEW v \in Page, Has(P, r, Upper(v))
  PROVE  NewMapAt(Mem(U, P, C), r, Upper(v), TRUE) = Mem(U, P, C)
<1>1. P \in [Frame -> [Entry -> PageMapEntry]] /\ r \in Frame
  BY DEF Sound, FramesSound
<1>2. Upper(v) \in Entry
  BY Places
<1>3. P[r][Upper(v)].writable
  BY <1>2 DEF Sound, TablesSound, TableSound
<1>4. P[r][Upper(v)].writable = TRUE
  BY <1>1, <1>2, <1>3 DEF PageMapEntry
<1>5. \A y : NewMapAt(Mem(U, P, C), r, Upper(v), y) = Mem(U, WritableIs(P, r, Upper(v), y), C)
  BY NewMapPresent
<1>6. \A y : P[r][Upper(v)].writable = y => WritableIs(P, r, Upper(v), y) = P
  BY <1>1, <1>2, WritableSet
<1> QED BY <1>4, <1>5, <1>6

\* A new page for v, in a page map that is there.
LEMMA LeafPutSetsUp ==
  ASSUME NEW U, NEW P, NEW R, NEW O, Sound(U, P, R, O), NEW C,
         NEW r \in R, NEW v \in Page, NEW w \in BOOLEAN, Has(P, r, Upper(v)),
         At(P, r, v).present => r \notin O /\ ~At(P, r, v).writable,
         r \in O => ~w /\ v < StackPage,
         NEW n \in Frame \ U, NEW Q, LeafPut(P, Q, r, Upper(v), Lower(v), n, w),
         NEW D, IsContent(D), \A f \in U : D[f] = C[f]
  PROVE  PageKept(U, P, C, R, O, r, v, w, U \cup {n}, Q, D) /\ PageIn(U, Q, r, v, w)
<1> DEFINE e == Upper(v)
           l == Lower(v)
           V == U \cup {n}
<1>1. e \in Entry /\ l \in Entry /\ SlotPage(e, l) = v
  BY Places
<1>2. LeafPut(P, Q, r, e, l, n, w)
  OBVIOUS
<1>3. Has(P, r, e) /\ (HasPage(P, r, e, l) => r \notin O /\ ~LeafAt(P, r, e, l).writable)
  BY DEF At, HasPage
<1>4. At(Q, r, v) = IF Has(Q, r, e) THEN LeafAt(Q, r, e, l) ELSE Absent
  BY DEF At
<1> HIDE DEF e, l
<1>5. Sound(V, Q, R, O) /\ OneLeaf(P, Q, R, r, e, l, n, w)
  <2>1. r \in O => ~w /\ SlotPage(e, l) < StackPage
    BY <1>1
  <2> QED BY <1>1, <1>2, <1>3, <2>1, NewLeaf
<1>6. \A q \in R, d \in Entry : (Has(Q, q, d) <=> Has(P, q, d)) /\ Table(Q, q, d) = Table(P, q, d)
  BY <1>5 DEF Has, Table, OneLeaf
<1>7. ASSUME NEW q \in R, NEW x \in Page, <<q, x>> # <<r, v>>
      PROVE  At(Q, q, x) = At(P, q, x)
  <2>1. Upper(x) \in Entry /\ Lower(x) \in Entry /\ ~SamePlace(q, Upper(x), Lower(x), r, e, l)
    BY <1>1, <1>7, Places DEF SamePlace
  <2> QED BY <1>5, <1>6, <2>1 DEF At, OneLeaf
<1>8. At(Q, r, v).present /\ At(Q, r, v).writable = w /\ At(Q, r, v).frame \in Frame \ U
  <2>1. At(Q, r, v) = LeafAt(Q, r, e, l)
    BY <1>1, <1>3, <1>4, <1>6
  <2> QED BY <1>5, <2>1 DEF OneLeaf
<1>9. ASSUME NEW S \in SUBSET R, r \in S, r \in O \/ w, Accounted(U, P, S, O)
      PROVE  Accounted(V, Q, S, O)
  BY <1>1, <1>3, <1>5, <1>9, AccountedNewLeaf
<1> HIDE DEF V
<1>10. U \subseteq V
  BY DEF V
<1>11. PageKept(U, P, C, R, O, r, v, w, V, Q, D)
  <2>1. \A S \in SUBSET R : r \in S /\ (r \in O \/ w) /\ Accounted(U, P, S, O) => Accounted(V, Q, S, O)
    BY <1>9
  <2> QED BY <1>5, <1>6, <1>7, <1>8, <1>10, <2>1 DEF PageKept
<1> QED BY <1>8, <1>11 DEF V, PageIn

\* ... if the page map below is there,
LEMMA SetupLeaf ==
  ASSUME NEW U, NEW P, NEW R, NEW O, Sound(U, P, R, O), NEW C, IsContent(C),
         NEW r \in R, NEW v \in Page, NEW w \in BOOLEAN, ~At(P, r, v).present,
         Has(P, r, Upper(v)), r \in O => ~w /\ v < StackPage
  PROVE  LET s == SetupPage(Mem(U, P, C), r, v, w) IN
         SetUpResult(U, P, C, R, O, r, v, w, s) /\ (s.ok => Put(s, r, v) = Zero)
<1> DEFINE m == Mem(U, P, C)
           e == Upper(v)
           l == Lower(v)
           T == Table(P, r, e)
           s == SetupPage(m, r, v, w)
<1>1. /\ FramesSound(U, P, R, O) /\ R \subseteq Frame /\ U \subseteq Frame /\ R \subseteq U
      /\ P \in [Frame -> [Entry -> PageMapEntry]]
  BY DEF Sound, FramesSound
<1>2. e \in UserEntry /\ e \in Entry /\ l \in Entry /\ SlotPage(e, l) = v
  BY Places
<1>3. T \in U \ R /\ P[r][e].writable
  BY <1>2 DEF Sound, TablesSound, TableSound
<1>4. ~Has(P, T, l) /\ ~HasPage(P, r, e, l)
  BY DEF At, Has, LeafAt, HasPage
<1>5. NewMapAt(m, r, e, TRUE) = m
  BY MapThere
<1>6. s = IF Full(m) THEN [mem |-> m, ok |-> FALSE]
          ELSE [mem |-> NewMapAt(m, T, l, w), ok |-> TRUE]
  <2>1. ~NewMapFails(m, r, e)
    BY MemFields DEF NewMapFails, Has
  <2>2. NewMapFails(m, T, l) <=> Full(m)
    BY <1>4, MemFields DEF NewMapFails, Has
  <2>3. m.page_map[r][e].frame = T
    BY MemFields DEF Table
  <2> HIDE DEF m, T, e, l
  <2> QED BY <1>5, <2>1, <2>2, <2>3 DEF SetupPage, e, l
<1>7. CASE Full(m)
  <2>1. s.mem.used = U /\ s.mem.page_map = P /\ s.mem.content = C /\ s.ok = FALSE /\ U = Frame
    BY <1>6, <1>7, MemFields DEF Full
  <2>2. PageSetUp(U, P, C, R, O, r, v, w, U, P, C, FALSE)
    BY <2>1 DEF PageSetUp, PageKept
  <2> HIDE DEF s
  <2> QED BY <2>1, <2>2 DEF SetUpResult, s
<1>8. CASE ~Full(m)
  <2> DEFINE n == NewFrame(m)
             Q == WithEntry(P, n, T, l, EntryFor(n, w))
             D == Zeroed(C, n)
  <2>1. n \in Frame \ U
    BY <1>1, <1>8, MemFields, FreshFrame
  <2>2. NewMapAt(m, T, l, w) = Mem(U \cup {n}, Q, D)
    BY <1>4, NewMapAbsent
  <2> HIDE DEF n, T
  <2>3. s.mem.used = U \cup {n} /\ s.mem.page_map = Q /\ s.mem.content = D /\ s.ok = TRUE
    BY <1>6, <1>8, <2>2, MemFields
  <2>4. /\ Q \in [Frame -> [Entry -> PageMapEntry]]
        /\ Q[T][l] = EntryFor(n, w)
        /\ \A k \in Entry \ {l} : Q[T][k] = P[T][k]
        /\ \A g \in Frame \ {n, T} : Q[g] = P[g]
    <3>1. n \in Frame /\ T \in Frame /\ T # n
      BY <1>1, <1>3, <2>1
    <3>2. EntryFor(n, w) \in PageMapEntry
      BY <3>1, EntryFields
    <3>3. l \in Entry /\ P \in [Frame -> [Entry -> PageMapEntry]]
      BY <1>1, <1>2
    <3> HIDE DEF e, l
    <3> QED BY <3>1, <3>2, <3>3, EntrySet
  <2>5. LeafPut(P, Q, r, e, l, n, w)
    BY <2>4, EntryFields DEF LeafPut, T
  <2>6. IsContent(D) /\ \A f \in U : D[f] = C[f]
    BY <1>1, <2>1 DEF IsContent, Zeroed
  <2>7. PageKept(U, P, C, R, O, r, v, w, U \cup {n}, Q, D) /\ PageIn(U, Q, r, v, w)
    <3> HIDE DEF Q, D, s
    <3> QED BY <2>1, <2>5, <2>6, LeafPutSetsUp
  <2>8. PageSetUp(U, P, C, R, O, r, v, w, U \cup {n}, Q, D, TRUE)
    <3> HIDE DEF Q, D
    <3> QED BY <2>7 DEF PageSetUp
  <2>9. D[At(Q, r, v).frame] = Zero
    <3>1. At(Q, r, v).frame \in Frame \ U /\ At(Q, r, v).present /\ Sound(U \cup {n}, Q, R, O)
      <4> HIDE DEF Q, D
      <4> QED BY <2>7 DEF PageKept, PageIn
    <3>2. At(Q, r, v).frame = n
      <4> HIDE DEF Q, D
      <4> QED BY <3>1, PageInUse
    <3> HIDE DEF Q
    <3> QED BY <2>1, <3>2 DEF IsContent, Zeroed
  <2> HIDE DEF Q, D, s
  <2> QED BY <2>3, <2>8, <2>9 DEF SetUpResult, Put, s
<1> QED BY <1>7, <1>8

\* ... and if not.
LEMMA SetupTable ==
  ASSUME NEW U, NEW P, NEW R, NEW O, Sound(U, P, R, O), NEW C, IsContent(C),
         NEW r \in R, NEW v \in Page, NEW w \in BOOLEAN,
         ~Has(P, r, Upper(v)), r \in O => ~w /\ v < StackPage
  PROVE  LET s == SetupPage(Mem(U, P, C), r, v, w) IN
         SetUpResult(U, P, C, R, O, r, v, w, s) /\ (s.ok => Put(s, r, v) = Zero)
<1> DEFINE m == Mem(U, P, C)
           e == Upper(v)
           s == SetupPage(m, r, v, w)
<1>1. /\ FramesSound(U, P, R, O) /\ R \subseteq Frame /\ U \subseteq Frame /\ R \subseteq U
      /\ P \in [Frame -> [Entry -> PageMapEntry]]
  BY DEF Sound, FramesSound
<1>2. e \in UserEntry /\ e \in Entry /\ Lower(v) \in Entry
  BY Places
<1>3. NewMapFails(m, r, e) <=> Full(m)
  BY MemFields DEF NewMapFails, Has
<1>4. CASE Full(m)
  <2>1. s = [mem |-> m, ok |-> FALSE]
    BY <1>3, <1>4 DEF SetupPage
  <2>2. s.mem.used = U /\ s.mem.page_map = P /\ s.mem.content = C /\ s.ok = FALSE /\ U = Frame
    BY <1>4, <2>1, MemFields DEF Full
  <2>3. ~At(P, r, v).present
    BY DEF At, Absent
  <2>4. PageSetUp(U, P, C, R, O, r, v, w, U, P, C, FALSE)
    BY <2>2, <2>3 DEF PageSetUp, PageKept, PageIn
  <2> HIDE DEF s
  <2> QED BY <2>2, <2>4 DEF SetUpResult, s
<1>5. CASE ~Full(m)
  <2> DEFINE n == NewFrame(m)
             x == EntryFor(n, TRUE)
             V == U \cup {n}
             Q == WithEntry(P, n, r, e, x)
             D == Zeroed(C, n)
             m_ == Mem(V, Q, D)
  <2>1. n \in Frame \ U /\ n \in Frame /\ r \in Frame /\ r # n
    BY <1>1, <1>5, MemFields, FreshFrame
  <2>2. NewMapAt(m, r, e, TRUE) = m_
    <3>1. \A y : NewMapAt(m, r, e, y) = Mem(V, WithEntry(P, n, r, e, EntryFor(n, y)), D)
      BY NewMapAbsent
    <3> QED BY <3>1
  <2> HIDE DEF n
  <2>3. x \in PageMapEntry /\ x.present /\ x.writable /\ x.frame = n
    BY <2>1 DEF EntryFor, PageMapEntry
  <2> HIDE DEF x
  <2>4. /\ Q \in [Frame -> [Entry -> PageMapEntry]] /\ Q[n] = NoEntries
        /\ Q[r][e] = x /\ \A d \in Entry \ {e} : Q[r][d] = P[r][d]
        /\ \A g \in Frame \ {n, r} : Q[g] = P[g]
    <3>1. P \in [Frame -> [Entry -> PageMapEntry]] /\ e \in Entry /\ x \in PageMapEntry
      BY <1>1, <1>2, <2>3
    <3> HIDE DEF e
    <3> QED BY <2>1, <3>1, EntrySet
  <2> HIDE DEF Q, V
  <2>5. TablePut(P, Q, O, r, e, n)
    BY <2>3, <2>4 DEF TablePut, NoEntries, Absent
  <2>6. Sound(V, Q, R, O) /\ OneTable(P, Q, R, r, e, n)
    BY <1>2, <2>1, <2>5, NewTable DEF V
  <2>7. IsContent(D) /\ \A f \in U : D[f] = C[f]
    BY <1>1, <2>1 DEF IsContent, Zeroed
  <2> HIDE DEF D
  <2>8. Has(Q, r, Upper(v)) /\ ~At(Q, r, v).present
    BY <1>2, <2>4, <2>6 DEF OneTable, At, NoEntries, Absent
  <2>9. LET z == SetupPage(m_, r, v, w) IN
        SetUpResult(V, Q, D, R, O, r, v, w, z) /\ (z.ok => Put(z, r, v) = Zero)
    BY <2>6, <2>7, <2>8, SetupLeaf
  <2>10. SetupPage(m_, r, v, w) = s
    <3>1. NewMapAt(m_, r, e, TRUE) = m_
      BY <2>6, <2>8, MapThere
    <3>2. ~NewMapFails(m_, r, e)
      BY <2>8, MemFields DEF NewMapFails, Has
    <3> HIDE DEF m, m_
    <3> QED BY <1>3, <1>5, <2>2, <3>1, <3>2 DEF SetupPage
  <2> DEFINE W == s.mem.used
             Z == s.mem.page_map
             B == s.mem.content
  <2>11. PageSetUp(V, Q, D, R, O, r, v, w, W, Z, B, s.ok)
    BY <2>9, <2>10 DEF SetUpResult
  <2> HIDE DEF W, Z, B, m_, s
  <2>12. ASSUME NEW q \in R, NEW y \in Page, <<q, y>> # <<r, v>>
         PROVE  At(Z, q, y) = At(P, q, y)
    <3>1. At(Z, q, y) = At(Q, q, y)
      BY <2>11, <2>12 DEF PageSetUp, PageKept, PageIn
    <3>2. CASE <<q, Upper(y)>> # <<r, e>>
      <4>1. SameEntry(P, Q, q, Upper(y))
        BY <2>6, <3>2, Places DEF OneTable
      <4> QED BY <3>1, <4>1, SameAt
    <3>3. CASE <<q, Upper(y)>> = <<r, e>>
      <4>1. At(P, q, y) = Absent
        BY <3>3 DEF At
      <4>2. Lower(y) \in Entry
        BY Places
      <4>3. At(Q, q, y) = Absent
        BY <2>4, <2>6, <3>3, <4>2 DEF OneTable, At, NoEntries
      <4> QED BY <3>1, <4>1, <4>3
    <3> QED BY <3>2, <3>3
  <2>13. ASSUME NEW q \in R, NEW d \in Entry, q # r
         PROVE  Has(Z, q, d) <=> Has(P, q, d)
    <3>1. SameEntry(P, Q, q, d)
      BY <2>6, <2>13 DEF OneTable
    <3> QED BY <2>11, <2>13, <3>1 DEF PageSetUp, PageKept, PageIn, SameEntry, Has
  <2>14. ASSUME NEW S \in SUBSET R, r \in S, r \in O \/ w, Accounted(U, P, S, O)
         PROVE  Accounted(W, Z, S, O)
    <3>1. Accounted(V, Q, S, O)
      BY <1>2, <2>6, <2>14, AccountedNewTable DEF V
    <3> QED BY <2>11, <2>14, <3>1 DEF PageSetUp, PageKept, PageIn
  <2>15. Sound(W, Z, R, O) /\ U \subseteq W /\ IsContent(B) /\ \A f \in U : B[f] = C[f]
    BY <2>7, <2>11 DEF PageSetUp, PageKept, PageIn, V
  <2>16. /\ s.ok => /\ At(Z, r, v).present /\ At(Z, r, v).writable = w
                    /\ At(Z, r, v).frame \in Frame \ U
         /\ ~s.ok => ~At(Z, r, v).present /\ W = Frame
    BY <2>11 DEF PageSetUp, PageKept, PageIn, V
  <2>17. PageSetUp(U, P, C, R, O, r, v, w, W, Z, B, s.ok)
    <3>1. \A S \in SUBSET R : r \in S /\ (r \in O \/ w) /\ Accounted(U, P, S, O) =>
            Accounted(W, Z, S, O)
      BY <2>14
    <3> QED BY <2>12, <2>13, <2>15, <2>16, <3>1 DEF PageSetUp, PageKept, PageIn
  <2>18. s.ok => Put(s, r, v) = Zero
    BY <2>9, <2>10 DEF s
  <2> QED BY <2>17, <2>18 DEF SetUpResult, W, Z, B, s
<1> QED BY <1>4, <1>5

LEMMA SetupPageSound ==
  ASSUME NEW U, NEW P, NEW R, NEW O, Sound(U, P, R, O), NEW C, IsContent(C),
         NEW r \in R, NEW v \in Page, NEW w \in BOOLEAN, ~At(P, r, v).present,
         r \in O => ~w /\ v < StackPage
  PROVE  LET s == SetupPage(Mem(U, P, C), r, v, w) IN
         SetUpResult(U, P, C, R, O, r, v, w, s) /\ (s.ok => Put(s, r, v) = Zero)
BY SetupLeaf, SetupTable

-----------------------------------------------------------------------------
(* A step of one task in its own space.                                    *)

\* Where the parts of an application lie.
LEMMA AreasOfPages ==
  /\ FirstPage \in Nat /\ StackPage \in Int /\ ArgsPage \in Int /\ kStackPages \in Nat \ {0}
  /\ StackPage = ArgsPage - 1 - kStackPages /\ ArgsPage \in Page
  /\ \A a \in Elf : /\ Len(Image[a]) \in Int /\ LastImagePage(a) \in Int
                    /\ FirstPage <= LastImagePage(a) /\ LastImagePage(a) < StackPage
                    /\ ImagePages(a) = FirstPage .. LastImagePage(a)
                    /\ ImagePages(a) \subseteq Page /\ StackPages \subseteq Page
  /\ StackPages = StackPage .. StackPage + kStackPages - 1
<1>1. kEntries \in Nat \ {0} /\ kUserBegin \in 0 .. kEntries - 1 /\ kStackPages \in Nat \ {0}
  BY SizeAssumption DEF Entry
<1>2. kUserBegin * kEntries \in Nat /\ kEntries * kEntries \in Nat
  BY <1>1, Product
<1>3. kUserBegin * kEntries + kEntries <= kEntries * kEntries
  <2>1. (kUserBegin + 1) * kEntries <= kEntries * kEntries
    BY <1>1, Product
  <2> QED BY <1>1, <2>1, Z3
<1>4. FirstPage \in Nat /\ ArgsPage \in Int /\ FirstPage <= ArgsPage
  BY <1>1, <1>2, <1>3 DEF FirstPage, ArgsPage
<1>5. StackPage \in Int /\ StackPage = ArgsPage - 1 - kStackPages
  BY <1>1, <1>4 DEF StackPage
<1>6. ASSUME NEW a \in Elf
      PROVE  /\ Len(Image[a]) \in Int /\ LastImagePage(a) \in Int
             /\ FirstPage <= LastImagePage(a) /\ LastImagePage(a) < StackPage
             /\ ImagePages(a) = FirstPage .. LastImagePage(a)
             /\ ImagePages(a) \subseteq Page /\ StackPages \subseteq Page
  <2>1. Len(Image[a]) \in 1 .. StackPage - FirstPage
    BY ImageAssumption
  <2>2. Len(Image[a]) \in Int /\ 1 <= Len(Image[a]) /\ Len(Image[a]) <= StackPage - FirstPage
    BY <1>4, <1>5, <2>1
  <2>3. LastImagePage(a) = FirstPage + Len(Image[a]) - 1
    BY DEF LastImagePage
  <2> HIDE DEF LastImagePage
  <2> QED BY <1>1, <1>4, <1>5, <2>2, <2>3 DEF ImagePages, StackPages, Page
<1>7. ArgsPage \in Page
  BY <1>4 DEF Page
<1> QED BY <1>1, <1>4, <1>5, <1>6, <1>7 DEF StackPages

\* Space r looks the same in P and Q.
SameView(P, Q, r) ==
  /\ \A v \in Page : At(Q, r, v) = At(P, r, v)
  /\ \A e \in Entry : Has(Q, r, e) <=> Has(P, r, e)

\* A task that has not moved has come as far as it had.
LEMMA SameTask ==
  ASSUME NEW P, NEW Q, NEW p, NEW r, NEW q, NEW a, NEW k, TaskOK(P, p, r, q, a, k),
         r # Kernel => SameView(P, Q, r), q # None => SameView(P, Q, q),
         p # "idle" => r # Kernel, p = "copy" => q # None
  PROVE  TaskOK(Q, p, r, q, a, k)
<1>1. SharedOK(Q, r, q)
  BY DEF TaskOK, SharedOK, SameView
<1>2. CASE p = "idle"
  BY <1>1, <1>2 DEF TaskOK, LoadingOK, CopyingOK, ReadyOK, CleaningOK
<1>3. CASE p # "idle"
  <2>1. \A V : (AllAt(P, r, V) => AllAt(Q, r, V)) /\ (NoneAt(P, r, V) => NoneAt(Q, r, V))
    BY <1>3 DEF AllAt, NoneAt, SameView
  <2>2. \A V : NoTables(P, r, V) => NoTables(Q, r, V)
    BY <1>3 DEF NoTables, SameView
  <2>3. p = "copy" => \A V : AllAt(P, q, V) => AllAt(Q, q, V)
    BY DEF AllAt, SameView
  <2>4. LoadingOK(Q, p, r, a, k)
    BY <2>1 DEF TaskOK, LoadingOK
  <2>5. CopyingOK(Q, p, r, q, a, k)
    BY <2>1, <2>2, <2>3 DEF TaskOK, CopyingOK
  <2>6. ReadyOK(Q, p, r, a, k)
    BY <2>1 DEF TaskOK, ReadyOK
  <2>7. CleaningOK(Q, p, r, k)
    BY <2>2 DEF TaskOK, CleaningOK
  <2> QED BY <1>1, <2>4, <2>5, <2>6, <2>7 DEF TaskOK
<1> QED BY <1>2, <1>3

\* A task in ExecuteFile has a space of its own, an owner while it loads.
LEMMA TaskSpace ==
  ASSUME TypeInv, RootsInv, NEW t \in Task, pc[t] # "idle"
  PROVE  /\ cr3[t] # Kernel /\ cr3[t] \in Spaces /\ cr3[t] \in Roots
         /\ cr3[t] \in Owners <=> pc[t] \in Loading
         /\ temp_pml4[t] = None <=> pc[t] \in Loading
         /\ temp_pml4[t] # None =>
              temp_pml4[t] \in Roots /\ temp_pml4[t] \in Owners /\ temp_pml4[t] # cr3[t]
         /\ app[t] \in Elf
<1>1. cr3[t] # Kernel /\ cr3[t] \notin Cached \cup CopiedFrom
  BY DEF RootsInv
<1>2. temp_pml4[t] = None <=> pc[t] \in Loading
  BY DEF RootsInv
<1>3. temp_pml4[t] # None => temp_pml4[t] \in CopiedFrom
  BY DEF CopiedFrom
<1>4. cr3[t] \in Spaces
  BY <1>1 DEF Spaces
<1>5. cr3[t] \in Owners <=> \E u \in Task : temp_pml4[u] = None /\ cr3[u] = cr3[t]
  BY <1>1 DEF Owners
<1>6. \A u \in Task : cr3[u] = cr3[t] => u = t
  BY <1>1 DEF RootsInv
<1> QED BY <1>1, <1>2, <1>3, <1>4, <1>5, <1>6 DEF RootsInv, Roots, Owners

LEMMA RootsOfOthers ==
  ASSUME TypeInv, RootsInv, NEW t \in Task, pc[t] # "idle"
  PROVE  /\ \A u \in Task : u # t /\ cr3[u] # Kernel => cr3[u] \in Roots \ {cr3[t]}
         /\ \A u \in Task : temp_pml4[u] # None => temp_pml4[u] \in Roots \ {cr3[t]}
         /\ \A a \in App : app_loads[a] # None => app_loads[a] \in Roots \ {cr3[t]}
         /\ Spaces \cup Cached \in SUBSET Roots /\ Owners \in SUBSET Roots
BY DEF RootsInv, Roots, Spaces, Cached, CopiedFrom, Owners

\* Frame f is a page that task t can write.
OwnFrame(t, f) == cr3[t] \in Roots /\
  \E v \in Page : At(page_map, cr3[t], v).writable /\ At(page_map, cr3[t], v).frame = f

\* Task t stores into new frames and its own pages only, unless system calls store
\* into shared ones.
ContentKept(t) ==
  /\ IsContent(content')
  /\ ~SharedBuffers => \A f \in used \cap used' : content'[f] # content[f] => OwnFrame(t, f)

\* Only task t moves.
OthersStay(t) ==
  \A u \in Task : u # t =>
    /\ pc'[u] = pc[u] /\ next'[u] = next[u] /\ app'[u] = app[u]
    /\ cr3'[u] = cr3[u] /\ temp_pml4'[u] = temp_pml4[u]

\* It changes its own space only, and that only if no other is copied from it.
SpacesKept(t) ==
  \A r \in Roots : r # cr3[t] \/ r \in Cached' \cup CopiedFrom' =>
    SameView(page_map, page_map', r)

\* What every step of task t keeps.
Keeps(t) == IInv' /\ OthersStay(t) /\ ContentKept(t) /\ SpacesKept(t)

\* What task t does in its own space, without leaving it.
OwnStep(t) ==
  /\ UNCHANGED <<app_loads, cr3, temp_pml4, app>>
  /\ pc' \in [Task -> Pc] /\ next' \in [Task -> Int] /\ abandoned' \in BOOLEAN
  /\ \A u \in Task : u # t => pc'[u] = pc[u] /\ next'[u] = next[u]
  /\ ContentKept(t)
  /\ Sound(used', page_map', Roots, Owners)
  /\ \A r \in Roots \ {cr3[t]} : SameView(page_map, page_map', r)
  /\ TaskOK(page_map', pc'[t], cr3[t], temp_pml4[t], app[t], next'[t])
  /\ pc'[t] # "idle" => (pc'[t] \in Loading <=> pc[t] \in Loading)
  /\ ~abandoned' => ~abandoned /\ pc'[t] # "idle" /\
                      Accounted(used', page_map', Spaces \cup Cached, Owners)
  /\ pc'[t] = "halt" => used' = Frame

LEMMA SameRoots ==
  ASSUME UNCHANGED <<app_loads, cr3, temp_pml4>>
  PROVE  /\ Spaces' = Spaces /\ Cached' = Cached /\ CopiedFrom' = CopiedFrom
         /\ Roots' = Roots /\ Owners' = Owners
BY DEF Spaces, Cached, CopiedFrom, Roots, Owners

LEMMA OwnStepKeepsIInv ==
  ASSUME IInv, ~Halted, NEW t \in Task, pc[t] # "idle", OwnStep(t)
  PROVE  Keeps(t)
<1>0. TypeInv /\ RootsInv
  BY DEF IInv
<1>1. UNCHANGED <<app_loads, cr3, temp_pml4, app>>
  BY DEF OwnStep
<1>2. /\ Spaces' = Spaces /\ Cached' = Cached /\ CopiedFrom' = CopiedFrom
      /\ Roots' = Roots /\ Owners' = Owners
  BY <1>1, SameRoots
<1>3. TypeInv'
  BY <1>0, <1>1 DEF OwnStep, TypeInv, ContentKept
<1>4. RootsInv'
  <2>1. \A u \in Task : pc'[u] # "idle" =>
          pc[u] # "idle" /\ (pc'[u] \in Loading <=> pc[u] \in Loading)
    BY DEF OwnStep
  <2> QED BY <1>0, <1>1, <1>2, <2>1 DEF RootsInv
<1>5. SpacesInv'
  BY <1>2 DEF OwnStep, SpacesInv
<1>6. TasksInv'
  <2> SUFFICES ASSUME NEW u \in Task
               PROVE  TaskOK(page_map', pc'[u], cr3[u], temp_pml4[u], app[u], next'[u])
    BY <1>1 DEF TasksInv
  <2>1. CASE u = t
    BY <2>1 DEF OwnStep
  <2>2. CASE u # t
    <3>1. TaskOK(page_map, pc[u], cr3[u], temp_pml4[u], app[u], next[u])
      BY DEF IInv, TasksInv
    <3>2. pc'[u] = pc[u] /\ next'[u] = next[u]
      BY <2>2 DEF OwnStep
    <3>3. /\ cr3[u] # Kernel => SameView(page_map, page_map', cr3[u])
          /\ temp_pml4[u] # None => SameView(page_map, page_map', temp_pml4[u])
      BY <1>0, <2>2, RootsOfOthers DEF OwnStep
    <3>4. (pc[u] # "idle" => cr3[u] # Kernel) /\ (pc[u] = "copy" => temp_pml4[u] # None)
      BY <1>0 DEF RootsInv, Loading
    <3> QED BY <3>1, <3>2, <3>3, <3>4, SameTask
  <2> QED BY <2>1, <2>2
<1>7. CachedInv'
  <2>1. \A a \in App : app_loads[a] # None => SameView(page_map, page_map', app_loads[a])
    BY <1>0, RootsOfOthers DEF OwnStep
  <2> QED BY <1>1, <2>1 DEF IInv, CachedInv, AllAt, SameView
<1>8. LeakInv'
  <2>1. ~abandoned' => ~abandoned /\ pc'[t] # "idle" /\
                      Accounted(used', page_map', Spaces \cup Cached, Owners)
    BY DEF OwnStep
  <2>2. \A u \in Task : pc'[u] = "idle" => u = t \/ pc[u] = "idle"
    BY DEF OwnStep
  <2> QED BY <1>1, <1>2, <2>1, <2>2 DEF IInv, LeakInv
<1>9. HaltsOnlyWhenFull'
  BY DEF OwnStep, HaltsOnlyWhenFull, Halted
<1>10. OthersStay(t) /\ ContentKept(t)
  BY <1>1 DEF OwnStep, OthersStay
<1>11. SpacesKept(t)
  BY <1>0, <1>2 DEF OwnStep, SpacesKept, RootsInv
<1> QED BY <1>3, <1>4, <1>5, <1>6, <1>7, <1>8, <1>9, <1>10, <1>11 DEF IInv, Keeps
-----------------------------------------------------------------------------
(* Steps that set up one page.                                             *)

IsMem(m) == m = Mem(m.used, m.page_map, m.content)

LEMMA NewMapIsMem ==
  ASSUME NEW m, IsMem(m), NEW f, NEW e, NEW w
  PROVE  IsMem(NewMapAt(m, f, e, w))
<1> DEFINE U == m.used
           P == m.page_map
           C == m.content
           k == Mem(U, P, C)
<1>1. m = k
  BY DEF IsMem
<1>2. IsMem(NewMapAt(k, f, e, w))
  <2> HIDE DEF U, P, C
  <2>1. CASE Has(P, f, e)
    BY <2>1, NewMapPresent, MemFields DEF IsMem
  <2>2. CASE ~Has(P, f, e)
    <3> DEFINE n == NewFrame(k)
    <3>1. \A y : NewMapAt(k, f, e, y) =
            Mem(U \cup {n}, WithEntry(P, n, f, e, EntryFor(n, y)), Zeroed(C, n))
      BY <2>2, NewMapAbsent
    <3> HIDE DEF n, k
    <3>2. NewMapAt(k, f, e, w) =
            Mem(U \cup {n}, WithEntry(P, n, f, e, EntryFor(n, w)), Zeroed(C, n))
      BY <3>1
    <3> QED BY <3>2, MemFields DEF IsMem
  <2> QED BY <2>1, <2>2
<1> HIDE DEF k
<1> QED BY <1>1, <1>2

LEMMA SetupPageIsMem ==
  ASSUME NEW m, IsMem(m), NEW r, NEW v, NEW w
  PROVE  IsMem(SetupPage(m, r, v, w).mem)
<1> DEFINE n == NewMapAt(m, r, Upper(v), TRUE)
           leaf == n.page_map[r][Upper(v)].frame
           k == NewMapAt(n, leaf, Lower(v), w)
<1>1. IsMem(n)
  BY NewMapIsMem
<1>2. IsMem(k)
  <2> HIDE DEF n
  <2> QED BY <1>1, NewMapIsMem
<1>3. SetupPage(m, r, v, w).mem \in {m, n, k}
  BY DEF SetupPage
<1> HIDE DEF n, k
<1> QED BY <1>1, <1>2, <1>3

Stored(C, f, x) == [C EXCEPT ![f] = x]

LEMMA StoredElsewhere ==
  ASSUME NEW C, IsContent(C), NEW f, NEW x
  PROVE  /\ IsContent(Stored(C, f, x))
         /\ \A g \in Frame : Stored(C, f, x)[g] # C[g] => g = f
         /\ f \in Frame => Stored(C, f, x)[f] = x
BY DEF IsContent, Stored

LEMMA FillFields ==
  ASSUME NEW m, IsMem(m), NEW r, NEW v, NEW x
  PROVE  /\ Fill(m, r, v, x).used = m.used /\ Fill(m, r, v, x).page_map = m.page_map
         /\ Fill(m, r, v, x).content = Stored(m.content, At(m.page_map, r, v).frame, x)
         /\ IsContent(m.content) => IsContent(Fill(m, r, v, x).content)
<1> DEFINE f == Leaf(m, r, v).frame
<1>1. Fill(m, r, v, x) = [m EXCEPT !.content[f] = x]
  BY DEF Fill
<1>2. f = At(m.page_map, r, v).frame
  BY DEF Leaf, At, Has, Table, LeafAt
<1>3. /\ Fill(m, r, v, x).used = m.used /\ Fill(m, r, v, x).page_map = m.page_map
      /\ Fill(m, r, v, x).content = Stored(m.content, f, x)
  <2> DEFINE U == m.used
             P == m.page_map
             C == m.content
  <2>1. m = [used |-> U, page_map |-> P, content |-> C]
    BY DEF IsMem, Mem
  <2> HIDE DEF f, U, P, C
  <2>2. [m EXCEPT !.content[f] = x] = [used |-> U, page_map |-> P, content |-> [C EXCEPT ![f] = x]]
    BY <2>1
  <2> QED BY <1>1, <2>1, <2>2 DEF Stored
<1>4. ASSUME NEW C, IsContent(C) PROVE IsContent(Stored(C, f, x))
  BY <1>4 DEF IsContent, Stored
<1> QED BY <1>2, <1>3, <1>4

LEMMA PageIsSetUp ==
  ASSUME IInv, NEW t \in Task, pc[t] # "idle", NEW v \in Page, NEW w \in BOOLEAN,
         ~At(page_map, cr3[t], v).present, pc[t] \in Loading => ~w /\ v < StackPage
  PROVE  LET s == SetupPage(Memory, cr3[t], v, w) IN
         /\ SetUpResult(used, page_map, content, Roots, Owners, cr3[t], v, w, s)
         /\ s.ok => Put(s, cr3[t], v) = Zero
<1>1. Sound(used, page_map, Roots, Owners) /\ IsContent(content)
  BY DEF IInv, SpacesInv, TypeInv
<1>2. cr3[t] \in Roots /\ (cr3[t] \in Owners <=> pc[t] \in Loading)
  BY TaskSpace DEF IInv
<1>3. Memory = Mem(used, page_map, content)
  BY MemoryIsMem
<1> QED BY <1>1, <1>2, <1>3, SetupPageSound

\* The next states in which the page is set up and perhaps filled.
LEMMA MemoryIsSetUp ==
  ASSUME IInv, NEW t, NEW v, NEW w, NEW s, s = SetupPage(Memory, cr3[t], v, w),
         SetUpResult(used, page_map, content, Roots, Owners, cr3[t], v, w, s),
         NEW x, SetMemory(s.mem) \/ (s.ok /\ SetMemory(Fill(s.mem, cr3[t], v, x)))
  PROVE  /\ used' = s.mem.used /\ page_map' = s.mem.page_map /\ ContentKept(t)
<1>1. IsMem(Memory)
  BY MemoryIsMem, MemFields DEF IsMem
<1>2. IsMem(s.mem)
  BY <1>1, SetupPageIsMem
<1> DEFINE D == s.mem.content
           g == At(s.mem.page_map, cr3[t], v).frame
<1>3. /\ IsContent(D) /\ \A f \in used : D[f] = content[f]
      /\ s.ok => g \in Frame \ used
  BY DEF SetUpResult, PageSetUp, PageKept, PageIn
<1>4. used \subseteq Frame
  BY DEF IInv, SpacesInv, Sound, FramesSound
<1>5. CASE SetMemory(s.mem)
  <2>1. used' = s.mem.used /\ page_map' = s.mem.page_map /\ content' = D
    BY <1>5 DEF SetMemory
  <2> HIDE DEF D
  <2> QED BY <1>3, <2>1 DEF ContentKept
<1>6. CASE s.ok /\ SetMemory(Fill(s.mem, cr3[t], v, x))
  <2> DEFINE m == s.mem
             k == Fill(m, cr3[t], v, x)
  <2>1. k.used = m.used /\ k.page_map = m.page_map /\ k.content = Stored(D, g, x)
    <3>1. IsMem(m)
      BY <1>2
    <3> HIDE DEF m
    <3> QED BY <3>1, FillFields DEF m
  <2>2. used' = k.used /\ page_map' = k.page_map /\ content' = k.content
    BY <1>6 DEF SetMemory
  <2> HIDE DEF k, D, g
  <2>3. /\ IsContent(Stored(D, g, x))
        /\ \A f \in Frame : Stored(D, g, x)[f] # D[f] => f = g
    BY <1>3, StoredElsewhere
  <2>4. IsContent(content') /\ \A f \in used : content'[f] = content[f]
    BY <1>3, <1>4, <1>6, <2>1, <2>2, <2>3
  <2> QED BY <2>1, <2>2, <2>4 DEF ContentKept
<1> QED BY <1>5, <1>6
\* What has been set up before is still there.
LEMMA SetUpViews ==
  ASSUME NEW U, NEW P, NEW C, NEW R, NEW O, NEW r \in R, NEW v \in Page, NEW w, NEW V, NEW Q,
         NEW D, NEW ok, PageSetUp(U, P, C, R, O, r, v, w, V, Q, D, ok)
  PROVE  /\ \A q \in R \ {r} : SameView(P, Q, q)
         /\ \A x \in Page : x # v => At(Q, r, x) = At(P, r, x)
BY DEF PageSetUp, PageKept, PageIn, SameView

\* A task's step in which one page is set up, and p and k are where it goes on.
LEMMA SetUpKeepsIInv ==
  ASSUME IInv, ~Halted, NEW t \in Task, pc[t] # "idle", NEW v \in Page, NEW w \in BOOLEAN,
         pc[t] \in Loading \/ w,
         NEW D, NEW ok,
         PageSetUp(used, page_map, content, Roots, Owners, cr3[t], v, w, used', page_map', D, ok),
         ContentKept(t), UNCHANGED <<app_loads, cr3, temp_pml4, app>>,
         NEW p \in Pc, NEW k \in Int, Goto(t, p, k),
         p # "idle" => (p \in Loading <=> pc[t] \in Loading), p = "halt" => ok = FALSE,
         abandoned' \in BOOLEAN, ~abandoned' => ~abandoned /\ p # "idle",
         LoadingOK(page_map', p, cr3[t], app[t], k),
         CopyingOK(page_map', p, cr3[t], temp_pml4[t], app[t], k),
         ReadyOK(page_map', p, cr3[t], app[t], k), CleaningOK(page_map', p, cr3[t], k)
  PROVE  Keeps(t)
<1>0. /\ TypeInv /\ RootsInv /\ cr3[t] \in Roots /\ cr3[t] \in Spaces \cup Cached
      /\ cr3[t] \in Owners \/ w
  BY TaskSpace DEF IInv
<1>1. /\ \A q \in Roots \ {cr3[t]} : SameView(page_map, page_map', q)
      /\ \A x \in Page : x # v => At(page_map', cr3[t], x) = At(page_map, cr3[t], x)
  BY <1>0, SetUpViews
<1>2. /\ pc' \in [Task -> Pc] /\ pc'[t] = p /\ next' \in [Task -> Int] /\ next'[t] = k
      /\ \A u \in Task : u # t => pc'[u] = pc[u] /\ next'[u] = next[u]
  BY <1>0 DEF Goto, TypeInv
<1>3. SharedOK(page_map', cr3[t], temp_pml4[t])
  <2>1. SharedOK(page_map, cr3[t], temp_pml4[t])
    BY DEF IInv, TasksInv, TaskOK
  <2>2. temp_pml4[t] # None => w /\ SameView(page_map, page_map', temp_pml4[t])
    BY <1>0, <1>1, TaskSpace
  <2>3. At(page_map', cr3[t], v).present => At(page_map', cr3[t], v).writable = w
    BY DEF PageSetUp, PageKept, PageIn
  <2> QED BY <1>1, <2>1, <2>2, <2>3 DEF SharedOK, SameView
<1>4. Sound(used', page_map', Roots, Owners) /\ (p = "halt" => used' = Frame)
  BY DEF PageSetUp, PageKept, PageIn
<1>5. ~abandoned' => Accounted(used', page_map', Spaces \cup Cached, Owners)
  <2>1. ~abandoned' => Accounted(used, page_map, Spaces \cup Cached, Owners)
    BY DEF IInv, LeakInv
  <2>2. Spaces \cup Cached \in SUBSET Roots
    BY <1>0, RootsOfOthers
  <2> QED BY <1>0, <2>1, <2>2 DEF PageSetUp, PageKept, PageIn
<1>6. OwnStep(t)
  BY <1>1, <1>2, <1>3, <1>4, <1>5 DEF OwnStep, TaskOK
<1> QED BY <1>6, OwnStepKeepsIInv

\* What LoadSegment, SetupArgs and SetupStack have in common.
LEMMA SetupStepEffect ==
  ASSUME IInv, NEW t \in Task, pc[t] # "idle", NEW v \in Page, NEW w \in BOOLEAN,
         ~At(page_map, cr3[t], v).present, pc[t] \in Loading => ~w /\ v < StackPage,
         NEW x,
         LET s == SetupPage(Memory, cr3[t], v, w) IN
           SetMemory(s.mem) \/ (s.ok /\ SetMemory(Fill(s.mem, cr3[t], v, x)))
  PROVE  LET s == SetupPage(Memory, cr3[t], v, w) IN
         /\ PageSetUp(used, page_map, content, Roots, Owners, cr3[t], v, w, used', page_map',
                      s.mem.content, s.ok)
         /\ ContentKept(t)
<1> DEFINE s == SetupPage(Memory, cr3[t], v, w)
<1>1. SetUpResult(used, page_map, content, Roots, Owners, cr3[t], v, w, s)
  BY PageIsSetUp
<1>3. used' = s.mem.used /\ page_map' = s.mem.page_map /\ ContentKept(t)
  BY <1>1, MemoryIsSetUp
<1> HIDE DEF s
<1>4. PageSetUp(used, page_map, content, Roots, Owners, cr3[t], v, w, used', page_map',
                s.mem.content, s.ok)
  BY <1>1, <1>3 DEF SetUpResult
<1> QED BY <1>3, <1>4 DEF s
\* SetupStep with its result by name.
LEMMA SetupStepCases ==
  ASSUME NEW t, NEW last, NEW w, NEW x, NEW label, NEW first,
         SetupStep(t, last, w, x, label, first)
  PROVE  LET s == SetupPage(Memory, cr3[t], next[t], w) IN
         /\ SetMemory(s.mem) \/ (s.ok /\ SetMemory(Fill(s.mem, cr3[t], next[t], x)))
         /\ \/ ~s.ok /\ Goto(t, "idle", 0) /\ abandoned' = TRUE
            \/ s.ok /\ next[t] = last /\ Goto(t, label, first) /\ abandoned' = abandoned
            \/ s.ok /\ next[t] # last /\ Goto(t, pc[t], next[t] + 1) /\ abandoned' = abandoned
<1> DEFINE s == SetupPage(Memory, cr3[t], next[t], w)
<1>1. CASE ~s.ok
  BY <1>1 DEF SetupStep, ReturnError
<1>2. CASE s.ok
  <2>1. SetMemory(s.mem) \/ (s.ok /\ SetMemory(Fill(s.mem, cr3[t], next[t], x)))
    BY <1>2 DEF SetupStep
  <2>2. /\ abandoned' = abandoned
        /\ IF next[t] = last THEN Goto(t, label, first) ELSE Goto(t, pc[t], next[t] + 1)
    BY <1>2 DEF SetupStep
  <2> HIDE DEF s
  <2> QED BY <1>2, <2>1, <2>2 DEF s
<1> QED BY <1>1, <1>2

LEMMA NothingForIdle ==
  ASSUME NEW P, NEW r, NEW q, NEW a, NEW k
  PROVE  /\ LoadingOK(P, "idle", r, a, k) /\ CopyingOK(P, "idle", r, q, a, k)
         /\ ReadyOK(P, "idle", r, a, k) /\ CleaningOK(P, "idle", r, k)
BY DEF LoadingOK, CopyingOK, ReadyOK, CleaningOK

LEMMA LoadSegmentKeepsIInv ==
  ASSUME IInv, ~Halted, NEW t \in Task, LoadSegment(t)
  PROVE  Keeps(t)
<1> DEFINE v == next[t]
           a == app[t]
           r == cr3[t]
           x == ImagePage(a, v)
           s == SetupPage(Memory, r, v, FALSE)
<1>1. pc[t] = "load" /\ pc[t] # "idle" /\ pc[t] \in Loading
  BY DEF LoadSegment, Loading
<1>2. a \in Elf /\ cr3[t] \in Roots /\ TypeInv
  BY <1>1, TaskSpace DEF IInv
<1>3. v \in ImagePages(a) /\ AllAt(page_map, r, FirstPage .. v - 1) /\ NoneAt(page_map, r, v .. ArgsPage)
  BY <1>1 DEF IInv, TasksInv, TaskOK, LoadingOK
<1>4. /\ LastImagePage(a) \in Int /\ LastImagePage(a) < StackPage
      /\ ImagePages(a) = FirstPage .. LastImagePage(a) /\ ImagePages(a) \subseteq Page
      /\ FirstPage \in Nat /\ ArgsPage \in Int /\ StackPage \in Int
  BY <1>2, AreasOfPages
<1>5. v \in Page /\ v \in Int /\ v <= ArgsPage /\ FirstPage <= v /\ v <= LastImagePage(a)
  BY <1>3, <1>4 DEF Page
<1>6. ~At(page_map, r, v).present
  BY <1>3, <1>4, <1>5 DEF NoneAt
<1>7. SetupStep(t, LastImagePage(a), FALSE, x, "cache", 0)
  BY DEF LoadSegment
<1>8. /\ SetMemory(s.mem) \/ (s.ok /\ SetMemory(Fill(s.mem, cr3[t], next[t], x)))
      /\ \/ ~s.ok /\ Goto(t, "idle", 0) /\ abandoned' = TRUE
         \/ s.ok /\ v = LastImagePage(a) /\ Goto(t, "cache", 0) /\ abandoned' = abandoned
         \/ s.ok /\ v # LastImagePage(a) /\ Goto(t, "load", v + 1) /\ abandoned' = abandoned
  <2> HIDE DEF x
  <2> QED BY <1>1, <1>7, SetupStepCases
<1>9. /\ PageSetUp(used, page_map, content, Roots, Owners, r, v, FALSE, used', page_map',
                   s.mem.content, s.ok)
      /\ ContentKept(t)
  <2>1. pc[t] \in Loading => ~FALSE /\ v < StackPage
    BY <1>4, <1>5
  <2> HIDE DEF x
  <2> QED BY <1>1, <1>5, <1>6, <1>8, <2>1, SetupStepEffect
<1>10. UNCHANGED <<app_loads, cr3, temp_pml4, app>>
  BY DEF LoadSegment
<1> HIDE DEF s
<1>11. s.ok => At(page_map', r, v).present
  BY <1>9 DEF PageSetUp, PageKept, PageIn
<1>12. \A y \in Page : y # v => At(page_map', r, y) = At(page_map, r, y)
  BY <1>2, <1>9 DEF PageSetUp, PageKept, PageIn
<1>13. ASSUME NEW p \in Pc, NEW k \in Int, Goto(t, p, k),
              p # "idle" => p \in {"load", "cache"}, abandoned' \in BOOLEAN,
              ~abandoned' => ~abandoned /\ p # "idle",
              LoadingOK(page_map', p, r, a, k)
       PROVE  Keeps(t)
  <2>1. CopyingOK(page_map', p, r, temp_pml4[t], a, k) /\ ReadyOK(page_map', p, r, a, k) /\ CleaningOK(page_map', p, r, k)
    BY <1>13 DEF CopyingOK, ReadyOK, CleaningOK
  <2>2. /\ pc[t] \in Loading \/ FALSE
        /\ p # "idle" => (p \in Loading <=> pc[t] \in Loading)
        /\ p = "halt" => s.ok = FALSE
    BY <1>1, <1>13 DEF Loading
  <2> QED BY <1>1, <1>5, <1>9, <1>10, <1>13, <2>1, <2>2, SetUpKeepsIInv
<1>14. CASE ~s.ok /\ Goto(t, "idle", 0) /\ abandoned' = TRUE
  BY <1>13, <1>14, NothingForIdle DEF Pc
<1>15. CASE s.ok /\ v = LastImagePage(a) /\ Goto(t, "cache", 0) /\ abandoned' = abandoned
  <2>1. AllAt(page_map', r, ImagePages(a))
    BY <1>3, <1>4, <1>5, <1>11, <1>12, <1>15 DEF AllAt
  <2>2. LoadingOK(page_map', "cache", r, a, 0)
    BY <2>1 DEF LoadingOK
  <2> QED BY <1>2, <1>13, <1>15, <2>2 DEF Pc, TypeInv
<1>16. CASE s.ok /\ v # LastImagePage(a) /\ Goto(t, "load", v + 1) /\ abandoned' = abandoned
  <2>1. AllAt(page_map', r, FirstPage .. (v + 1) - 1)
    BY <1>3, <1>4, <1>5, <1>11, <1>12, <1>16 DEF AllAt
  <2>2. NoneAt(page_map', r, v + 1 .. ArgsPage)
    BY <1>3, <1>4, <1>5, <1>12, <1>16 DEF NoneAt
  <2>3. v + 1 \in ImagePages(a)
    BY <1>4, <1>5, <1>16
  <2>4. LoadingOK(page_map', "load", r, a, v + 1)
    BY <2>1, <2>2, <2>3 DEF LoadingOK
  <2>5. v + 1 \in Int
    BY <1>5
  <2> QED BY <1>2, <1>13, <1>16, <2>4, <2>5 DEF Pc, TypeInv
<1> QED BY <1>8, <1>14, <1>15, <1>16
LEMMA SetupArgsKeepsIInv ==
  ASSUME IInv, ~Halted, NEW t \in Task, SetupArgs(t)
  PROVE  Keeps(t)
<1> DEFINE v == ArgsPage
           a == app[t]
           r == cr3[t]
           s == SetupPage(Memory, r, v, TRUE)
<1>1. pc[t] = "args" /\ pc[t] # "idle" /\ pc[t] \notin Loading
  BY DEF SetupArgs, Loading
<1>2. a \in Elf /\ cr3[t] \in Roots /\ TypeInv
  BY <1>1, TaskSpace DEF IInv
<1>3. next[t] = v /\ AllAt(page_map, r, ImagePages(a)) /\ NoneAt(page_map, r, StackPage .. ArgsPage)
  BY <1>1 DEF IInv, TasksInv, TaskOK, CopyingOK, ReadyOK
<1>4. /\ ImagePages(a) \subseteq Page /\ v \in Page /\ StackPages = StackPage .. StackPage + kStackPages - 1
      /\ FirstPage \in Nat /\ ArgsPage \in Int /\ StackPage \in Int /\ kStackPages \in Nat \ {0}
      /\ StackPage = ArgsPage - 1 - kStackPages
  BY <1>2, AreasOfPages
<1>6. ~At(page_map, r, v).present
  <2>1. v \in StackPage .. ArgsPage
    BY <1>4
  <2> QED BY <1>3, <1>4, <2>1 DEF NoneAt
<1>8. /\ SetMemory(s.mem) \/ (s.ok /\ SetMemory(Fill(s.mem, r, v, Args)))
      /\ \/ Goto(t, "idle", 0) /\ abandoned' = TRUE
         \/ s.ok /\ Goto(t, "stack", StackPage) /\ abandoned' = abandoned
  <2>1. CASE SetupStep(t, ArgsPage, TRUE, Args, "stack", StackPage)
    BY <1>3, <2>1, SetupStepCases
  <2>2. CASE ~SetupStep(t, ArgsPage, TRUE, Args, "stack", StackPage)
    BY <2>2 DEF SetupArgs, ReturnError
  <2> QED BY <2>1, <2>2
<1>9. /\ PageSetUp(used, page_map, content, Roots, Owners, r, v, TRUE, used', page_map',
                   s.mem.content, s.ok)
      /\ ContentKept(t)
  BY <1>1, <1>4, <1>6, <1>8, SetupStepEffect
<1>10. UNCHANGED <<app_loads, cr3, temp_pml4, app>>
  BY DEF SetupArgs
<1> HIDE DEF s, v
<1>11. s.ok => At(page_map', r, v).present
  BY <1>9 DEF PageSetUp, PageKept, PageIn
<1>12. \A y \in Page : y # v => At(page_map', r, y) = At(page_map, r, y)
  BY <1>2, <1>9 DEF PageSetUp, PageKept, PageIn
<1>13. ASSUME NEW p \in Pc, NEW k \in Int, Goto(t, p, k),
              p \in {"idle", "stack"}, abandoned' \in BOOLEAN,
              ~abandoned' => ~abandoned /\ p # "idle",
              ReadyOK(page_map', p, r, a, k)
       PROVE  Keeps(t)
  <2>1. /\ LoadingOK(page_map', p, r, a, k) /\ CopyingOK(page_map', p, r, temp_pml4[t], a, k)
        /\ CleaningOK(page_map', p, r, k)
    BY <1>13 DEF CopyingOK, LoadingOK, CleaningOK
  <2>2. /\ pc[t] \in Loading \/ TRUE
        /\ p # "idle" => (p \in Loading <=> pc[t] \in Loading)
        /\ p = "halt" => s.ok = FALSE
    BY <1>1, <1>13 DEF Loading
  <2>3. v \in Page
    BY <1>4 DEF v
  <2> QED BY <1>1, <1>9, <1>10, <1>13, <2>1, <2>2, <2>3, SetUpKeepsIInv
<1>14. CASE Goto(t, "idle", 0) /\ abandoned' = TRUE
  BY <1>13, <1>14, NothingForIdle DEF Pc
<1>15. CASE s.ok /\ Goto(t, "stack", StackPage) /\ abandoned' = abandoned
  <2>1. AllAt(page_map', r, ImagePages(a)) /\ AllAt(page_map', r, {ArgsPage})
    BY <1>3, <1>4, <1>11, <1>12, <1>15 DEF AllAt, v
  <2>2. NoneAt(page_map', r, StackPage .. ArgsPage - 1)
    BY <1>3, <1>4, <1>12 DEF NoneAt, v
  <2>3. StackPage \in StackPages /\ AllAt(page_map', r, StackPage .. StackPage - 1)
    BY <1>4 DEF AllAt
  <2>4. ReadyOK(page_map', "stack", r, a, StackPage)
    BY <2>1, <2>2, <2>3 DEF ReadyOK
  <2> QED BY <1>2, <1>4, <1>13, <1>15, <2>4 DEF Pc, TypeInv
<1> QED BY <1>8, <1>14, <1>15

LEMMA SetupStackKeepsIInv ==
  ASSUME IInv, ~Halted, NEW t \in Task, SetupStack(t)
  PROVE  Keeps(t)
<1> DEFINE v == next[t]
           a == app[t]
           r == cr3[t]
           s == SetupPage(Memory, r, v, TRUE)
           last == StackPage + kStackPages - 1
<1>1. pc[t] = "stack" /\ pc[t] # "idle" /\ pc[t] \notin Loading
  BY DEF SetupStack, Loading
<1>2. a \in Elf /\ cr3[t] \in Roots /\ TypeInv
  BY <1>1, TaskSpace DEF IInv
<1>3. /\ v \in StackPages /\ AllAt(page_map, r, ImagePages(a)) /\ AllAt(page_map, r, {ArgsPage})
      /\ AllAt(page_map, r, StackPage .. v - 1) /\ NoneAt(page_map, r, v .. ArgsPage - 1)
  BY <1>1 DEF IInv, TasksInv, TaskOK, ReadyOK
<1>4. /\ ImagePages(a) \subseteq Page /\ StackPages = StackPage .. last /\ StackPages \subseteq Page
      /\ FirstPage \in Nat /\ ArgsPage \in Int /\ StackPage \in Int /\ kStackPages \in Nat \ {0}
      /\ StackPage = ArgsPage - 1 - kStackPages
  BY <1>2, AreasOfPages
<1>5. v \in Page /\ v \in Int /\ StackPage <= v /\ v <= last /\ last \in Int /\ last < ArgsPage
  BY <1>3, <1>4
<1>6. ~At(page_map, r, v).present
  BY <1>3, <1>4, <1>5 DEF NoneAt
<1>8. /\ SetMemory(s.mem) \/ (s.ok /\ SetMemory(Fill(s.mem, r, v, Unfilled)))
      /\ \/ ~s.ok /\ Goto(t, "idle", 0) /\ abandoned' = TRUE
         \/ s.ok /\ v = last /\ Goto(t, "call", 0) /\ abandoned' = abandoned
         \/ s.ok /\ v # last /\ Goto(t, "stack", v + 1) /\ abandoned' = abandoned
  <2>1. SetupStep(t, last, TRUE, Unfilled, "call", 0)
    BY DEF SetupStack
  <2> QED BY <1>1, <2>1, SetupStepCases
<1>9. /\ PageSetUp(used, page_map, content, Roots, Owners, r, v, TRUE, used', page_map',
                   s.mem.content, s.ok)
      /\ ContentKept(t)
  BY <1>1, <1>5, <1>6, <1>8, SetupStepEffect
<1>10. UNCHANGED <<app_loads, cr3, temp_pml4, app>>
  BY DEF SetupStack
<1> HIDE DEF s
<1>11. s.ok => At(page_map', r, v).present
  BY <1>9 DEF PageSetUp, PageKept, PageIn
<1>12. \A y \in Page : y # v => At(page_map', r, y) = At(page_map, r, y)
  BY <1>2, <1>9 DEF PageSetUp, PageKept, PageIn
<1>13. ASSUME NEW p \in Pc, NEW k \in Int, Goto(t, p, k),
              p \in {"idle", "stack", "call"}, abandoned' \in BOOLEAN,
              ~abandoned' => ~abandoned /\ p # "idle",
              ReadyOK(page_map', p, r, a, k)
       PROVE  Keeps(t)
  <2>1. /\ LoadingOK(page_map', p, r, a, k) /\ CopyingOK(page_map', p, r, temp_pml4[t], a, k)
        /\ CleaningOK(page_map', p, r, k)
    BY <1>13 DEF CopyingOK, LoadingOK, CleaningOK
  <2>2. /\ pc[t] \in Loading \/ TRUE
        /\ p # "idle" => (p \in Loading <=> pc[t] \in Loading)
        /\ p = "halt" => s.ok = FALSE
    BY <1>1, <1>13 DEF Loading
  <2> QED BY <1>1, <1>5, <1>9, <1>10, <1>13, <2>1, <2>2, SetUpKeepsIInv
<1>14. CASE ~s.ok /\ Goto(t, "idle", 0) /\ abandoned' = TRUE
  BY <1>13, <1>14, NothingForIdle DEF Pc
<1>a. s.ok => AllAt(page_map', r, ImagePages(a)) /\ AllAt(page_map', r, {ArgsPage})
  BY <1>3, <1>11, <1>12 DEF AllAt
<1>15. CASE s.ok /\ v = last /\ Goto(t, "call", 0) /\ abandoned' = abandoned
  <2>1. AllAt(page_map', r, StackPages)
    BY <1>3, <1>4, <1>5, <1>11, <1>12, <1>15 DEF AllAt
  <2>2. ReadyOK(page_map', "call", r, a, 0)
    BY <1>a, <1>15, <2>1 DEF ReadyOK
  <2> QED BY <1>2, <1>13, <1>15, <2>2 DEF Pc, TypeInv
<1>16. CASE s.ok /\ v # last /\ Goto(t, "stack", v + 1) /\ abandoned' = abandoned
  <2>1. AllAt(page_map', r, StackPage .. (v + 1) - 1)
    BY <1>3, <1>4, <1>5, <1>11, <1>12, <1>16 DEF AllAt
  <2>2. NoneAt(page_map', r, v + 1 .. ArgsPage - 1)
    BY <1>3, <1>4, <1>5, <1>12 DEF NoneAt
  <2>3. v + 1 \in StackPages /\ v + 1 \in Int
    BY <1>4, <1>5, <1>16
  <2>4. ReadyOK(page_map', "stack", r, a, v + 1)
    BY <1>a, <1>16, <2>1, <2>2, <2>3 DEF ReadyOK
  <2> QED BY <1>2, <1>13, <1>16, <2>3, <2>4 DEF Pc, TypeInv
<1> QED BY <1>8, <1>14, <1>15, <1>16
-----------------------------------------------------------------------------
(* Steps that leave the page maps as they are.                             *)

LEMMA GotoSame ==
  ASSUME TypeInv, NEW t \in Task, UNCHANGED <<pc, next>>
  PROVE  Goto(t, pc[t], next[t]) /\ pc[t] \in Pc /\ next[t] \in Int
BY DEF Goto, TypeInv

LEMMA QuietStepKeepsIInv ==
  ASSUME IInv, ~Halted, NEW t \in Task, pc[t] # "idle",
         UNCHANGED <<used, page_map, app_loads, cr3, temp_pml4, app, abandoned>>,
         ContentKept(t), NEW p \in Pc \ {"idle", "halt"}, NEW k \in Int, Goto(t, p, k),
         p \in Loading <=> pc[t] \in Loading,
         LoadingOK(page_map, p, cr3[t], app[t], k),
         CopyingOK(page_map, p, cr3[t], temp_pml4[t], app[t], k),
         ReadyOK(page_map, p, cr3[t], app[t], k), CleaningOK(page_map, p, cr3[t], k)
  PROVE  Keeps(t)
<1>1. /\ pc' \in [Task -> Pc] /\ pc'[t] = p /\ next' \in [Task -> Int] /\ next'[t] = k
      /\ \A u \in Task : u # t => pc'[u] = pc[u] /\ next'[u] = next[u]
  BY DEF Goto, IInv, TypeInv
<1>2. \A q : SameView(page_map, page_map', q)
  BY DEF SameView
<1>3. TaskOK(page_map', pc'[t], cr3[t], temp_pml4[t], app[t], next'[t])
  <2>1. SharedOK(page_map, cr3[t], temp_pml4[t])
    BY DEF IInv, TasksInv, TaskOK
  <2>2. TaskOK(page_map, p, cr3[t], temp_pml4[t], app[t], k)
    BY <2>1 DEF TaskOK
  <2>3. page_map' = page_map /\ pc'[t] = p /\ next'[t] = k
    BY <1>1
  <2> QED BY <2>2, <2>3
<1>4. Sound(used', page_map', Roots, Owners)
  BY DEF IInv, SpacesInv
<1>5. ~abandoned' => /\ ~abandoned /\ pc'[t] # "idle"
                     /\ Accounted(used', page_map', Spaces \cup Cached, Owners)
  BY <1>1 DEF IInv, LeakInv
<1>6. abandoned' \in BOOLEAN /\ UNCHANGED <<app_loads, cr3, temp_pml4, app>>
  BY DEF IInv, TypeInv
<1>7. OwnStep(t)
  BY <1>1, <1>2, <1>3, <1>4, <1>5, <1>6 DEF OwnStep
<1> QED BY <1>7, OwnStepKeepsIInv

\* A task that runs or cleans up is at the end of what it has set up.
LEMMA RunningTask ==
  ASSUME IInv, NEW t \in Task, pc[t] \in {"call", "run"}
  PROVE  /\ pc[t] # "idle" /\ pc[t] \notin Loading
         /\ AllAt(page_map, cr3[t], ImagePages(app[t])) /\ AllAt(page_map, cr3[t], StackPages)
         /\ AllAt(page_map, cr3[t], {ArgsPage})
BY DEF IInv, TasksInv, TaskOK, ReadyOK, Loading

LEMMA RunningOK ==
  ASSUME NEW P, NEW r, NEW q, NEW a, NEW k, NEW p \in {"call", "run"}
  PROVE  /\ LoadingOK(P, p, r, a, k) /\ CopyingOK(P, p, r, q, a, k) /\ CleaningOK(P, p, r, k)
         /\ AllAt(P, r, ImagePages(a)) /\ AllAt(P, r, StackPages) /\ AllAt(P, r, {ArgsPage})
              => ReadyOK(P, p, r, a, k)
BY DEF LoadingOK, CopyingOK, ReadyOK, CleaningOK

\* Nothing has been cleaned when CallApp returns.
LEMMA FirstToClean ==
  ASSUME NEW U, NEW P, NEW R, NEW O, Sound(U, P, R, O), NEW r \in R, NEW q, NEW a
  PROVE  LET k == kUserBegin IN
         /\ LoadingOK(P, "clean", r, a, k) /\ CopyingOK(P, "clean", r, q, a, k)
         /\ ReadyOK(P, "clean", r, a, k) /\ CleaningOK(P, "clean", r, k)
         /\ k \in Int
<1>1. kUserBegin \in UserEntry /\ kUserBegin \in Int
  BY SizeAssumption DEF UserEntry, Entry
<1>2. \A e \in Entry : Has(P, r, e) => e \in UserEntry
  BY DEF Sound, TablesSound, TableSound
<1>3. NoTables(P, r, 0 .. kUserBegin - 1)
  BY <1>1, <1>2, SizeAssumption DEF NoTables, UserEntry, Entry
<1> QED BY <1>1, <1>3 DEF LoadingOK, CopyingOK, ReadyOK, CleaningOK

LEMMA CallAppKeepsIInv ==
  ASSUME IInv, ~Halted, NEW t \in Task, CallApp(t)
  PROVE  Keeps(t)
<1>1. pc[t] = "call" /\ Goto(t, "run", 0) /\ ContentKept(t)
      /\ UNCHANGED <<used, page_map, app_loads, cr3, temp_pml4, app, abandoned>>
  BY DEF CallApp, memory, IInv, TypeInv, ContentKept
<1> DEFINE p == "run"
           k == 0
<1>2. p \in {"call", "run"} /\ p \in Pc \ {"idle", "halt"} /\ p \notin Loading /\ k \in Int
  BY DEF Pc, Loading
<1>3. Goto(t, p, k)
  BY <1>1
<1> HIDE DEF p, k
<1>4. /\ LoadingOK(page_map, p, cr3[t], app[t], k)
      /\ CopyingOK(page_map, p, cr3[t], temp_pml4[t], app[t], k)
      /\ ReadyOK(page_map, p, cr3[t], app[t], k) /\ CleaningOK(page_map, p, cr3[t], k)
  BY <1>1, <1>2, RunningTask, RunningOK
<1> QED BY <1>1, <1>2, <1>3, <1>4, RunningTask, QuietStepKeepsIInv

\* The application goes on.
LEMMA RunKeepsIInv ==
  ASSUME IInv, ~Halted, NEW t \in Task, pc[t] = "run", ContentKept(t),
         UNCHANGED <<used, page_map, app_loads, cr3, temp_pml4, pc, app, next, abandoned>>
  PROVE  Keeps(t)
<1>1. /\ pc[t] \in Pc \ {"idle", "halt"} /\ next[t] \in Int /\ Goto(t, pc[t], next[t])
      /\ pc[t] \in {"call", "run"}
  BY GotoSame DEF IInv, Pc
<1>2. /\ LoadingOK(page_map, pc[t], cr3[t], app[t], next[t])
      /\ CopyingOK(page_map, pc[t], cr3[t], temp_pml4[t], app[t], next[t])
      /\ ReadyOK(page_map, pc[t], cr3[t], app[t], next[t])
      /\ CleaningOK(page_map, pc[t], cr3[t], next[t])
  BY DEF IInv, TasksInv, TaskOK
<1> QED BY <1>1, <1>2, RunningTask, QuietStepKeepsIInv

\* CallApp returns.
LEMMA LeaveKeepsIInv ==
  ASSUME IInv, ~Halted, NEW t \in Task, pc[t] = "run", Leave(t), ContentKept(t),
         UNCHANGED <<used, page_map, app_loads, cr3, temp_pml4, app, abandoned>>
  PROVE  Keeps(t)
<1> DEFINE p == "clean"
           k == kUserBegin
<1>1. p \in Pc \ {"idle", "halt"} /\ p \notin Loading /\ Goto(t, p, k)
  BY DEF Leave, Pc, Loading
<1>2. Sound(used, page_map, Roots, Owners) /\ cr3[t] \in Roots /\ pc[t] # "idle" /\ pc[t] \notin Loading
  BY TaskSpace DEF IInv, SpacesInv, Loading
<1>3. /\ LoadingOK(page_map, p, cr3[t], app[t], k)
      /\ CopyingOK(page_map, p, cr3[t], temp_pml4[t], app[t], k)
      /\ ReadyOK(page_map, p, cr3[t], app[t], k) /\ CleaningOK(page_map, p, cr3[t], k)
      /\ k \in Int
  BY <1>2, FirstToClean
<1> HIDE DEF p, k
<1> QED BY <1>1, <1>2, <1>3, QuietStepKeepsIInv

\* A store into a page that is there.
LEMMA StoreKeepsContent ==
  ASSUME IInv, NEW t \in Task, pc[t] = "run", NEW v \in Page,
         SharedBuffers \/ At(page_map, cr3[t], v).writable,
         SetMemory(Fill(Memory, cr3[t], v, Written))
  PROVE  used' = used /\ page_map' = page_map /\ ContentKept(t)
<1> DEFINE m == Fill(Memory, cr3[t], v, Written)
           f == At(page_map, cr3[t], v).frame
<1>1. IsMem(Memory) /\ Memory.used = used /\ Memory.page_map = page_map /\ Memory.content = content
  BY MemoryIsMem, MemFields DEF IsMem
<1>2. m.used = used /\ m.page_map = page_map /\ m.content = Stored(content, f, Written)
  BY <1>1, FillFields
<1>3. cr3[t] \in Roots
  BY TaskSpace DEF IInv
<1>4. SharedBuffers \/ OwnFrame(t, f)
  BY <1>3 DEF OwnFrame
<1>5. used \subseteq Frame
  BY DEF IInv, SpacesInv, Sound, FramesSound
<1>6. /\ IsContent(Stored(content, f, Written))
      /\ \A g \in Frame : Stored(content, f, Written)[g] # content[g] => g = f
  <2> HIDE DEF f
  <2> QED BY StoredElsewhere DEF IInv, TypeInv
<1> HIDE DEF m, f
<1>7. used' = used /\ page_map' = page_map /\ content' = Stored(content, f, Written)
  BY <1>2 DEF SetMemory, m
<1> QED BY <1>4, <1>5, <1>6, <1>7 DEF ContentKept

LEMMA UserStoreKeepsIInv ==
  ASSUME IInv, ~Halted, NEW t \in Task, NEW v \in Touched, UserStore(t, v)
  PROVE  Keeps(t)
<1>1. pc[t] = "run" /\ v \in Page /\ At(page_map, cr3[t], v).writable
  BY SizeAssumption, MemoryIsMem DEF UserStore
<1>2. used' = used /\ page_map' = page_map /\ ContentKept(t)
  BY <1>1, StoreKeepsContent DEF UserStore
<1> QED BY <1>1, <1>2, RunKeepsIInv DEF UserStore

LEMMA OtherCallsKeepIInv ==
  ASSUME IInv, ~Halted, NEW t \in Task, Exit(t) \/ \E n \in 1 .. StackPage : DemandPages(t, n)
  PROVE  Keeps(t)
<1>1. ContentKept(t) /\ pc[t] = "run" /\ UNCHANGED <<used, page_map, app_loads, cr3, temp_pml4, app, abandoned>>
  BY DEF IInv, TypeInv, Exit, DemandPages, memory, ContentKept
<1>2. CASE Exit(t)
  BY <1>1, <1>2, LeaveKeepsIInv DEF Exit
<1>3. CASE \E n \in 1 .. StackPage : DemandPages(t, n)
  BY <1>1, <1>3, RunKeepsIInv DEF DemandPages
<1> QED BY <1>2, <1>3
-----------------------------------------------------------------------------
(* Page faults.                                                            *)

\* P when NewPageMap has cleared frame n, and n is the page of entry l of page map f.
CopiedAt(P, n, f, l) ==
  [[P EXCEPT ![n] = NoEntries] EXCEPT ![f][l].frame = n, ![f][l].writable = TRUE]

LEMMA CopiedAtPut ==
  ASSUME NEW P \in [Frame -> [Entry -> PageMapEntry]], NEW n \in Frame, NEW r, NEW e,
         NEW l \in Entry, Table(P, r, e) \in Frame \ {n}, LeafAt(P, r, e, l).present
  PROVE  LeafPut(P, CopiedAt(P, n, Table(P, r, e), l), r, e, l, n, TRUE)
<1> DEFINE T == Table(P, r, e)
           Z == [P EXCEPT ![n] = NoEntries]
           Q == CopiedAt(P, n, T, l)
           x == P[T][l]
           y == [present |-> x.present, writable |-> TRUE, frame |-> n]
<1>1. x \in PageMapEntry /\ x.present /\ y \in PageMapEntry /\ T \in Frame /\ T # n
  BY DEF LeafAt, PageMapEntry
<1>2. Z \in [Frame -> [Entry -> PageMapEntry]] /\ Z[T] = P[T]
      /\ \A f \in Frame \ {n} : Z[f] = P[f]
  <2> HIDE DEF T, Q, x, y
  <2> QED BY <1>1, NoEntriesType
<1> HIDE DEF Z, T
<1>3. [[Z[T][l] EXCEPT !.frame = n] EXCEPT !.writable = TRUE] = y
  <2>1. Z[T][l] = x
    BY <1>2
  <2>2. ASSUME NEW p, NEW u, NEW f
        PROVE  [[[present |-> p, writable |-> u, frame |-> f] EXCEPT !.frame = n] EXCEPT !.writable = TRUE]
                 = [present |-> p, writable |-> TRUE, frame |-> n]
    <3> DEFINE X == [[present |-> p, writable |-> u, frame |-> f] EXCEPT !.frame = n]
    <3>1. X = [present |-> p, writable |-> u, frame |-> n]
      OBVIOUS
    <3> HIDE DEF X
    <3>2. \A b : [X EXCEPT !.writable = b] = [present |-> p, writable |-> b, frame |-> n]
      BY <3>1
    <3> QED BY <3>2 DEF X
  <2>3. x = [present |-> x.present, writable |-> x.writable, frame |-> x.frame]
    BY <1>1 DEF PageMapEntry
  <2> DEFINE p == x.present
             u == x.writable
             f == x.frame
  <2>4. [[[present |-> p, writable |-> u, frame |-> f] EXCEPT !.frame = n] EXCEPT !.writable = TRUE] = y
    BY <2>2
  <2> QED BY <2>1, <2>3, <2>4
<1>4. Q = [Z EXCEPT ![T][l] = y]
  <2>1. Q = [Z EXCEPT ![T][l].frame = n, ![T][l].writable = TRUE]
    BY DEF CopiedAt, Z
  <2>2. [Z EXCEPT ![T][l].frame = n, ![T][l].writable = TRUE] =
          [Z EXCEPT ![T] = [Z[T] EXCEPT ![l] = [[Z[T][l] EXCEPT !.frame = n] EXCEPT !.writable = TRUE]]]
    BY <1>1, <1>2
  <2> HIDE DEF Q, x, y
  <2>3. [Z EXCEPT ![T][l] = y] = [Z EXCEPT ![T] = [Z[T] EXCEPT ![l] = y]]
    BY <1>1, <1>2
  <2> QED BY <1>3, <2>1, <2>2, <2>3
<1>5. y.present /\ y.writable = TRUE /\ y.frame = n
  BY <1>1
<1> HIDE DEF Q, x, y
<1>6. /\ Q \in [Frame -> [Entry -> PageMapEntry]] /\ Q[T][l] = y
      /\ \A k \in Entry \ {l} : Q[T][k] = P[T][k]
      /\ \A f \in Frame \ {n, T} : Q[f] = P[f]
  BY <1>1, <1>2, <1>4
<1> QED BY <1>5, <1>6 DEF LeafPut, T, Q

LEMMA CopyIs ==
  ASSUME NEW U, NEW P, NEW C, NEW r, NEW v, ~Full(Mem(U, P, C)),
         NEW n, n = NewFrame(Mem(U, P, C))
  PROVE  CopyOnePage(Mem(U, P, C), r, v) =
           [ok |-> TRUE,
            mem |-> Mem(U \cup {n}, CopiedAt(P, n, Table(P, r, Upper(v)), Lower(v)),
                        Stored(Zeroed(C, n), n, C[At(P, r, v).frame]))]
<1> DEFINE m == Mem(U, P, C)
           T == Table(P, r, Upper(v))
           l == Lower(v)
           x == m.content[Leaf(m, r, v).frame]
           N == NewPageMap(m)
<1>1. N = Mem(U \cup {NewFrame(m)}, [P EXCEPT ![NewFrame(m)] = NoEntries], Zeroed(C, NewFrame(m)))
  BY DEF NewPageMap, Mem, Zeroed
<1>2. m.page_map[r][Upper(v)].frame = T
  BY DEF Mem, Table
<1>3. CopyOnePage(m, r, v) =
        [ok |-> TRUE,
         mem |-> [N EXCEPT !.content[n] = x, !.page_map[T][l].frame = n, !.page_map[T][l].writable = TRUE]]
  <2> HIDE DEF T, N, x
  <2> QED BY <1>2 DEF CopyOnePage, N, x
<1>a. x = C[At(P, r, v).frame]
  BY DEF Mem, Leaf, At, Has, LeafAt, Table
<1> HIDE DEF N, x, T, l, m
<1>4. [N EXCEPT !.content[n] = x, !.page_map[T][l].frame = n, !.page_map[T][l].writable = TRUE] =
        Mem(U \cup {n}, CopiedAt(P, n, T, l), Stored(Zeroed(C, n), n, x))
  <2> DEFINE V == U \cup {n}
             Z == [P EXCEPT ![n] = NoEntries]
             D == Zeroed(C, n)
             W == [Z EXCEPT ![T][l].frame = n, ![T][l].writable = TRUE]
             E == [D EXCEPT ![n] = x]
  <2>1. N = [used |-> V, page_map |-> Z, content |-> D]
    BY <1>1 DEF Mem, m
  <2>2. W = CopiedAt(P, n, T, l) /\ E = Stored(D, n, x)
    BY DEF CopiedAt, Stored
  <2>3. [N EXCEPT !.content[n] = x, !.page_map[T][l].frame = n, !.page_map[T][l].writable = TRUE] =
          [used |-> V, page_map |-> W, content |-> E]
    <3> DEFINE A == [N EXCEPT !.content[n] = x]
               B == [A EXCEPT !.page_map[T][l].frame = n]
               Y == [Z EXCEPT ![T][l].frame = n]
    <3>1. [N EXCEPT !.content[n] = x, !.page_map[T][l].frame = n, !.page_map[T][l].writable = TRUE] =
            [B EXCEPT !.page_map[T][l].writable = TRUE]
      OBVIOUS
    <3>2. [Y EXCEPT ![T][l].writable = TRUE] = W
      OBVIOUS
    <3>3. A = [used |-> V, page_map |-> Z, content |-> E]
      <4> HIDE DEF V, Z, D
      <4> QED BY <2>1
    <3> HIDE DEF A, E
    <3>4. B = [used |-> V, page_map |-> Y, content |-> E]
      <4> HIDE DEF V, Z, D
      <4> QED BY <3>3
    <3> HIDE DEF B
    <3>5. \A b : [B EXCEPT !.page_map[T][l].writable = b] =
            [used |-> V, page_map |-> [Y EXCEPT ![T][l].writable = b], content |-> E]
      <4> HIDE DEF V, Y
      <4> QED BY <3>4
    <3> QED BY <3>1, <3>2, <3>5
  <2> HIDE DEF W, E, Z
  <2> QED BY <2>2, <2>3 DEF Mem
<1> QED BY <1>3, <1>4, <1>a DEF m, T, l

\* Page v of space r has been set up, with what it contained.
PageCopied(U, P, C, R, O, r, v, w, s) ==
  /\ SetUpResult(U, P, C, R, O, r, v, w, s) /\ IsMem(s.mem) /\ s.ok
  /\ Put(s, r, v) = C[At(P, r, v).frame]

\* CopyOnePage sets up a page, as SetupPageMaps does.
LEMMA CopySetsUp ==
  ASSUME NEW U, NEW P, NEW R, NEW O, Sound(U, P, R, O), NEW C, IsContent(C),
         NEW r \in R \ O, NEW v \in Page, At(P, r, v).present, ~At(P, r, v).writable,
         ~Full(Mem(U, P, C)), NEW w \in BOOLEAN, w
  PROVE  PageCopied(U, P, C, R, O, r, v, w, CopyOnePage(Mem(U, P, C), r, v))
<1> DEFINE m == Mem(U, P, C)
           n == NewFrame(m)
           T == Table(P, r, Upper(v))
           s == CopyOnePage(m, r, v)
           Q == CopiedAt(P, n, T, Lower(v))
           x == C[At(P, r, v).frame]
<1>1. /\ P \in [Frame -> [Entry -> PageMapEntry]] /\ U \subseteq Frame
      /\ Upper(v) \in Entry /\ Lower(v) \in Entry
  BY Places DEF Sound, FramesSound
<1>2. n \in Frame \ U
  BY <1>1, MemFields, FreshFrame
<1>3. s = [ok |-> TRUE, mem |-> Mem(U \cup {n}, Q, Stored(Zeroed(C, n), n, x))]
  <2> HIDE DEF s, Q, x
  <2>1. \A k : k = n => CopyOnePage(Mem(U, P, C), r, v) =
                 [ok |-> TRUE,
                  mem |-> Mem(U \cup {k}, CopiedAt(P, k, Table(P, r, Upper(v)), Lower(v)),
                              Stored(Zeroed(C, k), k, x))]
    <3>1. ~Full(Mem(U, P, C)) /\ n = NewFrame(Mem(U, P, C))
      OBVIOUS
    <3> HIDE DEF n
    <3> QED BY <3>1, CopyIs DEF x
  <2> HIDE DEF n
  <2> QED BY <2>1 DEF s, Q, m
<1> DEFINE D == Stored(Zeroed(C, n), n, x)
<1> HIDE DEF n, s, Q, x
<1>4. Has(P, r, Upper(v)) /\ LeafAt(P, r, Upper(v), Lower(v)).present
  BY DEF At, Absent
<1>5. T \in U \ R
  BY <1>1, <1>4 DEF Sound, TablesSound, TableSound
<1>6. LeafPut(P, Q, r, Upper(v), Lower(v), n, w)
  <2>1. T \in Frame \ {n} /\ n \in Frame
    BY <1>1, <1>2, <1>5
  <2>2. LeafPut(P, Q, r, Upper(v), Lower(v), n, TRUE)
    BY <1>1, <1>4, <2>1, CopiedAtPut DEF Q
  <2> QED BY <2>2 DEF LeafPut
<1>7. IsContent(D) /\ \A f \in U : D[f] = C[f]
  BY <1>1, <1>2 DEF IsContent, Stored, Zeroed
<1>b. D[n] = x
  BY <1>2 DEF IsContent, Stored, Zeroed
<1> HIDE DEF D
<1>a. ASSUME NEW u \in BOOLEAN, LeafPut(P, Q, r, Upper(v), Lower(v), n, u)
      PROVE  PageKept(U, P, C, R, O, r, v, u, U \cup {n}, Q, D) /\ PageIn(U, Q, r, v, u)
  <2>1. r \in R /\ (At(P, r, v).present => r \notin O /\ ~At(P, r, v).writable)
    OBVIOUS
  <2>2. Has(P, r, Upper(v)) /\ (r \in O => ~u /\ v < StackPage)
    BY <1>4
  <2> HIDE DEF T, m
  <2> QED BY <1>a, <1>2, <1>7, <2>1, <2>2, LeafPutSetsUp
<1>8. PageKept(U, P, C, R, O, r, v, w, U \cup {n}, Q, D) /\ PageIn(U, Q, r, v, w)
  BY <1>6, <1>a
<1>9. s.ok = TRUE /\ s.mem = Mem(U \cup {n}, Q, D)
  BY <1>3 DEF D
<1>10. s.mem.used = U \cup {n} /\ s.mem.page_map = Q /\ s.mem.content = D
  BY <1>9, MemFields
<1>11. SetUpResult(U, P, C, R, O, r, v, w, s)
  BY <1>8, <1>9, <1>10 DEF SetUpResult, PageSetUp
<1>12. IsMem(s.mem)
  BY <1>9, <1>10 DEF IsMem
<1>13. At(Q, r, v).frame = n
  BY <1>8, PageInUse DEF PageKept, PageIn
<1>14. Put(s, r, v) = x
  BY <1>10, <1>13, <1>b DEF Put
<1> QED BY <1>9, <1>11, <1>12, <1>14 DEF PageCopied, s, x

IsResult(s) == s = [mem |-> s.mem, ok |-> s.ok]

LEMMA FilledResult ==
  ASSUME NEW s, IsResult(s), NEW y
  PROVE  LET z == [s EXCEPT !.mem = y] IN z.mem = y /\ z.ok = s.ok /\ IsResult(z)
BY DEF IsResult

LEMMA SetupPageIsResult ==
  ASSUME NEW m, NEW r, NEW v, NEW w
  PROVE  IsResult(SetupPage(m, r, v, w)) /\ SetupPage(m, r, v, w).ok \in BOOLEAN
BY DEF SetupPage, IsResult

\* Storing into a page that has just been set up.
LEMMA FilledSetUp ==
  ASSUME NEW U, NEW P, NEW C, NEW R, NEW O, NEW r, NEW v, NEW w,
         NEW s, SetUpResult(U, P, C, R, O, r, v, w, s), IsMem(s.mem), s.ok, IsResult(s), NEW x
  PROVE  LET z == [s EXCEPT !.mem = Fill(@, r, v, x)] IN
         SetUpResult(U, P, C, R, O, r, v, w, z) /\ IsMem(z.mem) /\ (z.ok <=> s.ok) /\ IsResult(z)
<1> DEFINE m == s.mem
           k == Fill(m, r, v, x)
           z == [s EXCEPT !.mem = k]
           f == At(m.page_map, r, v).frame
<1>1. z.mem = k /\ z.ok = s.ok /\ IsResult(z)
  <2> HIDE DEF k
  <2> QED BY FilledResult
<1>2. /\ k.used = m.used /\ k.page_map = m.page_map /\ k.content = Stored(m.content, f, x)
      /\ IsContent(m.content) => IsContent(k.content)
  <2>1. IsMem(m)
    OBVIOUS
  <2> HIDE DEF m
  <2> QED BY <2>1, FillFields
<1>3. IsMem(k)
  BY DEF Fill, IsMem, Mem
<1> HIDE DEF k, z
<1>4. /\ PageKept(U, P, C, R, O, r, v, w, m.used, m.page_map, m.content)
      /\ PageIn(U, m.page_map, r, v, w)
  BY DEF SetUpResult, PageSetUp
<1>5. \A g \in U : k.content[g] = m.content[g]
  <2>1. f \notin U /\ IsContent(m.content)
    BY <1>4 DEF PageIn, PageKept
  <2>2. U \subseteq Frame
    BY <1>4 DEF PageKept, Sound, FramesSound
  <2> HIDE DEF m, f
  <2> QED BY <1>2, <2>1, <2>2 DEF Stored, IsContent
<1>6. PageKept(U, P, C, R, O, r, v, w, k.used, k.page_map, k.content)
  BY <1>2, <1>4, <1>5 DEF PageKept
<1>7. PageSetUp(U, P, C, R, O, r, v, w, k.used, k.page_map, k.content, s.ok)
  BY <1>2, <1>4, <1>6 DEF PageSetUp
<1>8. SetUpResult(U, P, C, R, O, r, v, w, z)
  BY <1>1, <1>7 DEF SetUpResult
<1> QED BY <1>1, <1>3, <1>8 DEF z, k, m
\* HandlePageFault sets up the page of an application that it is for, or changes
\* nothing: then it is for none of the application's areas, or may not be written.
Refused(t, v, s) ==
  s.mem = Memory /\ ~s.ok /\ (v \in Valid(t) => At(page_map, cr3[t], v).present)
Handled(t, v, s) ==
  \E w \in BOOLEAN :
    /\ pc[t] \in Loading \/ w
    /\ SetUpResult(used, page_map, content, Roots, Owners, cr3[t], v, w, s)

LEMMA SetupIsHandled ==
  ASSUME IInv, NEW t \in Task, pc[t] = "run", NEW v \in Page, ~At(page_map, cr3[t], v).present
  PROVE  LET s == SetupPage(Memory, cr3[t], v, TRUE) IN
         IsMem(s.mem) /\ IsResult(s) /\ Handled(t, v, s)
<1>1. IsMem(Memory) /\ pc[t] # "idle" /\ pc[t] \notin Loading
  BY MemoryIsMem, MemFields DEF IsMem, Loading
<1>2. IsMem(SetupPage(Memory, cr3[t], v, TRUE).mem) /\ IsResult(SetupPage(Memory, cr3[t], v, TRUE))
  BY <1>1, SetupPageIsMem, SetupPageIsResult
<1>3. \A w \in BOOLEAN :
        SetUpResult(used, page_map, content, Roots, Owners, cr3[t], v, w, SetupPage(Memory, cr3[t], v, w))
  BY <1>1, PageIsSetUp
<1>4. Handled(t, v, SetupPage(Memory, cr3[t], v, TRUE))
  BY <1>3 DEF Handled
<1> QED BY <1>2, <1>4

LEMMA CopyIsHandled ==
  ASSUME IInv, NEW t \in Task, pc[t] = "run", NEW v \in Page, At(page_map, cr3[t], v).present,
         ~At(page_map, cr3[t], v).writable
  PROVE  LET s == CopyOnePage(Memory, cr3[t], v) IN
         IF Full(Memory) THEN s = [mem |-> Memory, ok |-> FALSE]
         ELSE IsMem(s.mem) /\ Handled(t, v, s)
<1>1. CASE Full(Memory)
  BY <1>1 DEF CopyOnePage
<1>2. CASE ~Full(Memory)
  <2>1. Sound(used, page_map, Roots, Owners) /\ IsContent(content) /\ cr3[t] \in Roots \ Owners
    BY TaskSpace DEF IInv, SpacesInv, TypeInv, Loading
  <2>2. Memory = Mem(used, page_map, content)
    BY MemoryIsMem
  <2>3. ASSUME NEW w \in BOOLEAN, w
        PROVE  /\ SetUpResult(used, page_map, content, Roots, Owners, cr3[t], v, w,
                             CopyOnePage(Memory, cr3[t], v))
               /\ IsMem(CopyOnePage(Memory, cr3[t], v).mem)
    BY <1>2, <2>1, <2>2, <2>3, CopySetsUp DEF PageCopied
  <2>4. Handled(t, v, CopyOnePage(Memory, cr3[t], v)) /\ IsMem(CopyOnePage(Memory, cr3[t], v).mem)
    BY <2>3 DEF Handled
  <2> QED BY <1>2, <2>4
<1> QED BY <1>1, <1>2

LEMMA FilledIsHandled ==
  ASSUME NEW t, NEW v, NEW s, Handled(t, v, s), IsMem(s.mem), IsResult(s), s.ok, NEW x
  PROVE  LET z == [s EXCEPT !.mem = Fill(@, cr3[t], v, x)] IN
         Handled(t, v, z) /\ IsMem(z.mem) /\ (z.ok <=> s.ok) /\ IsResult(z)
<1>1. PICK w \in BOOLEAN :
        /\ pc[t] \in Loading \/ w
        /\ SetUpResult(used, page_map, content, Roots, Owners, cr3[t], v, w, s)
  BY DEF Handled
<1> DEFINE z == [s EXCEPT !.mem = Fill(@, cr3[t], v, x)]
<1>2. /\ SetUpResult(used, page_map, content, Roots, Owners, cr3[t], v, w, z)
      /\ IsMem(z.mem) /\ (z.ok <=> s.ok) /\ IsResult(z)
  BY <1>1, FilledSetUp
<1> HIDE DEF z
<1>3. Handled(t, v, z)
  BY <1>1, <1>2 DEF Handled
<1> QED BY <1>2, <1>3 DEF z

LEMMA FaultHandled ==
  ASSUME IInv, NEW t \in Task, pc[t] = "run", NEW v \in Page, NEW rw \in BOOLEAN, NEW user \in BOOLEAN,
         At(page_map, cr3[t], v).present => ~At(page_map, cr3[t], v).writable
  PROVE  LET s == HandlePageFault(t, v, rw, user) IN
         Refused(t, v, s) \/ (Handled(t, v, s) /\ IsMem(s.mem) /\ (IsResult(s) \/ ~s.ok \/ user))
<1> DEFINE s == HandlePageFault(t, v, rw, user)
           x == At(page_map, cr3[t], v)
           p == SetupPage(Memory, cr3[t], v, TRUE)
           c == CopyOnePage(Memory, cr3[t], v)
           none == [mem |-> Memory, ok |-> FALSE]
<1>1. Leaf(Memory, cr3[t], v) = x
  BY MemoryIsMem
<1>2. /\ x.present /\ rw /\ user => s = c
      /\ x.present /\ ~(rw /\ user) => s = none
      /\ ~x.present /\ DemandPage(t, v) => s = p
      /\ ~x.present /\ ~DemandPage(t, v) /\ Mapped(t, v) # {} =>
           s = IF p.ok THEN [p EXCEPT !.mem = Fill(@, cr3[t], v, FilePage(t, v))] ELSE p
      /\ ~x.present /\ ~DemandPage(t, v) /\ Mapped(t, v) = {} => s = none
  <2> HIDE DEF x, p, c
  <2> QED BY <1>1 DEF HandlePageFault, p, c
<1>3. CASE x.present /\ ~(rw /\ user)
  BY <1>2, <1>3 DEF Refused
<1>4. CASE x.present /\ rw /\ user
  <2>1. IF Full(Memory) THEN c = none ELSE IsMem(c.mem) /\ Handled(t, v, c)
    BY <1>4, CopyIsHandled
  <2>2. s = c /\ x.present /\ user
    BY <1>2, <1>4
  <2> HIDE DEF s, c
  <2>3. CASE Full(Memory)
    <3>1. s.mem = Memory /\ ~s.ok
      BY <2>1, <2>2, <2>3
    <3>2. Refused(t, v, s)
      BY <2>2, <3>1 DEF Refused
    <3> QED BY <3>2 DEF s
  <2>4. CASE ~Full(Memory)
    <3>1. Handled(t, v, s) /\ IsMem(s.mem)
      BY <2>1, <2>2, <2>4
    <3> QED BY <2>2, <3>1 DEF s
  <2> QED BY <2>3, <2>4
<1>5. ASSUME ~x.present
      PROVE  IsMem(p.mem) /\ IsResult(p) /\ Handled(t, v, p)
  BY <1>5, SetupIsHandled
<1>6. CASE ~x.present /\ DemandPage(t, v)
  BY <1>2, <1>5, <1>6
<1>7. CASE ~x.present /\ ~DemandPage(t, v) /\ Mapped(t, v) # {}
  <2>1. CASE p.ok
    <3> DEFINE y == FilePage(t, v)
               z == [p EXCEPT !.mem = Fill(@, cr3[t], v, y)]
    <3>1. s = z
      BY <1>2, <1>7, <2>1
    <3>2. Handled(t, v, z) /\ IsMem(z.mem) /\ IsResult(z)
      <4> HIDE DEF p, y
      <4> QED BY <1>5, <1>7, <2>1, FilledIsHandled
    <3> HIDE DEF s, z
    <3> QED BY <3>1, <3>2 DEF s
  <2>2. CASE ~p.ok
    BY <1>2, <1>5, <1>7, <2>2
  <2> QED BY <2>1, <2>2
<1>8. CASE ~x.present /\ ~DemandPage(t, v) /\ Mapped(t, v) = {}
  <2>1. v \notin Valid(t)
    <3>1. v \notin ImagePages(app[t]) \cup StackPages \cup {ArgsPage}
      BY <1>8, RunningTask DEF AllAt
    <3> QED BY <1>8, <3>1 DEF Valid, DemandPage
  <2> QED BY <1>2, <1>8, <2>1 DEF Refused
<1> QED BY <1>3, <1>4, <1>6, <1>7, <1>8
\* The application goes on with the page, is killed, or the machine stops.
LEMMA HandledKeepsIInv ==
  ASSUME IInv, ~Halted, NEW t \in Task, pc[t] = "run", NEW v \in Page, NEW s, Handled(t, v, s),
         SetMemory(s.mem), UNCHANGED <<app_loads, cr3, temp_pml4, app, abandoned>>,
         \/ s.ok /\ UNCHANGED <<pc, next>>
         \/ ~s.ok /\ Goto(t, "clean", kUserBegin)
         \/ ~s.ok /\ Goto(t, "halt", 0)
  PROVE  Keeps(t)
<1>0. /\ pc[t] # "idle" /\ pc[t] \notin Loading /\ pc[t] \in {"call", "run"} /\ TypeInv
      /\ cr3[t] \in Roots
  BY TaskSpace DEF IInv, Loading
<1>1. PICK w \in BOOLEAN :
        /\ pc[t] \in Loading \/ w
        /\ SetUpResult(used, page_map, content, Roots, Owners, cr3[t], v, w, s)
  BY DEF Handled
<1> DEFINE D == s.mem.content
           ok == s.ok
<1>2. /\ used' = s.mem.used /\ page_map' = s.mem.page_map /\ content' = D
  BY DEF SetMemory
<1>3. PageSetUp(used, page_map, content, Roots, Owners, cr3[t], v, w, used', page_map', D, ok)
  BY <1>1, <1>2 DEF SetUpResult
<1>4. ok \/ ~ok
  OBVIOUS
<1>5. \/ ok /\ UNCHANGED <<pc, next>>
      \/ ~ok /\ Goto(t, "clean", kUserBegin)
      \/ ~ok /\ Goto(t, "halt", 0)
  OBVIOUS

<1>6. ContentKept(t) /\ Sound(used', page_map', Roots, Owners)
  <2>1. IsContent(D) /\ (\A f \in used : D[f] = content[f]) /\ Sound(used', page_map', Roots, Owners)
    BY <1>3 DEF PageSetUp, PageKept
  <2> HIDE DEF D
  <2> QED BY <1>2, <2>1 DEF ContentKept
<1>7. ok => \A V : AllAt(page_map, cr3[t], V) => AllAt(page_map', cr3[t], V)
  <2>1. \A x \in Page : x # v => At(page_map', cr3[t], x) = At(page_map, cr3[t], x)
    BY <1>0, <1>3 DEF PageSetUp, PageKept
  <2>2. ok => At(page_map', cr3[t], v).present
    BY <1>3 DEF PageSetUp, PageIn
  <2> QED BY <2>1, <2>2 DEF AllAt
<1>8. ASSUME NEW p \in Pc \ {"idle"}, NEW k \in Int, Goto(t, p, k), p \notin Loading, p = "halt" => ok = FALSE,
             LoadingOK(page_map', p, cr3[t], app[t], k),
             CopyingOK(page_map', p, cr3[t], temp_pml4[t], app[t], k),
             ReadyOK(page_map', p, cr3[t], app[t], k), CleaningOK(page_map', p, cr3[t], k)
      PROVE  Keeps(t)
  <2>1. /\ p # "idle" => (p \in Loading <=> pc[t] \in Loading)
        /\ abandoned' \in BOOLEAN /\ (~abandoned' => ~abandoned /\ p # "idle")
        /\ p \in Pc /\ UNCHANGED <<app_loads, cr3, temp_pml4, app>>
    BY <1>0, <1>8 DEF TypeInv
  <2>2. (pc[t] \in Loading \/ w) /\ pc[t] # "idle" /\ ContentKept(t)
    BY <1>0, <1>1, <1>6
  <2>3. /\ p \in Pc /\ k \in Int /\ Goto(t, p, k) /\ (p = "halt" => ok = FALSE)
        /\ LoadingOK(page_map', p, cr3[t], app[t], k)
        /\ CopyingOK(page_map', p, cr3[t], temp_pml4[t], app[t], k)
        /\ ReadyOK(page_map', p, cr3[t], app[t], k) /\ CleaningOK(page_map', p, cr3[t], k)
    BY <1>8
  <2> QED BY <1>3, <2>1, <2>2, <2>3, SetUpKeepsIInv
<1>9. CASE ok /\ UNCHANGED <<pc, next>>
  <2>1. Goto(t, pc[t], next[t]) /\ pc[t] \in Pc /\ next[t] \in Int
    BY <1>0, <1>9, GotoSame
  <2>2. /\ AllAt(page_map', cr3[t], ImagePages(app[t])) /\ AllAt(page_map', cr3[t], StackPages)
        /\ AllAt(page_map', cr3[t], {ArgsPage})
    BY <1>0, <1>7, <1>9, RunningTask
  <2>3. /\ LoadingOK(page_map', pc[t], cr3[t], app[t], next[t])
        /\ CopyingOK(page_map', pc[t], cr3[t], temp_pml4[t], app[t], next[t])
        /\ ReadyOK(page_map', pc[t], cr3[t], app[t], next[t])
        /\ CleaningOK(page_map', pc[t], cr3[t], next[t])
    BY <1>0, <2>2, RunningOK
  <2> QED BY <1>0, <1>8, <2>1, <2>3
<1>10. CASE ~ok /\ Goto(t, "clean", kUserBegin)
  <2> DEFINE p == "clean"
             k == kUserBegin
  <2>1. p \in Pc \ {"idle"} /\ p \notin Loading /\ Goto(t, p, k) /\ (p = "halt" => ok = FALSE)
    BY <1>10 DEF Pc, Loading
  <2>2. /\ LoadingOK(page_map', p, cr3[t], app[t], k)
        /\ CopyingOK(page_map', p, cr3[t], temp_pml4[t], app[t], k)
        /\ ReadyOK(page_map', p, cr3[t], app[t], k) /\ CleaningOK(page_map', p, cr3[t], k)
        /\ k \in Int
    BY <1>0, <1>6, FirstToClean
  <2> HIDE DEF p, k
  <2> QED BY <1>8, <2>1, <2>2
<1>11. CASE ~ok /\ Goto(t, "halt", 0)
  <2> DEFINE p == "halt"
             k == 0
  <2>1. p \in Pc \ {"idle"} /\ p \notin Loading /\ Goto(t, p, k) /\ (p = "halt" => ok = FALSE) /\ k \in Int
    BY <1>11 DEF Pc, Loading
  <2>2. /\ LoadingOK(page_map', p, cr3[t], app[t], k)
        /\ CopyingOK(page_map', p, cr3[t], temp_pml4[t], app[t], k)
        /\ ReadyOK(page_map', p, cr3[t], app[t], k) /\ CleaningOK(page_map', p, cr3[t], k)
    BY DEF LoadingOK, CopyingOK, ReadyOK, CleaningOK
  <2> HIDE DEF p, k
  <2> QED BY <1>8, <2>1, <2>2
<1> QED BY <1>5, <1>9, <1>10, <1>11

LEMMA PageFaultKeepsIInv ==
  ASSUME IInv, ~Halted, NEW t \in Task, NEW v \in Touched, NEW rw \in BOOLEAN, PageFault(t, v, rw)
  PROVE  Keeps(t)
<1> DEFINE s == HandlePageFault(t, v, rw, TRUE)
<1>1. /\ pc[t] = "run" /\ SetMemory(s.mem)
      /\ UNCHANGED <<app_loads, cr3, temp_pml4, app, abandoned>>
      /\ IF s.ok THEN UNCHANGED <<pc, next>> ELSE Leave(t)
  BY DEF PageFault
<1>2. At(page_map, cr3[t], v).present => ~At(page_map, cr3[t], v).writable
  BY MemoryIsMem DEF PageFault
<1>3. v \in Page
  BY SizeAssumption
<1>4. Refused(t, v, s) \/ Handled(t, v, s)
  <2>1. \A user \in BOOLEAN :
          Refused(t, v, HandlePageFault(t, v, rw, user)) \/ Handled(t, v, HandlePageFault(t, v, rw, user))
    BY <1>1, <1>2, <1>3, FaultHandled
  <2> QED BY <2>1
<1> HIDE DEF s
<1>5. CASE Refused(t, v, s)
  <2>1. s.mem = Memory /\ ~s.ok
    BY <1>5 DEF Refused
  <2>2. used' = used /\ page_map' = page_map /\ content' = content
    BY <1>1, <2>1 DEF SetMemory, Memory
  <2>3. ContentKept(t)
    BY <2>2 DEF IInv, TypeInv, ContentKept
  <2> QED BY <1>1, <2>1, <2>2, <2>3, LeaveKeepsIInv
<1>6. CASE Handled(t, v, s)
  <2>1. \/ s.ok /\ UNCHANGED <<pc, next>>
        \/ ~s.ok /\ Goto(t, "clean", kUserBegin)
    BY <1>1 DEF Leave
  <2> QED BY <1>1, <1>3, <1>6, <2>1, HandledKeepsIInv
<1> QED BY <1>4, <1>5, <1>6

\* The kernel stores into a page that is there, or that it has set up.
LEMMA SystemCallKeepsIInv ==
  ASSUME IInv, ~Halted, NEW t \in Task, NEW v \in Touched, SystemCallStores(t, v),
         UNCHANGED <<app_loads, cr3, temp_pml4, app, abandoned>>
  PROVE  Keeps(t)
<1> DEFINE s == KernelStore(t, v)
           h == HandlePageFault(t, v, TRUE, FALSE)
           x == At(page_map, cr3[t], v)
<1>1. /\ pc[t] = "run" /\ v \in Buffer(t) /\ v \in Valid(t) /\ SetMemory(s.mem)
      /\ IF s.ok THEN UNCHANGED <<pc, next>> ELSE Goto(t, "halt", 0)
  BY DEF SystemCallStores, Buffer
<1>2. v \in Page /\ Leaf(Memory, cr3[t], v) = x
  BY SizeAssumption, MemoryIsMem
<1>3. CASE x.present
  <2>1. s.mem = Fill(Memory, cr3[t], v, Written) /\ s.ok
    BY <1>2, <1>3 DEF KernelStore
  <2>2. SharedBuffers \/ x.writable
    BY <1>1, <1>2, <1>3 DEF Buffer
  <2>3. used' = used /\ page_map' = page_map /\ ContentKept(t)
    <3>1. SetMemory(Fill(Memory, cr3[t], v, Written))
      BY <1>1, <2>1
    <3> QED BY <1>1, <1>2, <2>2, <3>1, StoreKeepsContent
  <2>4. UNCHANGED <<pc, next>>
    BY <1>1, <2>1
  <2> QED BY <1>1, <2>3, <2>4, RunKeepsIInv
<1>4. CASE ~x.present
  <2>1. s = IF h.ok THEN [h EXCEPT !.mem = Fill(@, cr3[t], v, Written)] ELSE h
    BY <1>2, <1>4 DEF KernelStore
  <2>2. Handled(t, v, h) /\ IsMem(h.mem) /\ (IsResult(h) \/ ~h.ok)
    <3>1. \A rw, user \in BOOLEAN : LET g == HandlePageFault(t, v, rw, user) IN
            Refused(t, v, g) \/ (Handled(t, v, g) /\ IsMem(g.mem) /\ (IsResult(g) \/ ~g.ok \/ user))
      BY <1>1, <1>2, <1>4, FaultHandled
    <3>2. Refused(t, v, h) \/ (Handled(t, v, h) /\ IsMem(h.mem) /\ (IsResult(h) \/ ~h.ok))
      BY <3>1
    <3>3. ~Refused(t, v, h)
      BY <1>1, <1>4 DEF Refused
    <3> QED BY <3>2, <3>3
  <2> HIDE DEF h
  <2>3. Handled(t, v, s) /\ (s.ok <=> h.ok)
    <3>1. CASE h.ok
      <4> DEFINE y == Written
                 z == [h EXCEPT !.mem = Fill(@, cr3[t], v, y)]
      <4>1. Handled(t, v, z) /\ (z.ok <=> h.ok)
        <5> HIDE DEF y
        <5> QED BY <2>2, <3>1, FilledIsHandled
      <4>2. s = z
        BY <2>1, <3>1
      <4> HIDE DEF s, z
      <4> QED BY <4>1, <4>2 DEF s
    <3>2. CASE ~h.ok
      BY <2>1, <2>2, <3>2
    <3> QED BY <3>1, <3>2
  <2> HIDE DEF s
  <2>4. \/ s.ok /\ UNCHANGED <<pc, next>>
        \/ ~s.ok /\ Goto(t, "clean", kUserBegin)
        \/ ~s.ok /\ Goto(t, "halt", 0)
    BY <1>1
  <2> QED BY <1>1, <1>2, <2>3, <2>4, HandledKeepsIInv
<1> QED BY <1>3, <1>4

LEMMA StoresKeepIInv ==
  ASSUME IInv, ~Halted, NEW t \in Task, NEW v \in Touched,
         ReadIntoBuffer(t, v) \/ \E fd \in DOMAIN File : MapFile(t, fd, v)
  PROVE  Keeps(t)
BY SystemCallKeepsIInv DEF ReadIntoBuffer, MapFile
-----------------------------------------------------------------------------
(* Copying page maps, and giving them back.                                *)

LEMMA StepKeepsIInv ==
  ASSUME IInv, ~Halted, NEW t \in Task, pc[t] # "idle",
         UNCHANGED <<app_loads, cr3, temp_pml4, app>>, ContentKept(t),
         Sound(used', page_map', Roots, Owners),
         \A r \in Roots \ {cr3[t]} : SameView(page_map, page_map', r),
         SharedOK(page_map', cr3[t], temp_pml4[t]),
         NEW p \in Pc \ {"halt"}, NEW k \in Int, Goto(t, p, k),
         p # "idle" => (p \in Loading <=> pc[t] \in Loading),
         abandoned' \in BOOLEAN,
         ~abandoned' => ~abandoned /\ p # "idle" /\
                        Accounted(used', page_map', Spaces \cup Cached, Owners),
         LoadingOK(page_map', p, cr3[t], app[t], k),
         CopyingOK(page_map', p, cr3[t], temp_pml4[t], app[t], k),
         ReadyOK(page_map', p, cr3[t], app[t], k), CleaningOK(page_map', p, cr3[t], k)
  PROVE  Keeps(t)
<1>1. /\ pc' \in [Task -> Pc] /\ pc'[t] = p /\ next' \in [Task -> Int] /\ next'[t] = k
      /\ \A u \in Task : u # t => pc'[u] = pc[u] /\ next'[u] = next[u]
  BY DEF Goto, IInv, TypeInv
<1>2. TaskOK(page_map', pc'[t], cr3[t], temp_pml4[t], app[t], next'[t])
  BY <1>1 DEF TaskOK
<1>3. OwnStep(t)
  BY <1>1, <1>2 DEF OwnStep
<1> QED BY <1>3, OwnStepKeepsIInv

\* The page map of entry e of q, copied to frame n as that of entry e of r.
CopiedTable(P, n, r, q, e) ==
  [[[P EXCEPT ![n] = NoEntries] EXCEPT ![r][e] = [P[q][e] EXCEPT !.frame = n]]
     EXCEPT ![n] = SharedReadOnly(P[Table(P, q, e)])]

WithCopy(m, r, q, e) ==
  LET src == m.page_map[q][e] IN
  [NewPageMap(m) EXCEPT
     !.page_map[r][e] = [src EXCEPT !.frame = NewFrame(m)],
     !.page_map[NewFrame(m)] = SharedReadOnly(m.page_map[src.frame])]

LEMMA CopyTableIs ==
  ASSUME NEW U, NEW P, NEW C, NEW r, NEW q, NEW e, NEW n, n = NewFrame(Mem(U, P, C))
  PROVE  WithCopy(Mem(U, P, C), r, q, e) =
         Mem(U \cup {n}, CopiedTable(P, n, r, q, e), Zeroed(C, n))
<1> DEFINE N == NewPageMap(Mem(U, P, C))
           y == [P[q][e] EXCEPT !.frame = n]
           z == SharedReadOnly(P[Table(P, q, e)])
           V == U \cup {n}
           Z == [P EXCEPT ![n] = NoEntries]
           Y == [Z EXCEPT ![r][e] = y]
           D == Zeroed(C, n)
           B == [N EXCEPT !.page_map[r][e] = y]
<1>1. N = [used |-> V, page_map |-> Z, content |-> D]
  BY DEF NewPageMap, Mem, Zeroed
<1>2. [N EXCEPT !.page_map[r][e] = y, !.page_map[n] = z] = [B EXCEPT !.page_map[n] = z]
  OBVIOUS
<1> HIDE DEF N
<1>3. B = [used |-> V, page_map |-> Y, content |-> D]
  <2> HIDE DEF V, Z, D, y
  <2> QED BY <1>1
<1> HIDE DEF B
<1>4. [B EXCEPT !.page_map[n] = z] = [used |-> V, page_map |-> [Y EXCEPT ![n] = z], content |-> D]
  <2> HIDE DEF V, Y, D, z
  <2> QED BY <1>3
<1>5. [Y EXCEPT ![n] = z] = CopiedTable(P, n, r, q, e)
  BY DEF CopiedTable
<1>6. z = SharedReadOnly(P[P[q][e].frame])
  BY DEF Table
<1> HIDE DEF y, z, Y
<1>7. [N EXCEPT !.page_map[r][e] = y, !.page_map[n] = z] = Mem(V, CopiedTable(P, n, r, q, e), D)
  BY <1>2, <1>4, <1>5 DEF Mem
<1>8. WithCopy(Mem(U, P, C), r, q, e) = [N EXCEPT !.page_map[r][e] = y, !.page_map[n] = z]
  <2>1. Mem(U, P, C).page_map = P
    BY MemFields
  <2> QED BY <1>6, <2>1 DEF WithCopy, N, y
<1> QED BY <1>7, <1>8 DEF V, D

LEMMA CopiedTablePut ==
  ASSUME NEW U, NEW P, NEW R, NEW O, Sound(U, P, R, O), NEW n \in Frame \ U,
         NEW r \in R \ O, NEW q \in O, NEW e \in UserEntry, Has(P, q, e)
  PROVE  /\ TablePut(P, CopiedTable(P, n, r, q, e), O, r, e, n)
         /\ \A l \in Entry :
              /\ CopiedTable(P, n, r, q, e)[n][l].present <=> LeafAt(P, q, e, l).present
              /\ CopiedTable(P, n, r, q, e)[n][l].frame = LeafAt(P, q, e, l).frame
<1> DEFINE T == Table(P, q, e)
           Z == [P EXCEPT ![n] = NoEntries]
           y == [P[q][e] EXCEPT !.frame = n]
           z == SharedReadOnly(P[T])
           Q == CopiedTable(P, n, r, q, e)
<1>1. /\ P \in [Frame -> [Entry -> PageMapEntry]] /\ e \in Entry
      /\ r \in Frame /\ q \in Frame /\ r # n /\ q # n /\ n \in Frame
      /\ T \in Frame /\ P[q][e].writable /\ P[q][e].present
  <2>1. FramesSound(U, P, R, O) /\ q \in R
    BY DEF Sound, FramesSound
  <2>2. e \in Entry
    BY Places
  <2>3. T \in U /\ P[q][e].writable
    BY <2>1, <2>2 DEF Sound, TablesSound, TableSound
  <2> QED BY <2>1, <2>2, <2>3 DEF FramesSound, Has
<1>2. Z \in [Frame -> [Entry -> PageMapEntry]] /\ Z[r] = P[r]
      /\ \A f \in Frame \ {n} : Z[f] = P[f]
  <2> HIDE DEF T, y, z, Q
  <2> QED BY <1>1, NoEntriesType
<1>3. y \in PageMapEntry /\ y.present /\ y.writable /\ y.frame = n
  <2>1. P[q][e] \in PageMapEntry
    BY <1>1
  <2> HIDE DEF T, z, Q
  <2> QED BY <1>1, <2>1 DEF PageMapEntry
<1>4. /\ z \in [Entry -> PageMapEntry]
      /\ \A l \in Entry : /\ ~z[l].writable /\ (z[l].present <=> P[T][l].present)
                          /\ z[l].frame = P[T][l].frame
  <2>1. \A l \in Entry : P[T][l] \in PageMapEntry
    BY <1>1
  <2> HIDE DEF T, y, Q
  <2> QED BY <2>1 DEF SharedReadOnly, PageMapEntry
<1>5. Q = [[Z EXCEPT ![r][e] = y] EXCEPT ![n] = z]
  BY DEF CopiedTable
<1> HIDE DEF T, Z, y, z, Q
<1>6. /\ Q \in [Frame -> [Entry -> PageMapEntry]] /\ Q[n] = z /\ Q[r][e] = y
      /\ \A d \in Entry \ {e} : Q[r][d] = P[r][d]
      /\ \A f \in Frame \ {n, r} : Q[f] = P[f]
  BY <1>1, <1>2, <1>3, <1>4, <1>5
<1>7. \A l \in Entry : LeafAt(P, q, e, l) = P[T][l]
  BY DEF LeafAt, T
<1>8. TablePut(P, Q, O, r, e, n)
  <2>1. \A l \in Entry : Q[n][l].present => HasPage(P, q, e, l) /\ LeafAt(P, q, e, l).frame = Q[n][l].frame
    BY <1>4, <1>6, <1>7 DEF HasPage
  <2> QED BY <1>1, <1>3, <1>4, <1>6, <2>1 DEF TablePut
<1> QED BY <1>4, <1>6, <1>7, <1>8 DEF Q
OnlyEntry(P, Q, R, r, e) ==
  \A q \in R, d \in Entry : <<q, d>> # <<r, e>> => SameEntry(P, Q, q, d)

LEMMA EntryViews ==
  ASSUME NEW P, NEW Q, NEW R, NEW r \in R, NEW e, OnlyEntry(P, Q, R, r, e)
  PROVE  /\ \A q \in R \ {r} : SameView(P, Q, q)
         /\ \A v \in Page : Upper(v) # e => At(Q, r, v) = At(P, r, v)
         /\ \A d \in Entry : d # e => (Has(Q, r, d) <=> Has(P, r, d))
<1>1. \A q \in R, d \in Entry : SameEntry(P, Q, q, d) => (Has(Q, q, d) <=> Has(P, q, d))
  BY DEF SameEntry, Has
<1>2. \A v \in Page : Upper(v) \in Entry
  BY Places
<1>3. \A q \in R, v \in Page : q # r \/ Upper(v) # e => At(Q, q, v) = At(P, q, v)
  BY <1>2, SameAt DEF OnlyEntry
<1>4. \A q \in R, d \in Entry : q # r \/ d # e => (Has(Q, q, d) <=> Has(P, q, d))
  BY <1>1 DEF OnlyEntry
<1> QED BY <1>3, <1>4 DEF SameView

LEMMA AtHasPage ==
  ASSUME NEW P, NEW r, NEW v \in Page
  PROVE  /\ At(P, r, v).present <=> HasPage(P, r, Upper(v), Lower(v))
         /\ At(P, r, v).present => At(P, r, v) = LeafAt(P, r, Upper(v), Lower(v))
BY DEF At, HasPage, Absent

\* Entry e of space r has become that of space q, whose pages it shares.
EntryCopied(U, P, V, Q, R, O, r, q, e) ==
  /\ Sound(V, Q, R, O) /\ OnlyEntry(P, Q, R, r, e)
  /\ \A l \in Entry :
       /\ HasPage(Q, r, e, l) <=> HasPage(P, q, e, l)
       /\ HasPage(Q, r, e, l) => LeafAt(Q, r, e, l).frame = LeafAt(P, q, e, l).frame
  /\ \A S \in SUBSET R : r \in S /\ Accounted(U, P, S, O) => Accounted(V, Q, S, O)

LEMMA NothingCopied ==
  ASSUME NEW U, NEW P, NEW R, NEW O, Sound(U, P, R, O), NEW r, NEW q, NEW e,
         ~Has(P, r, e), ~Has(P, q, e)
  PROVE  EntryCopied(U, P, U, P, R, O, r, q, e)
BY DEF EntryCopied, OnlyEntry, SameEntry, HasPage

LEMMA TableIsCopied ==
  ASSUME NEW U, NEW P, NEW R, NEW O, Sound(U, P, R, O), NEW n \in Frame \ U,
         NEW r \in R \ O, NEW q \in O, NEW e \in UserEntry, Has(P, q, e), ~Has(P, r, e)
  PROVE  EntryCopied(U, P, U \cup {n}, CopiedTable(P, n, r, q, e), R, O, r, q, e)
<1> DEFINE Q == CopiedTable(P, n, r, q, e)
           V == U \cup {n}
<1>1. /\ TablePut(P, Q, O, r, e, n)
      /\ \A l \in Entry : /\ Q[n][l].present <=> LeafAt(P, q, e, l).present
                          /\ Q[n][l].frame = LeafAt(P, q, e, l).frame
  BY CopiedTablePut
<1> HIDE DEF Q
<1>2. Sound(V, Q, R, O) /\ OneTable(P, Q, R, r, e, n)
  BY <1>1, NewTable
<1>3. \A l \in Entry :
        /\ HasPage(Q, r, e, l) <=> HasPage(P, q, e, l)
        /\ HasPage(Q, r, e, l) => LeafAt(Q, r, e, l).frame = LeafAt(P, q, e, l).frame
  BY <1>1, <1>2 DEF OneTable, HasPage
<1>4. ASSUME NEW S \in SUBSET R, r \in S, Accounted(U, P, S, O)
      PROVE  Accounted(V, Q, S, O)
  <2>1. e \in Entry /\ S \subseteq R
    BY Places
  <2> QED BY <1>2, <1>4, <2>1, AccountedNewTable
<1>5. OnlyEntry(P, Q, R, r, e)
  BY <1>2 DEF OneTable, OnlyEntry
<1> HIDE DEF V
<1>6. EntryCopied(U, P, V, Q, R, O, r, q, e)
  BY <1>2, <1>3, <1>4, <1>5 DEF EntryCopied
<1> QED BY <1>6 DEF Q, V

\* What CopyPageMaps goes on with.
CopyGoesOn(p, k, e) ==
  \/ e = kEntries - 1 /\ p = "args" /\ k = ArgsPage
  \/ e # kEntries - 1 /\ p = "copy" /\ k = e + 1

LEMMA AfterCopy ==
  ASSUME NEW Q, NEW r, NEW q, NEW a \in Elf, NEW e \in UserEntry,
         NoTables(Q, r, e + 1 .. kEntries - 1), AllAt(Q, q, ImagePages(a)),
         AllAt(Q, r, ImageBelow(a, e + 1)),
         NoneAt(Q, r, StackPage .. ArgsPage),
         NEW p, NEW k, CopyGoesOn(p, k, e)
  PROVE  /\ LoadingOK(Q, p, r, a, k) /\ CopyingOK(Q, p, r, q, a, k)
         /\ ReadyOK(Q, p, r, a, k) /\ CleaningOK(Q, p, r, k)
<1>1. p \in {"copy", "args"}
  BY DEF CopyGoesOn
<1>2. LoadingOK(Q, p, r, a, k) /\ CleaningOK(Q, p, r, k)
  BY <1>1 DEF LoadingOK, CleaningOK
<1>3. CASE p = "copy"
  <2>1. k = e + 1 /\ k \in UserEntry
    BY <1>3, SizeAssumption DEF CopyGoesOn, UserEntry, Entry
  <2>2. CopyingOK(Q, p, r, q, a, k)
    BY <1>3, <2>1 DEF CopyingOK
  <2>3. ReadyOK(Q, p, r, a, k)
    BY <1>3 DEF ReadyOK
  <2> QED BY <1>2, <2>2, <2>3
<1>4. CASE p = "args"
  <2>1. k = ArgsPage /\ e = kEntries - 1
    BY <1>4 DEF CopyGoesOn
  <2>2. \A v \in Page : v \in ImagePages(a) => Upper(v) < e + 1
    <3>1. \A v \in Page : Upper(v) \in UserEntry
      BY Places
    <3> QED BY <2>1, <3>1, SizeAssumption DEF UserEntry, Entry
  <2>3. AllAt(Q, r, ImagePages(a))
    BY <2>2 DEF AllAt, ImageBelow
  <2>4. CopyingOK(Q, p, r, q, a, k)
    BY <1>4 DEF CopyingOK
  <2>5. ReadyOK(Q, p, r, a, k)
    BY <1>4, <2>1, <2>3 DEF ReadyOK
  <2> QED BY <1>2, <2>4, <2>5
<1> QED BY <1>1, <1>3, <1>4
LEMMA CopiedViews ==
  ASSUME NEW U, NEW P, NEW V, NEW Q, NEW R, NEW O, Sound(U, P, R, O), NEW r \in R, NEW q \in O,
         q # r, NEW e \in UserEntry, EntryCopied(U, P, V, Q, R, O, r, q, e), NEW a \in Elf,
         SharedOK(P, r, q), NoTables(P, r, e .. kEntries - 1), AllAt(P, q, ImagePages(a)),
         AllAt(P, r, ImageBelow(a, e)), NoneAt(P, r, StackPage .. ArgsPage)
  PROVE  /\ \A x \in R \ {r} : SameView(P, Q, x)
         /\ SharedOK(Q, r, q)
         /\ NoTables(Q, r, e + 1 .. kEntries - 1) /\ AllAt(Q, q, ImagePages(a))
         /\ AllAt(Q, r, ImageBelow(a, e + 1))
         /\ NoneAt(Q, r, StackPage .. ArgsPage)
<1>1. /\ \A x \in R \ {r} : SameView(P, Q, x)
      /\ \A v \in Page : Upper(v) # e => At(Q, r, v) = At(P, r, v)
      /\ \A d \in Entry : d # e => (Has(Q, r, d) <=> Has(P, r, d))
  BY EntryViews DEF EntryCopied
<1>2. q \in R
  BY DEF Sound, FramesSound
<1>3. \A v \in Page : At(Q, q, v) = At(P, q, v)
  BY <1>1, <1>2 DEF SameView
<1>4. \A v \in Page : Upper(v) \in Int /\ Lower(v) \in Entry /\ SlotPage(Upper(v), Lower(v)) = v
  BY Places DEF UserEntry
<1>5. \A v \in Page : Upper(v) = e =>
        /\ At(Q, r, v).present <=> At(P, q, v).present
        /\ At(Q, r, v).present => At(Q, r, v).frame = At(P, q, v).frame
  <2> TAKE v \in Page
  <2> HAVE Upper(v) = e
  <2>1. /\ HasPage(Q, r, e, Lower(v)) <=> HasPage(P, q, e, Lower(v))
        /\ HasPage(Q, r, e, Lower(v)) =>
             LeafAt(Q, r, e, Lower(v)).frame = LeafAt(P, q, e, Lower(v)).frame
    BY <1>4 DEF EntryCopied
  <2>2. /\ At(Q, r, v).present <=> HasPage(Q, r, e, Lower(v))
        /\ At(Q, r, v).present => At(Q, r, v) = LeafAt(Q, r, e, Lower(v))
        /\ At(P, q, v).present <=> HasPage(P, q, e, Lower(v))
        /\ At(P, q, v).present => At(P, q, v) = LeafAt(P, q, e, Lower(v))
    BY AtHasPage
  <2> QED BY <2>1, <2>2
<1>6. SharedOK(Q, r, q)
  BY <1>1, <1>3, <1>5 DEF SharedOK
<1>7. NoTables(Q, r, e + 1 .. kEntries - 1)
  BY <1>1 DEF NoTables, Entry, UserEntry
<1>8. AllAt(Q, q, ImagePages(a))
  BY <1>3 DEF AllAt
<1>9. AllAt(Q, r, ImageBelow(a, e + 1))
  BY <1>1, <1>4, <1>5 DEF AllAt, UserEntry, ImageBelow
<1>10. NoneAt(Q, r, StackPage .. ArgsPage)
  <2>1. \A v \in Page : At(P, q, v).present => v < StackPage
    <3>1. \A v \in Page : Upper(v) \in Entry /\ Lower(v) \in Entry
      BY Places
    <3>2. \A d, l \in Entry : HasPage(P, q, d, l) => SlotPage(d, l) < StackPage
      BY DEF Sound, OwnersReadOnly
    <3> QED BY <1>4, <3>1, <3>2, AtHasPage
  <2>2. \A v \in Page : v \in StackPage .. ArgsPage => ~(v < StackPage)
    BY AreasOfPages
  <2> QED BY <1>1, <1>5, <2>1, <2>2 DEF NoneAt
<1> QED BY <1>1, <1>6, <1>7, <1>8, <1>9, <1>10

LEMMA CopyingTask ==
  ASSUME IInv, NEW t \in Task, pc[t] = "copy"
  PROVE  /\ pc[t] # "idle" /\ pc[t] \notin Loading /\ "args" \notin Loading /\ "copy" \notin Loading
         /\ cr3[t] \in Roots \ Owners /\ temp_pml4[t] \in Owners /\ temp_pml4[t] # cr3[t]
         /\ next[t] \in UserEntry /\ app[t] \in Elf
         /\ SharedOK(page_map, cr3[t], temp_pml4[t])
         /\ NoTables(page_map, cr3[t], next[t] .. kEntries - 1)
         /\ AllAt(page_map, temp_pml4[t], ImagePages(app[t]))
         /\ AllAt(page_map, cr3[t], ImageBelow(app[t], next[t]))
         /\ NoneAt(page_map, cr3[t], StackPage .. ArgsPage)
         /\ ~Has(page_map, cr3[t], next[t])
<1>1. pc[t] # "idle" /\ pc[t] \notin Loading /\ "args" \notin Loading /\ "copy" \notin Loading
  BY DEF Loading
<1>2. /\ cr3[t] \in Roots \ Owners /\ temp_pml4[t] \in Owners /\ temp_pml4[t] # cr3[t]
      /\ app[t] \in Elf
  BY <1>1, TaskSpace DEF IInv
<1>3. /\ SharedOK(page_map, cr3[t], temp_pml4[t])
      /\ CopyingOK(page_map, pc[t], cr3[t], temp_pml4[t], app[t], next[t])
  BY DEF IInv, TasksInv, TaskOK
<1>4. /\ next[t] \in UserEntry
      /\ NoTables(page_map, cr3[t], next[t] .. kEntries - 1)
      /\ AllAt(page_map, temp_pml4[t], ImagePages(app[t]))
      /\ AllAt(page_map, cr3[t], ImageBelow(app[t], next[t]))
      /\ NoneAt(page_map, cr3[t], StackPage .. ArgsPage)
  BY <1>3 DEF CopyingOK
<1>5. ~Has(page_map, cr3[t], next[t])
  BY <1>4, SizeAssumption DEF NoTables, UserEntry, Entry
<1> QED BY <1>1, <1>2, <1>3, <1>4, <1>5

\* There is no memory for a page map: ExecuteFile returns, and leaves the space.
LEMMA RefusedKeepsIInv ==
  ASSUME IInv, ~Halted, NEW t \in Task, pc[t] = "copy", ReturnError(t), UNCHANGED memory,
         UNCHANGED <<app_loads, cr3, temp_pml4, app>>
  PROVE  Keeps(t)
<1> DEFINE p == "idle"
           k == 0
<1>1. used' = used /\ page_map' = page_map /\ content' = content
  BY DEF memory
<1>2. ContentKept(t) /\ Sound(used', page_map', Roots, Owners)
  BY <1>1 DEF IInv, TypeInv, SpacesInv, ContentKept
<1>3. \A x \in Roots \ {cr3[t]} : SameView(page_map, page_map', x)
  BY <1>1 DEF SameView
<1>4. SharedOK(page_map', cr3[t], temp_pml4[t])
  BY <1>1, CopyingTask
<1>5. /\ LoadingOK(page_map', p, cr3[t], app[t], k)
      /\ CopyingOK(page_map', p, cr3[t], temp_pml4[t], app[t], k)
      /\ ReadyOK(page_map', p, cr3[t], app[t], k) /\ CleaningOK(page_map', p, cr3[t], k)
  BY NothingForIdle
<1>6. p \in Pc \ {"halt"} /\ k \in Int /\ Goto(t, p, k)
  BY DEF ReturnError, Pc
<1>7. p # "idle" => (p \in Loading <=> pc[t] \in Loading)
  OBVIOUS
<1>8. abandoned' \in BOOLEAN
  BY DEF ReturnError
<1>9. ~abandoned' => ~abandoned /\ p # "idle" /\
                     Accounted(used', page_map', Spaces \cup Cached, Owners)
  BY DEF ReturnError
<1>10. pc[t] # "idle"
  OBVIOUS
<1> HIDE DEF p, k
<1> QED BY <1>2, <1>3, <1>4, <1>5, <1>6, <1>7, <1>8, <1>9, <1>10, StepKeepsIInv

LEMMA EntryCopiedKeepsIInv ==
  ASSUME IInv, ~Halted, NEW t \in Task, pc[t] = "copy",
         UNCHANGED <<app_loads, cr3, temp_pml4, app, abandoned>>, ContentKept(t),
         EntryCopied(used, page_map, used', page_map', Roots, Owners,
                     cr3[t], temp_pml4[t], next[t]),
         NEW p, NEW k, CopyGoesOn(p, k, next[t]), Goto(t, p, k)
  PROVE  Keeps(t)
<1> DEFINE r == cr3[t]
           q == temp_pml4[t]
           e == next[t]
<1>1. Sound(used, page_map, Roots, Owners) /\ TypeInv /\ RootsInv
  BY DEF IInv, SpacesInv
<1>2. /\ \A x \in Roots \ {r} : SameView(page_map, page_map', x)
      /\ SharedOK(page_map', r, q)
      /\ NoTables(page_map', r, e + 1 .. kEntries - 1) /\ AllAt(page_map', q, ImagePages(app[t]))
      /\ AllAt(page_map', r, ImageBelow(app[t], e + 1))
      /\ NoneAt(page_map', r, StackPage .. ArgsPage)
  <2>1. /\ r \in Roots /\ q \in Owners /\ q # r /\ e \in UserEntry /\ app[t] \in Elf
        /\ SharedOK(page_map, r, q) /\ NoTables(page_map, r, e .. kEntries - 1)
        /\ AllAt(page_map, q, ImagePages(app[t]))
        /\ AllAt(page_map, r, ImageBelow(app[t], e))
        /\ NoneAt(page_map, r, StackPage .. ArgsPage)
    BY CopyingTask
  <2>2. EntryCopied(used, page_map, used', page_map', Roots, Owners, r, q, e)
    OBVIOUS
  <2> HIDE DEF r, q, e
  <2> QED BY <1>1, <2>1, <2>2, CopiedViews
<1>3. /\ LoadingOK(page_map', p, r, app[t], k) /\ CopyingOK(page_map', p, r, q, app[t], k)
      /\ ReadyOK(page_map', p, r, app[t], k) /\ CleaningOK(page_map', p, r, k)
  BY <1>2, CopyingTask, AfterCopy
<1>4. p \in Pc \ {"halt"} /\ k \in Int /\ p # "idle" /\ (p \in Loading <=> pc[t] \in Loading)
  <2>1. ArgsPage \in Int /\ e \in Int
    BY <1>1, AreasOfPages DEF TypeInv
  <2>2. (p = "args" /\ k = ArgsPage) \/ (p = "copy" /\ k = e + 1)
    BY DEF CopyGoesOn
  <2>3. p \in Pc \ {"halt"} /\ p # "idle" /\ k \in Int
    BY <2>1, <2>2 DEF Pc
  <2>4. p \notin Loading /\ pc[t] \notin Loading
    BY <2>2 DEF Loading
  <2> QED BY <2>3, <2>4
<1>5. Sound(used', page_map', Roots, Owners)
  BY DEF EntryCopied
<1>6. abandoned' \in BOOLEAN /\ (~abandoned' => ~abandoned /\ p # "idle" /\
                        Accounted(used', page_map', Spaces \cup Cached, Owners))
  <2>1. Spaces \cup Cached \in SUBSET Roots /\ r \in Spaces \cup Cached
    BY <1>1, CopyingTask, RootsOfOthers, TaskSpace
  <2>2. ~abandoned => Accounted(used, page_map, Spaces \cup Cached, Owners)
    BY DEF IInv, LeakInv
  <2>3. Accounted(used, page_map, Spaces \cup Cached, Owners) =>
          Accounted(used', page_map', Spaces \cup Cached, Owners)
    BY <2>1 DEF EntryCopied
  <2> QED BY <1>1, <1>4, <2>2, <2>3 DEF TypeInv
<1> QED BY <1>2, <1>3, <1>4, <1>5, <1>6, CopyingTask, StepKeepsIInv

\* CopyPageMaps refuses, or shares the pages of one more entry.
LEMMA CopyPageMapCases ==
  ASSUME IInv, NEW t \in Task, CopyPageMap(t)
  PROVE  /\ pc[t] = "copy" /\ UNCHANGED <<app_loads, cr3, temp_pml4, app>>
         /\ \/ ReturnError(t) /\ UNCHANGED memory
            \/ /\ \E p, k : CopyGoesOn(p, k, next[t]) /\ Goto(t, p, k)
               /\ UNCHANGED abandoned /\ ContentKept(t)
               /\ EntryCopied(used, page_map, used', page_map', Roots, Owners,
                              cr3[t], temp_pml4[t], next[t])
               /\ \A f \in used : content'[f] = content[f]
<1> DEFINE e == next[t]
           r == cr3[t]
           q == temp_pml4[t]
           src == page_map[q][e]
           n == NewFrame(Memory)
           p == IF e = kEntries - 1 THEN "args" ELSE "copy"
           k == IF e = kEntries - 1 THEN ArgsPage ELSE e + 1
           copied == [NewPageMap(Memory) EXCEPT
                        !.page_map[r][e] = [src EXCEPT !.frame = n],
                        !.page_map[n] = SharedReadOnly(page_map[src.frame])]
<1>1. pc[t] = "copy" /\ UNCHANGED <<app_loads, cr3, temp_pml4, app>>
  BY DEF CopyPageMap
<1>2. Sound(used, page_map, Roots, Owners) /\ TypeInv /\ RootsInv
  BY DEF IInv, SpacesInv
<1>3. Memory = Mem(used, page_map, content) /\ Memory.used = used
      /\ Memory.page_map = page_map /\ Memory.content = content
  BY MemoryIsMem, MemFields
<1>4. \/ ReturnError(t) /\ UNCHANGED memory
      \/ ~src.present /\ SetMemory(Memory) /\ Goto(t, p, k) /\ UNCHANGED abandoned
      \/ src.present /\ ~Full(Memory) /\ SetMemory(copied) /\ Goto(t, p, k) /\ UNCHANGED abandoned
  BY DEF CopyPageMap
<1>5. CopyGoesOn(p, k, e)
  BY DEF CopyGoesOn
<1> HIDE DEF p, k
<1>6. CASE ReturnError(t) /\ UNCHANGED memory
  BY <1>1, <1>6
<1>7. CASE ~src.present /\ SetMemory(Memory) /\ Goto(t, p, k) /\ UNCHANGED abandoned
  <2>1. used' = used /\ page_map' = page_map /\ content' = content
    BY <1>3, <1>7 DEF SetMemory
  <2>2. ContentKept(t)
    BY <1>2, <2>1 DEF TypeInv, ContentKept
  <2>3. ~Has(page_map, r, e) /\ ~Has(page_map, q, e)
    BY <1>1, <1>7, CopyingTask DEF Has
  <2> HIDE DEF r, q, e
  <2>4. EntryCopied(used, page_map, used', page_map', Roots, Owners, r, q, e)
    BY <1>2, <2>1, <2>3, NothingCopied
  <2> QED BY <1>1, <1>5, <1>7, <2>1, <2>2, <2>4 DEF r, q, e
<1>8. CASE src.present /\ ~Full(Memory) /\ SetMemory(copied) /\ Goto(t, p, k) /\ UNCHANGED abandoned
  <2>1. n \in Frame \ used
    BY <1>2, <1>3, <1>8, FreshFrame DEF Sound, FramesSound
  <2>2. copied = Mem(used \cup {n}, CopiedTable(page_map, n, r, q, e), Zeroed(content, n))
    <3>1. copied = WithCopy(Memory, r, q, e)
      BY <1>3 DEF WithCopy
    <3>2. n = NewFrame(Mem(used, page_map, content))
      BY <1>3
    <3> HIDE DEF copied, r, q, e, n
    <3>3. WithCopy(Mem(used, page_map, content), r, q, e) =
            Mem(used \cup {n}, CopiedTable(page_map, n, r, q, e), Zeroed(content, n))
      BY <3>2, CopyTableIs
    <3> QED BY <1>3, <3>1, <3>3
  <2> HIDE DEF copied
  <2>3. /\ used' = used \cup {n} /\ page_map' = CopiedTable(page_map, n, r, q, e)
        /\ content' = Zeroed(content, n)
    BY <1>8, <2>2, MemFields DEF SetMemory
  <2>4. ContentKept(t) /\ \A f \in used : content'[f] = content[f]
    <3>1. IsContent(Zeroed(content, n)) /\ \A f \in Frame \ {n} : Zeroed(content, n)[f] = content[f]
      <4> HIDE DEF n
      <4> QED BY <1>2 DEF IsContent, Zeroed, TypeInv
    <3>2. used \subseteq Frame
      BY <1>2 DEF Sound, FramesSound
    <3> HIDE DEF n
    <3> QED BY <2>1, <2>3, <3>1, <3>2 DEF ContentKept
  <2>5. Has(page_map, q, e) /\ ~Has(page_map, r, e)
    BY <1>1, <1>8, CopyingTask DEF Has
  <2>6. r \in Roots \ Owners /\ q \in Owners /\ e \in UserEntry
    BY <1>1, CopyingTask
  <2> HIDE DEF r, q, e, n
  <2>7. EntryCopied(used, page_map, used', page_map', Roots, Owners, r, q, e)
    BY <1>2, <2>1, <2>3, <2>5, <2>6, TableIsCopied
  <2> QED BY <1>1, <1>5, <1>8, <2>4, <2>7 DEF r, q, e
<1> QED BY <1>4, <1>6, <1>7, <1>8

LEMMA CopyPageMapKeepsIInv ==
  ASSUME IInv, ~Halted, NEW t \in Task, CopyPageMap(t)
  PROVE  Keeps(t)
BY CopyPageMapCases, RefusedKeepsIInv, EntryCopiedKeepsIInv

LEMMA AccountedEntryLess ==
  ASSUME NEW U, NEW P, NEW R, NEW O, Sound(U, P, R, O), NEW r \in R \ O, NEW e \in Entry,
         NEW F, NEW Q, EntryCleaned(P, Q, r, e, F), OneEntryLess(P, Q, R, r, e),
         NEW S \in SUBSET R, Accounted(U, P, S, O)
  PROVE  Accounted(U \ F, Q, S, O)
<1>1. \A q \in S, d \in Entry : <<q, d>> # <<r, e>> =>
        /\ Has(Q, q, d) <=> Has(P, q, d)
        /\ Table(Q, q, d) = Table(P, q, d)
        /\ Has(P, q, d) => \A k \in Entry : LeafAt(Q, q, d, k) = LeafAt(P, q, d, k)
  BY DEF OneEntryLess, SameEntry, Has, Table
<1>2. Table(P, r, e) \in F
  BY DEF EntryCleaned
<1>3. \A k \in Entry : HasPage(P, r, e, k) /\ LeafAt(P, r, e, k).writable => LeafAt(P, r, e, k).frame \in F
  BY DEF EntryCleaned, FreedPages, LeafAt
<1>4. ASSUME NEW f \in U \ F, NEW q \in S, PartOf(P, O, q, f)
      PROVE  PartOf(Q, O, q, f)
  <2>1. CASE f = q
    BY <2>1 DEF PartOf
  <2>2. CASE \E d \in Entry : Has(P, q, d) /\ f = Table(P, q, d)
    BY <1>1, <1>2, <2>2 DEF PartOf
  <2>3. CASE \E d, k \in Entry :
               /\ HasPage(P, q, d, k) /\ f = LeafAt(P, q, d, k).frame
               /\ q \in O \/ LeafAt(P, q, d, k).writable
    <3>1. PICK d \in Entry, k \in Entry :
            /\ HasPage(P, q, d, k) /\ f = LeafAt(P, q, d, k).frame
            /\ q \in O \/ LeafAt(P, q, d, k).writable
      BY <2>3
    <3>2. <<q, d>> # <<r, e>>
      BY <1>3, <3>1
    <3>3. HasPage(Q, q, d, k) /\ LeafAt(Q, q, d, k) = LeafAt(P, q, d, k)
      BY <1>1, <3>1, <3>2 DEF HasPage
    <3> QED BY <3>1, <3>3 DEF PartOf
  <2> QED BY <1>4, <2>1, <2>2, <2>3 DEF PartOf
<1> QED BY <1>4 DEF Accounted

\* Entry e of space r is there no more, and nothing else is missing.
EntryLost(U, P, V, Q, R, O, r, e) ==
  /\ Sound(V, Q, R, O) /\ OnlyEntry(P, Q, R, r, e) /\ ~Has(Q, r, e)
  /\ \A S \in SUBSET R : Accounted(U, P, S, O) => Accounted(V, Q, S, O)

LEMMA NothingToClean ==
  ASSUME NEW U, NEW P, NEW R, NEW O, Sound(U, P, R, O), NEW r, NEW e, ~Has(P, r, e)
  PROVE  EntryLost(U, P, U, P, R, O, r, e)
BY DEF EntryLost, OnlyEntry, SameEntry

LEMMA EntryIsLost ==
  ASSUME NEW U, NEW P, NEW R, NEW O, Sound(U, P, R, O), NEW r \in R \ O, NEW e \in Entry,
         Has(P, r, e), NEW F, NEW Q, EntryCleaned(P, Q, r, e, F)
  PROVE  EntryLost(U, P, U \ F, Q, R, O, r, e)
<1>1. Sound(U \ F, Q, R, O) /\ OneEntryLess(P, Q, R, r, e)
  BY CleanEntry
<1>2. \A S \in SUBSET R : Accounted(U, P, S, O) => Accounted(U \ F, Q, S, O)
  BY <1>1, AccountedEntryLess
<1> QED BY <1>1, <1>2 DEF EntryLost, OneEntryLess, OnlyEntry

LEMMA LostViews ==
  ASSUME NEW U, NEW P, NEW V, NEW Q, NEW R, NEW O, NEW r \in R, NEW q, q # None => q \in R \ {r},
         NEW e \in UserEntry, EntryLost(U, P, V, Q, R, O, r, e),
         SharedOK(P, r, q), NoTables(P, r, 0 .. e - 1)
  PROVE  /\ \A x \in R \ {r} : SameView(P, Q, x)
         /\ SharedOK(Q, r, q) /\ NoTables(Q, r, 0 .. e)
<1>1. /\ \A x \in R \ {r} : SameView(P, Q, x)
      /\ \A v \in Page : Upper(v) # e => At(Q, r, v) = At(P, r, v)
      /\ \A d \in Entry : d # e => (Has(Q, r, d) <=> Has(P, r, d))
  BY EntryViews DEF EntryLost
<1>2. \A v \in Page : Upper(v) = e => ~At(Q, r, v).present
  BY DEF EntryLost, At, Absent
<1>3. q # None => \A v \in Page : At(Q, q, v) = At(P, q, v)
  BY <1>1 DEF SameView
<1>4. SharedOK(Q, r, q)
  BY <1>1, <1>2, <1>3 DEF SharedOK
<1>5. NoTables(Q, r, 0 .. e)
  BY <1>1 DEF NoTables, EntryLost, UserEntry, Entry
<1> QED BY <1>1, <1>4, <1>5

\* What CleanPageMaps goes on with.
CleanGoesOn(p, k, e) ==
  \/ e = kEntries - 1 /\ p = "free" /\ k = 0
  \/ e # kEntries - 1 /\ p = "clean" /\ k = e + 1

LEMMA AfterClean ==
  ASSUME NEW Q, NEW r, NEW q, NEW a, NEW e \in UserEntry, NoTables(Q, r, 0 .. e),
         NEW p, NEW k, CleanGoesOn(p, k, e)
  PROVE  /\ LoadingOK(Q, p, r, a, k) /\ CopyingOK(Q, p, r, q, a, k)
         /\ ReadyOK(Q, p, r, a, k) /\ CleaningOK(Q, p, r, k)
<1>1. p \in {"clean", "free"}
  BY DEF CleanGoesOn
<1>2. LoadingOK(Q, p, r, a, k) /\ CopyingOK(Q, p, r, q, a, k) /\ ReadyOK(Q, p, r, a, k)
  BY <1>1 DEF LoadingOK, CopyingOK, ReadyOK
<1>3. CASE p = "clean"
  <2>1. k = e + 1 /\ k \in UserEntry /\ k - 1 = e
    BY <1>3, SizeAssumption DEF CleanGoesOn, UserEntry, Entry
  <2> QED BY <1>2, <1>3, <2>1 DEF CleaningOK
<1>4. CASE p = "free"
  <2>1. e = kEntries - 1
    BY <1>4 DEF CleanGoesOn
  <2>2. NoTables(Q, r, Entry)
    BY <2>1 DEF NoTables, Entry
  <2> QED BY <1>2, <1>4, <2>2 DEF CleaningOK
<1> QED BY <1>1, <1>3, <1>4

LEMMA CleaningTask ==
  ASSUME IInv, NEW t \in Task, pc[t] = "clean"
  PROVE  /\ pc[t] # "idle" /\ pc[t] \notin Loading
         /\ cr3[t] \in Roots \ Owners
         /\ temp_pml4[t] # None => temp_pml4[t] \in Roots \ {cr3[t]}
         /\ next[t] \in UserEntry /\ next[t] \in Entry
         /\ SharedOK(page_map, cr3[t], temp_pml4[t])
         /\ NoTables(page_map, cr3[t], 0 .. next[t] - 1)
<1>1. pc[t] # "idle" /\ pc[t] \notin Loading /\ TypeInv /\ RootsInv
  BY DEF Loading, IInv
<1>2. /\ cr3[t] \in Roots \ Owners
      /\ temp_pml4[t] # None => temp_pml4[t] \in Roots /\ temp_pml4[t] # cr3[t]
  BY <1>1, TaskSpace
<1>3. /\ SharedOK(page_map, cr3[t], temp_pml4[t])
      /\ CleaningOK(page_map, pc[t], cr3[t], next[t])
  BY DEF IInv, TasksInv, TaskOK
<1>4. next[t] \in UserEntry /\ NoTables(page_map, cr3[t], 0 .. next[t] - 1)
  BY <1>3 DEF CleaningOK
<1> QED BY <1>1, <1>2, <1>3, <1>4, Places

LEMMA EntryLostKeepsIInv ==
  ASSUME IInv, ~Halted, NEW t \in Task, pc[t] = "clean",
         UNCHANGED <<app_loads, cr3, temp_pml4, app, abandoned>>, ContentKept(t),
         EntryLost(used, page_map, used', page_map', Roots, Owners, cr3[t], next[t]),
         NEW p, NEW k, CleanGoesOn(p, k, next[t]), Goto(t, p, k)
  PROVE  Keeps(t)
<1> DEFINE r == cr3[t]
           q == temp_pml4[t]
           e == next[t]
<1>1. TypeInv /\ RootsInv
  BY DEF IInv
<1>2. /\ \A x \in Roots \ {r} : SameView(page_map, page_map', x)
      /\ SharedOK(page_map', r, q) /\ NoTables(page_map', r, 0 .. e)
  <2>1. /\ r \in Roots /\ (q # None => q \in Roots \ {r}) /\ e \in UserEntry
        /\ SharedOK(page_map, r, q) /\ NoTables(page_map, r, 0 .. e - 1)
    BY CleaningTask
  <2>2. EntryLost(used, page_map, used', page_map', Roots, Owners, r, e)
    OBVIOUS
  <2> HIDE DEF r, q, e
  <2> QED BY <2>1, <2>2, LostViews
<1>3. /\ LoadingOK(page_map', p, r, app[t], k) /\ CopyingOK(page_map', p, r, q, app[t], k)
      /\ ReadyOK(page_map', p, r, app[t], k) /\ CleaningOK(page_map', p, r, k)
  BY <1>2, CleaningTask, AfterClean
<1>4. p \in Pc \ {"halt"} /\ k \in Int /\ p # "idle" /\ (p \in Loading <=> pc[t] \in Loading)
  <2>1. e \in Int
    BY <1>1 DEF TypeInv
  <2>2. (p = "free" /\ k = 0) \/ (p = "clean" /\ k = e + 1)
    BY DEF CleanGoesOn
  <2>3. p \in Pc \ {"halt"} /\ p # "idle" /\ k \in Int
    BY <2>1, <2>2 DEF Pc
  <2>4. p \notin Loading /\ pc[t] \notin Loading
    BY <2>2 DEF Loading
  <2> QED BY <2>3, <2>4
<1>5. Sound(used', page_map', Roots, Owners)
  BY DEF EntryLost
<1>6. abandoned' \in BOOLEAN /\ (~abandoned' => ~abandoned /\ p # "idle" /\
                        Accounted(used', page_map', Spaces \cup Cached, Owners))
  <2>1. Spaces \cup Cached \in SUBSET Roots
    BY <1>1, CleaningTask, RootsOfOthers
  <2>2. ~abandoned => Accounted(used, page_map, Spaces \cup Cached, Owners)
    BY DEF IInv, LeakInv
  <2>3. Accounted(used, page_map, Spaces \cup Cached, Owners) =>
          Accounted(used', page_map', Spaces \cup Cached, Owners)
    BY <2>1 DEF EntryLost
  <2> QED BY <1>1, <1>4, <2>2, <2>3 DEF TypeInv
<1> QED BY <1>2, <1>3, <1>4, <1>5, <1>6, CleaningTask, StepKeepsIInv

FreedMaps(P, F) == [f \in Frame |-> IF f \in F THEN NoEntries ELSE P[f]]
CleanedMaps(P, F, r, e) == [FreedMaps(P, F) EXCEPT ![r][e] = Absent]
FreedContent(C, F) == [f \in Frame |-> IF f \in F THEN Stale ELSE C[f]]
WithoutEntry(m, F, r, e) == [Free(m, F) EXCEPT !.page_map[r][e] = Absent]

LEMMA FreeIs ==
  ASSUME NEW U, NEW P, NEW C, NEW F
  PROVE  Free(Mem(U, P, C), F) = Mem(U \ F, FreedMaps(P, F), FreedContent(C, F))
BY DEF Free, Mem, FreedMaps, FreedContent

LEMMA CleanIs ==
  ASSUME NEW U, NEW P, NEW C, NEW F, NEW r, NEW e
  PROVE  WithoutEntry(Mem(U, P, C), F, r, e) =
           Mem(U \ F, CleanedMaps(P, F, r, e), FreedContent(C, F))
<1> DEFINE V == U \ F
           Q == FreedMaps(P, F)
           D == FreedContent(C, F)
           N == Free(Mem(U, P, C), F)
<1>1. N = [used |-> V, page_map |-> Q, content |-> D]
  BY FreeIs DEF Mem
<1> HIDE DEF N, V, Q, D
<1>2. [N EXCEPT !.page_map[r][e] = Absent] =
        [used |-> V, page_map |-> [Q EXCEPT ![r][e] = Absent], content |-> D]
  BY <1>1
<1> QED BY <1>2 DEF WithoutEntry, CleanedMaps, Mem, N, V, Q, D

LEMMA CleanedPut ==
  ASSUME NEW P \in [Frame -> [Entry -> PageMapEntry]], NEW r \in Frame, NEW e \in Entry,
         NEW F, F = FreedPages(P[Table(P, r, e)]) \cup {Table(P, r, e)}, r \notin F
  PROVE  EntryCleaned(P, CleanedMaps(P, F, r, e), r, e, F)
<1> DEFINE Z == FreedMaps(P, F)
           Q == CleanedMaps(P, F, r, e)
<1>1. Z \in [Frame -> [Entry -> PageMapEntry]] /\ Z[r] = P[r]
      /\ \A f \in Frame : Z[f] = IF f \in F THEN NoEntries ELSE P[f]
  BY NoEntriesType DEF FreedMaps
<1>2. Q = [Z EXCEPT ![r][e] = Absent]
  BY DEF CleanedMaps
<1> HIDE DEF Z, Q
<1>3. Absent \in PageMapEntry
  BY NoEntriesType
<1>4. /\ Q \in [Frame -> [Entry -> PageMapEntry]]
      /\ Q[r][e] = Absent /\ (\A d \in Entry \ {e} : Q[r][d] = P[r][d])
      /\ \A f \in Frame \ {r} : Q[f] = Z[f]
  BY <1>1, <1>2, <1>3
<1>5. EntryCleaned(P, Q, r, e, F)
  BY <1>1, <1>4 DEF EntryCleaned
<1> QED BY <1>5 DEF Q

LEMMA CleanPageMapKeepsIInv ==
  ASSUME IInv, ~Halted, NEW t \in Task, CleanPageMap(t)
  PROVE  Keeps(t)
<1> DEFINE e == next[t]
           r == cr3[t]
           upper == page_map[r][e]
           F == FreedPages(page_map[upper.frame]) \cup
                  (IF upper.writable THEN {upper.frame} ELSE {})
           p == IF e = kEntries - 1 THEN "free" ELSE "clean"
           k == IF e = kEntries - 1 THEN 0 ELSE e + 1
           cleaned == [Free(Memory, F) EXCEPT !.page_map[r][e] = Absent]
<1>1. pc[t] = "clean" /\ UNCHANGED <<app_loads, cr3, temp_pml4, app, abandoned>> /\ Goto(t, p, k)
  BY DEF CleanPageMap
<1>2. Sound(used, page_map, Roots, Owners) /\ TypeInv
  BY DEF IInv, SpacesInv
<1>3. Memory = Mem(used, page_map, content) /\ Memory.used = used
      /\ Memory.page_map = page_map /\ Memory.content = content
  BY MemoryIsMem, MemFields
<1>4. IF ~upper.present THEN SetMemory(Memory) ELSE SetMemory(cleaned)
  BY DEF CleanPageMap
<1>5. CleanGoesOn(p, k, e)
  BY DEF CleanGoesOn
<1> HIDE DEF p, k, cleaned
<1>6. CASE ~upper.present
  <2>1. used' = used /\ page_map' = page_map /\ content' = content
    BY <1>3, <1>4, <1>6 DEF SetMemory
  <2>2. ContentKept(t)
    BY <1>2, <2>1 DEF TypeInv, ContentKept
  <2>3. ~Has(page_map, r, e)
    BY <1>6 DEF Has
  <2> HIDE DEF r, e
  <2>4. EntryLost(used, page_map, used', page_map', Roots, Owners, r, e)
    BY <1>2, <2>1, <2>3, NothingToClean
  <2> QED BY <1>1, <1>5, <2>2, <2>4, EntryLostKeepsIInv DEF r, e
<1>7. CASE upper.present
  <2>1. r \in Roots \ Owners /\ e \in Entry /\ r \in Frame
    BY <1>1, <1>2, CleaningTask DEF Sound, FramesSound
  <2>2. Has(page_map, r, e) /\ upper.frame = Table(page_map, r, e)
    BY <1>7 DEF Has, Table
  <2>3. upper.writable /\ Table(page_map, r, e) \in used \ Roots
    BY <1>2, <2>1, <2>2 DEF Sound, TablesSound, TableSound
  <2>4. F = FreedPages(page_map[Table(page_map, r, e)]) \cup {Table(page_map, r, e)}
    BY <2>2, <2>3
  <2>5. r \notin F
    <3>1. \A l \in Entry : LeafAt(page_map, r, e, l).writable => LeafAt(page_map, r, e, l).frame \notin Roots
      BY <1>2, <2>1, <2>2 DEF Sound, LeavesSound, LeafSound
    <3> HIDE DEF F
    <3> QED BY <2>1, <2>3, <2>4, <3>1 DEF FreedPages, LeafAt
  <2>6. cleaned = Mem(used \ F, CleanedMaps(page_map, F, r, e), FreedContent(content, F))
    <3>1. cleaned = WithoutEntry(Memory, F, r, e)
      BY DEF WithoutEntry, cleaned
    <3> HIDE DEF F, r, e
    <3> QED BY <1>3, <3>1, CleanIs
  <2>7. used' = used \ F /\ page_map' = CleanedMaps(page_map, F, r, e)
        /\ content' = FreedContent(content, F)
    <3> HIDE DEF F, r, e
    <3> QED BY <1>4, <1>7, <2>6, MemFields DEF SetMemory
  <2>8. ContentKept(t)
    <3>1. /\ IsContent(FreedContent(content, F))
          /\ \A f \in Frame \ F : FreedContent(content, F)[f] = content[f]
      <4> HIDE DEF F
      <4> QED BY DEF FreedContent, IsContent
    <3>2. used \subseteq Frame
      BY <1>2 DEF Sound, FramesSound
    <3> HIDE DEF F
    <3> QED BY <2>7, <3>1, <3>2 DEF ContentKept
  <2>9. page_map \in [Frame -> [Entry -> PageMapEntry]]
    BY <1>2 DEF Sound, FramesSound
  <2> HIDE DEF F, r, e
  <2>10. EntryCleaned(page_map, page_map', r, e, F)
    BY <2>1, <2>4, <2>5, <2>7, <2>9, CleanedPut
  <2>11. EntryLost(used, page_map, used', page_map', Roots, Owners, r, e)
    BY <1>2, <2>1, <2>2, <2>7, <2>10, EntryIsLost
  <2> QED BY <1>1, <1>5, <2>8, <2>11, EntryLostKeepsIInv DEF r, e
<1> QED BY <1>6, <1>7

-----------------------------------------------------------------------------
(* Address spaces come and go.                                             *)

\* The spaces of the others look the same.
OthersSame(t) ==
  \A u \in Task : u # t =>
    /\ cr3[u] # Kernel => SameView(page_map, page_map', cr3[u])
    /\ temp_pml4[u] # None => SameView(page_map, page_map', temp_pml4[u])

LEMMA RootStepKeepsIInv ==
  ASSUME IInv, ~Halted, NEW t \in Task, OthersStay(t), OthersSame(t),
         ContentKept(t), SpacesKept(t), TypeInv', RootsInv', SpacesInv', CachedInv', LeakInv', pc'[t] # "halt",
         TaskOK(page_map', pc'[t], cr3'[t], temp_pml4'[t], app'[t], next'[t])
  PROVE  Keeps(t)
<1>1. ASSUME NEW u \in Task, u # t
      PROVE  TaskOK(page_map', pc'[u], cr3'[u], temp_pml4'[u], app'[u], next'[u])
  <2>1. /\ pc'[u] = pc[u] /\ next'[u] = next[u] /\ app'[u] = app[u]
        /\ cr3'[u] = cr3[u] /\ temp_pml4'[u] = temp_pml4[u]
    BY <1>1 DEF OthersStay
  <2>2. TaskOK(page_map, pc[u], cr3[u], temp_pml4[u], app[u], next[u])
    BY DEF IInv, TasksInv
  <2>3. /\ cr3[u] # Kernel => SameView(page_map, page_map', cr3[u])
        /\ temp_pml4[u] # None => SameView(page_map, page_map', temp_pml4[u])
    BY <1>1 DEF OthersSame
  <2>4. (pc[u] # "idle" => cr3[u] # Kernel) /\ (pc[u] = "copy" => temp_pml4[u] # None)
    BY DEF IInv, RootsInv, Loading
  <2> QED BY <2>1, <2>2, <2>3, <2>4, SameTask
<1>2. TasksInv'
  BY <1>1 DEF TasksInv
<1>3. HaltsOnlyWhenFull'
  BY DEF OthersStay, HaltsOnlyWhenFull, Halted
<1> QED BY <1>2, <1>3 DEF IInv, Keeps

\* Task t gets a new space n (SetupPML4).
SpaceTaken(t, n) ==
  /\ n \in Frame \ used /\ used' = used \cup {n} /\ SpacePut(page_map, page_map', n)
  /\ ContentKept(t) /\ cr3' = [cr3 EXCEPT ![t] = n]

LEMMA SetupPML4Takes ==
  ASSUME IInv, NEW t \in Task, ~Full(Memory), SetupPML4(t)
  PROVE  SpaceTaken(t, NewFrame(Memory))
<1> DEFINE n == NewFrame(Memory)
<1>1. Memory.used = used /\ Memory.page_map = page_map /\ Memory.content = content
  BY MemoryIsMem, MemFields
<1>2. FramesSound(used, page_map, Roots, Owners)
  BY DEF IInv, SpacesInv, Sound
<1>3. n \in Frame \ used
  BY <1>1, <1>2, FreshFrame DEF FramesSound
<1>4. /\ used' = used \cup {n} /\ page_map' = [page_map EXCEPT ![n] = NoEntries]
      /\ content' = [content EXCEPT ![n] = Zero] /\ cr3' = [cr3 EXCEPT ![t] = n]
  BY <1>1 DEF SetupPML4, SetMemory, NewPageMap
<1> HIDE DEF n
<1>5. SpacePut(page_map, page_map', n)
  BY <1>2, <1>3, <1>4, NoEntriesType DEF SpacePut, FramesSound
<1>6. ContentKept(t)
  <2>1. content' = Stored(content, n, Zero)
    BY <1>4 DEF Stored
  <2>2. /\ IsContent(Stored(content, n, Zero))
        /\ \A g \in Frame : Stored(content, n, Zero)[g] # content[g] => g = n
    BY StoredElsewhere DEF IInv, TypeInv
  <2> QED BY <1>2, <1>3, <2>1, <2>2 DEF ContentKept, FramesSound
<1>7. SpaceTaken(t, n)
  BY <1>3, <1>4, <1>5, <1>6 DEF SpaceTaken
<1> QED BY <1>7 DEF n

LEMMA SpaceTakenViews ==
  ASSUME IInv, NEW t \in Task, NEW n, SpaceTaken(t, n),
         Owners' \subseteq Owners \cup {n}, Roots' \subseteq Roots \cup {n}
  PROVE  /\ SpacesInv' /\ EmptySpace(page_map', n)
         /\ \A r \in Roots : SameView(page_map, page_map', r)
         /\ SameSpaces(page_map, page_map', Roots)
         /\ ContentKept(t) /\ SpacesKept(t)
<1>1. Sound(used, page_map, Roots, Owners)
  BY DEF IInv, SpacesInv
<1>2. n \in Frame \ used /\ used' = used \cup {n} /\ SpacePut(page_map, page_map', n)
  BY DEF SpaceTaken
<1>3. Owners' \in SUBSET (Owners \cup {n})
  OBVIOUS
<1>4. /\ Sound(used \cup {n}, page_map', Roots \cup {n}, Owners')
      /\ SameSpaces(page_map, page_map', Roots) /\ EmptySpace(page_map', n)
  <2>1. \A N \in SUBSET (Owners \cup {n}) :
          /\ Sound(used \cup {n}, page_map', Roots \cup {n}, N)
          /\ SameSpaces(page_map, page_map', Roots) /\ EmptySpace(page_map', n)
    BY <1>1, <1>2, NewSpace
  <2> QED BY <1>3, <2>1
<1>5. Owners' \subseteq Roots'
  BY DEF Owners, Roots, Spaces
<1>6. Sound(used', page_map', Roots', Owners')
  <2>1. \A S \in SUBSET (Roots \cup {n}), N \in SUBSET Owners' :
          N \subseteq S => Sound(used \cup {n}, page_map', S, N)
    BY <1>4, FewerSpaces
  <2> QED BY <1>2, <1>5, <2>1
<1>7. \A r \in Roots : SameView(page_map, page_map', r)
  <2>1. \A r \in Roots, e \in Entry : SameEntry(page_map, page_map', r, e)
    BY <1>4 DEF SameSpaces
  <2>2. \A r \in Roots, v \in Page : At(page_map', r, v) = At(page_map, r, v)
    <3>1. \A v \in Page : Upper(v) \in Entry
      BY Places
    <3> QED BY <2>1, <3>1, SameAt
  <2> QED BY <2>1, <2>2 DEF SameView, SameEntry, Has
<1> QED BY <1>4, <1>6, <1>7 DEF SpacesInv, SpaceTaken, SpacesKept

LEMMA AccountedNewSpace ==
  ASSUME NEW U, NEW P, NEW Q, NEW R, SameSpaces(P, Q, R), NEW S \in SUBSET R, NEW O, NEW N,
         O \cap S \subseteq N, Accounted(U, P, S, O), NEW n, NEW Z, S \cup {n} \subseteq Z
  PROVE  Accounted(U \cup {n}, Q, Z, N)
<1>1. ASSUME NEW f \in U, NEW q \in S, PartOf(P, O, q, f)
      PROVE  PartOf(Q, N, q, f)
  <2>1. \A d \in Entry : Has(P, q, d) =>
          /\ Has(Q, q, d) /\ Table(Q, q, d) = Table(P, q, d)
          /\ \A k \in Entry : LeafAt(Q, q, d, k) = LeafAt(P, q, d, k)
    BY DEF SameSpaces, SameEntry, Has, Table
  <2>2. q \in O => q \in N
    OBVIOUS
  <2> QED BY <1>1, <2>1, <2>2 DEF PartOf, HasPage
<1>2. PartOf(Q, N, n, n)
  BY DEF PartOf
<1> QED BY <1>1, <1>2 DEF Accounted

\* A space without entries can be copied into.
LEMMA FirstToCopy ==
  ASSUME NEW Q, NEW r, EmptySpace(Q, r), NEW q, NEW a \in Elf, AllAt(Q, q, ImagePages(a))
  PROVE  TaskOK(Q, "copy", r, q, a, kUserBegin)
<1>1. \A v \in Page : ~At(Q, r, v).present
  <2>1. \A v \in Page : Upper(v) \in Entry
    BY Places
  <2> QED BY <2>1 DEF EmptySpace, At, Absent
<1>2. SharedOK(Q, r, q)
  BY <1>1 DEF SharedOK
<1>3. kUserBegin \in UserEntry /\ NoTables(Q, r, kUserBegin .. kEntries - 1)
  BY SizeAssumption DEF UserEntry, Entry, NoTables, EmptySpace
<1>4. AllAt(Q, r, ImageBelow(a, kUserBegin))
  <2>1. \A v \in Page : ~(Upper(v) < kUserBegin)
    <3>1. \A v \in Page : Upper(v) \in UserEntry
      BY Places
    <3> QED BY <3>1, SizeAssumption DEF UserEntry, Entry
  <2> QED BY <2>1 DEF AllAt, ImageBelow
<1>5. NoneAt(Q, r, StackPage .. ArgsPage)
  BY <1>1 DEF NoneAt
<1> QED BY <1>2, <1>3, <1>4, <1>5 DEF TaskOK, LoadingOK, CopyingOK, ReadyOK, CleaningOK

\* ... and be loaded into.
LEMMA FirstToLoad ==
  ASSUME NEW Q, NEW r, EmptySpace(Q, r), NEW a \in Elf
  PROVE  TaskOK(Q, "load", r, None, a, FirstPage)
<1>1. \A v \in Page : ~At(Q, r, v).present
  <2>1. \A v \in Page : Upper(v) \in Entry
    BY Places
  <2> QED BY <2>1 DEF EmptySpace, At, Absent
<1>2. SharedOK(Q, r, None)
  BY DEF SharedOK
<1>3. FirstPage \in ImagePages(a)
  BY AreasOfPages
<1>4. AllAt(Q, r, FirstPage .. FirstPage - 1)
  BY AreasOfPages DEF AllAt
<1>5. NoneAt(Q, r, FirstPage .. ArgsPage)
  BY <1>1 DEF NoneAt
<1> QED BY <1>2, <1>3, <1>4, <1>5 DEF TaskOK, LoadingOK, CopyingOK, ReadyOK, CleaningOK

LEMMA NoneIsNoFrame == None \notin Frame /\ Kernel \notin Frame
BY SizeAssumption DEF None, Kernel, Frame

LEMMA LoadAppRefused ==
  ASSUME IInv, ~Halted, NEW t \in Task, NEW a \in App, LoadApp(t, a), Full(Memory)
  PROVE  Keeps(t)
<1>1. /\ pc[t] = "idle" /\ app' = [app EXCEPT ![t] = a]
      /\ pc' = [pc EXCEPT ![t] = "idle"] /\ next' = [next EXCEPT ![t] = 0] /\ abandoned' = TRUE
      /\ used' = used /\ page_map' = page_map /\ content' = content
      /\ UNCHANGED <<app_loads, cr3, temp_pml4>>
  BY DEF LoadApp, ReturnError, Goto, memory
<1>2. /\ Spaces' = Spaces /\ Cached' = Cached /\ CopiedFrom' = CopiedFrom
      /\ Roots' = Roots /\ Owners' = Owners
  BY <1>1, SameRoots
<1>3. TypeInv /\ RootsInv /\ SpacesInv /\ CachedInv
  BY DEF IInv
<1>4. TypeInv'
  BY <1>1, <1>3 DEF TypeInv, Pc
<1>11. ContentKept(t) /\ SpacesKept(t)
  BY <1>1, <1>3 DEF TypeInv, ContentKept, SpacesKept, SameView
<1>5. pc'[t] = "idle" /\ OthersStay(t)
  BY <1>1, <1>3 DEF TypeInv, OthersStay
<1>6. RootsInv'
  BY <1>1, <1>2, <1>3, <1>5 DEF RootsInv, OthersStay
<1>7. SpacesInv' /\ CachedInv'
  BY <1>1, <1>2, <1>3 DEF SpacesInv, CachedInv
<1>8. LeakInv'
  BY <1>1 DEF LeakInv
<1>9. OthersSame(t)
  BY <1>1 DEF OthersSame, SameView
<1>10. TaskOK(page_map', pc'[t], cr3'[t], temp_pml4'[t], app'[t], next'[t])
  <2>1. TaskOK(page_map, pc[t], cr3[t], temp_pml4[t], app[t], next[t])
    BY DEF IInv, TasksInv
  <2>2. SharedOK(page_map', cr3'[t], temp_pml4'[t])
    BY <1>1, <2>1 DEF TaskOK
  <2> QED BY <1>5, <2>2 DEF TaskOK, LoadingOK, CopyingOK, ReadyOK, CleaningOK
<1> QED BY <1>4, <1>5, <1>6, <1>7, <1>8, <1>9, <1>10, <1>11, RootStepKeepsIInv

\* Where a task is that has taken space n for a, with q to copy from.
SpaceForApp(t, n, a, q) ==
  /\ pc'[t] \in {"idle", "copy", "load"}
  /\ pc'[t] # "idle" => a \in Elf
  /\ pc'[t] = "copy" => q # None /\ next'[t] = kUserBegin
  /\ pc'[t] = "load" => q = None /\ next'[t] = FirstPage
  /\ cr3'[t] = n /\ temp_pml4'[t] = q /\ app'[t] = a

LEMMA SpaceForAppOK ==
  ASSUME NEW t, NEW n, EmptySpace(page_map', n), NEW a, NEW q, SpaceForApp(t, n, a, q),
         pc'[t] = "copy" => AllAt(page_map', q, ImagePages(a))
  PROVE  TaskOK(page_map', pc'[t], cr3'[t], temp_pml4'[t], app'[t], next'[t])
<1>1. CASE pc'[t] = "copy"
  <2>1. TaskOK(page_map', "copy", n, q, a, kUserBegin)
    BY <1>1, FirstToCopy DEF SpaceForApp
  <2> QED BY <1>1, <2>1 DEF SpaceForApp
<1>2. CASE pc'[t] = "load"
  <2>1. TaskOK(page_map', "load", n, None, a, FirstPage)
    BY <1>2, FirstToLoad DEF SpaceForApp
  <2> QED BY <1>2, <2>1 DEF SpaceForApp
<1>3. CASE pc'[t] = "idle"
  <2>1. \A v \in Page : ~At(page_map', n, v).present
    <3>1. \A v \in Page : Upper(v) \in Entry
      BY Places
    <3> QED BY <3>1 DEF EmptySpace, At, Absent
  <2>2. SharedOK(page_map', n, q)
    BY <2>1 DEF SharedOK
  <2> QED BY <1>3, <2>2 DEF SpaceForApp, TaskOK, LoadingOK, CopyingOK, ReadyOK, CleaningOK
<1> QED BY <1>1, <1>2, <1>3 DEF SpaceForApp

LEMMA LoadAppCases ==
  ASSUME IInv, NEW t \in Task, NEW a \in App, LoadApp(t, a), ~Full(Memory)
  PROVE  /\ pc[t] = "idle" /\ SetupPML4(t) /\ UNCHANGED app_loads
         /\ app' = [app EXCEPT ![t] = a] /\ temp_pml4' = [temp_pml4 EXCEPT ![t] = app_loads[a]]
         /\ \/ Goto(t, "idle", 0) /\ abandoned' = TRUE
            \/ a \in Elf /\ app_loads[a] # None /\ Goto(t, "copy", kUserBegin) /\ abandoned' = abandoned
            \/ a \in Elf /\ app_loads[a] = None /\ Goto(t, "load", FirstPage) /\ abandoned' = abandoned
BY DEF LoadApp, ReturnError

LEMMA LoadAppTakesSpace ==
  ASSUME IInv, ~Halted, NEW t \in Task, NEW a \in App, LoadApp(t, a), ~Full(Memory)
  PROVE  Keeps(t)
<1> DEFINE n == NewFrame(Memory)
           q == app_loads[a]
<1>1. /\ pc[t] = "idle" /\ SetupPML4(t) /\ UNCHANGED app_loads
      /\ app' = [app EXCEPT ![t] = a] /\ temp_pml4' = [temp_pml4 EXCEPT ![t] = q]
      /\ \/ Goto(t, "idle", 0) /\ abandoned' = TRUE
         \/ a \in Elf /\ q # None /\ Goto(t, "copy", kUserBegin) /\ abandoned' = abandoned
         \/ a \in Elf /\ q = None /\ Goto(t, "load", FirstPage) /\ abandoned' = abandoned
  BY LoadAppCases
<1>2. SpaceTaken(t, n)
  BY <1>1, SetupPML4Takes
<1> HIDE DEF n
<1>3. TypeInv /\ RootsInv /\ Roots \subseteq used /\ Roots \subseteq Frame
  BY DEF IInv, SpacesInv, Sound, FramesSound
<1>4. /\ cr3' = [cr3 EXCEPT ![t] = n] /\ ContentKept(t) /\ n \in Frame \ used
      /\ n \notin Roots /\ n # None /\ n # Kernel
  BY <1>2, <1>3, NoneIsNoFrame DEF SpaceTaken
<1>5. SpaceForApp(t, n, a, q) /\ OthersStay(t)
  BY <1>1, <1>3, <1>4 DEF SpaceForApp, OthersStay, Goto, TypeInv
<1>6. TypeInv'
  <2>1. q \in Frame \cup {None} /\ kUserBegin \in Int /\ FirstPage \in Int
    BY <1>3, AreasOfPages, SizeAssumption DEF TypeInv, Entry
  <2>2. pc' \in [Task -> Pc] /\ next' \in [Task -> Int] /\ abandoned' \in BOOLEAN
    <3>1. \E p \in Pc, k \in Int : Goto(t, p, k)
      <4>1. "idle" \in Pc /\ "copy" \in Pc /\ "load" \in Pc /\ 0 \in Int
        BY DEF Pc
      <4> QED BY <1>1, <2>1, <4>1
    <3>2. pc' \in [Task -> Pc] /\ next' \in [Task -> Int]
      BY <1>3, <3>1 DEF TypeInv, Goto
    <3>3. abandoned' \in BOOLEAN
      BY <1>1, <1>3 DEF TypeInv
    <3> QED BY <3>2, <3>3
  <2> QED BY <1>1, <1>3, <1>4, <2>1, <2>2 DEF TypeInv, ContentKept
<1>7. Cached' = Cached /\ q \in Cached \cup {None}
  BY <1>1 DEF Cached
<1>8. CopiedFrom' \subseteq CopiedFrom \cup Cached
  BY <1>5, <1>7 DEF CopiedFrom, OthersStay, SpaceForApp
<1>9. Spaces' \subseteq Spaces \cup {n} /\ n \in Spaces'
  BY <1>4, <1>5 DEF Spaces, OthersStay, SpaceForApp
<1>10. Owners' \subseteq Owners \cup {n}
  BY <1>5, <1>7, <1>8 DEF Owners, OthersStay, SpaceForApp
<1>11. Roots' \subseteq Roots \cup {n}
  BY <1>7, <1>8, <1>9 DEF Roots
<1>12. /\ SpacesInv' /\ EmptySpace(page_map', n) /\ ContentKept(t) /\ SpacesKept(t)
       /\ \A r \in Roots : SameView(page_map, page_map', r)
       /\ SameSpaces(page_map, page_map', Roots)
  BY <1>2, <1>10, <1>11, SpaceTakenViews
<1>13. OthersSame(t)
  BY <1>12 DEF OthersSame, Roots, Spaces, CopiedFrom
<1>14. \A b \in App : app_loads[b] # None => app_loads[b] \in Roots
  BY DEF Roots, Cached
<1>15. CachedInv'
  BY <1>1, <1>12, <1>14 DEF IInv, CachedInv, AllAt, SameView
<1>16. TaskOK(page_map', pc'[t], cr3'[t], temp_pml4'[t], app'[t], next'[t])
  <2>1. pc'[t] = "copy" => AllAt(page_map', q, ImagePages(a))
    BY <1>1, <1>5, <1>15 DEF CachedInv, SpaceForApp
  <2> HIDE DEF q
  <2> QED BY <1>5, <1>12, <2>1, SpaceForAppOK
<1>17. RootsInv'
  <2>1. \A u, w \in Task : u # w /\ cr3'[u] = cr3'[w] => cr3'[u] = Kernel
    <3>1. \A u \in Task : u # t => cr3'[u] # n
      BY <1>4, <1>5 DEF OthersStay, Roots, Spaces
    <3>2. \A u, w \in Task : u # t /\ w # t /\ u # w /\ cr3'[u] = cr3'[w] => cr3'[u] = Kernel
      BY <1>3, <1>5 DEF OthersStay, RootsInv
    <3> QED BY <1>5, <3>1, <3>2 DEF SpaceForApp
  <2>2. ASSUME NEW u \in Task, pc'[u] # "idle"
        PROVE  /\ cr3'[u] # Kernel /\ cr3'[u] \notin Cached' \cup CopiedFrom'
               /\ app'[u] \in Elf
               /\ temp_pml4'[u] = None <=> pc'[u] \in Loading
    <3>1. CASE u = t
      <4>1. n \notin Cached' \cup CopiedFrom'
        BY <1>4, <1>7, <1>8 DEF Roots
      <4>2. q = None <=> pc'[t] \in Loading
        BY <1>5, <2>2, <3>1 DEF SpaceForApp, Loading
      <4> QED BY <1>4, <1>5, <2>2, <3>1, <4>1, <4>2 DEF SpaceForApp
    <3>2. CASE u # t
      <4>1. /\ pc[u] # "idle" /\ pc'[u] = pc[u] /\ cr3'[u] = cr3[u] /\ app'[u] = app[u]
            /\ temp_pml4'[u] = temp_pml4[u]
        BY <1>5, <2>2, <3>2 DEF OthersStay
      <4>2. cr3[u] # Kernel /\ cr3[u] \notin Cached \cup CopiedFrom /\ app[u] \in Elf
            /\ (temp_pml4[u] = None <=> pc[u] \in Loading)
        BY <1>3, <4>1 DEF RootsInv
      <4> QED BY <1>7, <1>8, <4>1, <4>2
    <3> QED BY <3>1, <3>2
  <2>3. \A b \in App : app_loads'[b] # None => b \in Elf
    BY <1>1, <1>3 DEF RootsInv
  <2> QED BY <2>1, <2>2, <2>3 DEF RootsInv
<1>18. LeakInv'
  <2> SUFFICES ASSUME ~abandoned'
               PROVE  /\ Accounted(used', page_map', Spaces' \cup Cached', Owners')
                      /\ CopiedFrom' \subseteq Cached'
                      /\ \A u \in Task : pc'[u] = "idle" => cr3'[u] = Kernel
    BY DEF LeakInv
  <2>1. ~abandoned /\ pc'[t] # "idle"
    BY <1>1, <1>3 DEF Goto, TypeInv
  <2>2. /\ Accounted(used, page_map, Spaces \cup Cached, Owners)
        /\ CopiedFrom \subseteq Cached
        /\ \A u \in Task : pc[u] = "idle" => cr3[u] = Kernel
    BY <2>1 DEF IInv, LeakInv
  <2>3. Spaces \cup {n} \subseteq Spaces'
    BY <1>1, <1>5, <1>9, <2>2 DEF Spaces, OthersStay
  <2>4. Owners \cap (Spaces \cup Cached) \subseteq Owners'
    BY <1>1, <1>5, <1>7, <2>2 DEF Owners, OthersStay
  <2>5. Accounted(used \cup {n}, page_map', Spaces' \cup Cached', Owners')
    <3>1. Spaces \cup Cached \in SUBSET Roots /\ (Spaces \cup Cached) \cup {n} \subseteq Spaces' \cup Cached'
      BY <1>7, <2>3 DEF Roots
    <3> QED BY <1>12, <2>2, <2>4, <3>1, AccountedNewSpace
  <2>6. used' = used \cup {n}
    BY <1>2 DEF SpaceTaken
  <2>7. CopiedFrom' \subseteq Cached'
    BY <1>7, <1>8, <2>2
  <2>8. \A u \in Task : pc'[u] = "idle" => cr3'[u] = Kernel
    BY <1>5, <2>1, <2>2 DEF OthersStay
  <2> QED BY <2>5, <2>6, <2>7, <2>8
<1>19. pc'[t] # "halt"
  BY <1>5 DEF SpaceForApp
<1> QED BY <1>5, <1>6, <1>13, <1>15, <1>16, <1>17, <1>18, <1>19, <1>12, RootStepKeepsIInv

LEMMA LoadAppKeepsIInv ==
  ASSUME IInv, ~Halted, NEW t \in Task, NEW a \in App, LoadApp(t, a)
  PROVE  Keeps(t)
BY LoadAppRefused, LoadAppTakesSpace

\* What the insertion into the cache makes of the spaces.
CacheInserted(t) ==
  /\ pc[t] = "cache"
  /\ app_loads' = [app_loads EXCEPT ![app[t]] = IF @ = None THEN cr3[t] ELSE @]
  /\ temp_pml4' = [temp_pml4 EXCEPT ![t] = cr3[t]]
  /\ UNCHANGED app

LEMMA CachingTask ==
  ASSUME IInv, NEW t \in Task, CacheInserted(t)
  PROVE  /\ TypeInv /\ RootsInv
         /\ cr3[t] \in Frame /\ cr3[t] # Kernel /\ cr3[t] # None /\ cr3[t] \in Roots
         /\ cr3[t] \in Owners /\ app[t] \in Elf /\ app[t] \in App
         /\ AllAt(page_map, cr3[t], ImagePages(app[t]))
         /\ temp_pml4'[t] = cr3[t] /\ \A u \in Task : u # t => temp_pml4'[u] = temp_pml4[u]
         /\ app_loads'[app[t]] = (IF app_loads[app[t]] = None THEN cr3[t] ELSE app_loads[app[t]])
         /\ \A a \in App : a # app[t] => app_loads'[a] = app_loads[a]
         /\ app_loads' \in [App -> Frame \cup {None}] /\ temp_pml4' \in [Task -> Frame \cup {None}]
<1>1. TypeInv /\ RootsInv /\ pc[t] = "cache"
  BY DEF IInv, CacheInserted
<1>2. /\ cr3[t] # Kernel /\ cr3[t] \in Roots /\ cr3[t] \in Owners /\ app[t] \in Elf
  BY <1>1, TaskSpace DEF Loading
<1>3. cr3[t] \in Frame /\ cr3[t] # None /\ app[t] \in App
  BY <1>1, <1>2, NoneIsNoFrame, ImageAssumption DEF TypeInv
<1>4. AllAt(page_map, cr3[t], ImagePages(app[t]))
  BY <1>1 DEF IInv, TasksInv, TaskOK, LoadingOK
<1> QED BY <1>1, <1>2, <1>3, <1>4 DEF TypeInv, CacheInserted

\* The space stays an owner, and with it everything it was.
LEMMA CacheInsertedRoots ==
  ASSUME IInv, NEW t \in Task, CacheInserted(t)
  PROVE  /\ CopiedFrom' = CopiedFrom \cup {cr3[t]}
         /\ Cached \subseteq Cached' /\ Cached' \subseteq Cached \cup {cr3[t]}
         /\ app_loads[app[t]] = None => cr3[t] \in Cached'
         /\ \A a \in App : app_loads'[a] # None =>
              a \in Elf /\ ((app_loads[a] # None /\ app_loads'[a] = app_loads[a])
                             \/ (a = app[t] /\ app_loads'[a] = cr3[t]))
<1>1. /\ TypeInv /\ RootsInv /\ cr3[t] # None /\ app[t] \in Elf /\ app[t] \in App
      /\ temp_pml4'[t] = cr3[t] /\ \A u \in Task : u # t => temp_pml4'[u] = temp_pml4[u]
      /\ app_loads'[app[t]] = (IF app_loads[app[t]] = None THEN cr3[t] ELSE app_loads[app[t]])
      /\ \A a \in App : a # app[t] => app_loads'[a] = app_loads[a]
  BY CachingTask
<1>2. temp_pml4[t] = None
  BY <1>1 DEF RootsInv, Loading, CacheInserted
<1>3. CopiedFrom' = CopiedFrom \cup {cr3[t]}
  BY <1>1, <1>2 DEF CopiedFrom
<1>4. \A a \in App : app_loads[a] # None => app_loads'[a] = app_loads[a]
  BY <1>1
<1>5. \A a \in App : app_loads'[a] # None =>
        (app_loads[a] # None /\ app_loads'[a] = app_loads[a]) \/ (a = app[t] /\ app_loads'[a] = cr3[t])
  BY <1>1
<1>6. Cached \subseteq Cached'
  BY <1>4 DEF Cached
<1>7. Cached' \subseteq Cached \cup {cr3[t]}
  BY <1>5 DEF Cached
<1>8. app_loads[app[t]] = None => cr3[t] \in Cached'
  BY <1>1 DEF Cached
<1>9. \A a \in App : app_loads'[a] # None => a \in Elf
  BY <1>1, <1>5 DEF RootsInv
<1> QED BY <1>3, <1>5, <1>6, <1>7, <1>8, <1>9

\* RootsInv for the tasks that do not move.
LEMMA CacheInsertedOthers ==
  ASSUME IInv, NEW t \in Task, CacheInserted(t), OthersStay(t), NEW u \in Task, u # t,
         pc'[u] # "idle"
  PROVE  /\ cr3'[u] # Kernel /\ cr3'[u] \notin Cached' \cup CopiedFrom'
         /\ app'[u] \in Elf
         /\ temp_pml4'[u] = None <=> pc'[u] \in Loading
<1>1. /\ pc[u] # "idle" /\ pc'[u] = pc[u] /\ cr3'[u] = cr3[u] /\ app'[u] = app[u]
      /\ temp_pml4'[u] = temp_pml4[u]
  BY DEF OthersStay
<1>2. cr3[u] # Kernel /\ cr3[u] \notin Cached \cup CopiedFrom /\ app[u] \in Elf
      /\ (temp_pml4[u] = None <=> pc[u] \in Loading)
  BY <1>1 DEF IInv, RootsInv
<1>3. cr3[u] # cr3[t]
  BY <1>2, CachingTask DEF RootsInv
<1> QED BY <1>1, <1>2, <1>3, CacheInsertedRoots

LEMMA CacheAppRefused ==
  ASSUME IInv, ~Halted, NEW t \in Task, CacheApp(t), Full(Memory)
  PROVE  Keeps(t)
<1>1. /\ CacheInserted(t) /\ UNCHANGED cr3 /\ pc[t] = "cache"
      /\ pc' = [pc EXCEPT ![t] = "idle"] /\ next' = [next EXCEPT ![t] = 0] /\ abandoned' = TRUE
      /\ used' = used /\ page_map' = page_map /\ content' = content
  BY DEF CacheApp, ReturnError, Goto, memory, CacheInserted
<1>2. TypeInv /\ RootsInv /\ CachedInv
  BY DEF IInv
<1>13. ContentKept(t) /\ SpacesKept(t)
  BY <1>1, <1>2 DEF TypeInv, ContentKept, SpacesKept, SameView
<1>3. OthersStay(t) /\ pc'[t] = "idle"
  <2>1. /\ \A u \in Task : u # t => temp_pml4'[u] = temp_pml4[u]
        /\ UNCHANGED <<app, cr3>>
    BY <1>1, CachingTask DEF CacheInserted
  <2>2. pc'[t] = "idle" /\ \A u \in Task : u # t => pc'[u] = pc[u] /\ next'[u] = next[u]
    BY <1>1, <1>2 DEF TypeInv
  <2> QED BY <2>1, <2>2 DEF OthersStay
<1>4. TypeInv'
  <2>1. pc' \in [Task -> Pc] /\ next' \in [Task -> Int] /\ abandoned' \in BOOLEAN
    BY <1>1, <1>2 DEF TypeInv, Pc
  <2>2. app' = app /\ cr3' = cr3 /\ content' = content
    BY <1>1 DEF CacheInserted
  <2> QED BY <1>1, <1>2, <2>1, <2>2, CachingTask DEF TypeInv
<1>5. Spaces' = Spaces /\ Roots' = Roots
  <2>1. Spaces' = Spaces
    BY <1>1 DEF Spaces
  <2> QED BY <1>1, <2>1, CacheInsertedRoots, CachingTask DEF Roots, Spaces
<1>6. Owners' \subseteq Owners
  BY <1>1, CacheInsertedRoots, CachingTask DEF Owners
<1>7. SpacesInv'
  <2>1. Owners' \in SUBSET Owners /\ Owners' \subseteq Roots /\ Roots \in SUBSET Roots
    BY <1>5, <1>6 DEF Owners, Roots, Spaces
  <2>2. Sound(used, page_map, Roots, Owners)
    BY DEF IInv, SpacesInv
  <2>3. \A N \in SUBSET Owners : N \subseteq Roots => Sound(used, page_map, Roots, N)
    BY <2>1, <2>2, FewerSpaces
  <2>4. Sound(used, page_map, Roots, Owners')
    BY <2>1, <2>3
  <2> QED BY <1>1, <1>5, <2>4 DEF SpacesInv
<1>8. OthersSame(t)
  BY <1>1 DEF OthersSame, SameView
<1>9. CachedInv'
  BY <1>1, <1>2, CacheInsertedRoots, CachingTask DEF CachedInv
<1>10. RootsInv'
  <2>1. \A u, w \in Task : u # w /\ cr3'[u] = cr3'[w] => cr3'[u] = Kernel
    BY <1>1, <1>2 DEF RootsInv
  <2>2. \A u \in Task : pc'[u] # "idle" =>
          /\ cr3'[u] # Kernel /\ cr3'[u] \notin Cached' \cup CopiedFrom'
          /\ app'[u] \in Elf
          /\ temp_pml4'[u] = None <=> pc'[u] \in Loading
    BY <1>1, <1>3, CacheInsertedOthers
  <2> QED BY <2>1, <2>2, <1>1, CacheInsertedRoots DEF RootsInv
<1>11. LeakInv'
  BY <1>1 DEF LeakInv
<1>12. TaskOK(page_map', pc'[t], cr3'[t], temp_pml4'[t], app'[t], next'[t])
  <2>1. temp_pml4'[t] = cr3'[t]
    BY <1>1, CachingTask
  <2>2. SharedOK(page_map', cr3'[t], temp_pml4'[t])
    BY <2>1 DEF SharedOK
  <2> QED BY <1>3, <2>2 DEF TaskOK, LoadingOK, CopyingOK, ReadyOK, CleaningOK
<1> QED BY <1>3, <1>4, <1>7, <1>8, <1>9, <1>10, <1>11, <1>12, <1>13, RootStepKeepsIInv

LEMMA CacheAppTakesSpace ==
  ASSUME IInv, ~Halted, NEW t \in Task, CacheApp(t), ~Full(Memory)
  PROVE  Keeps(t)
<1> DEFINE n == NewFrame(Memory)
           q == cr3[t]
           a == app[t]
<1>1. /\ CacheInserted(t) /\ SetupPML4(t) /\ Goto(t, "copy", kUserBegin)
      /\ abandoned' = (abandoned \/ app_loads[a] # None)
  BY DEF CacheApp, CacheInserted
<1>2. SpaceTaken(t, n)
  BY <1>1, SetupPML4Takes
<1> HIDE DEF n
<1>3. TypeInv /\ RootsInv /\ Roots \subseteq used /\ Roots \subseteq Frame
  BY DEF IInv, SpacesInv, Sound, FramesSound
<1>4. /\ cr3' = [cr3 EXCEPT ![t] = n] /\ ContentKept(t) /\ n \in Frame \ used
      /\ n \notin Roots /\ n # None /\ n # Kernel
  BY <1>2, <1>3, NoneIsNoFrame DEF SpaceTaken
<1>5. /\ q \in Frame /\ q # Kernel /\ q # None /\ q \in Roots /\ q \in Owners
      /\ a \in Elf /\ a \in App /\ AllAt(page_map, q, ImagePages(a))
  BY <1>1, CachingTask
<1>6. SpaceForApp(t, n, a, q) /\ OthersStay(t)
  BY <1>1, <1>3, <1>4, <1>5, CachingTask DEF SpaceForApp, OthersStay, Goto, TypeInv, CacheInserted
<1>7. TypeInv'
  <2>1. pc' \in [Task -> Pc] /\ next' \in [Task -> Int] /\ abandoned' \in BOOLEAN
    BY <1>1, <1>3, SizeAssumption DEF TypeInv, Pc, Goto, Entry
  <2>2. app' \in [Task -> App \cup {None}] /\ cr3' \in [Task -> Frame \cup {Kernel}]
    BY <1>1, <1>3, <1>4 DEF TypeInv, CacheInserted
  <2> QED BY <1>1, <1>4, <2>1, <2>2, CachingTask DEF TypeInv, ContentKept
<1>8. /\ CopiedFrom' = CopiedFrom \cup {q}
      /\ Cached \subseteq Cached' /\ Cached' \subseteq Cached \cup {q}
      /\ app_loads[a] = None => q \in Cached'
  BY <1>1, CacheInsertedRoots
<1>9. Spaces' \subseteq Spaces \cup {n} /\ n \in Spaces' /\ Spaces \subseteq Spaces' \cup {q}
  BY <1>4, <1>6 DEF Spaces, OthersStay, SpaceForApp
<1>10. Owners' \subseteq Owners \cup {n} /\ Owners \subseteq Owners'
  BY <1>1, <1>5, <1>6, <1>8 DEF Owners, OthersStay, SpaceForApp
<1>11. Roots' \subseteq Roots \cup {n}
  BY <1>5, <1>8, <1>9 DEF Roots
<1>12. /\ SpacesInv' /\ EmptySpace(page_map', n) /\ ContentKept(t) /\ SpacesKept(t)
       /\ \A r \in Roots : SameView(page_map, page_map', r)
       /\ SameSpaces(page_map, page_map', Roots)
  BY <1>2, <1>10, <1>11, SpaceTakenViews
<1>13. OthersSame(t)
  BY <1>12 DEF OthersSame, Roots, Spaces, CopiedFrom
<1>14. AllAt(page_map', q, ImagePages(a))
  BY <1>5, <1>12 DEF AllAt, SameView
<1>15. CachedInv'
  <2> SUFFICES ASSUME NEW b \in App, app_loads'[b] # None
               PROVE  AllAt(page_map', app_loads'[b], ImagePages(b))
    BY DEF CachedInv
  <2>1. \/ app_loads[b] # None /\ app_loads'[b] = app_loads[b]
        \/ b = app[t] /\ app_loads'[b] = cr3[t]
    BY <1>1, CacheInsertedRoots
  <2>2. CASE app_loads[b] # None /\ app_loads'[b] = app_loads[b]
    <3>1. app_loads[b] \in Roots
      BY <2>2 DEF Roots, Cached
    <3>2. AllAt(page_map, app_loads[b], ImagePages(b))
      BY <2>2 DEF IInv, CachedInv
    <3> QED BY <1>12, <2>2, <3>1, <3>2 DEF AllAt, SameView
  <2>3. CASE b = app[t] /\ app_loads'[b] = cr3[t]
    BY <1>14, <2>3
  <2> QED BY <2>1, <2>2, <2>3
<1>16. TaskOK(page_map', pc'[t], cr3'[t], temp_pml4'[t], app'[t], next'[t])
  <2> HIDE DEF q, a
  <2> QED BY <1>6, <1>12, <1>14, SpaceForAppOK
<1>17. RootsInv'
  <2>1. \A u, w \in Task : u # w /\ cr3'[u] = cr3'[w] => cr3'[u] = Kernel
    <3>1. \A u \in Task : u # t => cr3'[u] # n
      BY <1>4, <1>6 DEF OthersStay, Roots, Spaces
    <3>2. \A u, w \in Task : u # t /\ w # t /\ u # w /\ cr3'[u] = cr3'[w] => cr3'[u] = Kernel
      BY <1>3, <1>6 DEF OthersStay, RootsInv
    <3> QED BY <1>6, <3>1, <3>2 DEF SpaceForApp
  <2>2. ASSUME NEW u \in Task, pc'[u] # "idle"
        PROVE  /\ cr3'[u] # Kernel /\ cr3'[u] \notin Cached' \cup CopiedFrom'
               /\ app'[u] \in Elf
               /\ temp_pml4'[u] = None <=> pc'[u] \in Loading
    <3>1. CASE u = t
      <4>1. n \notin Cached' \cup CopiedFrom'
        BY <1>4, <1>5, <1>8 DEF Roots
      <4>2. pc'[t] = "copy"
        BY <1>1, <1>3 DEF Goto, TypeInv
      <4> QED BY <1>4, <1>5, <1>6, <3>1, <4>1, <4>2 DEF SpaceForApp, Loading
    <3>2. CASE u # t
      BY <1>1, <1>6, <2>2, <3>2, CacheInsertedOthers
    <3> QED BY <3>1, <3>2
  <2>3. \A b \in App : app_loads'[b] # None => b \in Elf
    BY <1>1, CacheInsertedRoots
  <2> QED BY <2>1, <2>2, <2>3 DEF RootsInv
<1>18. LeakInv'
  <2> SUFFICES ASSUME ~abandoned'
               PROVE  /\ Accounted(used', page_map', Spaces' \cup Cached', Owners')
                      /\ CopiedFrom' \subseteq Cached'
                      /\ \A u \in Task : pc'[u] = "idle" => cr3'[u] = Kernel
    BY DEF LeakInv
  <2>1. ~abandoned /\ app_loads[a] = None
    BY <1>1, <1>3 DEF TypeInv
  <2>2. /\ Accounted(used, page_map, Spaces \cup Cached, Owners)
        /\ CopiedFrom \subseteq Cached
        /\ \A u \in Task : pc[u] = "idle" => cr3[u] = Kernel
    BY <2>1 DEF IInv, LeakInv
  <2>3. (Spaces \cup Cached) \cup {n} \subseteq Spaces' \cup Cached'
    BY <1>8, <1>9, <2>1
  <2>4. Owners \cap (Spaces \cup Cached) \subseteq Owners'
    BY <1>10
  <2>5. Accounted(used \cup {n}, page_map', Spaces' \cup Cached', Owners')
    <3>1. Spaces \cup Cached \in SUBSET Roots
      BY DEF Roots
    <3> QED BY <1>12, <2>2, <2>3, <2>4, <3>1, AccountedNewSpace
  <2>6. used' = used \cup {n}
    BY <1>2 DEF SpaceTaken
  <2>7. CopiedFrom' \subseteq Cached'
    BY <1>8, <2>1, <2>2
  <2>8. \A u \in Task : pc'[u] = "idle" => cr3'[u] = Kernel
    BY <1>1, <1>3, <1>6, <2>2 DEF OthersStay, Goto, TypeInv
  <2> QED BY <2>5, <2>6, <2>7, <2>8
<1>19. pc'[t] # "halt"
  BY <1>6 DEF SpaceForApp
<1> QED BY <1>6, <1>7, <1>13, <1>15, <1>16, <1>17, <1>18, <1>19, <1>12, RootStepKeepsIInv

LEMMA CacheAppKeepsIInv ==
  ASSUME IInv, ~Halted, NEW t \in Task, CacheApp(t)
  PROVE  Keeps(t)
BY CacheAppRefused, CacheAppTakesSpace

LEMMA AccountedOldSpace ==
  ASSUME NEW U, NEW P, NEW Q, NEW R, NEW r, EmptySpace(P, r), SameSpaces(P, Q, R \ {r}),
         NEW S \in SUBSET R, NEW O, Accounted(U, P, S, O)
  PROVE  Accounted(U \ {r}, Q, S \ {r}, O)
<1>1. ASSUME NEW f \in U \ {r}, NEW q \in S, PartOf(P, O, q, f)
      PROVE  q # r /\ PartOf(Q, O, q, f)
  <2>1. q # r
    BY <1>1 DEF PartOf, EmptySpace, HasPage
  <2>2. \A d \in Entry : Has(P, q, d) =>
          /\ Has(Q, q, d) /\ Table(Q, q, d) = Table(P, q, d)
          /\ \A k \in Entry : LeafAt(Q, q, d, k) = LeafAt(P, q, d, k)
    BY <2>1 DEF SameSpaces, SameEntry, Has, Table
  <2> QED BY <1>1, <2>1, <2>2 DEF PartOf, HasPage
<1> QED BY <1>1 DEF Accounted

LEMMA FreePML4KeepsIInv ==
  ASSUME IInv, ~Halted, NEW t \in Task, FreePML4(t)
  PROVE  Keeps(t)
<1> DEFINE r == cr3[t]
<1>1. /\ pc[t] = "free" /\ pc' = [pc EXCEPT ![t] = "idle"] /\ next' = [next EXCEPT ![t] = 0]
      /\ cr3' = [cr3 EXCEPT ![t] = Kernel] /\ SetMemory(Free(Memory, {r}))
      /\ UNCHANGED <<app_loads, temp_pml4, app, abandoned>>
  BY DEF FreePML4, Goto
<1>2. TypeInv /\ RootsInv /\ Sound(used, page_map, Roots, Owners)
  BY DEF IInv, SpacesInv
<1>3. /\ r # Kernel /\ r \in Roots \ Owners /\ r \in Frame /\ temp_pml4[t] # None
      /\ \A u \in Task : u # t => cr3[u] # r
  <2>1. r # Kernel /\ r \in Roots /\ r \notin Owners /\ temp_pml4[t] # None
    BY <1>1, <1>2, TaskSpace DEF Loading
  <2> QED BY <1>2, <2>1 DEF RootsInv, TypeInv
<1>4. EmptySpace(page_map, r)
  <2>1. CleaningOK(page_map, pc[t], cr3[t], next[t])
    BY DEF IInv, TasksInv, TaskOK
  <2> QED BY <1>1, <2>1 DEF CleaningOK, NoTables, EmptySpace
<1>5. /\ used' = used \ {r} /\ page_map' = FreedMaps(page_map, {r})
      /\ content' = FreedContent(content, {r})
  <2>1. Memory = Mem(used, page_map, content)
    BY MemoryIsMem
  <2> HIDE DEF r
  <2>2. Free(Memory, {r}) = Mem(used \ {r}, FreedMaps(page_map, {r}), FreedContent(content, {r}))
    BY <2>1, FreeIs
  <2> QED BY <1>1, <2>2, MemFields DEF SetMemory
<1>6. SpaceGone(page_map, page_map', r) /\ ContentKept(t)
  <2>1. page_map \in [Frame -> [Entry -> PageMapEntry]] /\ used \subseteq Frame
    BY <1>2 DEF Sound, FramesSound
  <2> HIDE DEF r
  <2>2. SpaceGone(page_map, page_map', r)
    BY <1>5, <2>1, NoEntriesType DEF SpaceGone, FreedMaps
  <2>3. /\ IsContent(FreedContent(content, {r}))
        /\ \A f \in Frame \ {r} : FreedContent(content, {r})[f] = content[f]
    BY DEF FreedContent, IsContent
  <2> QED BY <1>5, <2>1, <2>2, <2>3 DEF ContentKept
<1>7. /\ Sound(used \ {r}, page_map', Roots \ {r}, Owners \ {r})
      /\ SameSpaces(page_map, page_map', Roots \ {r})
  <2> HIDE DEF r
  <2> QED BY <1>2, <1>3, <1>4, <1>6, OldSpace
<1>8. \A q \in Roots \ {r} : SameView(page_map, page_map', q)
  <2>1. \A q \in Roots \ {r}, e \in Entry : SameEntry(page_map, page_map', q, e)
    BY <1>7 DEF SameSpaces
  <2>2. \A q \in Roots \ {r}, v \in Page : At(page_map', q, v) = At(page_map, q, v)
    <3>1. \A v \in Page : Upper(v) \in Entry
      BY Places
    <3> QED BY <2>1, <3>1, SameAt
  <2> QED BY <2>1, <2>2 DEF SameView, SameEntry, Has
<1>9. OthersStay(t) /\ pc'[t] = "idle" /\ cr3'[t] = Kernel /\ next'[t] = 0
      /\ temp_pml4'[t] = temp_pml4[t] /\ app'[t] = app[t]
  BY <1>1, <1>2 DEF OthersStay, TypeInv
<1>10. Cached' = Cached /\ CopiedFrom' = CopiedFrom
  BY <1>1 DEF Cached, CopiedFrom
<1>11. Spaces' = Spaces \ {r}
  BY <1>3, <1>9 DEF Spaces, OthersStay
<1>12. Owners' = Owners
  BY <1>1, <1>3, <1>9, <1>10 DEF Owners, OthersStay
<1>13. Roots' = Roots \ {r} /\ Owners \ {r} = Owners
  BY <1>3, <1>10, <1>11 DEF Roots, Owners
<1>14. SpacesInv'
  BY <1>5, <1>7, <1>12, <1>13 DEF SpacesInv
<1>15. TypeInv'
  BY <1>1, <1>2, <1>6 DEF TypeInv, Pc, ContentKept
<1>16. OthersSame(t)
  <2>1. \A u \in Task : u # t /\ cr3[u] # Kernel => cr3[u] \in Roots \ {r}
    BY <1>3 DEF Roots, Spaces
  <2>2. \A u \in Task : temp_pml4[u] # None => temp_pml4[u] \in Roots \ {r}
    BY <1>3 DEF Roots, CopiedFrom, Owners
  <2> QED BY <1>8, <2>1, <2>2 DEF OthersSame
<1>17. CachedInv'
  <2>1. \A a \in App : app_loads[a] # None => app_loads[a] \in Roots \ {r}
    BY <1>3 DEF Roots, Cached, Owners
  <2> QED BY <1>1, <1>8, <2>1 DEF IInv, CachedInv, AllAt, SameView
<1>18. RootsInv'
  <2>1. \A u, w \in Task : u # w /\ cr3'[u] = cr3'[w] => cr3'[u] = Kernel
    BY <1>2, <1>9 DEF OthersStay, RootsInv
  <2>2. ASSUME NEW u \in Task, pc'[u] # "idle"
        PROVE  /\ cr3'[u] # Kernel /\ cr3'[u] \notin Cached' \cup CopiedFrom'
               /\ app'[u] \in Elf
               /\ temp_pml4'[u] = None <=> pc'[u] \in Loading
    <3>1. u # t /\ pc[u] # "idle" /\ pc'[u] = pc[u] /\ cr3'[u] = cr3[u] /\ app'[u] = app[u]
            /\ temp_pml4'[u] = temp_pml4[u]
      BY <1>9, <2>2 DEF OthersStay
    <3> QED BY <1>2, <1>10, <3>1 DEF RootsInv
  <2>3. \A b \in App : app_loads'[b] # None => b \in Elf
    BY <1>1, <1>2 DEF RootsInv
  <2> QED BY <2>1, <2>2, <2>3 DEF RootsInv
<1>19. LeakInv'
  <2> SUFFICES ASSUME ~abandoned
               PROVE  /\ Accounted(used', page_map', Spaces' \cup Cached', Owners')
                      /\ CopiedFrom' \subseteq Cached'
                      /\ \A u \in Task : pc'[u] = "idle" => cr3'[u] = Kernel
    BY <1>1 DEF LeakInv
  <2>1. /\ Accounted(used, page_map, Spaces \cup Cached, Owners)
        /\ CopiedFrom \subseteq Cached
        /\ \A u \in Task : pc[u] = "idle" => cr3[u] = Kernel
    BY DEF IInv, LeakInv
  <2>2. Accounted(used \ {r}, page_map', (Spaces \cup Cached) \ {r}, Owners)
    <3>1. Spaces \cup Cached \in SUBSET Roots
      BY DEF Roots
    <3> HIDE DEF r
    <3> QED BY <1>4, <1>7, <2>1, <3>1, AccountedOldSpace
  <2>3. (Spaces \cup Cached) \ {r} = Spaces' \cup Cached'
    BY <1>3, <1>10, <1>11 DEF Owners
  <2>4. \A u \in Task : pc'[u] = "idle" => cr3'[u] = Kernel
    BY <1>9, <2>1 DEF OthersStay
  <2> QED BY <1>5, <1>10, <1>12, <2>1, <2>2, <2>3, <2>4
<1>20. TaskOK(page_map', pc'[t], cr3'[t], temp_pml4'[t], app'[t], next'[t])
  <2>1. SharedOK(page_map', Kernel, temp_pml4'[t])
    BY DEF SharedOK
  <2> QED BY <1>9, <2>1 DEF TaskOK, LoadingOK, CopyingOK, ReadyOK, CleaningOK
<1>21. pc'[t] # "halt" /\ ContentKept(t)
  BY <1>6, <1>9
<1>22. SpacesKept(t)
  BY <1>3, <1>8, <1>10 DEF SpacesKept, Owners
<1> QED BY <1>22, <1>9, <1>14, <1>15, <1>16, <1>17, <1>18, <1>19, <1>20, <1>21, RootStepKeepsIInv

-----------------------------------------------------------------------------
(* The theorems.                                                           *)

LEMMA InitSound == Init => Sound(used, page_map, Roots, Owners)
<1> SUFFICES ASSUME Init PROVE Sound(used, page_map, Roots, Owners)
  OBVIOUS
<1>1. Roots = {} /\ Owners = {}
  BY DEF Init, Roots, Owners, Spaces, Cached, CopiedFrom
<1>2. used = {} /\ page_map \in [Frame -> [Entry -> PageMapEntry]]
  BY NoEntriesType DEF Init
<1> QED BY <1>1, <1>2 DEF Sound, FramesSound, TablesSound, TablesApart, LeavesSound,
      LeavesAreNoTables, WritableApart, OwnersReadOnly, OwnersApart

LEMMA InitIInv == Init => IInv
<1> SUFFICES ASSUME Init PROVE IInv
  OBVIOUS
<1>1. TypeInv
  <2>1. IsContent(content)
    BY DEF Init, IsContent
  <2>2. pc \in [Task -> Pc] /\ next \in [Task -> Int] /\ abandoned \in BOOLEAN
    <3>1. /\ pc = [t \in Task |-> "idle"] /\ next = [t \in Task |-> 0]
          /\ abandoned = FALSE
      BY DEF Init
    <3>2. pc \in [Task -> Pc]
      BY <3>1 DEF Pc
    <3>3. next \in [Task -> Int]
      BY <3>1
    <3>4. abandoned \in BOOLEAN
      BY <3>1
    <3> QED BY <3>2, <3>3, <3>4
  <2> QED BY <2>1, <2>2 DEF Init, TypeInv
<1>2. \A t \in Task : pc[t] = "idle" /\ cr3[t] = Kernel /\ temp_pml4[t] = None
  BY DEF Init
<1>3. \A a \in App : app_loads[a] = None
  BY DEF Init
<1>4. RootsInv /\ CachedInv
  BY <1>2, <1>3 DEF RootsInv, CachedInv
<1>5. SpacesInv
  BY InitSound DEF SpacesInv
<1>6. TasksInv
  BY <1>2 DEF TasksInv, TaskOK, SharedOK, LoadingOK, CopyingOK, ReadyOK, CleaningOK
<1>7. LeakInv
  <2>1. CopiedFrom = {}
    BY <1>2 DEF CopiedFrom
  <2>2. used = {}
    BY DEF Init
  <2> QED BY <1>2, <2>1, <2>2 DEF LeakInv, Accounted
<1>8. HaltsOnlyWhenFull
  BY <1>2 DEF HaltsOnlyWhenFull, Halted
<1> QED BY <1>1, <1>4, <1>5, <1>6, <1>7, <1>8 DEF IInv

LEMMA SameTypeInv == ASSUME IInv, UNCHANGED vars PROVE IInv'
<1>1. /\ used' = used /\ page_map' = page_map /\ content' = content /\ app_loads' = app_loads
      /\ cr3' = cr3 /\ temp_pml4' = temp_pml4 /\ pc' = pc /\ app' = app /\ next' = next
      /\ abandoned' = abandoned
  BY DEF vars, memory
<1>2. /\ Spaces' = Spaces /\ Cached' = Cached /\ CopiedFrom' = CopiedFrom
      /\ Roots' = Roots /\ Owners' = Owners
  BY <1>1, SameRoots
<1> QED BY <1>1, <1>2 DEF IInv, TypeInv, RootsInv, SpacesInv, TasksInv, CachedInv, LeakInv,
      HaltsOnlyWhenFull, Halted

\* The steps of task t, by what they do to the cache.
LoadStep(t) == (\E a \in App : LoadApp(t, a)) \/ LoadSegment(t) \/ CacheApp(t)
SpaceStep(t) ==
  \/ CopyPageMap(t) \/ SetupArgs(t) \/ SetupStack(t) \/ CallApp(t)
  \/ \E v \in Touched : UserStore(t, v)
  \/ \E v \in Touched, rw \in BOOLEAN : PageFault(t, v, rw)
  \/ \E v \in Touched : ReadIntoBuffer(t, v)
  \/ \E n \in 1 .. StackPage : DemandPages(t, n)
  \/ \E fd \in DOMAIN File, v \in Touched : MapFile(t, fd, v)
  \/ Exit(t) \/ CleanPageMap(t) \/ FreePML4(t)

LEMMA NextIsStep ==
  ASSUME Next
  PROVE  ~Halted /\ \E t \in Task : LoadStep(t) \/ SpaceStep(t)
BY DEF Next, LoadStep, SpaceStep

LEMMA StepKeeps ==
  ASSUME IInv, ~Halted, NEW t \in Task, LoadStep(t) \/ SpaceStep(t)
  PROVE  Keeps(t)
<1>1. ~Halted
  OBVIOUS
<1>2. \/ (\E a \in App : LoadApp(t, a))
      \/ (LoadSegment(t) \/ CacheApp(t) \/ CopyPageMap(t))
      \/ (SetupArgs(t) \/ SetupStack(t) \/ CallApp(t))
      \/ (\E v \in Touched : UserStore(t, v))
      \/ (\E v \in Touched, rw \in BOOLEAN : PageFault(t, v, rw))
      \/ (\E v \in Touched : ReadIntoBuffer(t, v))
      \/ (\E n \in 1 .. StackPage : DemandPages(t, n))
      \/ (\E fd \in DOMAIN File, v \in Touched : MapFile(t, fd, v))
      \/ (Exit(t) \/ CleanPageMap(t) \/ FreePML4(t))
  BY DEF LoadStep, SpaceStep
<1>3. CASE \E a \in App : LoadApp(t, a)
  BY <1>1, <1>3, LoadAppKeepsIInv
<1>4. CASE LoadSegment(t) \/ CacheApp(t) \/ CopyPageMap(t)
  BY <1>1, <1>4, LoadSegmentKeepsIInv, CacheAppKeepsIInv, CopyPageMapKeepsIInv
<1>5. CASE SetupArgs(t) \/ SetupStack(t) \/ CallApp(t)
  BY <1>1, <1>5, SetupArgsKeepsIInv, SetupStackKeepsIInv, CallAppKeepsIInv
<1>6. CASE \E v \in Touched : UserStore(t, v)
  BY <1>1, <1>6, UserStoreKeepsIInv
<1>7. CASE \E v \in Touched, rw \in BOOLEAN : PageFault(t, v, rw)
  BY <1>1, <1>7, PageFaultKeepsIInv
<1>8. CASE \/ \E v \in Touched : ReadIntoBuffer(t, v)
           \/ \E fd \in DOMAIN File, v \in Touched : MapFile(t, fd, v)
  BY <1>1, <1>8, StoresKeepIInv
<1>9. CASE Exit(t) \/ \E n \in 1 .. StackPage : DemandPages(t, n)
  BY <1>1, <1>9, OtherCallsKeepIInv
<1>10. CASE CleanPageMap(t) \/ FreePML4(t)
  BY <1>1, <1>10, CleanPageMapKeepsIInv, FreePML4KeepsIInv
<1> QED BY <1>2, <1>3, <1>4, <1>5, <1>6, <1>7, <1>8, <1>9, <1>10

LEMMA NextKeepsIInv ==
  ASSUME IInv, Next
  PROVE  IInv'
BY NextIsStep, StepKeeps DEF Keeps

\* The inductive invariant: address spaces are trees of page maps that no other
\* shares, and a task that loads, runs or ends an application has come as far in
\* its own as its place in ExecuteFile says.
THEOREM Invariance == Spec => []IInv
<1>1. IInv /\ [Next]_vars => IInv'
  BY NextKeepsIInv, SameTypeInv
<1> QED BY InitIInv, <1>1, PTL DEF Spec

\* A page fault in a system call can only not be handled (HandlePageFault) when
\* there is no frame left.
THEOREM HaltsWhenFull == Spec => []HaltsOnlyWhenFull
<1>1. IInv => HaltsOnlyWhenFull
  BY DEF IInv
<1> QED BY Invariance, <1>1, PTL

\* What a space owns, by page or by entry.
LEMMA PageOfEntry ==
  ASSUME NEW U, NEW P, NEW R, NEW O, Sound(U, P, R, O), NEW r \in R,
         NEW e \in Entry, NEW l \in Entry, HasPage(P, r, e, l)
  PROVE  \E v \in Page : At(P, r, v).present /\ At(P, r, v) = LeafAt(P, r, e, l)
<1>1. e \in UserEntry
  BY DEF Sound, TablesSound, TableSound, HasPage
<1>2. SlotPage(e, l) \in Page /\ Upper(SlotPage(e, l)) = e /\ Lower(SlotPage(e, l)) = l
  BY <1>1, Places
<1>3. At(P, r, SlotPage(e, l)).present /\ At(P, r, SlotPage(e, l)) = LeafAt(P, r, e, l)
  BY <1>2, AtHasPage
<1> QED BY <1>2, <1>3

LEMMA WritableIsPresent ==
  ASSUME NEW U, NEW P, NEW R, NEW O, Sound(U, P, R, O), NEW r \in R, NEW v \in Page,
         At(P, r, v).writable
  PROVE  At(P, r, v).present
<1>1. Upper(v) \in Entry /\ Lower(v) \in Entry
  BY Places
<1> QED BY <1>1 DEF At, Absent, Sound, LeavesSound, LeafSound

LEMMA OwnedIsPart ==
  ASSUME SpacesInv, NEW r \in Roots, NEW f
  PROVE  f \in Owned(r) <=> PartOf(page_map, Owners, r, f)
<1> DEFINE P == page_map
<1>1. Sound(used, P, Roots, Owners)
  BY DEF SpacesInv
<1>2. \A v : Leaf(Memory, r, v) = At(P, r, v)
  BY MemoryIsMem
<1>3. f \in Tables(r) <=> \E e \in Entry : Has(P, r, e) /\ f = Table(P, r, e)
  BY DEF Tables, Has, Table
<1>4. f \in Pages(r) <=> \E v \in Page : At(P, r, v).present /\ f = At(P, r, v).frame
  BY <1>2 DEF Pages, Present
<1>5. f \in PrivatePages(r) <=> \E v \in Page : At(P, r, v).writable /\ f = At(P, r, v).frame
  BY <1>2 DEF PrivatePages
<1> HIDE DEF P
<1>6. \A v \in Page : At(P, r, v).present =>
        \E e, l \in Entry : HasPage(P, r, e, l) /\ LeafAt(P, r, e, l) = At(P, r, v)
  <2>1. \A v \in Page : Upper(v) \in Entry /\ Lower(v) \in Entry
    BY Places
  <2> QED BY <2>1, AtHasPage
<1>7. \A v \in Page : At(P, r, v).writable => At(P, r, v).present
  BY <1>1, WritableIsPresent
<1>8. \A e, l \in Entry : HasPage(P, r, e, l) =>
        \E v \in Page : At(P, r, v).present /\ At(P, r, v) = LeafAt(P, r, e, l)
  BY <1>1, PageOfEntry
<1>9. (\E v \in Page : At(P, r, v).present /\ f = At(P, r, v).frame) <=>
        \E e, l \in Entry : HasPage(P, r, e, l) /\ f = LeafAt(P, r, e, l).frame
  BY <1>6, <1>8
<1>10. (\E v \in Page : At(P, r, v).writable /\ f = At(P, r, v).frame) <=>
         \E e, l \in Entry : /\ HasPage(P, r, e, l) /\ f = LeafAt(P, r, e, l).frame
                             /\ LeafAt(P, r, e, l).writable
  BY <1>6, <1>7, <1>8
<1>11. CASE r \in Owners
  <2>1. f \in Owned(r) <=> f = r \/ f \in Tables(r) \/ f \in Pages(r)
    BY <1>11 DEF Owned
  <2> QED BY <1>3, <1>4, <1>9, <1>11, <2>1 DEF PartOf, P
<1>12. CASE r \notin Owners
  <2>1. f \in Owned(r) <=> f = r \/ f \in Tables(r) \/ f \in PrivatePages(r)
    BY <1>12 DEF Owned
  <2> QED BY <1>3, <1>5, <1>10, <1>12, <2>1 DEF PartOf, P
<1> QED BY <1>11, <1>12

LEMMA PartsInUse ==
  ASSUME NEW U, NEW P, NEW R, NEW O, Sound(U, P, R, O), NEW r \in R, NEW f, PartOf(P, O, r, f)
  PROVE  f \in U
BY DEF PartOf, Sound, FramesSound, TablesSound, TableSound, LeavesSound, LeafSound, HasPage

\* The spaces have no part in common.
LEMMA PartsApart ==
  ASSUME NEW U, NEW P, NEW R, NEW O, Sound(U, P, R, O), NEW r \in R, NEW q \in R, NEW f,
         PartOf(P, O, r, f), PartOf(P, O, q, f)
  PROVE  r = q
<1>1. ASSUME NEW x \in R, NEW e \in Entry, Has(P, x, e)
      PROVE  Table(P, x, e) \notin R
  BY <1>1 DEF Sound, TablesSound, TableSound
<1>2. ASSUME NEW x \in R, NEW e \in Entry, NEW l \in Entry, HasPage(P, x, e, l)
      PROVE  LeafAt(P, x, e, l).frame \notin R
  BY <1>2 DEF Sound, LeavesSound, LeafSound, HasPage
<1>3. ASSUME NEW x \in R, NEW y \in R, NEW e \in Entry, NEW d \in Entry, Has(P, x, e), Has(P, y, d),
             Table(P, x, e) = Table(P, y, d)
      PROVE  x = y
  BY <1>3 DEF Sound, TablesApart
<1>4. ASSUME NEW x \in R, NEW y \in R, NEW e \in Entry, NEW l \in Entry, NEW d \in Entry,
             HasPage(P, x, e, l), Has(P, y, d)
      PROVE  LeafAt(P, x, e, l).frame # Table(P, y, d)
  BY <1>4 DEF Sound, LeavesAreNoTables
<1>5. ASSUME NEW x \in R, NEW y \in R, NEW e \in Entry, NEW l \in Entry, NEW d \in Entry, NEW k \in Entry,
             HasPage(P, x, e, l), HasPage(P, y, d, k),
             LeafAt(P, x, e, l).frame = LeafAt(P, y, d, k).frame,
             x \in O \/ LeafAt(P, x, e, l).writable, y \in O \/ LeafAt(P, y, d, k).writable
      PROVE  x = y
  <2>1. CASE LeafAt(P, x, e, l).writable
    BY <1>5, <2>1 DEF Sound, WritableApart, SamePlace
  <2>2. CASE LeafAt(P, y, d, k).writable
    BY <1>5, <2>2 DEF Sound, WritableApart, SamePlace
  <2>3. CASE x \in O /\ y \in O
    BY <1>5, <2>3 DEF Sound, OwnersApart, SamePlace
  <2> QED BY <1>5, <2>1, <2>2, <2>3
<1>6. CASE f \in R
  BY <1>1, <1>2, <1>6 DEF PartOf
<1>7. CASE \E e \in Entry : Has(P, r, e) /\ f = Table(P, r, e)
  BY <1>1, <1>3, <1>4, <1>7 DEF PartOf
<1>8. CASE \E e, l \in Entry :
             /\ HasPage(P, r, e, l) /\ f = LeafAt(P, r, e, l).frame
             /\ r \in O \/ LeafAt(P, r, e, l).writable
  BY <1>2, <1>4, <1>5, <1>8 DEF PartOf
<1> QED BY <1>6, <1>7, <1>8 DEF PartOf

LEMMA PagesOwned ==
  ASSUME IInv, NEW r \in Roots, NEW f \in Pages(r)
  PROVE  \E q \in Roots : f \in Owned(q)
<1> DEFINE P == page_map
<1>1. PICK v \in Page : At(P, r, v).present /\ f = At(P, r, v).frame
  BY MemoryIsMem DEF Pages, Present
<1>2. CASE r \in Owners
  BY <1>2 DEF Owned
<1>3. CASE At(P, r, v).writable
  <2>1. f \in PrivatePages(r)
    BY <1>1, <1>3, MemoryIsMem DEF PrivatePages
  <2> QED BY <1>2, <2>1 DEF Owned
<1>4. CASE r \notin Owners /\ ~At(P, r, v).writable
  <2>1. PICK t \in Task : r = cr3[t] /\ r # Kernel /\ temp_pml4[t] # None
    BY <1>4 DEF Roots, Owners, Spaces
  <2>2. SharedOK(P, r, temp_pml4[t])
    BY <2>1 DEF IInv, TasksInv, TaskOK
  <2>3. At(P, temp_pml4[t], v).present /\ At(P, temp_pml4[t], v).frame = f
    BY <1>1, <1>4, <2>1, <2>2 DEF SharedOK
  <2>4. temp_pml4[t] \in Owners /\ temp_pml4[t] \in Roots
    BY <2>1 DEF Owners, Roots, CopiedFrom
  <2>5. f \in Pages(temp_pml4[t])
    BY <2>3, MemoryIsMem DEF Pages, Present
  <2> QED BY <2>4, <2>5 DEF Owned
<1> QED BY <1>2, <1>3, <1>4

LEMMA IInvFrames ==
  ASSUME IInv
  PROVE  FramesAccounted
<1>1. SpacesInv /\ Sound(used, page_map, Roots, Owners)
  BY DEF IInv, SpacesInv
<1>2. \A r \in Roots : Owned(r) \subseteq used
  BY <1>1, OwnedIsPart, PartsInUse
<1>3. \A r, q \in Roots : Owned(r) \cap Owned(q) # {} => r = q
  BY <1>1, OwnedIsPart, PartsApart
<1>4. FramesOwnedOnce
  <2>1. \A r \in Roots : Pages(r) \subseteq UNION {Owned(q) : q \in Roots}
    BY PagesOwned
  <2>2. \A t, u \in Task : t # u /\ cr3[t] = cr3[u] => cr3[t] = Kernel
    BY DEF IInv, RootsInv
  <2> QED BY <1>2, <1>3, <2>1, <2>2 DEF FramesOwnedOnce
<1>5. NoSharedWritable
  <2> SUFFICES ASSUME NEW r \in Roots, NEW q \in Roots, NEW v \in Page, NEW w \in Page,
                      At(page_map, r, v).writable, At(page_map, q, w).present,
                      At(page_map, q, w).frame = At(page_map, r, v).frame
               PROVE  <<r, v>> = <<q, w>>
    BY MemoryIsMem DEF NoSharedWritable
  <2>1. At(page_map, r, v).present
    BY <1>1, WritableIsPresent
  <2>2. /\ HasPage(page_map, r, Upper(v), Lower(v)) /\ HasPage(page_map, q, Upper(w), Lower(w))
        /\ At(page_map, r, v) = LeafAt(page_map, r, Upper(v), Lower(v))
        /\ At(page_map, q, w) = LeafAt(page_map, q, Upper(w), Lower(w))
    BY <2>1, AtHasPage
  <2>3. /\ Upper(v) \in Entry /\ Lower(v) \in Entry /\ SlotPage(Upper(v), Lower(v)) = v
        /\ Upper(w) \in Entry /\ Lower(w) \in Entry /\ SlotPage(Upper(w), Lower(w)) = w
    BY Places
  <2>4. SamePlace(r, Upper(v), Lower(v), q, Upper(w), Lower(w))
    BY <1>1, <2>2, <2>3 DEF Sound, WritableApart
  <2> QED BY <2>3, <2>4 DEF SamePlace
<1>6. NoLeak
  <2> SUFFICES ASSUME ~abandoned
               PROVE  used = UNION {Owned(r) : r \in Spaces \cup Cached}
    BY DEF NoLeak
  <2>1. \A f \in used : \E r \in Spaces \cup Cached : PartOf(page_map, Owners, r, f)
    BY DEF IInv, LeakInv, Accounted
  <2>2. Spaces \cup Cached \subseteq Roots
    BY DEF Roots
  <2>3. \A f \in used : \E r \in Spaces \cup Cached : f \in Owned(r)
    BY <1>1, <2>1, <2>2, OwnedIsPart
  <2> QED BY <1>2, <2>2, <2>3
<1> QED BY <1>4, <1>5, <1>6 DEF FramesAccounted

\* Frames in use have one owner, pages that can be written are in one place, and
\* as long as no ExecuteFile has failed nothing is lost (SetupPageMaps,
\* CopyPageMaps, CleanPageMaps, FreePML4).
THEOREM FramesAlwaysAccounted == Spec => []FramesAccounted
<1>1. IInv => FramesAccounted
  BY IInvFrames
<1> QED BY Invariance, <1>1, PTL

-----------------------------------------------------------------------------
(* What tasks can write and what they cache.                               *)

\* Nobody can write a page of an owner.
LEMMA OwnerUnwritable ==
  ASSUME NEW U, NEW P, NEW R, NEW O, Sound(U, P, R, O), NEW r \in O, NEW v \in Page,
         At(P, r, v).present, NEW q \in R, NEW w \in Page, At(P, q, w).writable
  PROVE  At(P, q, w).frame # At(P, r, v).frame
<1>1. /\ Upper(v) \in Entry /\ Lower(v) \in Entry /\ Upper(w) \in Entry /\ Lower(w) \in Entry
  BY Places
<1>2. r \in R
  BY DEF Sound, FramesSound
<1>3. At(P, q, w).present
  BY WritableIsPresent
<1>4. /\ HasPage(P, r, Upper(v), Lower(v)) /\ HasPage(P, q, Upper(w), Lower(w))
      /\ At(P, r, v) = LeafAt(P, r, Upper(v), Lower(v))
      /\ At(P, q, w) = LeafAt(P, q, Upper(w), Lower(w))
  BY <1>3, AtHasPage
<1>5. ~LeafAt(P, r, Upper(v), Lower(v)).writable
  BY <1>1, <1>4 DEF Sound, OwnersReadOnly
<1>6. LeafAt(P, q, Upper(w), Lower(w)).frame = LeafAt(P, r, Upper(v), Lower(v)).frame =>
        SamePlace(q, Upper(w), Lower(w), r, Upper(v), Lower(v))
  BY <1>1, <1>2, <1>4 DEF Sound, WritableApart
<1> QED BY <1>4, <1>5, <1>6 DEF SamePlace

\* The steps that load nothing.
LEMMA SpaceStepIs ==
  ASSUME NEW t, SpaceStep(t)
  PROVE  /\ pc[t] \in {"copy", "args", "stack", "call", "run", "clean", "free"}
         /\ UNCHANGED <<app_loads, temp_pml4>>
<1>1. CASE CopyPageMap(t) \/ SetupArgs(t) \/ SetupStack(t) \/ CallApp(t)
  BY <1>1 DEF CopyPageMap, SetupArgs, SetupStack, CallApp
<1>2. CASE \/ \E v \in Touched : UserStore(t, v)
           \/ \E v \in Touched, rw \in BOOLEAN : PageFault(t, v, rw)
           \/ \E n \in 1 .. StackPage : DemandPages(t, n)
  BY <1>2 DEF UserStore, PageFault, DemandPages
<1>3. CASE \/ \E v \in Touched : ReadIntoBuffer(t, v)
           \/ \E fd \in DOMAIN File, v \in Touched : MapFile(t, fd, v)
  BY <1>3 DEF ReadIntoBuffer, MapFile, SystemCallStores
<1>4. CASE Exit(t) \/ CleanPageMap(t) \/ FreePML4(t)
  BY <1>4 DEF Exit, CleanPageMap, FreePML4
<1> QED BY <1>1, <1>2, <1>3, <1>4 DEF SpaceStep

\* The steps that make a space, or enter one into the cache.
LEMMA SpaceMade ==
  ASSUME IInv, NEW t \in Task, (\E a \in App : LoadApp(t, a)) \/ CacheApp(t)
  PROVE  /\ \/ pc'[t] \in {"idle", "copy"}
            \/ pc'[t] = "load" /\ next'[t] = FirstPage
         /\ \A b \in App : app_loads'[b] # None =>
              \/ app_loads'[b] = app_loads[b]
              \/ pc[t] = "cache" /\ b = app[t] /\ app_loads'[b] = cr3[t]
<1>1. TypeInv
  BY DEF IInv
<1>2. ASSUME NEW a \in App, LoadApp(t, a)
      PROVE  /\ app_loads' = app_loads
             /\ Goto(t, "idle", 0) \/ Goto(t, "copy", kUserBegin) \/ Goto(t, "load", FirstPage)
  BY <1>2 DEF LoadApp, ReturnError
<1>3. CASE CacheApp(t)
  <2>1. Goto(t, "idle", 0) \/ Goto(t, "copy", kUserBegin)
    BY <1>3 DEF CacheApp, ReturnError
  <2>2. CacheInserted(t)
    BY <1>3 DEF CacheApp, CacheInserted
  <2>3. pc'[t] \in {"idle", "copy"}
    BY <1>1, <2>1 DEF Goto, TypeInv
  <2> QED BY <2>2, <2>3, CacheInsertedRoots DEF CacheInserted
<1>4. CASE \E a \in App : LoadApp(t, a)
  BY <1>1, <1>2, <1>4 DEF Goto, TypeInv
<1> QED BY <1>3, <1>4

-----------------------------------------------------------------------------
(* What applications see of their memory.                                  *)

\* What page v of application a contains first.
FirstContent(a, v) ==
  IF v \in ImagePages(a) THEN ImagePage(a, v) ELSE IF v = ArgsPage THEN Args ELSE Zero

\* Space r has the pages of V and no others, as application a finds them.
Holds(C, P, r, a, V) ==
  \A v \in Page :
    /\ At(P, r, v).present <=> v \in V
    /\ v \in V => C[At(P, r, v).frame] = FirstContent(a, v)

\* The pages of space r when the next to make is k, or all below entry k are copied.
SoFar(p, a, k) ==
  CASE p = "load"  -> FirstPage .. k - 1
    [] p = "copy"  -> ImageBelow(a, k)
    [] p = "stack" -> ImagePages(a) \cup {ArgsPage} \cup (StackPage .. k - 1)
    [] p = "call"  -> ImagePages(a) \cup {ArgsPage} \cup StackPages
    [] OTHER       -> ImagePages(a)

Making == {"load", "cache", "copy", "args", "stack", "call"}

MadeOK(C, P, p, r, q, a, k) ==
  /\ p \in Making => Holds(C, P, r, a, SoFar(p, a, k))
  /\ p = "copy" => Holds(C, P, q, a, ImagePages(a))

\* The areas of an application that runs: image, demanded pages, room, files.
AreasOK(t) ==
  /\ dpaging_begin_[t] = LastImagePage(app[t]) + 1
  /\ dpaging_begin_[t] <= dpaging_end_[t] /\ dpaging_end_[t] <= file_map_end_[t]
  /\ file_map_end_[t] <= StackPage
  /\ \A k \in DOMAIN file_maps_[t] :
       file_map_end_[t] <= file_maps_[t][k].begin /\ file_maps_[t][k].end <= StackPage

OnlyValid(t) == \A v \in Page : At(page_map, cr3[t], v).present => v \in Valid(t)

AreaTypes ==
  /\ dpaging_begin_ \in [Task -> Int] /\ dpaging_end_ \in [Task -> Int]
  /\ file_map_end_ \in [Task -> Int]
  /\ file_maps_ \in [Task -> Seq([fd : DOMAIN File, begin : Int, end : Int])]

MadeInv(t) == MadeOK(content, page_map, pc[t], cr3[t], temp_pml4[t], app[t], next[t])
RunsInv(t) ==
  /\ pc[t] = "run" => AreasOK(t) /\ OnlyValid(t)
  /\ pc[t] \notin {"run", "halt"} => file_maps_[t] = <<>>

\* Spaces hold what they should while they are made, and only valid pages after.
MemInv ==
  /\ AreaTypes
  /\ \A a \in App : app_loads[a] # None =>
       Holds(content, page_map, app_loads[a], a, ImagePages(a))
  /\ \A t \in Task : MadeInv(t) /\ RunsInv(t)

\* Page v of space r is there or not as before, with the same content; or
\* contains x after the step.
SamePage(r, v) ==
  /\ At(page_map', r, v).present <=> At(page_map, r, v).present
  /\ At(page_map, r, v).present =>
       content'[At(page_map', r, v).frame] = content[At(page_map, r, v).frame]
PageIs(r, v, x) == At(page_map', r, v).present /\ content'[At(page_map', r, v).frame] = x
SamePages(r) == \A v \in Page : SamePage(r, v)

LEMMA HoldsStays ==
  ASSUME NEW r, SamePages(r), NEW a, NEW V, Holds(content, page_map, r, a, V)
  PROVE  Holds(content', page_map', r, a, V)
BY DEF SamePages, SamePage, Holds

\* A step of task t does not show in other spaces, nor in those that stay or become
\* what others are copied from.
LEMMA SpaceStays ==
  ASSUME IInv, ~SharedBuffers, NEW t \in Task, Keeps(t), NEW r \in Roots, r \in Roots',
         r # cr3[t] \/ (r \in Owners /\ r \in Cached' \cup CopiedFrom')
  PROVE  SamePages(r)
<1>1. Sound(used, page_map, Roots, Owners) /\ Sound(used', page_map', Roots', Owners')
  BY DEF IInv, Keeps, SpacesInv
<1>2. SameView(page_map, page_map', r)
  BY DEF Keeps, SpacesKept
<1> SUFFICES ASSUME NEW v \in Page, At(page_map, r, v).present
             PROVE  content'[At(page_map, r, v).frame] = content[At(page_map, r, v).frame]
  BY <1>2 DEF SamePages, SamePage, SameView
<1> DEFINE f == At(page_map, r, v).frame
<1>3. f \in used
  BY <1>1, PageInUse
<1>4. f \in used'
  <2>1. \A q \in Roots' : At(page_map', q, v).present => At(page_map', q, v).frame \in used'
    BY <1>1, PageInUse
  <2> QED BY <1>2, <2>1 DEF SameView
<1>5. ~OwnFrame(t, f)
  <2> SUFFICES ASSUME cr3[t] \in Roots, NEW w \in Page, At(page_map, cr3[t], w).writable,
                      At(page_map, cr3[t], w).frame = f
               PROVE  FALSE
    BY DEF OwnFrame
  <2>1. CASE r \in Owners
    BY <1>1, <2>1, OwnerUnwritable
  <2>2. CASE r # cr3[t]
    <3>1. At(page_map, cr3[t], w).present
      BY <1>1, WritableIsPresent
    <3>2. /\ HasPage(page_map, cr3[t], Upper(w), Lower(w)) /\ HasPage(page_map, r, Upper(v), Lower(v))
          /\ At(page_map, cr3[t], w) = LeafAt(page_map, cr3[t], Upper(w), Lower(w))
          /\ At(page_map, r, v) = LeafAt(page_map, r, Upper(v), Lower(v))
      BY <3>1, AtHasPage
    <3>3. Upper(v) \in Entry /\ Lower(v) \in Entry /\ Upper(w) \in Entry /\ Lower(w) \in Entry
      BY Places
    <3>4. SamePlace(cr3[t], Upper(w), Lower(w), r, Upper(v), Lower(v))
      BY <1>1, <3>2, <3>3 DEF Sound, WritableApart
    <3> QED BY <2>2, <3>4 DEF SamePlace
  <2> QED BY <2>1, <2>2
<1> HIDE DEF f
<1>6. content'[f] = content[f]
  BY <1>3, <1>4, <1>5 DEF Keeps, ContentKept
<1> QED BY <1>6 DEF f

\* Pages with the same frames as before, when no frame in use has changed.
LEMMA SameFrames ==
  ASSUME IInv, NEW r \in Roots, \A f \in used : content'[f] = content[f],
         NEW v \in Page, At(page_map', r, v) = At(page_map, r, v)
  PROVE  SamePage(r, v)
<1>1. At(page_map, r, v).present => At(page_map, r, v).frame \in used
  BY PageInUse DEF IInv, SpacesInv
<1> QED BY <1>1 DEF SamePage

-----------------------------------------------------------------------------
(* Spaces while they are made.                                             *)

\* After s, page v contains what s put there, and the other pages what they did.
LEMMA ResultSeen ==
  ASSUME IInv, NEW t \in Task, cr3[t] \in Roots, NEW v \in Page, NEW w, NEW s,
         SetUpResult(used, page_map, content, Roots, Owners, cr3[t], v, w, s), SetMemory(s.mem)
  PROVE  /\ \A y \in Page \ {v} : SamePage(cr3[t], y)
         /\ s.ok => PageIs(cr3[t], v, Put(s, cr3[t], v))
<1>1. used' = s.mem.used /\ page_map' = s.mem.page_map /\ content' = s.mem.content
  BY DEF SetMemory
<1>2. PageSetUp(used, page_map, content, Roots, Owners, cr3[t], v, w, used', page_map', content', s.ok)
  BY <1>1 DEF SetUpResult
<1>3. \A f \in used : content'[f] = content[f]
  BY <1>2 DEF PageSetUp, PageKept
<1>4. \A y \in Page \ {v} : At(page_map', cr3[t], y) = At(page_map, cr3[t], y)
  BY <1>2 DEF PageSetUp, PageKept
<1>5. s.ok => At(page_map', cr3[t], v).present
  BY <1>2 DEF PageSetUp, PageIn
<1>6. \A y \in Page \ {v} : SamePage(cr3[t], y)
  BY <1>3, <1>4, SameFrames
<1> QED BY <1>1, <1>5, <1>6 DEF PageIs, Put

\* What the kernel fills the page with.
LEMMA FilledPut ==
  ASSUME NEW s, IsMem(s.mem), IsContent(s.mem.content), NEW r, NEW v, NEW x,
         At(s.mem.page_map, r, v).frame \in Frame
  PROVE  Put([s EXCEPT !.mem = Fill(@, r, v, x)], r, v) = x
<1> DEFINE m == s.mem
           k == Fill(m, r, v, x)
           f == At(m.page_map, r, v).frame
           z == [s EXCEPT !.mem = k]
<1>1. k.page_map = m.page_map /\ k.content = Stored(m.content, f, x)
  <2> HIDE DEF m
  <2> QED BY FillFields DEF m
<1>2. Stored(m.content, f, x)[f] = x
  <2> HIDE DEF m, f
  <2> QED BY StoredElsewhere DEF m, f
<1>3. z.mem = k
  OBVIOUS
<1>4. z.mem.content[At(z.mem.page_map, r, v).frame] = x
  <2> HIDE DEF z, k, m
  <2> QED BY <1>1, <1>2, <1>3 DEF m
<1> QED BY <1>4 DEF Put

\* SetupPageMaps for page v: it is there with x or, if nothing is filled in, zero.
LEMMA SetupSeen ==
  ASSUME IInv, NEW t \in Task, pc[t] # "idle", NEW v \in Page, NEW w \in BOOLEAN,
         ~At(page_map, cr3[t], v).present, pc[t] \in Loading => ~w /\ v < StackPage,
         SetupPage(Memory, cr3[t], v, w).ok
  PROVE  LET s == SetupPage(Memory, cr3[t], v, w) IN
         /\ SetMemory(s.mem) => /\ \A y \in Page \ {v} : SamePage(cr3[t], y)
                                /\ PageIs(cr3[t], v, Zero)
         /\ \A x : SetMemory(Fill(s.mem, cr3[t], v, x)) =>
              /\ \A y \in Page \ {v} : SamePage(cr3[t], y)
              /\ PageIs(cr3[t], v, x)
<1> DEFINE s == SetupPage(Memory, cr3[t], v, w)
           r == cr3[t]
<1>1. /\ SetUpResult(used, page_map, content, Roots, Owners, r, v, w, s)
      /\ Put(s, r, v) = Zero
  BY PageIsSetUp
<1>2. r \in Roots
  BY TaskSpace DEF IInv
<1>3. IsMem(s.mem) /\ IsResult(s)
  BY MemoryIsMem, MemFields, SetupPageIsMem, SetupPageIsResult DEF IsMem
<1>4. IsContent(s.mem.content) /\ At(s.mem.page_map, r, v).frame \in Frame
  BY <1>1 DEF SetUpResult, PageSetUp, PageKept, PageIn
<1>a. s.ok
  OBVIOUS
<1> HIDE DEF s
<1>5. ASSUME SetMemory(s.mem)
      PROVE  (\A y \in Page \ {v} : SamePage(r, y)) /\ PageIs(r, v, Zero)
  <2>1. (\A y \in Page \ {v} : SamePage(r, y)) /\ PageIs(r, v, Put(s, r, v))
    BY <1>1, <1>2, <1>5, <1>a, ResultSeen
  <2> QED BY <1>1, <2>1
<1>6. ASSUME NEW x, SetMemory(Fill(s.mem, r, v, x))
      PROVE  (\A y \in Page \ {v} : SamePage(r, y)) /\ PageIs(r, v, x)
  <2> DEFINE k == Fill(s.mem, r, v, x)
             z == [s EXCEPT !.mem = k]
  <2>1. SetUpResult(used, page_map, content, Roots, Owners, r, v, w, z) /\ z.ok
    BY <1>1, <1>3, <1>a, FilledSetUp
  <2>2. Put(z, r, v) = x
    BY <1>3, <1>4, FilledPut
  <2>3. SetMemory(z.mem)
    <3>1. z.mem = k
      <4> HIDE DEF k
      <4> QED BY <1>3, FilledResult
    <3> HIDE DEF z
    <3> QED BY <1>6, <3>1
  <2> HIDE DEF z
  <2> QED BY <1>2, <2>1, <2>2, <2>3, ResultSeen
<1> QED BY <1>5, <1>6 DEF s

\* A space with one page more.
LEMMA HoldsMore ==
  ASSUME NEW r, NEW v \in Page, NEW a, NEW V, NEW W, Holds(content, page_map, r, a, V),
         \A y \in Page \ {v} : SamePage(r, y), PageIs(r, v, FirstContent(a, v)),
         \A y \in Page : y \in W <=> y \in V \/ y = v
  PROVE  Holds(content', page_map', r, a, W)
<1>1. ASSUME NEW y \in Page, y # v
      PROVE  /\ At(page_map', r, y).present <=> y \in W
             /\ y \in W => content'[At(page_map', r, y).frame] = FirstContent(a, y)
  BY <1>1 DEF Holds, SamePage
<1>2. At(page_map', r, v).present /\ content'[At(page_map', r, v).frame] = FirstContent(a, v) /\ v \in W
  BY DEF PageIs
<1> QED BY <1>1, <1>2 DEF Holds

LEMMA EmptyHolds ==
  ASSUME NEW C, NEW Q, NEW n, EmptySpace(Q, n), NEW a, NEW V, \A v \in Page : v \notin V
  PROVE  Holds(C, Q, n, a, V)
<1>1. \A v \in Page : Upper(v) \in Entry
  BY Places
<1> QED BY <1>1 DEF EmptySpace, At, Absent, Holds

\* A task that does not run an application, before and after a step.
LEMMA NotRunning ==
  ASSUME MemInv, NEW t \in Task, pc[t] \notin {"run", "halt"}, pc'[t] # "run", UNCHANGED file_maps_
  PROVE  RunsInv(t)'
BY DEF MemInv, RunsInv

LEMMA NothingMade ==
  ASSUME NEW t, pc'[t] \in {"idle", "run", "clean", "free", "halt"}
  PROVE  MadeInv(t)'
BY DEF MadeInv, MadeOK, Making

\* Nothing is there before the first page is loaded or entry copied.
LEMMA NothingSoFar ==
  ASSUME NEW a, NEW v \in Page
  PROVE  v \notin SoFar("load", a, FirstPage) /\ v \notin SoFar("copy", a, kUserBegin)
<1>1. Upper(v) \in UserEntry /\ FirstPage \in Int /\ kUserBegin \in Int
  BY Places, AreasOfPages, SizeAssumption DEF Entry
<1> QED BY <1>1, SizeAssumption DEF SoFar, ImageBelow, UserEntry, Entry

LEMMA MakingBegins ==
  ASSUME NEW t, NEW n, EmptySpace(page_map', n), NEW a, NEW q, SpaceForApp(t, n, a, q),
         pc'[t] = "copy" => Holds(content', page_map', q, a, ImagePages(a))
  PROVE  MadeInv(t)'
<1>1. CASE pc'[t] = "copy"
  <2>1. Holds(content', page_map', n, a, SoFar("copy", a, kUserBegin))
    BY NothingSoFar, EmptyHolds
  <2> QED BY <1>1, <2>1 DEF SpaceForApp, MadeInv, MadeOK
<1>2. CASE pc'[t] = "load"
  <2>1. Holds(content', page_map', n, a, SoFar("load", a, FirstPage))
    BY NothingSoFar, EmptyHolds
  <2> QED BY <1>2, <2>1 DEF SpaceForApp, MadeInv, MadeOK
<1>3. CASE pc'[t] = "idle"
  BY <1>3, NothingMade
<1> QED BY <1>1, <1>2, <1>3 DEF SpaceForApp

LEMMA LoadAppMade ==
  ASSUME IInv, MemInv, ~SharedBuffers, NEW t \in Task, Keeps(t), NEW a \in App, LoadApp(t, a)
  PROVE  MadeInv(t)' /\ RunsInv(t)'
<1>1. TypeInv /\ pc[t] = "idle" /\ UNCHANGED <<app_loads, file_maps_>>
  BY DEF IInv, LoadApp, areas
<1>2. CASE Full(Memory)
  <2>1. pc'[t] = "idle"
    BY <1>1, <1>2 DEF LoadApp, ReturnError, Goto, TypeInv
  <2> QED BY <1>1, <2>1, NothingMade, NotRunning
<1>3. CASE ~Full(Memory)
  <2> DEFINE n == NewFrame(Memory)
             q == app_loads[a]
  <2>1. /\ SetupPML4(t) /\ app' = [app EXCEPT ![t] = a] /\ temp_pml4' = [temp_pml4 EXCEPT ![t] = q]
        /\ \/ Goto(t, "idle", 0)
           \/ a \in Elf /\ q # None /\ Goto(t, "copy", kUserBegin)
           \/ a \in Elf /\ q = None /\ Goto(t, "load", FirstPage)
    BY <1>3, LoadAppCases
  <2>2. SpaceTaken(t, n)
    BY <1>3, <2>1, SetupPML4Takes
  <2> HIDE DEF n
  <2>3. EmptySpace(page_map', n) /\ cr3' = [cr3 EXCEPT ![t] = n]
    BY <2>2 DEF SpaceTaken, SpacePut, EmptySpace, Has, NoEntries, Absent
  <2>4. SpaceForApp(t, n, a, q)
    BY <1>1, <2>1, <2>3 DEF SpaceForApp, Goto, TypeInv
  <2>5. ASSUME q # None
        PROVE  Holds(content', page_map', q, a, ImagePages(a))
    <3>1. q \in Cached /\ q \in Owners /\ q \in Roots /\ q \in Cached' /\ q \in Roots'
      BY <1>1, <2>5 DEF Cached, Owners, Roots
    <3>2. SamePages(q)
      BY <3>1, SpaceStays
    <3>3. Holds(content, page_map, q, a, ImagePages(a))
      BY <2>5 DEF MemInv
    <3> QED BY <3>2, <3>3, HoldsStays
  <2>6. MadeInv(t)'
    BY <2>3, <2>4, <2>5, MakingBegins DEF SpaceForApp
  <2> QED BY <1>1, <2>4, <2>6, NotRunning DEF SpaceForApp
<1> QED BY <1>2, <1>3

LEMMA CacheAppMade ==
  ASSUME IInv, MemInv, ~SharedBuffers, NEW t \in Task, Keeps(t), CacheApp(t)
  PROVE  MadeInv(t)' /\ RunsInv(t)'
<1>1. TypeInv /\ pc[t] = "cache" /\ CacheInserted(t) /\ UNCHANGED file_maps_
  BY DEF IInv, CacheApp, CacheInserted, areas
<1>2. CASE Full(Memory)
  <2>1. pc'[t] = "idle"
    BY <1>1, <1>2 DEF CacheApp, ReturnError, Goto, TypeInv
  <2> QED BY <1>1, <2>1, NothingMade, NotRunning
<1>3. CASE ~Full(Memory)
  <2> DEFINE n == NewFrame(Memory)
             q == cr3[t]
             a == app[t]
  <2>1. SetupPML4(t) /\ Goto(t, "copy", kUserBegin)
    BY <1>3 DEF CacheApp
  <2>2. SpaceTaken(t, n)
    BY <1>3, <2>1, SetupPML4Takes
  <2> HIDE DEF n
  <2>3. EmptySpace(page_map', n) /\ cr3' = [cr3 EXCEPT ![t] = n]
    BY <2>2 DEF SpaceTaken, SpacePut, EmptySpace, Has, NoEntries, Absent
  <2>4. q # None /\ q \in Owners /\ q \in Roots /\ a \in Elf /\ temp_pml4'[t] = q /\ app' = app
    BY <1>1, CachingTask DEF CacheInserted
  <2>5. SpaceForApp(t, n, a, q)
    BY <1>1, <2>1, <2>3, <2>4 DEF SpaceForApp, Goto, TypeInv
  <2>6. q \in CopiedFrom' /\ q \in Roots'
    BY <1>1, CacheInsertedRoots DEF Roots
  <2>7. SamePages(q)
    BY <2>4, <2>6, SpaceStays
  <2>8. Holds(content, page_map, q, a, ImagePages(a))
    <3>1. MadeInv(t)
      BY DEF MemInv
    <3> QED BY <1>1, <3>1 DEF MadeInv, MadeOK, Making, SoFar
  <2>9. Holds(content', page_map', q, a, ImagePages(a))
    BY <2>7, <2>8, HoldsStays
  <2>10. MadeInv(t)'
    BY <2>3, <2>5, <2>9, MakingBegins
  <2> QED BY <1>1, <2>5, <2>10, NotRunning DEF SpaceForApp
<1> QED BY <1>2, <1>3

LEMMA SetupStepSeen ==
  ASSUME IInv, NEW t \in Task, pc[t] # "idle", next[t] \in Page, NEW w \in BOOLEAN,
         ~At(page_map, cr3[t], next[t]).present, pc[t] \in Loading => ~w /\ next[t] < StackPage,
         NEW last, NEW x, NEW label, NEW first, SetupStep(t, last, w, x, label, first)
  PROVE  \/ pc'[t] = "idle"
         \/ /\ \A y \in Page \ {next[t]} : SamePage(cr3[t], y)
            /\ PageIs(cr3[t], next[t], IF x = Unfilled THEN Zero ELSE x)
            /\ \/ next[t] = last /\ pc'[t] = label /\ next'[t] = first
               \/ next[t] # last /\ pc'[t] = pc[t] /\ next'[t] = next[t] + 1
<1> DEFINE v == next[t]
           s == SetupPage(Memory, cr3[t], v, w)
<1>1. TypeInv
  BY DEF IInv
<1>2. CASE ~s.ok
  <2>1. Goto(t, "idle", 0)
    BY <1>2 DEF SetupStep, ReturnError
  <2> QED BY <1>1, <2>1 DEF Goto, TypeInv
<1>3. CASE s.ok
  <2>1. /\ SetMemory(IF x = Unfilled THEN s.mem ELSE Fill(s.mem, cr3[t], v, x))
        /\ IF v = last THEN Goto(t, label, first) ELSE Goto(t, pc[t], v + 1)
    BY <1>3 DEF SetupStep
  <2>2. /\ SetMemory(s.mem) => /\ \A y \in Page \ {v} : SamePage(cr3[t], y)
                               /\ PageIs(cr3[t], v, Zero)
        /\ \A z : SetMemory(Fill(s.mem, cr3[t], v, z)) =>
             /\ \A y \in Page \ {v} : SamePage(cr3[t], y)
             /\ PageIs(cr3[t], v, z)
    BY <1>3, SetupSeen
  <2> HIDE DEF s
  <2>3. /\ \A y \in Page \ {v} : SamePage(cr3[t], y)
        /\ PageIs(cr3[t], v, IF x = Unfilled THEN Zero ELSE x)
    <3>1. CASE x = Unfilled
      BY <2>1, <2>2, <3>1
    <3>2. CASE x # Unfilled
      BY <2>1, <2>2, <3>2
    <3> QED BY <3>1, <3>2
  <2>4. \/ v = last /\ pc'[t] = label /\ next'[t] = first
        \/ v # last /\ pc'[t] = pc[t] /\ next'[t] = v + 1
    BY <1>1, <2>1 DEF Goto, TypeInv
  <2> QED BY <2>3, <2>4
<1> QED BY <1>2, <1>3

LEMMA LoadSegmentMade ==
  ASSUME IInv, MemInv, NEW t \in Task, LoadSegment(t)
  PROVE  MadeInv(t)' /\ RunsInv(t)'
<1> DEFINE v == next[t]
           a == app[t]
           r == cr3[t]
           x == ImagePage(a, v)
<1>1. pc[t] = "load" /\ pc[t] \in Loading /\ TypeInv /\ UNCHANGED <<cr3, app, temp_pml4, file_maps_>>
  BY DEF LoadSegment, IInv, Loading, areas
<1>2. a \in Elf
  BY <1>1, TaskSpace DEF IInv
<1>3. v \in ImagePages(a) /\ NoneAt(page_map, r, v .. ArgsPage)
  BY <1>1 DEF IInv, TasksInv, TaskOK, LoadingOK
<1>4. /\ LastImagePage(a) \in Int /\ LastImagePage(a) < StackPage
      /\ ImagePages(a) = FirstPage .. LastImagePage(a) /\ ImagePages(a) \subseteq Page
      /\ FirstPage \in Nat /\ ArgsPage \in Int /\ StackPage \in Int /\ Len(Image[a]) \in Int
  BY <1>2, AreasOfPages
<1>5. v \in Page /\ v \in Int /\ v <= ArgsPage /\ FirstPage <= v /\ v <= LastImagePage(a)
      /\ v < StackPage
  BY <1>3, <1>4 DEF Page
<1>6. ~At(page_map, r, v).present
  BY <1>3, <1>4, <1>5 DEF NoneAt
<1>7. x # Unfilled /\ FirstContent(a, v) = x
  <2>1. v - FirstPage + 1 \in 1 .. Len(Image[a])
    BY <1>4, <1>5 DEF LastImagePage
  <2> QED BY <1>2, <1>3, <2>1, FillAssumption DEF ImagePage, FirstContent
<1>8. \/ pc'[t] = "idle"
      \/ /\ \A y \in Page \ {v} : SamePage(r, y)
         /\ PageIs(r, v, x)
         /\ \/ v = LastImagePage(a) /\ pc'[t] = "cache" /\ next'[t] = 0
            \/ v # LastImagePage(a) /\ pc'[t] = "load" /\ next'[t] = v + 1
  <2>1. SetupStep(t, LastImagePage(a), FALSE, x, "cache", 0)
    BY DEF LoadSegment
  <2> DEFINE w == FALSE
  <2>2. w \in BOOLEAN /\ (pc[t] \in Loading => ~w /\ v < StackPage) /\ pc[t] # "idle"
    BY <1>1, <1>5
  <2>3. SetupStep(t, LastImagePage(a), w, x, "cache", 0)
    BY <2>1
  <2> HIDE DEF w, x
  <2> QED BY <1>1, <1>5, <1>6, <1>7, <2>2, <2>3, SetupStepSeen
<1>9. Holds(content, page_map, r, a, FirstPage .. v - 1)
  BY <1>1 DEF MemInv, MadeInv, MadeOK, Making, SoFar
<1>10. CASE pc'[t] = "idle"
  BY <1>1, <1>10, NothingMade, NotRunning
<1>11. CASE /\ \A y \in Page \ {v} : SamePage(r, y)
            /\ PageIs(r, v, x)
            /\ \/ v = LastImagePage(a) /\ pc'[t] = "cache" /\ next'[t] = 0
               \/ v # LastImagePage(a) /\ pc'[t] = "load" /\ next'[t] = v + 1
  <2>1. Holds(content', page_map', r, a, FirstPage .. v)
    <3> DEFINE V == FirstPage .. v - 1
               W == FirstPage .. v
    <3>1. \A y \in Page : y \in W <=> y \in V \/ y = v
      BY <1>4, <1>5 DEF Page
    <3>2. PageIs(r, v, FirstContent(a, v)) /\ Holds(content, page_map, r, a, V)
      BY <1>7, <1>9, <1>11
    <3> HIDE DEF V, W, x, r, a, v
    <3>3. Holds(content', page_map', r, a, W)
      BY <1>5, <1>11, <3>1, <3>2, HoldsMore
    <3> QED BY <3>3 DEF W
  <2>2. SoFar(pc'[t], a, next'[t]) = FirstPage .. v
    BY <1>4, <1>5, <1>11 DEF SoFar
  <2>3. MadeInv(t)'
    BY <1>1, <1>11, <2>1, <2>2 DEF MadeInv, MadeOK
  <2> QED BY <1>1, <1>11, <2>3, NotRunning
<1> QED BY <1>8, <1>10, <1>11

LEMMA SetupArgsMade ==
  ASSUME IInv, MemInv, NEW t \in Task, SetupArgs(t)
  PROVE  MadeInv(t)' /\ RunsInv(t)'
<1> DEFINE v == ArgsPage
           a == app[t]
           r == cr3[t]
<1>1. /\ pc[t] = "args" /\ pc[t] \notin Loading /\ TypeInv
      /\ UNCHANGED <<cr3, app, temp_pml4, file_maps_>>
  BY DEF SetupArgs, IInv, Loading, areas
<1>2. a \in Elf
  BY <1>1, TaskSpace DEF IInv
<1>3. next[t] = v /\ NoneAt(page_map, r, StackPage .. ArgsPage)
  BY <1>1 DEF IInv, TasksInv, TaskOK, CopyingOK, ReadyOK
<1>4. /\ v \in Page /\ ArgsPage \in Int /\ StackPage \in Int /\ StackPage < ArgsPage
      /\ ImagePages(a) = FirstPage .. LastImagePage(a) /\ LastImagePage(a) < StackPage
      /\ FirstPage \in Int /\ LastImagePage(a) \in Int
  BY <1>2, AreasOfPages
<1>5. ~At(page_map, r, v).present /\ FirstContent(a, v) = Args
  BY <1>3, <1>4 DEF NoneAt, FirstContent
<1>6. \/ pc'[t] = "idle"
      \/ /\ \A y \in Page \ {v} : SamePage(r, y)
         /\ PageIs(r, v, Args)
         /\ pc'[t] = "stack" /\ next'[t] = StackPage
  <2>1. CASE SetupStep(t, ArgsPage, TRUE, Args, "stack", StackPage)
    <3> DEFINE w == TRUE
    <3>1. w \in BOOLEAN /\ (pc[t] \in Loading => ~w /\ next[t] < StackPage) /\ pc[t] # "idle"
      BY <1>1
    <3>2. SetupStep(t, ArgsPage, w, Args, "stack", StackPage)
      BY <2>1
    <3> HIDE DEF w, v
    <3>3. next[t] \in Page /\ ~At(page_map, cr3[t], next[t]).present /\ next[t] = ArgsPage
      BY <1>3, <1>4, <1>5 DEF v
    <3> QED BY <3>1, <3>2, <3>3, SetupStepSeen, FillAssumption DEF v
  <2>2. CASE ~SetupStep(t, ArgsPage, TRUE, Args, "stack", StackPage)
    BY <1>1, <2>2 DEF SetupArgs, ReturnError, Goto, TypeInv
  <2> QED BY <2>1, <2>2
<1>7. Holds(content, page_map, r, a, ImagePages(a))
  BY <1>1 DEF MemInv, MadeInv, MadeOK, Making, SoFar
<1>8. CASE pc'[t] = "idle"
  BY <1>1, <1>8, NothingMade, NotRunning
<1>9. CASE /\ \A y \in Page \ {v} : SamePage(r, y)
           /\ PageIs(r, v, Args)
           /\ pc'[t] = "stack" /\ next'[t] = StackPage
  <2>1. Holds(content', page_map', r, a, SoFar("stack", a, StackPage))
    <3> DEFINE V == ImagePages(a)
               W == SoFar("stack", a, StackPage)
    <3>1. \A y \in Page : y \in W <=> y \in V \/ y = v
      BY <1>4 DEF SoFar
    <3>2. PageIs(r, v, FirstContent(a, v)) /\ Holds(content, page_map, r, a, V)
      BY <1>5, <1>7, <1>9
    <3> HIDE DEF V, W, r, a, v
    <3>3. v \in Page
      BY <1>4 DEF v
    <3>4. Holds(content', page_map', r, a, W)
      BY <1>9, <3>1, <3>2, <3>3, HoldsMore
    <3> QED BY <3>4 DEF W
  <2>2. MadeInv(t)'
    BY <1>1, <1>9, <2>1 DEF MadeInv, MadeOK
  <2> QED BY <1>1, <1>9, <2>2, NotRunning
<1> QED BY <1>6, <1>8, <1>9

LEMMA SetupStackMade ==
  ASSUME IInv, MemInv, NEW t \in Task, SetupStack(t)
  PROVE  MadeInv(t)' /\ RunsInv(t)'
<1> DEFINE v == next[t]
           a == app[t]
           r == cr3[t]
           last == StackPage + kStackPages - 1
<1>1. /\ pc[t] = "stack" /\ pc[t] \notin Loading /\ TypeInv
      /\ UNCHANGED <<cr3, app, temp_pml4, file_maps_>>
  BY DEF SetupStack, IInv, Loading, areas
<1>2. a \in Elf
  BY <1>1, TaskSpace DEF IInv
<1>3. v \in StackPages /\ NoneAt(page_map, r, v .. ArgsPage - 1)
  BY <1>1 DEF IInv, TasksInv, TaskOK, ReadyOK
<1>4. /\ StackPages = StackPage .. last /\ StackPages \subseteq Page
      /\ ArgsPage \in Int /\ StackPage \in Int /\ last \in Int /\ last < ArgsPage
      /\ ImagePages(a) = FirstPage .. LastImagePage(a) /\ LastImagePage(a) < StackPage
      /\ FirstPage \in Int /\ LastImagePage(a) \in Int
  BY <1>2, AreasOfPages
<1>5. v \in Page /\ v \in Int /\ StackPage <= v /\ v <= last
  BY <1>3, <1>4
<1>6. ~At(page_map, r, v).present /\ FirstContent(a, v) = Zero
  BY <1>3, <1>4, <1>5 DEF NoneAt, FirstContent
<1>7. \/ pc'[t] = "idle"
      \/ /\ \A y \in Page \ {v} : SamePage(r, y)
         /\ PageIs(r, v, Zero)
         /\ \/ v = last /\ pc'[t] = "call" /\ next'[t] = 0
            \/ v # last /\ pc'[t] = "stack" /\ next'[t] = v + 1
  <2> DEFINE w == TRUE
             x == Unfilled
  <2>1. w \in BOOLEAN /\ (pc[t] \in Loading => ~w /\ v < StackPage) /\ pc[t] # "idle"
    BY <1>1
  <2>2. SetupStep(t, last, w, x, "call", 0)
    BY DEF SetupStack
  <2>3. x = Unfilled
    OBVIOUS
  <2> HIDE DEF w, x, last
  <2> QED BY <1>1, <1>5, <1>6, <2>1, <2>2, <2>3, SetupStepSeen
<1>8. Holds(content, page_map, r, a, SoFar("stack", a, v))
  BY <1>1 DEF MemInv, MadeInv, MadeOK, Making
<1>9. CASE pc'[t] = "idle"
  BY <1>1, <1>9, NothingMade, NotRunning
<1>10. CASE /\ \A y \in Page \ {v} : SamePage(r, y)
            /\ PageIs(r, v, Zero)
            /\ \/ v = last /\ pc'[t] = "call" /\ next'[t] = 0
               \/ v # last /\ pc'[t] = "stack" /\ next'[t] = v + 1
  <2>1. Holds(content', page_map', r, a, SoFar(pc'[t], a, next'[t]))
    <3> DEFINE V == SoFar("stack", a, v)
               W == SoFar(pc'[t], a, next'[t])
    <3>1. \A y \in Page : y \in W <=> y \in V \/ y = v
      BY <1>4, <1>5, <1>10 DEF SoFar
    <3>2. PageIs(r, v, FirstContent(a, v)) /\ Holds(content, page_map, r, a, V)
      BY <1>6, <1>8, <1>10
    <3> HIDE DEF V, W, r, a, v
    <3>3. Holds(content', page_map', r, a, W)
      BY <1>5, <1>10, <3>1, <3>2, HoldsMore
    <3> QED BY <3>3 DEF W
  <2>2. MadeInv(t)'
    BY <1>1, <1>10, <2>1 DEF MadeInv, MadeOK
  <2> QED BY <1>1, <1>10, <2>2, NotRunning
<1> QED BY <1>7, <1>9, <1>10

\* The pages of one more entry.
LEMMA EntrySeen ==
  ASSUME IInv, NEW t \in Task, pc[t] = "copy", \A f \in used : content'[f] = content[f],
         EntryCopied(used, page_map, used', page_map', Roots, Owners,
                     cr3[t], temp_pml4[t], next[t]),
         Holds(content, page_map, temp_pml4[t], app[t], ImagePages(app[t])),
         Holds(content, page_map, cr3[t], app[t], ImageBelow(app[t], next[t]))
  PROVE  Holds(content', page_map', cr3[t], app[t], ImageBelow(app[t], next[t] + 1))
<1> DEFINE r == cr3[t]
           q == temp_pml4[t]
           e == next[t]
           a == app[t]
           W == ImageBelow(a, e + 1)
<1>1. /\ r \in Roots /\ q \in Roots /\ e \in UserEntry /\ e \in Int
      /\ Sound(used, page_map, Roots, Owners)
  <2>1. r \in Roots /\ q \in Owners /\ e \in UserEntry
    BY CopyingTask
  <2> QED BY <2>1 DEF UserEntry, IInv, SpacesInv, Sound, FramesSound
<1>2. \A v \in Page : Upper(v) # e => At(page_map', r, v) = At(page_map, r, v)
  BY <1>1, EntryViews DEF EntryCopied
<1>3. \A v \in Page : Upper(v) \in Int /\ Lower(v) \in Entry
  BY Places DEF UserEntry
<1> SUFFICES ASSUME NEW v \in Page
             PROVE  /\ At(page_map', r, v).present <=> v \in W
                    /\ v \in W => content'[At(page_map', r, v).frame] = FirstContent(a, v)
  BY DEF Holds
<1>4. v \in W <=> v \in ImagePages(a) /\ (Upper(v) < e \/ Upper(v) = e)
  BY <1>1, <1>3 DEF ImageBelow
<1>5. CASE Upper(v) = e
  <2>1. /\ HasPage(page_map', r, e, Lower(v)) <=> HasPage(page_map, q, e, Lower(v))
        /\ HasPage(page_map', r, e, Lower(v)) =>
             LeafAt(page_map', r, e, Lower(v)).frame = LeafAt(page_map, q, e, Lower(v)).frame
    BY <1>3 DEF EntryCopied
  <2>2. /\ At(page_map', r, v).present <=> HasPage(page_map', r, e, Lower(v))
        /\ At(page_map', r, v).present => At(page_map', r, v) = LeafAt(page_map', r, e, Lower(v))
        /\ At(page_map, q, v).present <=> HasPage(page_map, q, e, Lower(v))
        /\ At(page_map, q, v).present => At(page_map, q, v) = LeafAt(page_map, q, e, Lower(v))
    BY <1>5, AtHasPage
  <2>3. /\ At(page_map', r, v).present <=> At(page_map, q, v).present
        /\ At(page_map', r, v).present => At(page_map', r, v).frame = At(page_map, q, v).frame
    BY <2>1, <2>2
  <2>4. /\ At(page_map, q, v).present <=> v \in ImagePages(a)
        /\ v \in ImagePages(a) => content[At(page_map, q, v).frame] = FirstContent(a, v)
    BY DEF Holds
  <2>5. At(page_map, q, v).present => At(page_map, q, v).frame \in used
    BY <1>1, PageInUse
  <2> HIDE DEF r, q, e, a, W
  <2> QED BY <1>4, <1>5, <2>3, <2>4, <2>5
<1>6. CASE Upper(v) # e
  <2>1. SamePage(r, v)
    BY <1>1, <1>2, <1>6, SameFrames
  <2>2. v \in W <=> v \in ImageBelow(a, e)
    BY <1>4, <1>6 DEF ImageBelow
  <2>3. /\ At(page_map, r, v).present <=> v \in ImageBelow(a, e)
        /\ v \in ImageBelow(a, e) => content[At(page_map, r, v).frame] = FirstContent(a, v)
    BY DEF Holds
  <2> HIDE DEF r, q, e, a, W
  <2> QED BY <2>1, <2>2, <2>3 DEF SamePage
<1> QED BY <1>5, <1>6

LEMMA CopyPageMapMade ==
  ASSUME IInv, MemInv, ~SharedBuffers, NEW t \in Task, Keeps(t), CopyPageMap(t)
  PROVE  MadeInv(t)' /\ RunsInv(t)'
<1> DEFINE r == cr3[t]
           q == temp_pml4[t]
           e == next[t]
           a == app[t]
<1>1. /\ pc[t] = "copy" /\ UNCHANGED <<cr3, temp_pml4, app, app_loads, file_maps_>> /\ TypeInv
      /\ \/ ReturnError(t)
         \/ /\ \E p, k : CopyGoesOn(p, k, e) /\ Goto(t, p, k)
            /\ EntryCopied(used, page_map, used', page_map', Roots, Owners, r, q, e)
            /\ \A f \in used : content'[f] = content[f]
  BY CopyPageMapCases DEF CopyPageMap, areas, IInv
<1>2. CASE ReturnError(t)
  <2>1. pc'[t] = "idle"
    BY <1>1, <1>2 DEF ReturnError, Goto, TypeInv
  <2> QED BY <1>1, <2>1, NothingMade, NotRunning
<1>3. ASSUME NEW p, NEW k, CopyGoesOn(p, k, e), Goto(t, p, k),
             EntryCopied(used, page_map, used', page_map', Roots, Owners, r, q, e),
             \A f \in used : content'[f] = content[f]
      PROVE  MadeInv(t)' /\ RunsInv(t)'
  <2>1. pc'[t] = p /\ next'[t] = k
    BY <1>1, <1>3 DEF Goto, TypeInv
  <2>2. /\ Holds(content, page_map, q, a, ImagePages(a))
        /\ Holds(content, page_map, r, a, ImageBelow(a, e))
    BY <1>1 DEF MemInv, MadeInv, MadeOK, Making, SoFar
  <2>3. Holds(content', page_map', r, a, ImageBelow(a, e + 1))
    BY <1>1, <1>3, <2>2, EntrySeen
  <2>4. Holds(content', page_map', q, a, ImagePages(a))
    <3>1. q \in Owners /\ q \in Roots /\ q # r /\ q \in Roots'
      <4>1. q \in Owners /\ q # r
        BY <1>1, CopyingTask
      <4> QED BY <1>1, <4>1, SameRoots DEF IInv, SpacesInv, Sound, FramesSound
    <3>2. SamePages(q)
      BY <3>1, SpaceStays
    <3> QED BY <2>2, <3>2, HoldsStays
  <2>5. CASE p = "copy" /\ k = e + 1
    <3>1. MadeInv(t)'
      BY <1>1, <2>1, <2>3, <2>4, <2>5 DEF MadeInv, MadeOK, SoFar
    <3> QED BY <1>1, <2>1, <2>5, <3>1, NotRunning
  <2>6. CASE e = kEntries - 1 /\ p = "args"
    <3>1. \A v \in Page : v \in ImagePages(a) <=> v \in ImageBelow(a, e + 1)
      <4>1. \A v \in Page : Upper(v) \in UserEntry
        BY Places
      <4> QED BY <2>6, <4>1, SizeAssumption DEF UserEntry, Entry, ImageBelow
    <3>2. Holds(content', page_map', r, a, ImagePages(a))
      <4> DEFINE V == ImagePages(a)
                 W == ImageBelow(a, e + 1)
      <4> HIDE DEF V, W, r, a
      <4>1. Holds(content', page_map', r, a, V)
        BY <2>3, <3>1 DEF Holds, V, W
      <4> QED BY <4>1 DEF V
    <3>3. MadeInv(t)'
      BY <1>1, <2>1, <2>6, <3>2 DEF MadeInv, MadeOK, SoFar
    <3> QED BY <1>1, <2>1, <2>6, <3>3, NotRunning
  <2> QED BY <1>3, <2>5, <2>6 DEF CopyGoesOn
<1> QED BY <1>1, <1>2, <1>3

\* CallApp: the areas of the application that begins to run.
LEMMA CallAppMade ==
  ASSUME IInv, MemInv, NEW t \in Task, CallApp(t)
  PROVE  MadeInv(t)' /\ RunsInv(t)'
<1> DEFINE a == app[t]
           last == LastImagePage(a)
<1>1. /\ pc[t] = "call" /\ UNCHANGED <<memory, cr3, temp_pml4, app, file_maps_>> /\ TypeInv
      /\ Goto(t, "run", 0)
      /\ dpaging_begin_' = [dpaging_begin_ EXCEPT ![t] = last + 1]
      /\ dpaging_end_' = [dpaging_end_ EXCEPT ![t] = last + 1]
      /\ file_map_end_' = [file_map_end_ EXCEPT ![t] = StackPage]
  BY DEF CallApp, IInv
<1>2. /\ pc'[t] = "run" /\ dpaging_begin_'[t] = last + 1 /\ dpaging_end_'[t] = last + 1
      /\ file_map_end_'[t] = StackPage
  <2>1. AreaTypes
    BY DEF MemInv
  <2> QED BY <1>1, <2>1 DEF Goto, TypeInv, AreaTypes
<1>3. a \in Elf
  BY <1>1, TaskSpace DEF IInv
<1>4. last \in Int /\ StackPage \in Int /\ last < StackPage
  BY <1>3, AreasOfPages
<1>5. file_maps_[t] = <<>>
  BY <1>1 DEF MemInv, RunsInv
<1>6. AreasOK(t)'
  <2> HIDE DEF last
  <2>1. LastImagePage(app'[t]) = last
    BY <1>1 DEF last
  <2> QED BY <1>1, <1>2, <1>4, <1>5, <2>1 DEF AreasOK
<1>7. OnlyValid(t)'
  <2>1. Holds(content, page_map, cr3[t], a, ImagePages(a) \cup {ArgsPage} \cup StackPages)
    BY <1>1 DEF MemInv, MadeInv, MadeOK, Making, SoFar
  <2>2. \A v \in Page : At(page_map, cr3[t], v).present =>
                          v \in ImagePages(a) \cup {ArgsPage} \cup StackPages
    BY <2>1 DEF Holds
  <2> QED BY <1>1, <2>2 DEF OnlyValid, Valid, memory
<1> QED BY <1>1, <1>2, <1>6, <1>7, NothingMade DEF RunsInv

-----------------------------------------------------------------------------
(* The application runs.                                                   *)

\* Page v, which the application may use, contains x, and nothing else has changed.
Changes(t, v, x) ==
  /\ v \in Valid(t)
  /\ \A y \in Page \ {v} : SamePage(cr3[t], y)
  /\ PageIs(cr3[t], v, x)

\* What t stores into a page it can write is in that page only.
LEMMA StoreSeen ==
  ASSUME IInv, MemInv, NEW t \in Task, pc[t] = "run", NEW v \in Page,
         At(page_map, cr3[t], v).writable, SetMemory(Fill(Memory, cr3[t], v, Written))
  PROVE  Changes(t, v, Written)
<1> DEFINE m == Fill(Memory, cr3[t], v, Written)
           r == cr3[t]
           f == At(page_map, r, v).frame
<1>1. IsMem(Memory) /\ Memory.page_map = page_map /\ Memory.content = content
  BY MemoryIsMem, MemFields DEF IsMem
<1>2. m.page_map = page_map /\ m.content = Stored(content, f, Written)
  BY <1>1, FillFields
<1>3. r \in Roots /\ Sound(used, page_map, Roots, Owners) /\ IsContent(content) /\ used \subseteq Frame
  BY TaskSpace DEF IInv, SpacesInv, TypeInv, Sound, FramesSound
<1>4. At(page_map, r, v).present
  BY <1>3, WritableIsPresent
<1>5. f \in Frame /\ \A y \in Page : At(page_map, r, y).present => At(page_map, r, y).frame \in Frame
  BY <1>3, <1>4, PageInUse
<1>6. \A y \in Page \ {v} : At(page_map, r, y).present => At(page_map, r, y).frame # f
  <2> SUFFICES ASSUME NEW y \in Page, At(page_map, r, y).present, At(page_map, r, y).frame = f
               PROVE  y = v
    OBVIOUS
  <2>1. /\ HasPage(page_map, r, Upper(v), Lower(v)) /\ HasPage(page_map, r, Upper(y), Lower(y))
        /\ At(page_map, r, v) = LeafAt(page_map, r, Upper(v), Lower(v))
        /\ At(page_map, r, y) = LeafAt(page_map, r, Upper(y), Lower(y))
    BY <1>4, AtHasPage
  <2>2. /\ Upper(v) \in Entry /\ Lower(v) \in Entry /\ Upper(y) \in Entry /\ Lower(y) \in Entry
        /\ SlotPage(Upper(v), Lower(v)) = v /\ SlotPage(Upper(y), Lower(y)) = y
    BY Places
  <2>3. SamePlace(r, Upper(v), Lower(v), r, Upper(y), Lower(y))
    BY <1>3, <2>1, <2>2 DEF Sound, WritableApart
  <2> QED BY <2>2, <2>3 DEF SamePlace
<1> HIDE DEF m, f
<1>7. page_map' = page_map /\ content' = Stored(content, f, Written)
  BY <1>2 DEF SetMemory, m
<1>8. content'[f] = Written /\ \A g \in Frame : g # f => content'[g] = content[g]
  BY <1>3, <1>5, <1>7, StoredElsewhere
<1>9. \A y \in Page \ {v} : SamePage(r, y)
  BY <1>5, <1>6, <1>7, <1>8 DEF SamePage
<1>10. PageIs(r, v, Written)
  BY <1>4, <1>7, <1>8 DEF PageIs, f
<1>11. v \in Valid(t)
  BY <1>4 DEF MemInv, RunsInv, OnlyValid
<1> QED BY <1>9, <1>10, <1>11 DEF Changes

LEMMA HandledFields ==
  ASSUME NEW t, NEW v, NEW s, Handled(t, v, s), s.ok
  PROVE  IsContent(s.mem.content) /\ At(s.mem.page_map, cr3[t], v).frame \in Frame
BY DEF Handled, SetUpResult, PageSetUp, PageKept, PageIn

LEMMA HandledSeen ==
  ASSUME IInv, NEW t \in Task, pc[t] = "run", NEW v \in Valid(t) \cap Page, NEW s, Handled(t, v, s),
         s.ok, SetMemory(s.mem)
  PROVE  Changes(t, v, Put(s, cr3[t], v))
<1>1. cr3[t] \in Roots
  BY TaskSpace DEF IInv
<1>2. PICK w \in BOOLEAN :
        SetUpResult(used, page_map, content, Roots, Owners, cr3[t], v, w, s)
  BY DEF Handled
<1> QED BY <1>1, <1>2, ResultSeen DEF Changes

\* CopyOnePage puts into the page what was there.
LEMMA CopySeen ==
  ASSUME IInv, NEW t \in Task, pc[t] = "run", NEW v \in Page, At(page_map, cr3[t], v).present,
         ~At(page_map, cr3[t], v).writable, CopyOnePage(Memory, cr3[t], v).ok
  PROVE  Put(CopyOnePage(Memory, cr3[t], v), cr3[t], v) = content[At(page_map, cr3[t], v).frame]
<1>1. ~Full(Memory)
  BY DEF CopyOnePage
<1>2. Sound(used, page_map, Roots, Owners) /\ IsContent(content) /\ cr3[t] \in Roots \ Owners
  BY TaskSpace DEF IInv, SpacesInv, TypeInv, Loading
<1>3. Memory = Mem(used, page_map, content)
  BY MemoryIsMem
<1>4. ASSUME NEW w \in BOOLEAN, w
      PROVE  PageCopied(used, page_map, content, Roots, Owners, cr3[t], v, w,
                        CopyOnePage(Memory, cr3[t], v))
  BY <1>1, <1>2, <1>3, <1>4, CopySetsUp
<1> QED BY <1>4 DEF PageCopied

\* HandlePageFault puts into the page what the application expects there.
LEMMA FaultSeen ==
  ASSUME IInv, MemInv, NEW t \in Task, pc[t] = "run", NEW v \in Page,
         NEW rw \in BOOLEAN, NEW user \in BOOLEAN,
         At(page_map, cr3[t], v).present => ~At(page_map, cr3[t], v).writable,
         HandlePageFault(t, v, rw, user).ok
  PROVE  LET s == HandlePageFault(t, v, rw, user) IN
         /\ Handled(t, v, s) /\ IsMem(s.mem) /\ (IsResult(s) \/ user)
         /\ v \in Valid(t) /\ Put(s, cr3[t], v) = PageContent(t, v)
<1> DEFINE s == HandlePageFault(t, v, rw, user)
           x == At(page_map, cr3[t], v)
           p == SetupPage(Memory, cr3[t], v, TRUE)
           c == CopyOnePage(Memory, cr3[t], v)
           none == [mem |-> Memory, ok |-> FALSE]
<1>1. Leaf(Memory, cr3[t], v) = x
  BY MemoryIsMem
<1>2. /\ x.present /\ rw /\ user => s = c
      /\ x.present /\ ~(rw /\ user) => s = none
      /\ ~x.present /\ DemandPage(t, v) => s = p
      /\ ~x.present /\ ~DemandPage(t, v) /\ Mapped(t, v) # {} =>
           s = IF p.ok THEN [p EXCEPT !.mem = Fill(@, cr3[t], v, FilePage(t, v))] ELSE p
      /\ ~x.present /\ ~DemandPage(t, v) /\ Mapped(t, v) = {} => s = none
  <2> HIDE DEF x, p, c
  <2> QED BY <1>1 DEF HandlePageFault, p, c
<1>3. /\ x.present => PageContent(t, v) = content[x.frame]
      /\ ~x.present /\ DemandPage(t, v) => PageContent(t, v) = Zero
      /\ ~x.present /\ ~DemandPage(t, v) => PageContent(t, v) = FilePage(t, v)
  BY <1>1 DEF PageContent
<1>4. /\ x.present => v \in Valid(t)
      /\ DemandPage(t, v) => v \in Valid(t)
      /\ Mapped(t, v) # {} => v \in Valid(t)
  <2>1. OnlyValid(t)
    BY DEF MemInv, RunsInv
  <2> QED BY <2>1 DEF OnlyValid, Valid, DemandPage
<1>5. s.ok
  OBVIOUS
<1>6. Handled(t, v, s) /\ IsMem(s.mem) /\ (IsResult(s) \/ user)
  <2>1. Refused(t, v, s) \/ (Handled(t, v, s) /\ IsMem(s.mem) /\ (IsResult(s) \/ ~s.ok \/ user))
    BY FaultHandled
  <2> HIDE DEF s
  <2> QED BY <1>5, <2>1 DEF Refused
<1>7. CASE x.present
  <2>1. s = c /\ rw /\ user
    BY <1>2, <1>5, <1>7
  <2>2. c.ok
    <3> HIDE DEF s, c
    <3> QED BY <1>5, <2>1
  <2>6. Put(c, cr3[t], v) = content[x.frame]
    BY <1>7, <2>2, CopySeen
  <2> HIDE DEF s, c, x
  <2>7. Put(s, cr3[t], v) = PageContent(t, v) /\ v \in Valid(t)
    BY <1>3, <1>4, <1>7, <2>1, <2>6
  <2> QED BY <1>6, <2>7 DEF s
<1>8. ASSUME ~x.present
      PROVE  IsMem(p.mem) /\ IsResult(p) /\ Handled(t, v, p) /\ (p.ok => Put(p, cr3[t], v) = Zero)
  <2>1. IsMem(p.mem) /\ IsResult(p) /\ Handled(t, v, p)
    BY <1>8, SetupIsHandled
  <2>2. pc[t] # "idle" /\ pc[t] \notin Loading
    BY DEF Loading
  <2>3. \A w \in BOOLEAN :
          SetupPage(Memory, cr3[t], v, w).ok => Put(SetupPage(Memory, cr3[t], v, w), cr3[t], v) = Zero
    BY <1>8, <2>2, PageIsSetUp
  <2> QED BY <2>1, <2>3
<1>9. CASE ~x.present /\ DemandPage(t, v)
  <2>1. s = p
    BY <1>2, <1>9
  <2>2. p.ok => Put(p, cr3[t], v) = Zero
    BY <1>8, <1>9
  <2> HIDE DEF s, p, x
  <2>3. Put(s, cr3[t], v) = PageContent(t, v) /\ v \in Valid(t)
    BY <1>3, <1>4, <1>5, <1>9, <2>1, <2>2
  <2> QED BY <1>6, <2>3 DEF s
<1>10. CASE ~x.present /\ ~DemandPage(t, v) /\ Mapped(t, v) # {}
  <2> DEFINE y == FilePage(t, v)
             z == [p EXCEPT !.mem = Fill(@, cr3[t], v, y)]
  <2>1. p.ok /\ s = z
    <3>1. s = IF p.ok THEN z ELSE p
      BY <1>2, <1>10
    <3> HIDE DEF s, p, z
    <3> QED BY <1>5, <3>1
  <2>2. Put(z, cr3[t], v) = y
    <3>1. IsMem(p.mem) /\ Handled(t, v, p)
      BY <1>8, <1>10
    <3> HIDE DEF p, y
    <3>2. IsContent(p.mem.content) /\ At(p.mem.page_map, cr3[t], v).frame \in Frame
      BY <2>1, <3>1, HandledFields
    <3> QED BY <3>1, <3>2, FilledPut
  <2> HIDE DEF s, z, x
  <2>3. Put(s, cr3[t], v) = PageContent(t, v) /\ v \in Valid(t)
    BY <1>3, <1>4, <1>10, <2>1, <2>2
  <2> QED BY <1>6, <2>3 DEF s
<1>11. ~(~x.present /\ ~DemandPage(t, v) /\ Mapped(t, v) = {})
  BY <1>2, <1>5
<1> QED BY <1>7, <1>9, <1>10, <1>11

\* A fault is handled, and cannot be seen, or ends the application.
LEMMA PageFaultSeen ==
  ASSUME IInv, MemInv, NEW t \in Task, NEW v \in Touched, NEW rw \in BOOLEAN, PageFault(t, v, rw)
  PROVE  /\ pc[t] = "run"
         /\ \/ UNCHANGED <<pc, areas>> /\ Changes(t, v, PageContent(t, v))
            \/ Leave(t)
<1> DEFINE s == HandlePageFault(t, v, rw, TRUE)
<1>1. pc[t] = "run" /\ SetMemory(s.mem) /\ IF s.ok THEN UNCHANGED <<pc, next, areas>> ELSE Leave(t)
  BY DEF PageFault
<1>2. v \in Page /\ (At(page_map, cr3[t], v).present => ~At(page_map, cr3[t], v).writable)
  BY SizeAssumption, MemoryIsMem DEF PageFault
<1>3. ASSUME s.ok
      PROVE  Changes(t, v, PageContent(t, v))
  <2>1. \A user \in BOOLEAN : HandlePageFault(t, v, rw, user).ok =>
          /\ Handled(t, v, HandlePageFault(t, v, rw, user))
          /\ v \in Valid(t) /\ Put(HandlePageFault(t, v, rw, user), cr3[t], v) = PageContent(t, v)
    BY <1>1, <1>2, FaultSeen
  <2>2. Handled(t, v, s) /\ v \in Valid(t) /\ Put(s, cr3[t], v) = PageContent(t, v)
    BY <1>3, <2>1
  <2> HIDE DEF s
  <2>3. Changes(t, v, Put(s, cr3[t], v))
    BY <1>1, <1>2, <1>3, <2>2, HandledSeen
  <2> QED BY <2>2, <2>3
<1> HIDE DEF s
<1> QED BY <1>1, <1>3

LEMMA UserStoreSeen ==
  ASSUME IInv, MemInv, NEW t \in Task, NEW v \in Touched, UserStore(t, v)
  PROVE  pc[t] = "run" /\ UNCHANGED <<pc, areas>> /\ Changes(t, v, Written)
<1>1. /\ pc[t] = "run" /\ v \in Page /\ At(page_map, cr3[t], v).writable
      /\ SetMemory(Fill(Memory, cr3[t], v, Written)) /\ UNCHANGED <<pc, areas>>
  BY SizeAssumption, MemoryIsMem DEF UserStore
<1> QED BY <1>1, StoreSeen

\* A system call stores into the page, or the machine stops.
LEMMA SystemCallSeen ==
  ASSUME IInv, MemInv, ~SharedBuffers, NEW t \in Task, NEW v \in Touched, SystemCallStores(t, v)
  PROVE  /\ pc[t] = "run"
         /\ IF KernelStore(t, v).ok THEN UNCHANGED pc /\ Changes(t, v, Written) ELSE pc'[t] = "halt"
<1> DEFINE s == KernelStore(t, v)
           h == HandlePageFault(t, v, TRUE, FALSE)
           x == At(page_map, cr3[t], v)
<1>1. /\ pc[t] = "run" /\ v \in Buffer(t) /\ v \in Valid(t) /\ SetMemory(s.mem) /\ TypeInv
      /\ IF s.ok THEN UNCHANGED <<pc, next>> ELSE Goto(t, "halt", 0)
  BY DEF SystemCallStores, Buffer, IInv
<1>2. v \in Page /\ Leaf(Memory, cr3[t], v) = x
  BY SizeAssumption, MemoryIsMem
<1>3. CASE x.present
  <2>1. s.mem = Fill(Memory, cr3[t], v, Written) /\ s.ok
    BY <1>2, <1>3 DEF KernelStore
  <2>2. x.writable
    BY <1>1, <1>2, <1>3 DEF Buffer
  <2>3. SetMemory(Fill(Memory, cr3[t], v, Written))
    BY <1>1, <2>1
  <2>4. Changes(t, v, Written)
    BY <1>1, <1>2, <2>2, <2>3, StoreSeen
  <2> QED BY <1>1, <2>1, <2>4
<1>4. CASE ~x.present
  <2>1. s = IF h.ok THEN [h EXCEPT !.mem = Fill(@, cr3[t], v, Written)] ELSE h
    BY <1>2, <1>4 DEF KernelStore
  <2>2. CASE h.ok
    <3>1. Handled(t, v, h) /\ IsMem(h.mem) /\ IsResult(h)
      <4>1. \A rw, user \in BOOLEAN : HandlePageFault(t, v, rw, user).ok =>
              LET g == HandlePageFault(t, v, rw, user) IN
              Handled(t, v, g) /\ IsMem(g.mem) /\ (IsResult(g) \/ user)
        BY <1>1, <1>2, <1>4, FaultSeen
      <4> QED BY <2>2, <4>1
    <3> DEFINE y == Written
               z == [h EXCEPT !.mem = Fill(@, cr3[t], v, y)]
    <3>2. s = z
      BY <2>1, <2>2
    <3> HIDE DEF h, y
    <3>3. Handled(t, v, z) /\ (z.ok <=> h.ok)
      BY <2>2, <3>1, FilledIsHandled
    <3>4. Put(z, cr3[t], v) = y
      <4>1. IsContent(h.mem.content) /\ At(h.mem.page_map, cr3[t], v).frame \in Frame
        BY <2>2, <3>1, HandledFields
      <4> QED BY <3>1, <4>1, FilledPut
    <3> HIDE DEF z, s
    <3>5. Changes(t, v, Put(z, cr3[t], v)) /\ s.ok
      BY <1>1, <1>2, <2>2, <3>2, <3>3, HandledSeen
    <3> QED BY <1>1, <3>4, <3>5 DEF y, s
  <2>3. CASE ~h.ok
    <3>1. ~s.ok
      <4> HIDE DEF s, h
      <4> QED BY <2>1, <2>3
    <3> QED BY <1>1, <3>1 DEF Goto, TypeInv
  <2> QED BY <2>2, <2>3
<1> QED BY <1>3, <1>4

\* What is valid stays so.
LEMMA ChangedMade ==
  ASSUME MemInv, NEW t \in Task, pc[t] = "run", pc'[t] = "run", UNCHANGED <<cr3, app>>,
         (\E v, x : Changes(t, v, x)) \/ UNCHANGED page_map,
         AreasOK(t)', Valid(t) \subseteq Valid(t)'
  PROVE  MadeInv(t)' /\ RunsInv(t)'
<1>1. OnlyValid(t)
  BY DEF MemInv, RunsInv
<1>2. OnlyValid(t)'
  <2>1. CASE UNCHANGED page_map
    BY <1>1, <2>1 DEF OnlyValid
  <2>2. CASE \E v, x : Changes(t, v, x)
    <3>1. PICK v, x : Changes(t, v, x)
      BY <2>2
    <3>2. \A y \in Page : At(page_map', cr3[t], y).present => At(page_map, cr3[t], y).present \/ y = v
      BY <3>1 DEF Changes, SamePage
    <3> QED BY <1>1, <3>1, <3>2 DEF Changes, OnlyValid
  <2> QED BY <2>1, <2>2
<1> QED BY <1>2, NothingMade DEF RunsInv

LEMMA LeftMade ==
  ASSUME MemInv, NEW t \in Task, TypeInv, Leave(t)
  PROVE  pc'[t] = "clean" /\ MadeInv(t)' /\ RunsInv(t)'
<1>1. pc'[t] = "clean" /\ file_maps_'[t] = <<>>
  BY DEF Leave, Goto, TypeInv, MemInv, AreaTypes
<1> QED BY <1>1, NothingMade DEF RunsInv

LEMMA SameAreas ==
  ASSUME MemInv, NEW t \in Task, pc[t] = "run", UNCHANGED <<areas, app>>
  PROVE  /\ AreasOK(t)' /\ Valid(t)' = Valid(t)
         /\ \A v : (DemandPage(t, v) <=> DemandPage(t, v)') /\ FilePage(t, v)' = FilePage(t, v)
<1>1. AreasOK(t)
  BY DEF MemInv, RunsInv
<1>2. AreasOK(t)'
  BY <1>1 DEF AreasOK, areas
<1> QED BY <1>2 DEF Valid, Mapped, DemandPage, FilePage, FindFileMapping, areas

LEMMA MappingTypes ==
  ASSUME AreaTypes, NEW t \in Task, NEW k \in DOMAIN file_maps_[t]
  PROVE  file_maps_[t][k].begin \in Int /\ file_maps_[t][k].end \in Int
<1> DEFINE S == [fd : DOMAIN File, begin : Int, end : Int]
           q == file_maps_[t]
<1>1. q \in Seq(S)
  BY DEF AreaTypes
<1>2. q[k] \in S
  <2> HIDE DEF S, q
  <2>1. \A l \in 1 .. Len(q) : q[l] \in S
    BY <1>1
  <2>2. k \in 1 .. Len(q)
    BY <1>1 DEF q
  <2> QED BY <2>1, <2>2
<1> QED BY <1>2

LEMMA DemandAreas ==
  ASSUME MemInv, NEW t \in Task, NEW n \in 1 .. StackPage, DemandPages(t, n)
  PROVE  /\ pc[t] = "run" /\ UNCHANGED <<pc, cr3, app, memory>>
         /\ AreasOK(t)' /\ Valid(t) \subseteq Valid(t)'
         /\ \A v \in Page : /\ DemandPage(t, v) => DemandPage(t, v)'
                            /\ v \in Valid(t)' \ Valid(t) => DemandPage(t, v)'
                            /\ Mapped(t, v) # {} => ~DemandPage(t, v)'
                            /\ FilePage(t, v)' = FilePage(t, v)
<1>1. /\ pc[t] = "run" /\ UNCHANGED <<pc, cr3, app, memory, dpaging_begin_, file_map_end_, file_maps_>>
      /\ dpaging_end_[t] + n <= file_map_end_[t]
      /\ dpaging_end_' = [dpaging_end_ EXCEPT ![t] = @ + n]
  BY DEF DemandPages
<1>2. AreaTypes /\ AreasOK(t) /\ n \in Int /\ n >= 1
  BY <1>1, AreasOfPages DEF MemInv, RunsInv
<1>3. /\ dpaging_begin_[t] \in Int /\ dpaging_end_[t] \in Int /\ file_map_end_[t] \in Int
      /\ dpaging_end_'[t] = dpaging_end_[t] + n
  BY <1>1, <1>2 DEF AreaTypes
<1>4. AreasOK(t)'
  BY <1>1, <1>2, <1>3 DEF AreasOK
<1>5. \A v \in Page : v \in Int
  BY Places
<1>6. \A v \in Page : /\ DemandPage(t, v) => DemandPage(t, v)'
                      /\ Mapped(t, v)' = Mapped(t, v) /\ FilePage(t, v)' = FilePage(t, v)
  BY <1>1, <1>2, <1>3, <1>5 DEF DemandPage, Mapped, FilePage, FindFileMapping
<1>7. \A v \in Page : Mapped(t, v) # {} => ~DemandPage(t, v)'
  <2> SUFFICES ASSUME NEW v \in Page, NEW k \in Mapped(t, v)
               PROVE  ~DemandPage(t, v)'
    OBVIOUS
  <2>1. k \in DOMAIN file_maps_[t] /\ file_maps_[t][k].begin <= v
    BY DEF Mapped
  <2>2. file_map_end_[t] <= file_maps_[t][k].begin
    BY <1>2, <2>1 DEF AreasOK
  <2>3. file_maps_[t][k].begin \in Int
    BY <1>2, <2>1, MappingTypes
  <2> QED BY <1>1, <1>3, <1>5, <2>1, <2>2, <2>3 DEF DemandPage
<1>8. Valid(t)' = Valid(t) \cup {v \in Page : DemandPage(t, v)'}
  <2>1. Valid(t) = ImagePages(app[t]) \cup StackPages \cup {ArgsPage}
                     \cup {v \in Page : DemandPage(t, v)} \cup {v \in Page : Mapped(t, v) # {}}
    BY DEF Valid, DemandPage
  <2>2. Valid(t)' = ImagePages(app[t]) \cup StackPages \cup {ArgsPage}
                     \cup {v \in Page : DemandPage(t, v)'} \cup {v \in Page : Mapped(t, v)' # {}}
    BY <1>1 DEF Valid, DemandPage
  <2> QED BY <1>6, <2>1, <2>2
<1> QED BY <1>1, <1>4, <1>6, <1>7, <1>8

\* MapFile adds one mapping, below those there are.
NewMapping(t, fd) ==
  [fd |-> fd, begin |-> file_map_end_[t] - Len(File[fd]), end |-> file_map_end_[t]]

LEMMA MapFileMaps ==
  ASSUME MemInv, NEW t \in Task, NEW fd \in DOMAIN File, NEW v, MapFile(t, fd, v), KernelStore(t, v).ok
  PROVE  /\ SystemCallStores(t, v) /\ pc[t] = "run"
         /\ UNCHANGED <<cr3, app, dpaging_begin_, dpaging_end_>> /\ AreasOK(t)
         /\ Len(File[fd]) \in Nat /\ dpaging_end_[t] <= NewMapping(t, fd).begin
         /\ NewMapping(t, fd).begin \in Int /\ file_map_end_[t] \in Int /\ dpaging_end_[t] \in Int
         /\ dpaging_begin_[t] \in Int
         /\ NewMapping(t, fd).begin <= file_map_end_[t] /\ NewMapping(t, fd).end = file_map_end_[t]
         /\ file_map_end_' = [file_map_end_ EXCEPT ![t] = NewMapping(t, fd).begin]
         /\ file_maps_' = [file_maps_ EXCEPT ![t] = Append(@, NewMapping(t, fd))]
<1>1. /\ SystemCallStores(t, v) /\ pc[t] = "run"
      /\ UNCHANGED <<cr3, app, dpaging_begin_, dpaging_end_>>
      /\ dpaging_end_[t] <= NewMapping(t, fd).begin /\ NewMapping(t, fd).end = file_map_end_[t]
      /\ NewMapping(t, fd).begin = file_map_end_[t] - Len(File[fd])
      /\ file_map_end_' = [file_map_end_ EXCEPT ![t] = NewMapping(t, fd).begin]
      /\ file_maps_' = [file_maps_ EXCEPT ![t] = Append(@, NewMapping(t, fd))]
  BY DEF MapFile, SystemCallStores, NewMapping
<1>2. AreasOK(t) /\ AreaTypes
  BY <1>1 DEF MemInv, RunsInv
<1>3. Len(File[fd]) \in Nat
  <2>1. File[fd] \in Seq(FileContents)
    BY FileAssumption
  <2> HIDE DEF FileContents
  <2> QED BY <2>1
<1>4. file_map_end_[t] \in Int /\ dpaging_end_[t] \in Int /\ dpaging_begin_[t] \in Int
  BY <1>2 DEF AreaTypes
<1> QED BY <1>1, <1>2, <1>3, <1>4

LEMMA Appended ==
  ASSUME NEW S, NEW q \in Seq(S), NEW x
  PROVE  /\ DOMAIN Append(q, x) = DOMAIN q \cup {Len(q) + 1} /\ Append(q, x)[Len(q) + 1] = x
         /\ DOMAIN q = 1 .. Len(q) /\ Len(q) \in Nat
         /\ \A k \in DOMAIN q : Append(q, x)[k] = q[k] /\ k # Len(q) + 1 /\ k <= Len(q) + 1
OBVIOUS

LEMMA MapsAppended ==
  ASSUME AreaTypes, NEW t \in Task, NEW m,
         file_maps_' = [file_maps_ EXCEPT ![t] = Append(@, m)]
  PROVE  LET l == Len(file_maps_[t]) + 1 IN
         /\ l \in Nat /\ l \notin DOMAIN file_maps_[t] /\ file_maps_'[t][l] = m
         /\ DOMAIN file_maps_'[t] = DOMAIN file_maps_[t] \cup {l}
         /\ \A k \in DOMAIN file_maps_[t] : file_maps_'[t][k] = file_maps_[t][k] /\ k \in Nat
<1> DEFINE S == [fd : DOMAIN File, begin : Int, end : Int]
           q == file_maps_[t]
<1>1. q \in Seq(S) /\ file_maps_'[t] = Append(q, m)
  BY DEF AreaTypes
<1>2. /\ DOMAIN Append(q, m) = DOMAIN q \cup {Len(q) + 1} /\ Append(q, m)[Len(q) + 1] = m
      /\ DOMAIN q = 1 .. Len(q) /\ Len(q) \in Nat
      /\ \A k \in DOMAIN q : Append(q, m)[k] = q[k] /\ k # Len(q) + 1 /\ k <= Len(q) + 1
  <2> HIDE DEF S, q
  <2> QED BY <1>1, Appended
<1> HIDE DEF q, S
<1> QED BY <1>1, <1>2 DEF q

\* Pages that were mapped are mapped by the same mappings as before.
LEMMA MapFileAreas ==
  ASSUME MemInv, NEW t \in Task, NEW fd \in DOMAIN File, NEW v, MapFile(t, fd, v), KernelStore(t, v).ok
  PROVE  LET m == NewMapping(t, fd) IN
         /\ AreasOK(t)' /\ Valid(t)' = Valid(t) \cup {y \in Page : m.begin <= y /\ y < m.end}
         /\ \A y \in Page :
              /\ DemandPage(t, y)' <=> DemandPage(t, y)
              /\ m.begin <= y /\ y < m.end =>
                   /\ Mapped(t, y) = {} /\ ~DemandPage(t, y)
                   /\ FilePage(t, y)' = File[fd][y - m.begin + 1]
              /\ Mapped(t, y) # {} => FilePage(t, y)' = FilePage(t, y)
<1> DEFINE m == NewMapping(t, fd)
           l == Len(file_maps_[t]) + 1
<1>1. /\ UNCHANGED <<app, dpaging_begin_, dpaging_end_>> /\ AreasOK(t)
      /\ dpaging_end_[t] <= m.begin /\ m.fd = fd
      /\ m.begin \in Int /\ file_map_end_[t] \in Int /\ dpaging_end_[t] \in Int
      /\ dpaging_begin_[t] \in Int
      /\ m.begin <= file_map_end_[t] /\ m.end = file_map_end_[t]
      /\ file_map_end_' = [file_map_end_ EXCEPT ![t] = m.begin]
      /\ file_maps_' = [file_maps_ EXCEPT ![t] = Append(@, m)]
  <2>1. m.fd = fd
    BY DEF NewMapping
  <2> HIDE DEF m
  <2> QED BY <2>1, MapFileMaps DEF m
<1> HIDE DEF m
<1>2. AreaTypes
  BY DEF MemInv
<1>3. /\ l \in Nat /\ l \notin DOMAIN file_maps_[t] /\ file_maps_'[t][l] = m
      /\ DOMAIN file_maps_'[t] = DOMAIN file_maps_[t] \cup {l}
      /\ \A k \in DOMAIN file_maps_[t] : file_maps_'[t][k] = file_maps_[t][k] /\ k \in Nat
  BY <1>1, <1>2, MapsAppended
<1> HIDE DEF l
<1>4. \A k \in DOMAIN file_maps_[t] :
        /\ file_maps_[t][k].begin \in Int /\ file_maps_[t][k].end \in Int
        /\ file_map_end_[t] <= file_maps_[t][k].begin
  BY <1>1, <1>2, MappingTypes DEF AreasOK
<1>5. file_map_end_'[t] = m.begin
  BY <1>1, <1>2 DEF AreaTypes
<1>6. AreasOK(t)'
  <2>1. StackPage \in Int
    BY AreasOfPages
  <2>2. ASSUME NEW k \in DOMAIN file_maps_'[t]
        PROVE  m.begin <= file_maps_'[t][k].begin /\ file_maps_'[t][k].end <= StackPage
    <3>1. CASE k = l
      BY <1>1, <1>3, <3>1 DEF AreasOK
    <3>2. CASE k \in DOMAIN file_maps_[t]
      <4>1. file_maps_[t][k].end <= StackPage
        BY <1>1, <3>2 DEF AreasOK
      <4> QED BY <1>1, <1>3, <1>4, <3>2, <4>1
    <3> QED BY <1>3, <2>2, <3>1, <3>2
  <2>3. m.begin <= StackPage
    BY <1>1, <2>1 DEF AreasOK
  <2> QED BY <1>1, <1>5, <2>2, <2>3 DEF AreasOK
<1>7. \A y \in Page : y \in Int
  BY Places
<1>8. \A y \in Page :
        /\ Mapped(t, y)' = Mapped(t, y) \cup (IF m.begin <= y /\ y < m.end THEN {l} ELSE {})
        /\ m.begin <= y /\ y < m.end => Mapped(t, y) = {}
        /\ \A k \in Mapped(t, y) : k \in DOMAIN file_maps_[t]
  <2> SUFFICES ASSUME NEW y \in Page
               PROVE  /\ Mapped(t, y)' = Mapped(t, y) \cup (IF m.begin <= y /\ y < m.end THEN {l} ELSE {})
                      /\ m.begin <= y /\ y < m.end => Mapped(t, y) = {}
                      /\ \A k \in Mapped(t, y) : k \in DOMAIN file_maps_[t]
    OBVIOUS
  <2>1. \A k \in Mapped(t, y) : k \in DOMAIN file_maps_[t] /\ file_map_end_[t] <= y
    BY <1>1, <1>4, <1>7 DEF Mapped
  <2>2. m.begin <= y /\ y < m.end => Mapped(t, y) = {}
    BY <1>1, <1>7, <2>1
  <2>3. \A k : k \in Mapped(t, y)' <=> k \in Mapped(t, y) \/ (k = l /\ m.begin <= y /\ y < m.end)
    <3>1. Mapped(t, y)' = {k \in DOMAIN file_maps_'[t] :
                             file_maps_'[t][k].begin <= y /\ y < file_maps_'[t][k].end}
      BY DEF Mapped
    <3>2. \A k : k \in Mapped(t, y)' <=>
            /\ k \in DOMAIN file_maps_[t] \cup {l}
            /\ file_maps_'[t][k].begin <= y /\ y < file_maps_'[t][k].end
      BY <1>3, <3>1
    <3> QED BY <1>3, <3>2 DEF Mapped
  <2> QED BY <2>1, <2>2, <2>3
<1>9. \A y \in Page : DemandPage(t, y)' <=> DemandPage(t, y)
  BY <1>1 DEF DemandPage
<1>10. Valid(t)' = Valid(t) \cup {y \in Page : m.begin <= y /\ y < m.end}
  <2>1. Valid(t) = ImagePages(app[t]) \cup StackPages \cup {ArgsPage}
                     \cup {y \in Page : DemandPage(t, y)} \cup {y \in Page : Mapped(t, y) # {}}
    BY DEF Valid, DemandPage
  <2>2. Valid(t)' = ImagePages(app[t]) \cup StackPages \cup {ArgsPage}
                     \cup {y \in Page : DemandPage(t, y)'} \cup {y \in Page : Mapped(t, y)' # {}}
    BY <1>1 DEF Valid, DemandPage
  <2>3. {y \in Page : Mapped(t, y)' # {}} =
          {y \in Page : Mapped(t, y) # {}} \cup {y \in Page : m.begin <= y /\ y < m.end}
    BY <1>8
  <2>4. {y \in Page : DemandPage(t, y)'} = {y \in Page : DemandPage(t, y)}
    BY <1>9
  <2> QED BY <2>1, <2>2, <2>3, <2>4
<1>11. ASSUME NEW y \in Page, m.begin <= y, y < m.end
       PROVE  ~DemandPage(t, y) /\ FilePage(t, y)' = File[fd][y - m.begin + 1]
  <2>1. ~DemandPage(t, y)
    BY <1>1, <1>7, <1>11 DEF DemandPage
  <2>2. Mapped(t, y)' = {l}
    BY <1>8, <1>11
  <2>3. FindFileMapping(t, y)' = file_maps_'[t][CHOOSE k \in Mapped(t, y)' : \A j \in Mapped(t, y)' : k <= j]
    BY DEF FindFileMapping
  <2>4. (CHOOSE k \in {l} : \A j \in {l} : k <= j) = l
    BY <1>3
  <2>5. FindFileMapping(t, y)' = m
    BY <1>3, <2>2, <2>3, <2>4
  <2> QED BY <1>1, <2>1, <2>5 DEF FilePage
<1>12. ASSUME NEW y \in Page, Mapped(t, y) # {}
       PROVE  FilePage(t, y)' = FilePage(t, y)
  <2>1. Mapped(t, y)' = Mapped(t, y)
    BY <1>8, <1>12
  <2> DEFINE j == CHOOSE k \in Mapped(t, y) : \A i \in Mapped(t, y) : k <= i
  <2>2. j \in Mapped(t, y)
    <3>1. Mapped(t, y) \subseteq Nat
      BY <1>3, <1>8, <1>12
    <3>2. \E x \in Mapped(t, y) : \A i \in Mapped(t, y) : x <= i
      BY <1>12, <3>1, Least
    <3> QED BY <3>2
  <2>3. FindFileMapping(t, y) = file_maps_[t][j] /\ FindFileMapping(t, y)' = file_maps_'[t][j]
    BY <2>1 DEF FindFileMapping
  <2> HIDE DEF j
  <2>4. file_maps_'[t][j] = file_maps_[t][j]
    BY <1>3, <1>8, <2>2
  <2> QED BY <2>3, <2>4 DEF FilePage
<1> QED BY <1>6, <1>8, <1>9, <1>10, <1>11, <1>12 DEF m

LEMMA RunStepMade ==
  ASSUME IInv, MemInv, ~SharedBuffers, NEW t \in Task,
         \/ \E v \in Touched : UserStore(t, v) \/ ReadIntoBuffer(t, v)
         \/ \E v \in Touched, rw \in BOOLEAN : PageFault(t, v, rw)
         \/ \E n \in 1 .. StackPage : DemandPages(t, n)
         \/ \E fd \in DOMAIN File, v \in Touched : MapFile(t, fd, v)
  PROVE  MadeInv(t)' /\ RunsInv(t)'
<1>1. TypeInv
  BY DEF IInv
<1>2. ASSUME NEW v \in Touched, UserStore(t, v)
      PROVE  MadeInv(t)' /\ RunsInv(t)'
  <2>1. UNCHANGED <<cr3, app>>
    BY <1>2 DEF UserStore
  <2>2. pc[t] = "run" /\ UNCHANGED <<pc, areas>> /\ Changes(t, v, Written)
    BY <1>2, UserStoreSeen
  <2> QED BY <2>1, <2>2, SameAreas, ChangedMade
<1>3. ASSUME NEW v \in Touched, ReadIntoBuffer(t, v)
      PROVE  MadeInv(t)' /\ RunsInv(t)'
  <2>1. UNCHANGED <<cr3, app, areas>> /\ SystemCallStores(t, v)
    BY <1>3 DEF ReadIntoBuffer
  <2>2. pc[t] = "run" /\ ((UNCHANGED pc /\ Changes(t, v, Written)) \/ pc'[t] = "halt")
    BY <2>1, SystemCallSeen
  <2>3. CASE pc'[t] = "halt"
    BY <2>3, NothingMade DEF RunsInv
  <2>4. CASE UNCHANGED pc /\ Changes(t, v, Written)
    BY <2>1, <2>2, <2>4, SameAreas, ChangedMade
  <2> QED BY <2>2, <2>3, <2>4
<1>4. ASSUME NEW v \in Touched, NEW rw \in BOOLEAN, PageFault(t, v, rw)
      PROVE  MadeInv(t)' /\ RunsInv(t)'
  <2>1. UNCHANGED <<cr3, app>>
    BY <1>4 DEF PageFault
  <2>2. /\ pc[t] = "run"
        /\ \/ UNCHANGED <<pc, areas>> /\ Changes(t, v, PageContent(t, v))
           \/ Leave(t)
    BY <1>4, PageFaultSeen
  <2>3. CASE Leave(t)
    BY <1>1, <2>3, LeftMade
  <2>4. CASE UNCHANGED <<pc, areas>> /\ Changes(t, v, PageContent(t, v))
    BY <2>1, <2>2, <2>4, SameAreas, ChangedMade
  <2> QED BY <2>2, <2>3, <2>4
<1>5. ASSUME NEW n \in 1 .. StackPage, DemandPages(t, n)
      PROVE  MadeInv(t)' /\ RunsInv(t)'
  <2>1. /\ pc[t] = "run" /\ UNCHANGED <<pc, cr3, app, memory>>
        /\ AreasOK(t)' /\ Valid(t) \subseteq Valid(t)'
    BY <1>5, DemandAreas
  <2> QED BY <2>1, ChangedMade DEF memory
<1>6. ASSUME NEW fd \in DOMAIN File, NEW v \in Touched, MapFile(t, fd, v)
      PROVE  MadeInv(t)' /\ RunsInv(t)'
  <2>1. UNCHANGED <<cr3, app>> /\ SystemCallStores(t, v)
    BY <1>6 DEF MapFile
  <2>2. /\ pc[t] = "run"
        /\ IF KernelStore(t, v).ok THEN UNCHANGED pc /\ Changes(t, v, Written) ELSE pc'[t] = "halt"
    BY <2>1, SystemCallSeen
  <2>3. CASE KernelStore(t, v).ok
    <3>1. AreasOK(t)' /\ Valid(t) \subseteq Valid(t)'
      BY <1>6, <2>3, MapFileAreas
    <3> QED BY <2>1, <2>2, <2>3, <3>1, ChangedMade
  <2>4. CASE ~KernelStore(t, v).ok
    BY <2>2, <2>4, NothingMade DEF RunsInv
  <2> QED BY <2>3, <2>4
<1> QED BY <1>2, <1>3, <1>4, <1>5, <1>6

LEMMA CleanMade ==
  ASSUME IInv, MemInv, NEW t \in Task, Exit(t) \/ CleanPageMap(t) \/ FreePML4(t)
  PROVE  MadeInv(t)' /\ RunsInv(t)'
<1>1. TypeInv
  BY DEF IInv
<1>2. CASE Exit(t)
  BY <1>1, <1>2, LeftMade DEF Exit
<1>3. CASE CleanPageMap(t)
  <2>1. /\ pc[t] = "clean" /\ UNCHANGED file_maps_
        /\ \/ Goto(t, "free", 0)
           \/ Goto(t, "clean", next[t] + 1)
    BY <1>3 DEF CleanPageMap, areas
  <2>2. pc'[t] \in {"free", "clean"}
    BY <1>1, <2>1 DEF Goto, TypeInv
  <2> QED BY <2>1, <2>2, NothingMade, NotRunning
<1>4. CASE FreePML4(t)
  <2>1. pc[t] = "free" /\ UNCHANGED file_maps_ /\ pc'[t] = "idle"
    BY <1>1, <1>4 DEF FreePML4, areas, Goto, TypeInv
  <2> QED BY <2>1, NothingMade, NotRunning
<1> QED BY <1>2, <1>3, <1>4

LEMMA StepMade ==
  ASSUME IInv, MemInv, ~SharedBuffers, NEW t \in Task, Keeps(t), LoadStep(t) \/ SpaceStep(t)
  PROVE  MadeInv(t)' /\ RunsInv(t)'
<1>1. CASE LoadStep(t)
  BY <1>1, LoadAppMade, LoadSegmentMade, CacheAppMade DEF LoadStep
<1>2. CASE CopyPageMap(t) \/ SetupArgs(t) \/ SetupStack(t) \/ CallApp(t)
  BY <1>2, CopyPageMapMade, SetupArgsMade, SetupStackMade, CallAppMade
<1>3. CASE Exit(t) \/ CleanPageMap(t) \/ FreePML4(t)
  BY <1>3, CleanMade
<1>4. CASE \/ \E v \in Touched : UserStore(t, v) \/ ReadIntoBuffer(t, v)
           \/ \E v \in Touched, rw \in BOOLEAN : PageFault(t, v, rw)
           \/ \E n \in 1 .. StackPage : DemandPages(t, n)
           \/ \E fd \in DOMAIN File, v \in Touched : MapFile(t, fd, v)
  BY <1>4, RunStepMade
<1> QED BY <1>1, <1>2, <1>3, <1>4 DEF SpaceStep

\* Tasks keep to their own areas.
OthersAreas(t) == \A u \in Task : u # t =>
  /\ dpaging_begin_'[u] = dpaging_begin_[u] /\ dpaging_end_'[u] = dpaging_end_[u]
  /\ file_map_end_'[u] = file_map_end_[u] /\ file_maps_'[u] = file_maps_[u]

LEMMA AreasKept ==
  ASSUME IInv, MemInv, NEW t \in Task, LoadStep(t) \/ SpaceStep(t)
  PROVE  AreaTypes' /\ OthersAreas(t)
<1>1. AreaTypes
  BY DEF MemInv
<1>2. CASE UNCHANGED areas
  <2>1. /\ dpaging_begin_' = dpaging_begin_ /\ dpaging_end_' = dpaging_end_
        /\ file_map_end_' = file_map_end_ /\ file_maps_' = file_maps_
    BY <1>2 DEF areas
  <2>2. AreaTypes'
    BY <1>1, <2>1 DEF AreaTypes
  <2>3. OthersAreas(t)
    BY <2>1 DEF OthersAreas
  <2> QED BY <2>2, <2>3
<1>3. CASE Leave(t)
  <2> DEFINE S == [fd : DOMAIN File, begin : Int, end : Int]
  <2>1. /\ dpaging_begin_' = dpaging_begin_ /\ dpaging_end_' = dpaging_end_
        /\ file_map_end_' = file_map_end_ /\ file_maps_' = [file_maps_ EXCEPT ![t] = <<>>]
    BY <1>3 DEF Leave
  <2>2. file_maps_ \in [Task -> Seq(S)]
    BY <1>1 DEF AreaTypes
  <2> HIDE DEF S
  <2>3. file_maps_' \in [Task -> Seq(S)]
    <3>1. <<>> \in Seq(S)
      OBVIOUS
    <3> QED BY <2>1, <2>2, <3>1
  <2>4. AreaTypes'
    BY <1>1, <2>1, <2>3 DEF AreaTypes, S
  <2>5. OthersAreas(t)
    BY <1>1, <2>1 DEF OthersAreas, AreaTypes
  <2> QED BY <2>4, <2>5
<1>4. CASE LoadStep(t)
  BY <1>2, <1>4 DEF LoadStep, LoadApp, LoadSegment, CacheApp
<1>5. CASE CopyPageMap(t) \/ SetupArgs(t) \/ SetupStack(t)
  BY <1>2, <1>5 DEF CopyPageMap, SetupArgs, SetupStack
<1>6. CASE CallApp(t)
  <2>1. app[t] \in Elf
    BY <1>6, TaskSpace DEF IInv, CallApp
  <2>2. LastImagePage(app[t]) \in Int /\ StackPage \in Int
    BY <2>1, AreasOfPages
  <2> DEFINE last == LastImagePage(app[t])
             S == [fd : DOMAIN File, begin : Int, end : Int]
  <2>3. /\ dpaging_begin_' = [dpaging_begin_ EXCEPT ![t] = last + 1]
        /\ dpaging_end_' = [dpaging_end_ EXCEPT ![t] = last + 1]
        /\ file_map_end_' = [file_map_end_ EXCEPT ![t] = StackPage]
        /\ file_maps_' = file_maps_
    BY <1>6 DEF CallApp
  <2>4. last + 1 \in Int
    BY <2>2
  <2> HIDE DEF last, S
  <2>5. AreaTypes'
    BY <1>1, <2>2, <2>3, <2>4 DEF AreaTypes
  <2>6. OthersAreas(t)
    BY <1>1, <2>3 DEF OthersAreas, AreaTypes
  <2> QED BY <2>5, <2>6
<1>7. CASE \E v \in Touched : UserStore(t, v) \/ ReadIntoBuffer(t, v)
  BY <1>2, <1>7 DEF UserStore, ReadIntoBuffer
<1>8. CASE \E v \in Touched, rw \in BOOLEAN : PageFault(t, v, rw)
  BY <1>2, <1>3, <1>8, PageFaultSeen
<1>9. CASE \E n \in 1 .. StackPage : DemandPages(t, n)
  <2>1. PICK n \in 1 .. StackPage : DemandPages(t, n)
    BY <1>9
  <2>2. n \in Int /\ dpaging_end_[t] + n \in Int
    BY <1>1, AreasOfPages DEF AreaTypes
  <2> QED BY <1>1, <2>1, <2>2 DEF DemandPages, AreaTypes, OthersAreas
<1>10. CASE \E fd \in DOMAIN File, v \in Touched : MapFile(t, fd, v)
  <2>1. PICK fd \in DOMAIN File, v \in Touched : MapFile(t, fd, v)
    BY <1>10
  <2>2. CASE ~KernelStore(t, v).ok
    BY <1>2, <2>1, <2>2 DEF MapFile, areas
  <2>3. CASE KernelStore(t, v).ok
    <3> DEFINE m == NewMapping(t, fd)
               S == [fd : DOMAIN File, begin : Int, end : Int]
    <3>1. /\ m.begin \in Int /\ UNCHANGED <<dpaging_begin_, dpaging_end_>>
          /\ file_map_end_' = [file_map_end_ EXCEPT ![t] = m.begin]
          /\ file_maps_' = [file_maps_ EXCEPT ![t] = Append(@, m)]
          /\ file_map_end_[t] \in Int
      <4> HIDE DEF m
      <4> QED BY <2>1, <2>3, MapFileMaps DEF m
    <3>2. m \in S
      <4>1. m.begin = file_map_end_[t] - Len(File[fd])
        BY DEF NewMapping
      <4> QED BY <3>1, <4>1 DEF NewMapping
    <3> HIDE DEF m, S
    <3>5. file_maps_ \in [Task -> Seq(S)]
      BY <1>1 DEF AreaTypes, S
    <3> DEFINE q == file_maps_[t]
    <3>6. q \in Seq(S)
      BY <3>5
    <3> HIDE DEF q
    <3>7. Append(q, m) \in Seq(S)
      BY <3>2, <3>6
    <3>3. file_maps_' \in [Task -> Seq(S)]
      BY <3>1, <3>5, <3>7 DEF q
    <3>4. AreaTypes'
      BY <1>1, <3>1, <3>3 DEF AreaTypes, S
    <3> QED BY <1>1, <3>1, <3>4 DEF OthersAreas, AreaTypes
  <2> QED BY <2>2, <2>3
<1>11. CASE Exit(t) \/ CleanPageMap(t) \/ FreePML4(t)
  BY <1>2, <1>3, <1>11 DEF Exit, CleanPageMap, FreePML4
<1> QED BY <1>4, <1>5, <1>6, <1>7, <1>8, <1>9, <1>10, <1>11 DEF SpaceStep

\* What other tasks have made stays.
LEMMA OtherSpaces ==
  ASSUME IInv, ~SharedBuffers, NEW t \in Task, Keeps(t), NEW u \in Task, u # t, pc[u] # "idle"
  PROVE  /\ SamePages(cr3[u])
         /\ temp_pml4[u] # None => SamePages(temp_pml4[u])
<1>1. cr3'[u] = cr3[u] /\ temp_pml4'[u] = temp_pml4[u] /\ IInv' /\ pc'[u] = pc[u]
  BY DEF Keeps, OthersStay
<1>2. /\ cr3[u] # Kernel /\ cr3[u] \in Roots
      /\ temp_pml4[u] # None => temp_pml4[u] \in Roots /\ temp_pml4[u] \in Owners
  BY TaskSpace DEF IInv
<1>3. cr3[u] # cr3[t] /\ cr3[u] \in Roots'
  BY <1>1, <1>2 DEF IInv, RootsInv, Roots, Spaces
<1>4. temp_pml4[u] # None => temp_pml4[u] \in CopiedFrom' /\ temp_pml4[u] \in Roots'
  BY <1>1 DEF CopiedFrom, Roots
<1> QED BY <1>2, <1>3, <1>4, SpaceStays

LEMMA OtherMade ==
  ASSUME IInv, MemInv, ~SharedBuffers, NEW t \in Task, Keeps(t), OthersAreas(t),
         NEW u \in Task, u # t
  PROVE  MadeInv(u)' /\ RunsInv(u)'
<1>1. /\ pc'[u] = pc[u] /\ next'[u] = next[u] /\ app'[u] = app[u]
      /\ cr3'[u] = cr3[u] /\ temp_pml4'[u] = temp_pml4[u]
      /\ dpaging_begin_'[u] = dpaging_begin_[u] /\ dpaging_end_'[u] = dpaging_end_[u]
      /\ file_map_end_'[u] = file_map_end_[u] /\ file_maps_'[u] = file_maps_[u]
  BY DEF Keeps, OthersStay, OthersAreas
<1>2. MadeInv(u) /\ RunsInv(u)
  BY DEF MemInv
<1>3. CASE pc[u] = "idle"
  BY <1>1, <1>2, <1>3, NothingMade DEF RunsInv
<1>4. CASE pc[u] # "idle"
  <2>1. SamePages(cr3[u]) /\ (temp_pml4[u] # None => SamePages(temp_pml4[u]))
    BY <1>4, OtherSpaces
  <2>2. pc[u] = "copy" => temp_pml4[u] # None
    BY TaskSpace DEF IInv, Loading
  <2>3. MadeInv(u)'
    <3>1. /\ pc[u] \in Making => Holds(content, page_map, cr3[u], app[u], SoFar(pc[u], app[u], next[u]))
          /\ pc[u] = "copy" => Holds(content, page_map, temp_pml4[u], app[u], ImagePages(app[u]))
      BY <1>2 DEF MadeInv, MadeOK
    <3>2. /\ pc[u] \in Making => Holds(content', page_map', cr3[u], app[u], SoFar(pc[u], app[u], next[u]))
          /\ pc[u] = "copy" => Holds(content', page_map', temp_pml4[u], app[u], ImagePages(app[u]))
      BY <2>1, <2>2, <3>1, HoldsStays
    <3>3. MadeOK(content', page_map', pc[u], cr3[u], temp_pml4[u], app[u], next[u])
      BY <3>2 DEF MadeOK
    <3> QED BY <1>1, <3>3 DEF MadeInv
  <2>4. AreasOK(u) => AreasOK(u)'
    BY <1>1 DEF AreasOK
  <2>5. OnlyValid(u) => OnlyValid(u)'
    <3>1. Valid(u)' = Valid(u)
      BY <1>1 DEF Valid, Mapped
    <3> QED BY <1>1, <2>1, <3>1 DEF OnlyValid, SamePages, SamePage
  <2> QED BY <1>1, <1>2, <2>3, <2>4, <2>5 DEF RunsInv
<1> QED BY <1>3, <1>4

\* The cached images stay, or are those just loaded.
LEMMA CachedMade ==
  ASSUME IInv, MemInv, ~SharedBuffers, NEW t \in Task, Keeps(t),
         NEW a \in App, app_loads'[a] # None,
         \/ app_loads'[a] = app_loads[a]
         \/ pc[t] = "cache" /\ a = app[t] /\ app_loads'[a] = cr3[t]
  PROVE  Holds(content', page_map', app_loads'[a], a, ImagePages(a))
<1> DEFINE r == app_loads'[a]
<1>1. r \in Roots' /\ r \in Cached'
  BY DEF Roots, Cached
<1>2. r \in Owners /\ Holds(content, page_map, r, a, ImagePages(a))
  <2>1. CASE r = app_loads[a]
    BY <2>1 DEF MemInv, Owners, Cached
  <2>2. CASE pc[t] = "cache" /\ a = app[t] /\ r = cr3[t]
    <3>1. cr3[t] \in Owners
      BY <2>2, TaskSpace DEF IInv, Loading
    <3>2. Holds(content, page_map, cr3[t], app[t], ImagePages(app[t]))
      BY <2>2 DEF MemInv, MadeInv, MadeOK, Making, SoFar
    <3> QED BY <2>2, <3>1, <3>2
  <2> QED BY <2>1, <2>2
<1>3. r \in Roots
  BY <1>2 DEF IInv, SpacesInv, Sound, FramesSound
<1> HIDE DEF r
<1>4. SamePages(r)
  BY <1>1, <1>2, <1>3, SpaceStays
<1>5. Holds(content', page_map', r, a, ImagePages(a))
  BY <1>2, <1>4, HoldsStays
<1> QED BY <1>5 DEF r

LEMMA CacheStep ==
  ASSUME IInv, NEW t \in Task, LoadStep(t) \/ SpaceStep(t), NEW a \in App, app_loads'[a] # None
  PROVE  \/ app_loads'[a] = app_loads[a]
         \/ pc[t] = "cache" /\ a = app[t] /\ app_loads'[a] = cr3[t]
<1>1. CASE SpaceStep(t)
  BY <1>1, SpaceStepIs
<1>2. CASE LoadSegment(t)
  BY <1>2 DEF LoadSegment
<1>3. CASE (\E b \in App : LoadApp(t, b)) \/ CacheApp(t)
  BY <1>3, SpaceMade
<1> QED BY <1>1, <1>2, <1>3 DEF LoadStep

LEMMA NextKeepsMemInv ==
  ASSUME IInv, MemInv, ~SharedBuffers, [Next]_vars
  PROVE  MemInv'
<1>1. ASSUME NEW t \in Task, LoadStep(t) \/ SpaceStep(t), Keeps(t)
      PROVE  MemInv'
  <2>1. AreaTypes' /\ OthersAreas(t)
    BY <1>1, AreasKept
  <2>2. \A a \in App : app_loads'[a] # None =>
          Holds(content', page_map', app_loads'[a], a, ImagePages(a))
    BY <1>1, CacheStep, CachedMade
  <2>3. \A u \in Task : MadeInv(u)' /\ RunsInv(u)'
    BY <1>1, <2>1, StepMade, OtherMade
  <2> QED BY <2>1, <2>2, <2>3 DEF MemInv
<1>2. CASE Next
  BY <1>1, <1>2, NextIsStep, StepKeeps
<1>3. CASE UNCHANGED vars
  <2>1. UNCHANGED <<used, page_map, content, app_loads, cr3, temp_pml4, pc, app, next,
                    dpaging_begin_, dpaging_end_, file_map_end_, file_maps_>>
    BY <1>3 DEF vars, memory, areas
  <2>2. AreaTypes'
    BY <2>1 DEF MemInv, AreaTypes
  <2>3. \A a \in App : app_loads'[a] # None =>
          Holds(content', page_map', app_loads'[a], a, ImagePages(a))
    BY <2>1 DEF MemInv
  <2>4. ASSUME NEW t \in Task
        PROVE  MadeInv(t)' /\ RunsInv(t)'
    <3>1. MadeInv(t) /\ RunsInv(t)
      BY DEF MemInv
    <3>2. MadeInv(t)'
      BY <2>1, <3>1 DEF MadeInv
    <3>3. Valid(t)' = Valid(t)
      BY <2>1 DEF Valid, Mapped
    <3>4. (AreasOK(t) => AreasOK(t)') /\ (OnlyValid(t) => OnlyValid(t)')
      BY <2>1, <3>3 DEF AreasOK, OnlyValid
    <3>5. RunsInv(t)'
      BY <2>1, <3>1, <3>4 DEF RunsInv
    <3> QED BY <3>2, <3>5
  <2> QED BY <2>2, <2>3, <2>4 DEF MemInv
<1> QED BY <1>2, <1>3

LEMMA InitMemInv == Init => MemInv
<1> SUFFICES ASSUME Init PROVE MemInv
  OBVIOUS
<1>1. AreaTypes
  <2> DEFINE S == [fd : DOMAIN File, begin : Int, end : Int]
  <2>1. <<>> \in Seq(S)
    <3> HIDE DEF S
    <3> QED OBVIOUS
  <2> HIDE DEF S
  <2>2. file_maps_ \in [Task -> Seq(S)]
    BY <2>1 DEF Init
  <2> QED BY <2>2 DEF Init, AreaTypes, S
<1> QED BY <1>1 DEF Init, MemInv, MadeInv, MadeOK, Making, RunsInv

\* As long as system calls store into no page that is still shared, spaces hold what
\* they should.
LEMMA MemoryHolds ==
  ASSUME ~SharedBuffers
  PROVE  Spec => []MemInv
<1>1. Init => MemInv
  BY InitMemInv
<1>2. IInv /\ MemInv /\ [Next]_vars => MemInv'
  BY NextKeepsMemInv
<1> QED BY <1>1, <1>2, Invariance, PTL DEF Spec

\* No application changes the cached image that others are started from
\* (CopyLoadSegments, CopyPageMaps, CopyOnePage), and none is cached before all of
\* it is loaded, unless a system call is given a buffer in a page still shared.
THEOREM ImageStaysIntact ==
  ASSUME ~SharedBuffers
  PROVE  Spec => []ImageIntact
<1>1. IInv /\ MemInv => ImageIntact
  <2> SUFFICES ASSUME IInv, MemInv, NEW a \in App, app_loads[a] # None, NEW v \in ImagePages(a)
               PROVE  content[Leaf(Memory, app_loads[a], v).frame] = ImagePage(a, v)
    BY DEF ImageIntact
  <2>1. a \in Elf
    BY DEF IInv, RootsInv
  <2>2. v \in Page
    BY <2>1, AreasOfPages
  <2> QED BY <2>2, MemoryIsMem DEF MemInv, Holds, FirstContent
<1> QED BY <1>1, Invariance, MemoryHolds, PTL

-----------------------------------------------------------------------------
(* The memory that applications see.                                       *)

SeenBy(t) == IF pc[t] = "run" THEN [v \in Valid(t) |-> PageContent(t, v)] ELSE <<>>
Seen == [t \in Task |-> SeenBy(t)]

LEMMA ContentIs ==
  ASSUME NEW t, NEW v
  PROVE  /\ PageContent(t, v) =
              IF At(page_map, cr3[t], v).present THEN content[At(page_map, cr3[t], v).frame]
              ELSE IF DemandPage(t, v) THEN Zero ELSE FilePage(t, v)
         /\ PageContent(t, v)' =
              IF At(page_map', cr3'[t], v).present THEN content'[At(page_map', cr3'[t], v).frame]
              ELSE IF DemandPage(t, v)' THEN Zero ELSE FilePage(t, v)'
BY DEF PageContent, Memory, Leaf, At, Has, Table, LeafAt

\* A page that is the same, and would be filled with the same.
LEMMA ContentStays ==
  ASSUME NEW t, cr3'[t] = cr3[t], NEW v, SamePage(cr3[t], v),
         At(page_map, cr3[t], v).present \/
           ((DemandPage(t, v)' <=> DemandPage(t, v)) /\
            (DemandPage(t, v) \/ FilePage(t, v)' = FilePage(t, v)))
  PROVE  PageContent(t, v)' = PageContent(t, v)
BY ContentIs DEF SamePage

LEMMA ContentPut ==
  ASSUME NEW t, cr3'[t] = cr3[t], NEW v, NEW x, PageIs(cr3[t], v, x)
  PROVE  PageContent(t, v)' = x
BY ContentIs DEF PageIs

\* Valid pages that are not there are demanded or mapped.
LEMMA ValidPages ==
  ASSUME IInv, NEW t \in Task, pc[t] = "run", NEW v \in Valid(t)
  PROVE  /\ v \in Page
         /\ \/ At(page_map, cr3[t], v).present
            \/ DemandPage(t, v)
            \/ Mapped(t, v) # {}
<1>1. app[t] \in Elf
  BY TaskSpace DEF IInv
<1>2. /\ AllAt(page_map, cr3[t], ImagePages(app[t])) /\ AllAt(page_map, cr3[t], StackPages)
      /\ AllAt(page_map, cr3[t], {ArgsPage})
  BY RunningTask
<1>3. v \in Page
  BY <1>1, AreasOfPages DEF Valid
<1> QED BY <1>2, <1>3 DEF AllAt, Valid, DemandPage

LEMMA SeenAlike ==
  ASSUME NEW u, pc'[u] = pc[u], pc[u] = "run" => Valid(u)' = Valid(u),
         pc[u] = "run" => \A v \in Valid(u) : PageContent(u, v)' = PageContent(u, v)
  PROVE  SeenBy(u)' = SeenBy(u)
BY DEF SeenBy

\* No step of another task shows.
LEMMA OtherSeen ==
  ASSUME IInv, ~SharedBuffers, NEW t \in Task, Keeps(t), OthersAreas(t),
         NEW u \in Task, u # t
  PROVE  SeenBy(u)' = SeenBy(u)
<1>1. /\ pc'[u] = pc[u] /\ app'[u] = app[u] /\ cr3'[u] = cr3[u]
      /\ dpaging_begin_'[u] = dpaging_begin_[u] /\ dpaging_end_'[u] = dpaging_end_[u]
      /\ file_maps_'[u] = file_maps_[u]
  BY DEF Keeps, OthersStay, OthersAreas
<1>2. Valid(u)' = Valid(u)
  BY <1>1 DEF Valid, Mapped
<1>3. ASSUME pc[u] = "run", NEW v \in Valid(u)
      PROVE  PageContent(u, v)' = PageContent(u, v)
  <2>1. v \in Page
    BY <1>3, ValidPages
  <2>2. SamePage(cr3[u], v)
    BY <1>3, <2>1, OtherSpaces DEF SamePages
  <2>3. (DemandPage(u, v)' <=> DemandPage(u, v)) /\ FilePage(u, v)' = FilePage(u, v)
    BY <1>1 DEF DemandPage, FilePage, FindFileMapping, Mapped
  <2> QED BY <1>1, <2>2, <2>3, ContentStays
<1> QED BY <1>1, <1>2, <1>3, SeenAlike

\* What a step may do to the memory that its own application sees.
StartSeen(t) == SeenBy(t) = <<>> /\ app[t] \in Elf /\ SeenBy(t)' = InitialMemory(app[t])
WriteSeen(t, v) ==
  v \in DOMAIN SeenBy(t) /\ SeenBy(t)' = [SeenBy(t) EXCEPT ![v] = Written]
DemandSeen(t) ==
  /\ DOMAIN SeenBy(t)' \subseteq Page
  /\ SeenBy(t)' = [v \in DOMAIN SeenBy(t) \cup DOMAIN SeenBy(t)' |->
                     IF v \in DOMAIN SeenBy(t) THEN SeenBy(t)[v] ELSE Zero]
MapSeen(t, fd, first, v) ==
  LET new == first .. first + Len(File[fd]) - 1 IN
  /\ first \in Page /\ v \in DOMAIN SeenBy(t) /\ new \cap DOMAIN SeenBy(t) = {}
  /\ SeenBy(t)' = [p \in DOMAIN SeenBy(t) \cup new |->
                     IF p \in DOMAIN SeenBy(t)
                     THEN IF p = v THEN Written ELSE SeenBy(t)[p]
                     ELSE File[fd][p - first + 1]]
OwnSeen(t) ==
  \/ SeenBy(t)' = SeenBy(t) \/ SeenBy(t)' = <<>>
  \/ StartSeen(t) \/ DemandSeen(t)
  \/ \E v : WriteSeen(t, v)
  \/ \E fd \in DOMAIN File, first \in Page, v \in DOMAIN SeenBy(t) : MapSeen(t, fd, first, v)

LEMMA SeenStart ==
  ASSUME IInv, MemInv, NEW t \in Task, CallApp(t)
  PROVE  StartSeen(t)
<1> DEFINE a == app[t]
           all == ImagePages(a) \cup StackPages \cup {ArgsPage}
<1>1. /\ pc[t] = "call" /\ UNCHANGED <<memory, cr3, app, file_maps_>> /\ TypeInv
      /\ dpaging_begin_'[t] = dpaging_end_'[t] /\ pc'[t] = "run"
      /\ dpaging_begin_'[t] = LastImagePage(a) + 1
  BY DEF CallApp, IInv, TypeInv, MemInv, AreaTypes, Goto
<1>2. a \in Elf /\ file_maps_[t] = <<>>
  BY <1>1, TaskSpace DEF IInv, MemInv, RunsInv
<1>3. Holds(content, page_map, cr3[t], a, all)
  BY <1>1 DEF MemInv, MadeInv, MadeOK, Making, SoFar
<1>4. Valid(t)' = all
  <2>1. \A v : ~(dpaging_begin_'[t] <= v /\ v < dpaging_end_'[t]) \/ v \notin Page
    <3>1. \A v \in Page : v \in Int
      BY Places
    <3>2. dpaging_begin_'[t] \in Int
      BY <1>1, <1>2, AreasOfPages
    <3> QED BY <1>1, <3>1, <3>2
  <2>2. \A v : Mapped(t, v)' = {}
    BY <1>1, <1>2 DEF Mapped
  <2>3. Valid(t)' = ImagePages(a) \cup StackPages \cup {ArgsPage}
              \cup {v \in Page : dpaging_begin_'[t] <= v /\ v < dpaging_end_'[t]}
              \cup {v \in Page : Mapped(t, v)' # {}}
    BY <1>1 DEF Valid
  <2> QED BY <2>1, <2>2, <2>3
<1>5. \A v \in all : PageContent(t, v)' = FirstContent(a, v)
  <2> SUFFICES ASSUME NEW v \in all PROVE PageContent(t, v)' = FirstContent(a, v)
    OBVIOUS
  <2>1. v \in Page
    BY <1>2, AreasOfPages
  <2>2. At(page_map, cr3[t], v).present /\ content[At(page_map, cr3[t], v).frame] = FirstContent(a, v)
    <3> HIDE DEF a, all
    <3> QED BY <1>3, <2>1 DEF Holds
  <2>3. page_map' = page_map /\ content' = content /\ cr3' = cr3
    BY <1>1 DEF memory
  <2> HIDE DEF a, all
  <2> QED BY <2>2, <2>3, ContentIs
<1>6. InitialMemory(a) = [v \in all |-> FirstContent(a, v)]
  BY DEF InitialMemory, FirstContent
<1>7. SeenBy(t) = <<>> /\ SeenBy(t)' = [v \in Valid(t)' |-> PageContent(t, v)']
  BY <1>1 DEF SeenBy
<1> HIDE DEF all
<1> QED BY <1>2, <1>4, <1>5, <1>6, <1>7 DEF StartSeen

\* The areas are the same, and all pages but one contain what they did.
LEMMA ChangeSeen ==
  ASSUME IInv, NEW t \in Task, pc[t] = "run", cr3'[t] = cr3[t],
         UNCHANGED <<pc, app, areas>>, NEW v, NEW x, Changes(t, v, x)
  PROVE  /\ Valid(t)' = Valid(t) /\ v \in Valid(t)
         /\ \A y \in Valid(t) : PageContent(t, y)' = IF y = v THEN x ELSE PageContent(t, y)
<1>1. Valid(t)' = Valid(t) /\ \A y : (DemandPage(t, y)' <=> DemandPage(t, y))
                                      /\ FilePage(t, y)' = FilePage(t, y)
  BY DEF areas, Valid, Mapped, DemandPage, FilePage, FindFileMapping
<1>2. v \in Valid(t) /\ PageIs(cr3[t], v, x)
  BY DEF Changes
<1>3. \A y \in Valid(t) : y # v => SamePage(cr3[t], y)
  BY ValidPages DEF Changes
<1> QED BY <1>1, <1>2, <1>3, ContentStays, ContentPut

LEMMA WrittenSeen ==
  ASSUME IInv, NEW t \in Task, pc[t] = "run", cr3'[t] = cr3[t],
         UNCHANGED <<pc, app, areas>>, NEW v, Changes(t, v, Written)
  PROVE  WriteSeen(t, v)
<1>1. /\ Valid(t)' = Valid(t) /\ v \in Valid(t)
      /\ \A y \in Valid(t) : PageContent(t, y)' = IF y = v THEN Written ELSE PageContent(t, y)
  BY ChangeSeen
<1>2. SeenBy(t) = [y \in Valid(t) |-> PageContent(t, y)] /\
      SeenBy(t)' = [y \in Valid(t)' |-> PageContent(t, y)']
  BY DEF SeenBy
<1> QED BY <1>1, <1>2 DEF WriteSeen

LEMMA SamePutSeen ==
  ASSUME IInv, NEW t \in Task, pc[t] = "run", cr3'[t] = cr3[t],
         UNCHANGED <<pc, app, areas>>, NEW v, Changes(t, v, PageContent(t, v))
  PROVE  SeenBy(t)' = SeenBy(t)
<1>1. /\ Valid(t)' = Valid(t)
      /\ \A y \in Valid(t) : PageContent(t, y)' = IF y = v THEN PageContent(t, v) ELSE PageContent(t, y)
  BY ChangeSeen
<1> QED BY <1>1, SeenAlike

LEMMA DemandPagesSeen ==
  ASSUME IInv, MemInv, NEW t \in Task, NEW n \in 1 .. StackPage, DemandPages(t, n), IInv'
  PROVE  DemandSeen(t)
<1>1. /\ pc[t] = "run" /\ UNCHANGED <<pc, cr3, app, memory>>
      /\ Valid(t) \subseteq Valid(t)'
      /\ \A v \in Page : /\ DemandPage(t, v) => DemandPage(t, v)'
                         /\ v \in Valid(t)' \ Valid(t) => DemandPage(t, v)'
                         /\ Mapped(t, v) # {} => ~DemandPage(t, v)'
                         /\ FilePage(t, v)' = FilePage(t, v)
  BY DemandAreas
<1>2. page_map' = page_map /\ content' = content
  BY <1>1 DEF memory
<1>3. \A v \in Valid(t) : PageContent(t, v)' = PageContent(t, v)
  <2> SUFFICES ASSUME NEW v \in Valid(t) PROVE PageContent(t, v)' = PageContent(t, v)
    OBVIOUS
  <2>1. v \in Page /\ (At(page_map, cr3[t], v).present \/ DemandPage(t, v) \/ Mapped(t, v) # {})
    BY <1>1, ValidPages
  <2> QED BY <1>1, <1>2, <2>1, ContentIs
<1>4. Valid(t)' \subseteq Page
  <2>1. app'[t] \in Elf
    BY <1>1, TaskSpace DEF IInv
  <2>2. Valid(t)' = ImagePages(app'[t]) \cup StackPages \cup {ArgsPage}
              \cup {v \in Page : dpaging_begin_'[t] <= v /\ v < dpaging_end_'[t]}
              \cup {v \in Page : Mapped(t, v)' # {}}
    BY DEF Valid
  <2> QED BY <2>1, <2>2, AreasOfPages
<1>5. \A v \in Valid(t)' : v \notin Valid(t) => PageContent(t, v)' = Zero
  <2> SUFFICES ASSUME NEW v \in Valid(t)', v \notin Valid(t) PROVE PageContent(t, v)' = Zero
    OBVIOUS
  <2>1. v \in Page
    BY <1>4
  <2>2. ~At(page_map, cr3[t], v).present
    BY <1>1, <2>1 DEF MemInv, RunsInv, OnlyValid
  <2>3. DemandPage(t, v)'
    BY <1>1, <2>1
  <2> QED BY <1>1, <1>2, <2>2, <2>3, ContentIs
<1>6. SeenBy(t) = [y \in Valid(t) |-> PageContent(t, y)] /\
      SeenBy(t)' = [y \in Valid(t)' |-> PageContent(t, y)']
  BY <1>1 DEF SeenBy
<1>7. DOMAIN SeenBy(t) = Valid(t) /\ DOMAIN SeenBy(t)' = Valid(t)'
      /\ Valid(t) \cup Valid(t)' = Valid(t)'
  BY <1>1, <1>6
<1>8. SeenBy(t)' = [y \in Valid(t)' |-> IF y \in Valid(t) THEN SeenBy(t)[y] ELSE Zero]
  BY <1>3, <1>5, <1>6
<1> QED BY <1>4, <1>7, <1>8 DEF DemandSeen

LEMMA MapFileSeen ==
  ASSUME IInv, MemInv, ~SharedBuffers, NEW t \in Task, NEW fd \in DOMAIN File, NEW v \in Touched,
         MapFile(t, fd, v), KernelStore(t, v).ok
  PROVE  \E first \in Page, y \in DOMAIN SeenBy(t) : MapSeen(t, fd, first, y)
<1> DEFINE m == NewMapping(t, fd)
           first == m.begin
           new == first .. first + Len(File[fd]) - 1
<1>1. /\ SystemCallStores(t, v) /\ pc[t] = "run"
      /\ UNCHANGED <<cr3, app, dpaging_begin_, dpaging_end_>> /\ AreasOK(t)
      /\ Len(File[fd]) \in Nat /\ dpaging_end_[t] <= m.begin
      /\ m.begin \in Int /\ file_map_end_[t] \in Int /\ dpaging_end_[t] \in Int
      /\ dpaging_begin_[t] \in Int
      /\ m.begin <= file_map_end_[t] /\ m.end = file_map_end_[t]
  <2> HIDE DEF m
  <2> QED BY MapFileMaps DEF m
<1>2. m.end = m.begin + Len(File[fd])
  <2>1. m.begin = file_map_end_[t] - Len(File[fd])
    BY DEF NewMapping
  <2> HIDE DEF m
  <2> QED BY <1>1, <2>1
<1>3. UNCHANGED pc /\ Changes(t, v, Written)
  BY <1>1, SystemCallSeen
<1>4. /\ Valid(t)' = Valid(t) \cup {y \in Page : m.begin <= y /\ y < m.end}
      /\ \A y \in Page :
           /\ DemandPage(t, y)' <=> DemandPage(t, y)
           /\ m.begin <= y /\ y < m.end =>
                /\ Mapped(t, y) = {} /\ ~DemandPage(t, y)
                /\ FilePage(t, y)' = File[fd][y - m.begin + 1]
           /\ Mapped(t, y) # {} => FilePage(t, y)' = FilePage(t, y)
  <2> HIDE DEF m
  <2> QED BY MapFileAreas DEF m
<1> HIDE DEF m
<1>5. app[t] \in Elf
  BY <1>1, TaskSpace DEF IInv
<1>6. first \in Page /\ new = {y \in Page : m.begin <= y /\ y < m.end}
  <2>1. /\ FirstPage <= m.begin /\ m.end <= StackPage /\ StackPage <= ArgsPage
        /\ FirstPage \in Int /\ ArgsPage \in Int /\ m.end \in Int /\ StackPage \in Int
    <3>1. /\ FirstPage \in Nat /\ StackPage \in Int /\ ArgsPage \in Int /\ kStackPages \in Nat
          /\ StackPage = ArgsPage - 1 - kStackPages
          /\ LastImagePage(app[t]) \in Int /\ FirstPage <= LastImagePage(app[t])
      BY <1>5, AreasOfPages
    <3> QED BY <1>1, <3>1 DEF AreasOK
  <2> QED BY <1>1, <1>2, <2>1 DEF Page
<1>7. \A y \in new : y \notin Valid(t)
  <2> SUFFICES ASSUME NEW y \in new PROVE y \notin Valid(t)
    OBVIOUS
  <2>1. y \in Page /\ y \in Int /\ m.begin <= y /\ y < m.end /\ Mapped(t, y) = {} /\ ~DemandPage(t, y)
    BY <1>1, <1>4, <1>6, Places
  <2>2. /\ FirstPage \in Nat /\ StackPage \in Int /\ ArgsPage \in Int /\ kStackPages \in Nat
        /\ StackPage = ArgsPage - 1 - kStackPages
        /\ LastImagePage(app[t]) \in Int
        /\ ImagePages(app[t]) = FirstPage .. LastImagePage(app[t])
        /\ StackPages = StackPage .. StackPage + kStackPages - 1
    BY <1>5, AreasOfPages
  <2>3. LastImagePage(app[t]) < y /\ y < StackPage
    BY <1>1, <2>1, <2>2 DEF AreasOK
  <2> QED BY <2>1, <2>2, <2>3 DEF Valid, DemandPage
<1>8. v \in Valid(t) /\ PageContent(t, v)' = Written
  BY <1>1, <1>3, ContentPut DEF Changes
<1>9. \A y \in Valid(t) : y # v => PageContent(t, y)' = PageContent(t, y)
  <2> SUFFICES ASSUME NEW y \in Valid(t), y # v PROVE PageContent(t, y)' = PageContent(t, y)
    OBVIOUS
  <2>1. y \in Page /\ (At(page_map, cr3[t], y).present \/ DemandPage(t, y) \/ Mapped(t, y) # {})
    BY <1>1, ValidPages
  <2>2. SamePage(cr3[t], y)
    BY <1>3, <2>1 DEF Changes
  <2>3. DemandPage(t, y)' <=> DemandPage(t, y)
    BY <1>4, <2>1
  <2>4. Mapped(t, y) # {} => FilePage(t, y)' = FilePage(t, y)
    BY <1>4, <2>1
  <2> QED BY <1>1, <2>1, <2>2, <2>3, <2>4, ContentStays
<1>10. \A y \in new : PageContent(t, y)' = File[fd][y - first + 1]
  <2> SUFFICES ASSUME NEW y \in new PROVE PageContent(t, y)' = File[fd][y - first + 1]
    OBVIOUS
  <2>1. y \in Page /\ m.begin <= y /\ y < m.end
    BY <1>6
  <2>2. ~At(page_map, cr3[t], y).present
    BY <1>1, <1>7, <2>1 DEF MemInv, RunsInv, OnlyValid
  <2>3. SamePage(cr3[t], y)
    BY <1>3, <1>7, <1>8, <2>1 DEF Changes
  <2>4. ~At(page_map', cr3'[t], y).present
    BY <1>1, <2>2, <2>3 DEF SamePage
  <2>5. ~DemandPage(t, y)' /\ FilePage(t, y)' = File[fd][y - first + 1]
    BY <1>4, <2>1
  <2> QED BY <2>4, <2>5, ContentIs
<1>11. SeenBy(t) = [y \in Valid(t) |-> PageContent(t, y)] /\
       SeenBy(t)' = [y \in Valid(t)' |-> PageContent(t, y)']
  BY <1>1, <1>3 DEF SeenBy
<1>12. DOMAIN SeenBy(t) = Valid(t) /\ Valid(t)' = Valid(t) \cup new
  BY <1>4, <1>6, <1>11
<1> HIDE DEF first, new
<1>13. SeenBy(t)' = [p \in Valid(t) \cup new |->
                       IF p \in Valid(t) THEN IF p = v THEN Written ELSE SeenBy(t)[p]
                       ELSE File[fd][p - first + 1]]
  BY <1>7, <1>8, <1>9, <1>10, <1>11, <1>12
<1>14. MapSeen(t, fd, first, v)
  BY <1>6, <1>7, <1>8, <1>12, <1>13 DEF MapSeen, new
<1> QED BY <1>6, <1>8, <1>12, <1>14

\* A task that is not running an application and does not call one.
LEMMA UnseenStep ==
  ASSUME IInv, NEW t \in Task,
         \/ LoadStep(t) \/ CopyPageMap(t) \/ SetupArgs(t) \/ SetupStack(t)
         \/ CleanPageMap(t) \/ FreePML4(t)
  PROVE  SeenBy(t)' = SeenBy(t)
<1>1. TypeInv
  BY DEF IInv
<1>2. \A p, k : Goto(t, p, k) => pc'[t] = p
  BY <1>1 DEF Goto, TypeInv
<1> SUFFICES pc[t] # "run" /\ pc'[t] # "run"
  BY DEF SeenBy
<1>3. CASE (\E a \in App : LoadApp(t, a)) \/ CacheApp(t)
  BY <1>3, SpaceMade DEF LoadApp, CacheApp
<1>4. CASE LoadSegment(t)
  <2>1. pc[t] = "load" /\ SetupStep(t, LastImagePage(app[t]), FALSE,
                                    ImagePage(app[t], next[t]), "cache", 0)
    BY <1>4 DEF LoadSegment
  <2>2. \E k : Goto(t, "idle", k) \/ Goto(t, "cache", k) \/ Goto(t, "load", k)
    BY <2>1, SetupStepCases
  <2> QED BY <1>2, <2>1, <2>2
<1>5. CASE CopyPageMap(t)
  <2>1. pc[t] = "copy" /\ \E p, k : (p = "idle" \/ CopyGoesOn(p, k, next[t])) /\ Goto(t, p, k)
    BY <1>5, CopyPageMapCases DEF ReturnError
  <2> QED BY <1>2, <2>1 DEF CopyGoesOn
<1>6. CASE SetupArgs(t)
  <2>1. pc[t] = "args" /\ (SetupStep(t, ArgsPage, TRUE, Args, "stack", StackPage) \/ ReturnError(t))
    BY <1>6 DEF SetupArgs
  <2>2. \E k : Goto(t, "idle", k) \/ Goto(t, "stack", k) \/ Goto(t, "args", k)
    BY <2>1, SetupStepCases DEF ReturnError
  <2> QED BY <1>2, <2>1, <2>2
<1>7. CASE SetupStack(t)
  <2>1. /\ pc[t] = "stack"
        /\ SetupStep(t, StackPage + kStackPages - 1, TRUE, Unfilled, "call", 0)
    BY <1>7 DEF SetupStack
  <2>2. \E k : Goto(t, "idle", k) \/ Goto(t, "call", k) \/ Goto(t, "stack", k)
    BY <2>1, SetupStepCases
  <2> QED BY <1>2, <2>1, <2>2
<1>8. CASE CleanPageMap(t)
  BY <1>2, <1>8 DEF CleanPageMap
<1>9. CASE FreePML4(t)
  BY <1>2, <1>9 DEF FreePML4
<1> QED BY <1>3, <1>4, <1>5, <1>6, <1>7, <1>8, <1>9 DEF LoadStep

\* Every step is one that the application's memory may take.
LEMMA StepSeen ==
  ASSUME IInv, MemInv, ~SharedBuffers, NEW t \in Task, Keeps(t), LoadStep(t) \/ SpaceStep(t)
  PROVE  OwnSeen(t)
<1>1. TypeInv
  BY DEF IInv
<1>2. \A p, k : Goto(t, p, k) => pc'[t] = p
  BY <1>1 DEF Goto, TypeInv
<1>3. pc'[t] # "run" => SeenBy(t)' = <<>>
  BY DEF SeenBy
<1>4. CASE LoadStep(t) \/ CopyPageMap(t) \/ SetupArgs(t) \/ SetupStack(t)
             \/ CleanPageMap(t) \/ FreePML4(t)
  BY <1>4, UnseenStep DEF OwnSeen
<1>5. CASE CallApp(t)
  BY <1>5, SeenStart DEF OwnSeen
<1>6. CASE Exit(t)
  BY <1>2, <1>3, <1>6 DEF Exit, Leave, OwnSeen
<1>7. ASSUME NEW v \in Touched, UserStore(t, v)
      PROVE  OwnSeen(t)
  <2>1. UNCHANGED <<cr3, app>>
    BY <1>7 DEF UserStore
  <2>2. pc[t] = "run" /\ UNCHANGED <<pc, areas>> /\ Changes(t, v, Written)
    BY <1>7, UserStoreSeen
  <2> QED BY <2>1, <2>2, WrittenSeen DEF OwnSeen
<1>8. ASSUME NEW v \in Touched, NEW rw \in BOOLEAN, PageFault(t, v, rw)
      PROVE  OwnSeen(t)
  <2>1. UNCHANGED <<cr3, app>>
    BY <1>8 DEF PageFault
  <2>2. /\ pc[t] = "run"
        /\ \/ UNCHANGED <<pc, areas>> /\ Changes(t, v, PageContent(t, v))
           \/ Leave(t)
    BY <1>8, PageFaultSeen
  <2>3. CASE Leave(t)
    BY <1>2, <1>3, <2>3 DEF Leave, OwnSeen
  <2>4. CASE UNCHANGED <<pc, areas>> /\ Changes(t, v, PageContent(t, v))
    BY <2>1, <2>2, <2>4, SamePutSeen DEF OwnSeen
  <2> QED BY <2>2, <2>3, <2>4
<1>9. ASSUME NEW v \in Touched, ReadIntoBuffer(t, v)
      PROVE  OwnSeen(t)
  <2>1. UNCHANGED <<cr3, app, areas>> /\ SystemCallStores(t, v)
    BY <1>9 DEF ReadIntoBuffer
  <2>2. pc[t] = "run" /\ ((UNCHANGED pc /\ Changes(t, v, Written)) \/ pc'[t] = "halt")
    BY <2>1, SystemCallSeen
  <2>3. CASE pc'[t] = "halt"
    BY <1>3, <2>3 DEF OwnSeen
  <2>4. CASE UNCHANGED pc /\ Changes(t, v, Written)
    BY <2>1, <2>2, <2>4, WrittenSeen DEF OwnSeen
  <2> QED BY <2>2, <2>3, <2>4
<1>10. ASSUME NEW n \in 1 .. StackPage, DemandPages(t, n)
       PROVE  OwnSeen(t)
  BY <1>10, DemandPagesSeen DEF Keeps, OwnSeen
<1>11. ASSUME NEW fd \in DOMAIN File, NEW v \in Touched, MapFile(t, fd, v)
       PROVE  OwnSeen(t)
  <2>1. SystemCallStores(t, v)
    BY <1>11 DEF MapFile
  <2>2. ~KernelStore(t, v).ok => pc'[t] = "halt"
    BY <2>1, SystemCallSeen
  <2>3. CASE KernelStore(t, v).ok
    BY <1>11, <2>3, MapFileSeen DEF OwnSeen
  <2>4. CASE ~KernelStore(t, v).ok
    BY <1>3, <2>2, <2>4 DEF OwnSeen
  <2> QED BY <2>3, <2>4
<1> QED BY <1>4, <1>5, <1>6, <1>7, <1>8, <1>9, <1>10, <1>11 DEF SpaceStep

LEMMA OneSeen ==
  ASSUME NEW t \in Task, \A u \in Task : u # t => SeenBy(u)' = SeenBy(u)
  PROVE  Seen' = [Seen EXCEPT ![t] = SeenBy(t)'] /\ Seen[t] = SeenBy(t) /\ Seen'[t] = SeenBy(t)'
BY DEF Seen

\* Those are the steps of PrivateMemory.
LEMMA StartIsPrivate ==
  ASSUME NEW t \in Task, Seen' = [Seen EXCEPT ![t] = SeenBy(t)'], Seen[t] = SeenBy(t), StartSeen(t)
  PROVE  Private!Start(t)
<1>1. Seen[t] = <<>> /\ app[t] \in Elf /\ Seen' = [Seen EXCEPT ![t] = InitialMemory(app[t])]
  BY DEF StartSeen
<1> QED BY <1>1 DEF Private!Start, Private!NoPages, Seen, SeenBy

LEMMA WriteIsPrivate ==
  ASSUME NEW t \in Task, Seen' = [Seen EXCEPT ![t] = SeenBy(t)'], Seen[t] = SeenBy(t),
         NEW v, WriteSeen(t, v)
  PROVE  Private!Store(t)
<1>1. v \in DOMAIN Seen[t] /\ Seen' = [Seen EXCEPT ![t][v] = Written]
  BY DEF WriteSeen
<1> QED BY <1>1 DEF Private!Store, Seen, SeenBy

LEMMA DemandIsPrivate ==
  ASSUME NEW t \in Task, Seen' = [Seen EXCEPT ![t] = SeenBy(t)'], Seen[t] = SeenBy(t),
         Seen'[t] = SeenBy(t)', DemandSeen(t)
  PROVE  Private!Demand(t)
<1> DEFINE zeros == [v \in DOMAIN Seen'[t] |-> Zero]
<1>1. DOMAIN Seen'[t] \subseteq Page
  BY DEF DemandSeen
<1>2. Seen'[t] = [v \in DOMAIN Seen[t] \cup DOMAIN Seen'[t] |->
                    IF v \in DOMAIN Seen[t] THEN Seen[t][v] ELSE Zero]
  BY DEF DemandSeen
<1>3. Seen'[t] = Private!With(Seen[t], zeros)
  BY <1>2 DEF Private!With
<1>4. Seen' = [Seen EXCEPT ![t] = Private!With(@, zeros)]
  BY <1>3
<1> QED BY <1>1, <1>4 DEF Private!Demand, Seen, SeenBy

LEMMA MapIsPrivate ==
  ASSUME NEW t \in Task, Seen' = [Seen EXCEPT ![t] = SeenBy(t)'], Seen[t] = SeenBy(t),
         NEW fd \in DOMAIN File, NEW first \in Page, NEW v \in DOMAIN SeenBy(t),
         MapSeen(t, fd, first, v)
  PROVE  Private!MapFile(t)
<1> DEFINE new == first .. first + Len(File[fd]) - 1
           mapped == [p \in new |-> File[fd][p - first + 1]]
           stored == [Seen[t] EXCEPT ![v] = Written]
<1>1. new \cap DOMAIN Seen[t] = {} /\ v \in DOMAIN Seen[t]
  BY DEF MapSeen
<1>2. SeenBy(t)' = [p \in DOMAIN Seen[t] \cup new |->
                     IF p \in DOMAIN Seen[t]
                     THEN IF p = v THEN Written ELSE Seen[t][p]
                     ELSE File[fd][p - first + 1]]
  BY DEF MapSeen
<1>3. SeenBy(t)' = Private!With(stored, mapped)
  BY <1>1, <1>2 DEF Private!With
<1>4. Seen' = [Seen EXCEPT ![t] = Private!With([@ EXCEPT ![v] = Written], mapped)]
  BY <1>3
<1>5. \E f \in DOMAIN File, b \in Page, y \in DOMAIN Seen[t] :
        LET m == b .. b + Len(File[f]) - 1 IN
        /\ m \cap DOMAIN Seen[t] = {}
        /\ Seen' = [Seen EXCEPT ![t] =
             Private!With([@ EXCEPT ![y] = Written], [p \in m |-> File[f][p - b + 1]])]
  <2> WITNESS fd \in DOMAIN File, first \in Page, v \in DOMAIN Seen[t]
  <2> QED BY <1>1, <1>4
<1> QED BY <1>5 DEF Private!MapFile, Seen, SeenBy

LEMMA OwnIsPrivate ==
  ASSUME NEW t \in Task, \A u \in Task : u # t => SeenBy(u)' = SeenBy(u), OwnSeen(t)
  PROVE  [Private!Next]_Seen
<1>1. /\ Seen' = [Seen EXCEPT ![t] = SeenBy(t)'] /\ Seen[t] = SeenBy(t)
      /\ Seen'[t] = SeenBy(t)'
  BY OneSeen
<1>2. CASE SeenBy(t)' = SeenBy(t)
  <2>1. Seen' = Seen
    BY <1>2 DEF Seen
  <2> QED BY <2>1
<1>3. CASE SeenBy(t)' = <<>>
  <2>1. Seen' = [Seen EXCEPT ![t] = <<>>]
    BY <1>1, <1>3
  <2>2. Private!Exit(t)
    BY <2>1 DEF Private!Exit, Private!NoPages, Seen, SeenBy
  <2> QED BY <2>2 DEF Private!Next
<1>4. CASE StartSeen(t)
  BY <1>1, <1>4, StartIsPrivate DEF Private!Next
<1>5. CASE DemandSeen(t)
  BY <1>1, <1>5, DemandIsPrivate DEF Private!Next
<1>6. CASE \E v : WriteSeen(t, v)
  BY <1>1, <1>6, WriteIsPrivate DEF Private!Next
<1>7. CASE \E fd \in DOMAIN File, first \in Page, v \in DOMAIN SeenBy(t) : MapSeen(t, fd, first, v)
  BY <1>1, <1>7, MapIsPrivate DEF Private!Next
<1> QED BY <1>2, <1>3, <1>4, <1>5, <1>6, <1>7 DEF OwnSeen

LEMMA StepIsPrivate ==
  ASSUME IInv, MemInv, ~SharedBuffers, [Next]_vars
  PROVE  [Private!Next]_Seen
<1>1. ASSUME NEW t \in Task, LoadStep(t) \/ SpaceStep(t), Keeps(t)
      PROVE  [Private!Next]_Seen
  <2>1. OthersAreas(t)
    BY <1>1, AreasKept
  <2>2. \A u \in Task : u # t => SeenBy(u)' = SeenBy(u)
    BY <1>1, <2>1, OtherSeen
  <2>3. OwnSeen(t)
    BY <1>1, StepSeen
  <2> QED BY <2>2, <2>3, OwnIsPrivate
<1>2. CASE Next
  BY <1>1, <1>2, NextIsStep, StepKeeps
<1>3. CASE UNCHANGED vars
  <2>1. UNCHANGED <<page_map, content, cr3, pc, app,
                    dpaging_begin_, dpaging_end_, file_map_end_, file_maps_>>
    BY <1>3 DEF vars, memory, areas
  <2>2. \A t \in Task : SeenBy(t)' = SeenBy(t)
    <3> SUFFICES ASSUME NEW t \in Task PROVE SeenBy(t)' = SeenBy(t)
      OBVIOUS
    <3>1. Valid(t)' = Valid(t)
      BY <2>1 DEF Valid, Mapped
    <3>2. \A v : PageContent(t, v)' = PageContent(t, v)
      <4>1. \A v : /\ DemandPage(t, v)' <=> DemandPage(t, v)
                   /\ FilePage(t, v)' = FilePage(t, v)
        BY <2>1 DEF DemandPage, FilePage, FindFileMapping, Mapped
      <4> QED BY <2>1, <4>1, ContentIs
    <3> QED BY <2>1, <3>1, <3>2, SeenAlike
  <2>3. Seen' = Seen
    BY <2>2 DEF Seen
  <2> QED BY <2>3
<1> QED BY <1>2, <1>3

\* Sharing, copying on write, demand paging and file mappings (CopyPageMaps,
\* CopyOnePage, HandlePageFault) cannot be seen by applications: each has a memory of
\* its own, as long as system calls store into no page that is still shared.
THEOREM MemoryIsPrivate ==
  ASSUME ~SharedBuffers
  PROVE  Spec => ImplementsPrivateMemory
<1>1. Init => Private!Init
  BY DEF Init, Private!Init, Private!NoPages
<1>2. IInv /\ MemInv /\ [Next]_vars => [Private!Next]_Seen
  BY StepIsPrivate
<1> QED BY <1>1, <1>2, Invariance, MemoryHolds, PTL
        DEF Spec, ImplementsPrivateMemory, Private!Spec, Seen, SeenBy
=============================================================================
