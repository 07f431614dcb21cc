------------------------- MODULE TaskManagerProofs -------------------------
(***************************************************************************)
(* Proofs about TaskManager for every number of tasks and levels: the      *)
(* inductive invariant IInv, the safety properties it implies, and the     *)
(* refinement of PriorityScheduler; then the same about Timer, which makes *)
(* SwitchTask happen.                                                      *)
(***************************************************************************)
EXTENDS TaskManagerRefinement, Timer, TLAPS, WellFoundedInduction

-----------------------------------------------------------------------------
(* Run queues as sequences.                                                *)

\* push_back on a run queue: the task is added to the elements, at the end.
LEMMA AppendElems ==
  ASSUME NEW S, NEW q \in Seq(S), NEW t \in S
  PROVE  /\ Append(q, t) \in Seq(S)
         /\ Elems(Append(q, t)) = Elems(q) \cup {t}
         /\ Append(q, t) # << >>
         /\ NoDuplicates(q) /\ t \notin Elems(q) => NoDuplicates(Append(q, t))
         /\ q # << >> => Head(Append(q, t)) = Head(q)
         /\ q = << >> => Head(Append(q, t)) = t
<1> DEFINE a == Append(q, t)
<1>1. /\ a \in Seq(S)  /\ Len(a) = Len(q) + 1 /\ Len(q) \in Nat
      /\ \A i \in 1 .. Len(q) : a[i] = q[i]
      /\ a[Len(q) + 1] = t
  OBVIOUS
<1>2. Elems(a) = Elems(q) \cup {t}
  <2> HIDE DEF a
  <2>1. 1 .. Len(a) = 1 .. Len(q) \cup {Len(q) + 1}
    BY <1>1
  <2> QED BY <1>1, <2>1 DEF Elems
<1>3. NoDuplicates(q) /\ t \notin Elems(q) => NoDuplicates(a)
  <2> HIDE DEF a
  <2> QED BY <1>1 DEF Elems, NoDuplicates
<1>4. a # << >> /\ (q # << >> => Head(a) = Head(q)) /\ (q = << >> => Head(a) = t)
  OBVIOUS
<1> QED BY <1>1, <1>2, <1>3, <1>4

\* Queues of no task and of one task.
LEMMA ShortElems ==
  ASSUME NEW t
  PROVE  /\ Elems(<< >>) = {} /\ NoDuplicates(<< >>)
         /\ Elems(<<t>>) = {t} /\ NoDuplicates(<<t>>)
<1>1. Len(<< >>) = 0 /\ Len(<<t>>) = 1 /\ <<t>>[1] = t /\ 1 .. 0 = {} /\ 1 .. 1 = {1}
  OBVIOUS
<1>2. Elems(<< >>) = {}
  BY DEF Elems
<1>3. NoDuplicates(<< >>) /\ NoDuplicates(<<t>>)
  BY DEF NoDuplicates
<1>4. Elems(<<t>>) = {t}
  <2> DEFINE one == <<t>>
  <2>1. Len(one) = 1 /\ one[1] = t
    BY <1>1
  <2> HIDE DEF one
  <2>2. Elems(one) = {t}
    BY <2>1 DEF Elems
  <2> QED BY <2>2 DEF one
<1> QED BY <1>2, <1>3, <1>4

\* pop_front on a run queue takes out the front task and nothing else.
LEMMA TailElems ==
  ASSUME NEW S, NEW q \in Seq(S), q # << >>
  PROVE  /\ Tail(q) \in Seq(S)
         /\ Head(q) \in Elems(q)
         /\ Head(q) \in S
         /\ NoDuplicates(q) => /\ NoDuplicates(Tail(q))
                               /\ Elems(Tail(q)) = Elems(q) \ {Head(q)}
<1>1. /\ Tail(q) \in Seq(S) /\ Len(Tail(q)) = Len(q) - 1 /\ Len(q) \in Nat \ {0}
      /\ \A i \in 1 .. Len(Tail(q)) : Tail(q)[i] = q[i + 1]
      /\ Head(q) = q[1] /\ q[1] \in S
  OBVIOUS
<1>2. Head(q) \in Elems(q)
  BY <1>1 DEF Elems
<1>3. ASSUME NoDuplicates(q) PROVE NoDuplicates(Tail(q))
  BY <1>1, <1>3 DEF NoDuplicates
<1>4. ASSUME NoDuplicates(q) PROVE Elems(Tail(q)) = Elems(q) \ {Head(q)}
  <2>1. ASSUME NEW x \in Elems(Tail(q)) PROVE x \in Elems(q) \ {Head(q)}
    BY <1>1, <1>4 DEF Elems, NoDuplicates
  <2>2. ASSUME NEW x \in Elems(q) \ {Head(q)} PROVE x \in Elems(Tail(q))
    <3>1. PICK i \in 1 .. Len(q) : x = q[i]
      BY DEF Elems
    <3>2. i # 1 /\ i - 1 \in 1 .. Len(Tail(q)) /\ (i - 1) + 1 = i
      BY <1>1, <3>1
    <3> QED BY <1>1, <3>1, <3>2 DEF Elems
  <2> QED BY <2>1, <2>2
<1> QED BY <1>1, <1>2, <1>3, <1>4

\* push_front on a run queue: the task is added to the elements, at the front.
LEMMA ConsElems ==
  ASSUME NEW S, NEW q \in Seq(S), NEW t \in S
  PROVE  /\ <<t>> \o q \in Seq(S)
         /\ Elems(<<t>> \o q) = Elems(q) \cup {t}
         /\ <<t>> \o q # << >>
         /\ NoDuplicates(q) /\ t \notin Elems(q) => NoDuplicates(<<t>> \o q)
         /\ Head(<<t>> \o q) = t
<1> DEFINE a == <<t>> \o q
<1>1. /\ a \in Seq(S)  /\ Len(a) = Len(q) + 1 /\ Len(q) \in Nat
      /\ a[1] = t
      /\ \A i \in 1 .. Len(q) : a[i + 1] = q[i]
      /\ Head(a) = a[1] /\ a # << >>
  OBVIOUS
<1> HIDE DEF a
<1>2. \A j \in 1 .. Len(a) : j = 1 \/ (j - 1 \in 1 .. Len(q) /\ a[j] = q[j - 1])
  <2> TAKE j \in 1 .. Len(a)
  <2> SUFFICES ASSUME j # 1 PROVE j - 1 \in 1 .. Len(q) /\ a[j] = q[j - 1]
    OBVIOUS
  <2>1. j - 1 \in 1 .. Len(q) /\ (j - 1) + 1 = j
    BY <1>1
  <2> QED BY <1>1, <2>1
<1>3. Elems(a) = Elems(q) \cup {t}
  <2>1. ASSUME NEW x \in Elems(a) PROVE x \in Elems(q) \cup {t}
    <3>1. PICK j \in 1 .. Len(a) : x = a[j]
      BY DEF Elems
    <3>2. CASE j = 1
      BY <1>1, <3>1, <3>2
    <3>3. CASE j - 1 \in 1 .. Len(q) /\ a[j] = q[j - 1]
      BY <3>1, <3>3 DEF Elems
    <3> QED BY <1>2, <3>2, <3>3
  <2>2. t \in Elems(a)
    BY <1>1 DEF Elems
  <2>3. ASSUME NEW i \in 1 .. Len(q) PROVE q[i] \in Elems(a)
    <3>1. i + 1 \in 1 .. Len(a) BY <1>1
    <3> QED BY <1>1, <3>1 DEF Elems
  <2> QED BY <2>1, <2>2, <2>3 DEF Elems
<1>4. ASSUME NoDuplicates(q), t \notin Elems(q) PROVE NoDuplicates(a)
  <2> SUFFICES ASSUME NEW i \in 1 .. Len(a), NEW j \in 1 .. Len(a), a[i] = a[j]
               PROVE  i = j
    BY DEF NoDuplicates
  <2>1. \A k \in 1 .. Len(q) : q[k] # t
    BY <1>4 DEF Elems
  <2>2. CASE i = 1 \/ j = 1
    BY <1>1, <1>2, <2>1, <2>2
  <2>3. CASE i # 1 /\ j # 1
    <3>1. i - 1 \in 1 .. Len(q) /\ j - 1 \in 1 .. Len(q) /\ q[i - 1] = q[j - 1]
      BY <1>2, <2>3
    <3>2. i - 1 = j - 1
      BY <1>4, <3>1 DEF NoDuplicates
    <3> QED BY <3>2
  <2> QED BY <2>2, <2>3
<1> QED BY <1>1, <1>3, <1>4 DEF a

\* Erase takes out its task and nothing else, and leaves the front in place
\* unless it is the task.
LEMMA EraseElems ==
  ASSUME NEW S, NEW q \in Seq(S), NEW t, NoDuplicates(q)
  PROVE  /\ Erase(q, t) \in Seq(S)
         /\ Elems(Erase(q, t)) = Elems(q) \ {t}
         /\ NoDuplicates(Erase(q, t))
         /\ q # << >> /\ t # Head(q) => /\ Erase(q, t) # << >>
                                        /\ Head(Erase(q, t)) = Head(q)
<1>1. CASE t \notin Elems(q)
  BY <1>1 DEF Erase
<1>2. CASE t \in Elems(q)
  <2> DEFINE n == CHOOSE i \in 1 .. Len(q) : q[i] = t
             l == SubSeq(q, 1, n - 1)
             r == SubSeq(q, n + 1, Len(q))
             e == l \o r
  <2>1. n \in 1 .. Len(q) /\ q[n] = t /\ Len(q) \in Nat
    <3>1. \E i \in 1 .. Len(q) : q[i] = t
      BY <1>2 DEF Elems
    <3> QED BY <3>1
  <2>2. Erase(q, t) = e
    BY <1>2, Zenon DEF Erase
  <2> HIDE DEF n
  <2>3. l \in Seq(S) /\ Len(l) = n - 1 /\ \A i \in 1 .. n - 1 : l[i] = q[i]
    BY <2>1
  <2>8. r \in Seq(S) /\ Len(r) = Len(q) - n /\ \A i \in 1 .. Len(q) - n : r[i] = q[i + n]
    BY <2>1
  <2> HIDE DEF l, r
  <2>4. /\ e \in Seq(S) /\ Len(e) = Len(q) - 1
        /\ \A i \in 1 .. Len(e) : e[i] = IF i < n THEN q[i] ELSE q[i + 1]
    <3>1. /\ e \in Seq(S) /\ Len(e) = Len(q) - 1
          /\ \A i \in 1 .. Len(e) : e[i] = IF i <= Len(l) THEN l[i] ELSE r[i - Len(l)]
      <4>1. l \in Seq(S) /\ r \in Seq(S)
        BY <2>3, <2>8
      <4>2. /\ e \in Seq(S) /\ Len(e) = Len(l) + Len(r)
            /\ \A i \in 1 .. Len(e) : e[i] = IF i <= Len(l) THEN l[i] ELSE r[i - Len(l)]
        BY <4>1
      <4> HIDE DEF e
      <4> QED BY <2>1, <2>3, <2>8, <4>2
    <3> HIDE DEF e
    <3>2. ASSUME NEW i \in 1 .. Len(e), i < n PROVE e[i] = q[i]
      <4>1. i \in 1 .. n - 1 /\ i <= Len(l)
        BY <2>1, <2>3, <3>1, <3>2
      <4>2. e[i] = l[i]
        BY <3>1, <4>1
      <4> QED BY <2>3, <4>1, <4>2
    <3>3. ASSUME NEW i \in 1 .. Len(e), ~(i < n) PROVE e[i] = q[i + 1]
      <4> DEFINE k == i - (n - 1)
      <4>1. k \in 1 .. Len(q) - n /\ k + n = i + 1 /\ ~(i <= Len(l)) /\ i - Len(l) = k
        BY <2>1, <2>3, <3>1, <3>3
      <4>2. e[i] = r[i - Len(l)]
        BY <3>1, <4>1
      <4> HIDE DEF k
      <4>3. r[k] = q[k + n]
        BY <2>8, <4>1
      <4> QED BY <4>1, <4>2, <4>3
    <3> QED BY <3>1, <3>2, <3>3
  <2> HIDE DEF e
  <2>5. Elems(e) = Elems(q) \ {t}
    <3>1. ASSUME NEW x \in Elems(e) PROVE x \in Elems(q) \ {t}
      <4>1. PICK i \in 1 .. Len(e) : x = e[i]
        BY DEF Elems
      <4>2. PICK j \in 1 .. Len(q) : x = q[j] /\ j # n
        BY <2>1, <2>4, <4>1
      <4> QED BY <2>1, <4>2 DEF Elems, NoDuplicates
    <3>2. ASSUME NEW x \in Elems(q) \ {t} PROVE x \in Elems(e)
      <4>1. PICK i \in 1 .. Len(q) : x = q[i]
        BY DEF Elems
      <4>2. CASE i < n
        BY <2>1, <2>4, <4>1, <4>2 DEF Elems
      <4>3. CASE i > n
        <5>1. i - 1 \in 1 .. Len(e) /\ ~(i - 1 < n) /\ (i - 1) + 1 = i
          BY <2>1, <2>4, <4>3
        <5>2. e[i - 1] = x
          BY <2>4, <4>1, <5>1
        <5> QED BY <5>1, <5>2 DEF Elems
      <4> QED BY <2>1, <4>1, <4>2, <4>3
    <3> QED BY <3>1, <3>2
  <2>6. NoDuplicates(e)
    <3> SUFFICES ASSUME NEW i \in 1 .. Len(e), NEW j \in 1 .. Len(e), e[i] = e[j]
                 PROVE  i = j
      BY DEF NoDuplicates
    <3> DEFINE at(k) == IF k < n THEN k ELSE k + 1
    <3>1. /\ at(i) \in 1 .. Len(q) /\ q[at(i)] = e[i]
          /\ at(j) \in 1 .. Len(q) /\ q[at(j)] = e[j]
      BY <2>1, <2>4
    <3>2. at(i) = at(j)
      <4> HIDE DEF at
      <4> QED BY <3>1 DEF NoDuplicates
    <3> QED BY <2>1, <2>4, <3>2
  <2>7. q # << >> /\ t # Head(q) => e # << >> /\ Head(e) = Head(q)
    <3> SUFFICES ASSUME q # << >>, t # Head(q) PROVE e # << >> /\ Head(e) = Head(q)
      OBVIOUS
    <3>1. Head(q) = q[1] /\ n # 1 /\ 1 \in 1 .. Len(e) /\ e[1] = q[1]
      BY <2>1, <2>4
    <3> QED BY <2>4, <3>1
  <2> QED BY <2>2, <2>4, <2>5, <2>6, <2>7
<1> QED BY <1>1, <1>2

\* A set of naturals below a bound that is not empty has a greatest element
\* (the minimum of the distances to the bound, by well-foundedness).
LEMMA MaxExists ==
  ASSUME NEW n \in Nat, NEW S, S \subseteq 0 .. n, S # {}
  PROVE  \E m \in S : \A k \in S : k <= m
<1> DEFINE T == {n - k : k \in S}
           R == OpToRel(<, Nat)
<1>1. T \subseteq Nat /\ T # {}
  <2>1. \A k \in S : n - k \in Nat
    OBVIOUS
  <2>2. PICK k \in S : TRUE
    OBVIOUS
  <2> QED BY <2>1, <2>2
<1>2. PICK x \in T : \A y \in T : <<y, x>> \notin R
  <2> HIDE DEF T, R
  <2> QED BY <1>1, NatLessThanWellFounded, WFMin, Zenon DEF R
<1>3. PICK m \in S : x = n - m
  OBVIOUS
<1>4. ASSUME NEW k \in S PROVE k <= m
  <2>1. n - k \in T /\ n - k \in Nat /\ n - m \in Nat
    BY <1>1
  <2>2. ~(n - k < n - m)
    BY <1>2, <1>3, <2>1 DEF OpToRel
  <2> QED BY <2>2
<1> QED BY <1>4

\* The scan from kMaxLevel down ends at a queue that is not empty with only
\* empty queues above it.
LEMMA HighestIsTop ==
  ASSUME NEW queues, NEW other, NEW l0 \in Level, queues[l0] # << >>
  PROVE  LET h == Highest(queues, other)
         IN /\ h \in Level /\ queues[h] # << >>
            /\ \A l \in Level : l > h => queues[l] = << >>
<1> DEFINE ready == {l \in Level : queues[l] # << >>}
           h == CHOOSE l \in ready : \A m \in ready : m <= l
<1>1. ready # {} /\ ready \subseteq 0 .. kMaxLevel /\ kMaxLevel \in Nat
  BY LevelAssumption DEF Level
<1>2. \E m \in ready : \A k \in ready : k <= m
  <2> HIDE DEF ready
  <2> QED BY <1>1, MaxExists
<1>3. h \in ready /\ \A m \in ready : m <= h
  <2> HIDE DEF ready
  <2> QED BY <1>2
<1>4. Highest(queues, other) = h
  <2>1. ready # {} BY <1>1
  <2> QED BY <2>1, Zenon DEF Highest
<1> HIDE DEF h
<1>5. ASSUME NEW l \in Level, l > h PROVE queues[l] = << >>
  <2>1. l \in Int /\ h \in Int
    BY <1>3, LevelAssumption DEF Level
  <2>2. l \notin ready
    <3> HIDE DEF ready
    <3> QED BY <1>3, <1>5, <2>1
  <2> QED BY <2>2
<1> QED BY <1>3, <1>4, <1>5

-----------------------------------------------------------------------------
(* The run queues are correct after every step.                            *)

\* The types the run queues need.
QueueTypes ==
  /\ tasks_ \subseteq Id
  /\ level_ \in [Id -> Level]
  /\ Running \in [Id -> BOOLEAN]
  /\ running_ \in [Level -> Seq(Id)]
  /\ current_level_ \in Level
  /\ level_changed_ \in BOOLEAN
  /\ cpu \in Id

\* The first half of the inductive invariant with only those types.
QueueInv ==
  QueueTypes /\ QueuesExact /\ CpuIsCurrent /\ HigherLevelNoticed /\ IdleReady

\* RotateCurrentRunQueue keeps every queue exact (less the executing task when
\* it goes to sleep) and ends at the highest queue that is not empty, whether or
\* not it made the scan.
LEMMA RotationKeepsQueues ==
  ASSUME QueueInv, NEW b \in BOOLEAN, b => cpu # Idle
  PROVE  /\ RotatedQueues(b) \in [Level -> Seq(Id)]
         /\ \A l \in Level :
              /\ NoDuplicates(RotatedQueues(b)[l])
              /\ Elems(RotatedQueues(b)[l]) =
                   IF b THEN Elems(running_[l]) \ {cpu} ELSE Elems(running_[l])
         /\ RotatedLevel(b) \in Level
         /\ RotatedQueues(b)[RotatedLevel(b)] # << >>
         /\ \A l \in Level : l > RotatedLevel(b) => RotatedQueues(b)[l] = << >>
<1> DEFINE cl == current_level_
           rest == Tail(running_[cl])
           q == RotatedQueues(b)
           n == RotatedLevel(b)
<1>1. 0 \in Level
  BY LevelAssumption DEF Level
<1>2. /\ running_ \in [Level -> Seq(Id)] /\ cl \in Level /\ cpu \in Id
      /\ running_[cl] # << >> /\ Head(running_[cl]) = cpu
      /\ \A l \in Level : NoDuplicates(running_[l])
      /\ \A l \in Level : \A t \in Elems(running_[l]) : level_[t] = l
      /\ Idle \in Elems(running_[0])
  BY <1>1, Zenon DEF QueueInv, QueueTypes, CpuIsCurrent, CurrentTask, QueuesExact, IdleReady
<1>3. /\ rest \in Seq(Id) /\ NoDuplicates(rest)
      /\ Elems(rest) = Elems(running_[cl]) \ {cpu} /\ cpu \in Elems(running_[cl])
  <2>1. running_[cl] \in Seq(Id)
    BY <1>2
  <2> QED BY <1>2, <2>1, TailElems, Zenon
<1>4. /\ Append(rest, cpu) \in Seq(Id) /\ NoDuplicates(Append(rest, cpu))
      /\ Elems(Append(rest, cpu)) = Elems(running_[cl])
  <2>1. /\ Append(rest, cpu) \in Seq(Id)
        /\ Elems(Append(rest, cpu)) = Elems(rest) \cup {cpu}
        /\ cpu \notin Elems(rest) => NoDuplicates(Append(rest, cpu))
    <3> HIDE DEF rest
    <3> QED BY <1>2, <1>3, AppendElems
  <2> QED BY <1>3, <2>1
<1>5. /\ q \in [Level -> Seq(Id)]
      /\ q[cl] = IF b THEN rest ELSE Append(rest, cpu)
      /\ \A l \in Level : l # cl => q[l] = running_[l]
  BY <1>2, <1>3, <1>4 DEF RotatedQueues, CurrentTask
<1>6. ASSUME NEW l \in Level
      PROVE  /\ NoDuplicates(q[l])
             /\ Elems(q[l]) = IF b THEN Elems(running_[l]) \ {cpu} ELSE Elems(running_[l])
  <2>1. CASE l = cl
    BY <1>3, <1>4, <1>5, <2>1
  <2>2. CASE l # cl
    <3>1. cpu \notin Elems(running_[l])
      BY <1>2, <1>3, <2>2
    <3> QED BY <1>2, <1>5, <2>2, <3>1
  <2> QED BY <2>1, <2>2
<1>7. n \in Level /\ q[n] # << >> /\ \A l \in Level : l > n => q[l] = << >>
  <2>1. CASE level_changed_ \/ q[cl] = << >>
    <3>1. q[0] # << >>
      <4>1. Idle \in Elems(q[0])
        BY <1>1, <1>2, <1>6
      <4>2. Elems(<< >>) = {}
        BY DEF Elems
      <4> QED BY <4>1, <4>2
    <3>2. n = Highest(q, cl)
      BY <2>1 DEF RotatedLevel
    <3> QED
      <4> HIDE DEF q
      <4> QED BY <1>1, <3>1, <3>2, HighestIsTop
  <2>2. CASE ~level_changed_ /\ q[cl] # << >>
    <3>1. n = cl
      BY <2>2 DEF RotatedLevel
    <3>2. \A l \in Level : l > cl => running_[l] = << >>
      BY <2>2, Zenon DEF QueueInv, HigherLevelNoticed
    <3>3. \A l \in Level : l > cl => l # cl
      BY <1>2, LevelAssumption DEF Level
    <3> QED BY <1>2, <1>5, <2>2, <3>1, <3>2, <3>3
  <2> QED BY <2>1, <2>2
<1> QED BY <1>5, <1>6, <1>7, Zenon

\* Sleep of the executing task keeps the run queues correct.
LEMMA SleepMyselfStep ==
  ASSUME QueueInv, cpu # Idle, NEW where, SleepMyself(where),
         UNCHANGED <<tasks_, level_>>
  PROVE  QueueInv'
<1> DEFINE q == RotatedQueues(TRUE)
           n == RotatedLevel(TRUE)
<1>1. /\ q \in [Level -> Seq(Id)]
      /\ \A l \in Level : /\ NoDuplicates(q[l])
                           /\ Elems(q[l]) = Elems(running_[l]) \ {cpu}
      /\ n \in Level /\ q[n] # << >>
      /\ \A l \in Level : l > n => q[l] = << >>
  BY RotationKeepsQueues
<1> HIDE DEF q, n
<1>2. /\ running_' = q /\ current_level_' = n /\ level_changed_' = FALSE
      /\ cpu' = Head(q[n]) /\ Running' = [Running EXCEPT ![cpu] = FALSE]
      /\ tasks_' = tasks_ /\ level_' = level_
  BY DEF SleepMyself, RotateCurrentRunQueue, RestoreContext, CurrentTask, q, n
<1>3. cpu' \in Id /\ QueueTypes'
  <2>1. q[n] \in Seq(Id) BY <1>1
  <2>2. cpu' \in Id BY <1>1, <1>2, <2>1, TailElems
  <2> QED BY <1>1, <1>2, <2>2 DEF QueueInv, QueueTypes
<1>4. QueuesExact'
  BY <1>1, <1>2 DEF QueueInv, QueueTypes, QueuesExact
<1>5. CpuIsCurrent'
  BY <1>1, <1>2 DEF CpuIsCurrent, CurrentTask
<1>6. HigherLevelNoticed'
  BY <1>1, <1>2 DEF HigherLevelNoticed
<1>7. IdleReady'
  BY <1>2 DEF QueueInv, QueueTypes, IdleReady
<1> QED BY <1>3, <1>4, <1>5, <1>6, <1>7 DEF QueueInv

\* Wakeup, with and without a change of level, keeps the run queues correct.
LEMMA AwakenStep ==
  ASSUME QueueInv, NEW t \in tasks_ \ {Idle}, NEW level \in Level \cup {Keep},
         Awaken(t, level), UNCHANGED <<tasks_, cpu>>
  PROVE  QueueInv'
<1> USE DEF QueueInv
<1>1. CASE UNCHANGED <<running_, current_level_, level_changed_, level_, Running>>
  BY <1>1 DEF QueueTypes, QueuesExact, CpuIsCurrent, CurrentTask,
              HigherLevelNoticed, IdleReady
<1>2. CASE /\ Running[t] /\ level \in Level /\ level # level_[t]
           /\ ChangeLevelOther(t, level)
           /\ level_' = [level_ EXCEPT ![t] = level] /\ UNCHANGED Running
  <2> DEFINE o == level_[t]
  <2>1. /\ t \in Id /\ t # Idle /\ o \in Level /\ level # o /\ t # cpu
        /\ running_' = [l \in Level |->
             IF l = level THEN Append(running_[l], t)
             ELSE IF l = o THEN Erase(running_[l], t) ELSE running_[l]]
        /\ level_' = [level_ EXCEPT ![t] = level] /\ Running' = Running
        /\ level_changed_' = (level_changed_ \/ level > current_level_)
        /\ current_level_' = current_level_ /\ tasks_' = tasks_ /\ cpu' = cpu
    <3>1. t \in Id /\ t # Idle /\ o \in Level
      BY DEF QueueTypes
    <3>2. t # cpu
      BY <1>2, Zenon DEF ChangeLevelOther, CpuIsCurrent
    <3> QED BY <1>2, <3>1, <3>2 DEF ChangeLevelOther
  <2>2. \A m \in Level : m # o => t \notin Elems(running_[m])
    BY DEF QueuesExact
  <2> HIDE DEF o
  <2>3. /\ running_'[level] \in Seq(Id) /\ running_'[level] # << >>
        /\ Elems(running_'[level]) = Elems(running_[level]) \cup {t}
        /\ NoDuplicates(running_'[level])
        /\ running_[level] # << >> => Head(running_'[level]) = Head(running_[level])
    <3>1. running_[level] \in Seq(Id) /\ running_'[level] = Append(running_[level], t)
      BY <1>2, <2>1 DEF QueueTypes
    <3>2. NoDuplicates(running_[level]) /\ t \notin Elems(running_[level])
      BY <1>2, <2>1, <2>2 DEF QueuesExact
    <3>3. t \in Id
      BY <2>1
    <3> QED BY <3>1, <3>2, <3>3, AppendElems
  <2>4. /\ running_'[o] \in Seq(Id)
        /\ Elems(running_'[o]) = Elems(running_[o]) \ {t}
        /\ NoDuplicates(running_'[o])
        /\ running_[o] # << >> /\ t # Head(running_[o]) =>
             running_'[o] # << >> /\ Head(running_'[o]) = Head(running_[o])
    <3>1. running_[o] \in Seq(Id) /\ running_'[o] = Erase(running_[o], t)
      BY <2>1 DEF QueueTypes
    <3>2. NoDuplicates(running_[o])
      BY <2>1 DEF QueuesExact
    <3> QED BY <3>1, <3>2, EraseElems
  <2>5. \A m \in Level : m # o /\ m # level => running_'[m] = running_[m]
    BY <2>1
  <2>6. QueueTypes'
    <3>1. \A m \in Level : running_'[m] \in Seq(Id)
      BY <2>3, <2>4, <2>5 DEF QueueTypes
    <3> QED BY <1>2, <2>1, <3>1 DEF QueueTypes
  <2>7. QueuesExact'
    <3>1. ASSUME NEW m \in Level
          PROVE  /\ NoDuplicates(running_'[m])
                 /\ Elems(running_'[m]) = {u \in tasks_' : Running'[u] /\ level_'[u] = m}
      <4>1. /\ Elems(running_[m]) = {u \in tasks_ : Running[u] /\ level_[u] = m}
            /\ NoDuplicates(running_[m])
        BY DEF QueuesExact
      <4>2. /\ \A u \in tasks_ : u # t => level_'[u] = level_[u]
            /\ level_'[t] = level /\ level_[t] = o
        BY <2>1 DEF QueueTypes, o
      <4>3. CASE m = level
        BY <1>2, <2>1, <2>3, <4>1, <4>2, <4>3
      <4>4. CASE m = o
        BY <1>2, <2>1, <2>4, <4>1, <4>2, <4>4
      <4>5. CASE m # level /\ m # o
        BY <1>2, <2>1, <2>5, <4>1, <4>2, <4>5
      <4> QED BY <4>3, <4>4, <4>5
    <3>2. \A u \in Id \ tasks_' : ~Running'[u]
      BY <2>1 DEF QueuesExact
    <3> QED BY <3>1, <3>2 DEF QueuesExact
  <2>8. CpuIsCurrent'
    BY <2>1, <2>3, <2>4, <2>5 DEF CpuIsCurrent, CurrentTask, QueueTypes
  <2>9. HigherLevelNoticed'
    <3> SUFFICES ASSUME ~level_changed_', NEW m \in Level, m > current_level_
                 PROVE  running_'[m] = << >>
      BY <2>1 DEF HigherLevelNoticed
    <3>1. m # level /\ running_[m] = << >>
      BY <2>1 DEF HigherLevelNoticed
    <3>2. m # o
      <4>1. t \in Elems(running_[o])
        BY <1>2, <2>1 DEF QueuesExact, o
      <4>2. Elems(<< >>) = {}
        BY DEF Elems
      <4> QED BY <3>1, <4>1, <4>2
    <3> QED BY <2>5, <3>1, <3>2
  <2>10. IdleReady'
    BY <2>1 DEF IdleReady, QueueTypes
  <2> QED BY <2>6, <2>7, <2>8, <2>9, <2>10
<1>3. CASE /\ Running[t] /\ level \in Level /\ level # level_[t]
           /\ ChangeLevelMyself(t, level)
           /\ level_' = [level_ EXCEPT ![t] = level] /\ UNCHANGED Running
  <2> DEFINE o == current_level_
             rest == Tail(running_[o])
  <2>1. /\ t \in Id /\ t # Idle /\ o \in Level /\ t = cpu /\ level_[t] = o
        /\ running_[o] \in Seq(Id) /\ running_[o] # << >> /\ Head(running_[o]) = t
        /\ NoDuplicates(running_[o])
    <3>1. /\ t \in Id /\ t # Idle /\ o \in Level /\ t = cpu
          /\ running_[o] \in Seq(Id) /\ running_[o] # << >> /\ Head(running_[o]) = t
      BY <1>3 DEF ChangeLevelMyself, QueueTypes, CpuIsCurrent, CurrentTask
    <3>2. t \in Elems(running_[o])
      BY <3>1, TailElems
    <3> QED BY <3>1, <3>2 DEF QueuesExact
  <2>2. /\ rest \in Seq(Id) /\ NoDuplicates(rest)
        /\ Elems(rest) = Elems(running_[o]) \ {t}
    BY <2>1, TailElems
  <2> HIDE DEF rest
  <2>3. /\ running_' = [running_ EXCEPT ![o] = rest,
                                        ![level] = <<t>> \o running_[level]]
        /\ level_changed_' = (level_changed_ \/ level < o)
        /\ current_level_' = level /\ tasks_' = tasks_ /\ cpu' = cpu
        /\ level_' = [level_ EXCEPT ![t] = level] /\ Running' = Running
        /\ level # o
    BY <1>3, <2>1 DEF ChangeLevelMyself, rest, QueueTypes
  <2>4. /\ running_'[level] \in Seq(Id) /\ running_'[level] # << >>
        /\ Elems(running_'[level]) = Elems(running_[level]) \cup {t}
        /\ NoDuplicates(running_'[level])
        /\ Head(running_'[level]) = t
    <3>1. running_[level] \in Seq(Id) /\ running_'[level] = <<t>> \o running_[level]
      BY <1>3, <2>3 DEF QueueTypes
    <3>2. NoDuplicates(running_[level]) /\ t \notin Elems(running_[level])
      BY <1>3 DEF QueuesExact
    <3> QED BY <2>1, <3>1, <3>2, ConsElems
  <2>5. running_'[o] = rest /\ \A m \in Level : m # o /\ m # level => running_'[m] = running_[m]
    BY <2>1, <2>3 DEF QueueTypes
  <2>6. QueueTypes'
    <3>1. \A m \in Level : running_'[m] \in Seq(Id)
      BY <2>2, <2>4, <2>5 DEF QueueTypes
    <3>2. running_' \in [Level -> Seq(Id)]
      BY <2>3, <3>1 DEF QueueTypes
    <3> QED BY <1>3, <2>1, <2>3, <3>2 DEF QueueTypes
  <2>7. QueuesExact'
    <3>1. ASSUME NEW m \in Level
          PROVE  /\ NoDuplicates(running_'[m])
                 /\ Elems(running_'[m]) = {u \in tasks_' : Running'[u] /\ level_'[u] = m}
      <4>0. tasks_' = tasks_ /\ Running' = Running /\ Running[t] /\ level # o /\ level_[t] = o
        BY <1>3, <2>1, <2>3
      <4>1. /\ Elems(running_[m]) = {u \in tasks_ : Running[u] /\ level_[u] = m}
            /\ NoDuplicates(running_[m])
        BY DEF QueuesExact
      <4>2. /\ \A u \in tasks_ : u # t => level_'[u] = level_[u]
            /\ level_'[t] = level
        BY <2>1, <2>3 DEF QueueTypes
      <4>3. CASE m = level
        BY <2>4, <4>0, <4>1, <4>2, <4>3
      <4>4. CASE m = o
        BY <2>2, <2>5, <4>0, <4>1, <4>2, <4>4
      <4>5. CASE m # level /\ m # o
        BY <2>5, <4>0, <4>1, <4>2, <4>5
      <4> QED BY <4>3, <4>4, <4>5
    <3>2. \A u \in Id \ tasks_' : ~Running'[u]
      BY <2>3 DEF QueuesExact
    <3> QED BY <3>1, <3>2 DEF QueuesExact
  <2>8. CpuIsCurrent'
    BY <2>1, <2>3, <2>4 DEF CpuIsCurrent, CurrentTask
  <2>9. HigherLevelNoticed'
    <3> SUFFICES ASSUME ~level_changed_', NEW m \in Level, m > level
                 PROVE  running_'[m] = << >>
      BY <2>3 DEF HigherLevelNoticed
    <3>0. ~(level < o)
      BY <2>3, Zenon
    <3>1. level \in Int /\ o \in Int /\ m \in Int
      <4>1. o \in Level /\ level \in Level
        BY <1>3, <2>1
      <4> QED BY <4>1, LevelAssumption DEF Level
    <3>2. m > o /\ m # o /\ m # level
      <4> HIDE DEF o
      <4> QED BY <3>0, <3>1
    <3>3. ~level_changed_
      BY <2>3
    <3> QED BY <2>5, <3>2, <3>3 DEF HigherLevelNoticed
  <2>10. IdleReady'
    BY <2>1, <2>3 DEF IdleReady, QueueTypes
  <2> QED BY <2>6, <2>7, <2>8, <2>9, <2>10
<1>4. CASE ~Running[t]
  <2> DEFINE l == IF level = Keep THEN level_[t] ELSE level
  <2>1. /\ l \in Level /\ t \in Id /\ t # Idle
        /\ level_' = [level_ EXCEPT ![t] = l]
        /\ running_' = [running_ EXCEPT ![l] = Append(@, t)]
        /\ level_changed_' = (level_changed_ \/ l > current_level_)
        /\ Running' = [Running EXCEPT ![t] = TRUE]
        /\ current_level_' = current_level_ /\ tasks_' = tasks_ /\ cpu' = cpu
    BY <1>4 DEF Awaken, QueueTypes
  <2> HIDE DEF l
  <2>2. \A m \in Level : t \notin Elems(running_[m])
    BY <1>4 DEF QueuesExact
  <2>3. /\ running_'[l] \in Seq(Id) /\ running_'[l] # << >>
        /\ Elems(running_'[l]) = Elems(running_[l]) \cup {t}
        /\ NoDuplicates(running_'[l])
        /\ running_[l] # << >> => Head(running_'[l]) = Head(running_[l])
        /\ \A m \in Level : m # l => running_'[m] = running_[m]
    <3>1. running_[l] \in Seq(Id) /\ running_'[l] = Append(running_[l], t)
      BY <2>1 DEF QueueTypes
    <3>2. NoDuplicates(running_[l]) /\ t \notin Elems(running_[l])
      BY <2>1, <2>2 DEF QueuesExact
    <3>3. \A m \in Level : m # l => running_'[m] = running_[m]
      BY <2>1 DEF QueueTypes
    <3> QED BY <2>1, <3>1, <3>2, <3>3, AppendElems
  <2>4. QueueTypes'
    BY <2>1, <2>3 DEF QueueTypes
  <2>5. QueuesExact'
    <3>1. ASSUME NEW m \in Level
          PROVE  /\ NoDuplicates(running_'[m])
                 /\ Elems(running_'[m]) = {u \in tasks_' : Running'[u] /\ level_'[u] = m}
      <4>1. Elems(running_[m]) = {u \in tasks_ : Running[u] /\ level_[u] = m}
        BY DEF QueuesExact
      <4>2. \A u \in tasks_ : u # t => Running'[u] = Running[u] /\ level_'[u] = level_[u]
        BY <2>1 DEF QueueTypes
      <4>3. Running'[t] /\ level_'[t] = l
        BY <2>1 DEF QueueTypes
      <4>4. CASE m = l
        BY <1>4, <2>1, <2>3, <4>1, <4>2, <4>3, <4>4
      <4>5. CASE m # l
        BY <1>4, <2>1, <2>3, <4>1, <4>2, <4>3, <4>5 DEF QueuesExact
      <4> QED BY <4>4, <4>5
    <3>2. \A u \in Id \ tasks_' : ~Running'[u]
      BY <2>1 DEF QueuesExact, QueueTypes
    <3> QED BY <3>1, <3>2 DEF QueuesExact
  <2>6. CpuIsCurrent'
    BY <2>1, <2>3 DEF CpuIsCurrent, CurrentTask, QueueTypes
  <2>7. HigherLevelNoticed'
    BY <2>1, <2>3 DEF HigherLevelNoticed
  <2>8. IdleReady'
    BY <2>1 DEF IdleReady, QueueTypes
  <2> QED BY <2>4, <2>5, <2>6, <2>7, <2>8
<1> QED
  BY <1>1, <1>2, <1>3, <1>4 DEF Awaken, ChangeLevelRunning

\* Preemption by the task timer keeps the run queues correct.
LEMMA SwitchTaskStep ==
  ASSUME QueueInv, SwitchTask
  PROVE  QueueInv'
<1> DEFINE q == RotatedQueues(FALSE)
           n == RotatedLevel(FALSE)
<1>1. /\ q \in [Level -> Seq(Id)]
      /\ \A l \in Level : /\ NoDuplicates(q[l])
                           /\ Elems(q[l]) = Elems(running_[l])
      /\ n \in Level /\ q[n] # << >>
      /\ \A l \in Level : l > n => q[l] = << >>
  BY RotationKeepsQueues
<1> HIDE DEF q, n
<1>2. /\ running_' = q /\ current_level_' = n /\ level_changed_' = FALSE
      /\ cpu' = Head(q[n])
      /\ Running' = Running /\ tasks_' = tasks_ /\ level_' = level_
  BY DEF QueueInv, CpuIsCurrent, SwitchTask, RotateCurrentRunQueue, CurrentTask, q, n
<1>3. QueueTypes'
  <2>1. q[n] \in Seq(Id) BY <1>1
  <2>2. cpu' \in Id BY <1>1, <1>2, <2>1, TailElems
  <2> QED BY <1>1, <1>2, <2>2 DEF QueueInv, QueueTypes
<1>4. QueuesExact'
  BY <1>1, <1>2 DEF QueueInv, QueuesExact
<1>5. CpuIsCurrent'
  BY <1>1, <1>2 DEF CpuIsCurrent, CurrentTask
<1>6. HigherLevelNoticed'
  BY <1>1, <1>2 DEF HigherLevelNoticed
<1>7. IdleReady'
  BY <1>2 DEF QueueInv, IdleReady
<1> QED BY <1>3, <1>4, <1>5, <1>6, <1>7 DEF QueueInv

\* Sleep of another task keeps the run queues correct.
LEMMA SleepOtherStep ==
  ASSUME QueueInv, NEW t \in Id, SleepOther(t)
  PROVE  QueueInv'
<1> DEFINE o == level_[t]
<1>1. /\ t \in tasks_ /\ t # Idle /\ t # cpu /\ o \in Level
      /\ Running' = [Running EXCEPT ![t] = FALSE]
      /\ running_' = [running_ EXCEPT ![o] = Erase(running_[o], t)]
      /\ tasks_' = tasks_ /\ level_' = level_ /\ cpu' = cpu
      /\ current_level_' = current_level_ /\ level_changed_' = level_changed_
  BY DEF SleepOther, QueueInv, QueueTypes
<1>2. \A m \in Level : m # o => t \notin Elems(running_[m])
  BY DEF QueueInv, QueuesExact
<1> HIDE DEF o
<1>3. /\ running_'[o] \in Seq(Id)
      /\ Elems(running_'[o]) = Elems(running_[o]) \ {t}
      /\ NoDuplicates(running_'[o])
      /\ running_[o] # << >> /\ t # Head(running_[o]) =>
           running_'[o] # << >> /\ Head(running_'[o]) = Head(running_[o])
      /\ running_[o] = << >> => running_'[o] = << >>
  <2>1. running_[o] \in Seq(Id) /\ running_'[o] = Erase(running_[o], t)
    BY <1>1 DEF QueueInv, QueueTypes
  <2>2. NoDuplicates(running_[o])
    BY <1>1 DEF QueueInv, QueuesExact
  <2>3. Erase(<< >>, t) = << >>
    BY DEF Erase, Elems
  <2> QED BY <2>1, <2>2, <2>3, EraseElems
<1>4. \A m \in Level : m # o => running_'[m] = running_[m]
  BY <1>1 DEF QueueInv, QueueTypes
<1>5. QueueTypes'
  <2>1. \A m \in Level : running_'[m] \in Seq(Id)
    BY <1>3, <1>4 DEF QueueInv, QueueTypes
  <2> QED BY <1>1, <2>1 DEF QueueInv, QueueTypes
<1>6. QueuesExact'
  <2>1. ASSUME NEW m \in Level
        PROVE  /\ NoDuplicates(running_'[m])
               /\ Elems(running_'[m]) = {u \in tasks_' : Running'[u] /\ level_'[u] = m}
    <3>1. /\ Elems(running_[m]) = {u \in tasks_ : Running[u] /\ level_[u] = m}
          /\ NoDuplicates(running_[m])
      BY DEF QueueInv, QueuesExact
    <3>2. tasks_' = tasks_ /\ level_' = level_
      BY <1>1
    <3>3. ~Running'[t] /\ \A u \in tasks_ : u # t => Running'[u] = Running[u]
      BY <1>1 DEF QueueInv, QueueTypes
    <3>4. Elems(running_'[m]) = Elems(running_[m]) \ {t} /\ NoDuplicates(running_'[m])
      BY <1>2, <1>3, <1>4, <3>1
    <3> QED BY <3>1, <3>2, <3>3, <3>4
  <2>2. \A u \in Id \ tasks_' : ~Running'[u]
    BY <1>1 DEF QueueInv, QueuesExact, QueueTypes
  <2> QED BY <2>1, <2>2 DEF QueuesExact
<1>7. CpuIsCurrent'
  BY <1>1, <1>3, <1>4 DEF QueueInv, CpuIsCurrent, CurrentTask, QueueTypes
<1>8. HigherLevelNoticed'
  BY <1>1, <1>3, <1>4 DEF QueueInv, HigherLevelNoticed
<1>9. IdleReady'
  BY <1>1 DEF QueueInv, QueueTypes, IdleReady
<1> QED BY <1>5, <1>6, <1>7, <1>8, <1>9 DEF QueueInv

\* Finish keeps the run queues correct, provided the waiter it wakes is live.
LEMMA FinishStep ==
  ASSUME QueueInv, NEW code, Finish(code),
         WakesWaiter(cpu) => finish_waiter_[cpu] \in tasks_ \ {cpu}
  PROVE  QueueInv'
<1> DEFINE q == RotatedQueues(TRUE)
           n == RotatedLevel(TRUE)
           w == finish_waiter_[cpu]
           wakes == WakesWaiter(cpu)
<1>1. /\ q \in [Level -> Seq(Id)]
      /\ \A l \in Level : /\ NoDuplicates(q[l])
                           /\ Elems(q[l]) = Elems(running_[l]) \ {cpu}
      /\ n \in Level /\ q[n] # << >>
      /\ \A l \in Level : l > n => q[l] = << >>
  <2>1. cpu # Idle
    BY DEF Finish, TaskActs
  <2> QED BY <2>1, RotationKeepsQueues
<1>2. /\ tasks_' = tasks_ \ {cpu} /\ cpu \in Id /\ cpu # Idle
      /\ Running' = [t \in Id |-> t # cpu /\ (Running[t] \/ (wakes /\ t = w))]
      /\ running_' = IF wakes THEN [q EXCEPT ![level_[w]] = Append(@, w)] ELSE q
      /\ current_level_' = n
      /\ level_changed_' = (wakes /\ level_[w] > n)
      /\ cpu' = Head(running_'[n]) /\ level_' = level_
  BY DEF Finish, TaskActs, RestoreContext, CurrentTask, QueueInv, QueueTypes
<1>3. wakes => w \in tasks_ /\ w # cpu /\ ~Running[w] /\ level_[w] \in Level /\ w \in Id
  BY DEF WakesWaiter, QueueInv, QueueTypes
<1>4. Running \in [Id -> BOOLEAN] /\ tasks_ \subseteq Id /\ level_ \in [Id -> Level]
  BY DEF QueueInv, QueueTypes
<1>5. \A l \in Level : Elems(running_[l]) = {t \in tasks_ : Running[t] /\ level_[t] = l}
  BY DEF QueueInv, QueuesExact
<1> HIDE DEF q, n, w, wakes
<1>6. ASSUME NEW m \in Level
      PROVE  /\ running_'[m] \in Seq(Id) /\ NoDuplicates(running_'[m])
             /\ Elems(running_'[m]) =
                  (Elems(q[m]) \cup IF wakes /\ level_[w] = m THEN {w} ELSE {})
             /\ q[m] # << >> => running_'[m] # << >> /\ Head(running_'[m]) = Head(q[m])
             /\ ~(wakes /\ level_[w] = m) => running_'[m] = q[m]
  <2>1. CASE wakes /\ level_[w] = m
    <3>1. running_'[m] = Append(q[m], w) /\ q[m] \in Seq(Id) /\ NoDuplicates(q[m])
      BY <1>1, <1>2, <2>1
    <3>2. w \in Id /\ w \notin Elems(q[m])
      BY <1>1, <1>3, <1>5, <2>1
    <3> QED BY <2>1, <3>1, <3>2, AppendElems
  <2>2. CASE ~(wakes /\ level_[w] = m)
    <3>1. running_'[m] = q[m]
      BY <1>1, <1>2, <2>2
    <3> QED BY <1>1, <2>2, <3>1
  <2> QED BY <2>1, <2>2
<1>7. QueueTypes'
  <2>1. running_' \in [Level -> Seq(Id)]
    <3>1. running_' = [l \in Level |-> running_'[l]]
      BY <1>1, <1>2
    <3> QED BY <1>6, <3>1
  <2>2. cpu' \in Id
    <3>1. running_'[n] \in Seq(Id) /\ running_'[n] # << >>
      BY <1>1, <1>6
    <3> QED BY <1>2, <3>1, TailElems
  <2>3. level_changed_' \in BOOLEAN
    BY <1>2
  <2>4. Running' \in [Id -> BOOLEAN]
    <3>1. \A t \in Id : (t # cpu /\ (Running[t] \/ (wakes /\ t = w))) \in BOOLEAN
      OBVIOUS
    <3> QED BY <1>2, <3>1
  <2> QED BY <1>1, <1>2, <1>4, <2>1, <2>2, <2>3, <2>4 DEF QueueTypes
<1>8. QueuesExact'
  <2>1. ASSUME NEW m \in Level
        PROVE  Elems(running_'[m]) = {u \in tasks_' : Running'[u] /\ level_'[u] = m}
    <3>1. \A u \in tasks_ \ {cpu} : Running'[u] <=> (Running[u] \/ (wakes /\ u = w))
      BY <1>2, <1>4
    <3>2. tasks_' = tasks_ \ {cpu} /\ level_' = level_
      BY <1>2
    <3>3. Elems(q[m]) = {u \in tasks_ \ {cpu} : Running[u] /\ level_[u] = m}
      BY <1>1, <1>5
    <3> QED BY <1>3, <1>6, <3>1, <3>2, <3>3
  <2>2. \A u \in Id \ tasks_' : ~Running'[u]
    <3>1. \A u \in Id \ tasks_ : ~Running[u]
      BY DEF QueueInv, QueuesExact
    <3> QED BY <1>2, <1>3, <3>1
  <2> QED BY <1>6, <2>1, <2>2 DEF QueuesExact
<1>9. CpuIsCurrent'
  BY <1>1, <1>2, <1>6 DEF CpuIsCurrent, CurrentTask
<1>10. HigherLevelNoticed'
  BY <1>1, <1>2, <1>6 DEF HigherLevelNoticed
<1>11. IdleReady'
  BY <1>2, <1>4 DEF QueueInv, IdleReady
<1> QED BY <1>7, <1>8, <1>9, <1>10, <1>11 DEF QueueInv

\* The inductive invariant in the parts the step lemmas are about.
LEMMA IInvParts ==
  IInv <=> QueueInv /\ TypeOK /\ WaitInv
<1>1. TypeOK => QueueTypes
  BY TaskAssumption DEF TypeOK, QueueTypes, Id
<1> QED BY <1>1 DEF IInv, SchedInv, QueueInv

\* The executing task is live and ready.
LEMMA CpuLive ==
  ASSUME QueueInv PROVE cpu \in tasks_ /\ cpu \in Id /\ Running[cpu]
<1>1. running_[current_level_] \in Seq(Id) /\ current_level_ \in Level
  BY DEF QueueInv, QueueTypes
<1>2. cpu \in Elems(running_[current_level_])
  BY <1>1, TailElems DEF QueueInv, CpuIsCurrent, CurrentTask
<1> QED BY <1>1, <1>2 DEF QueueInv, QueuesExact, QueueTypes

\* Every step of the task manager keeps the run queues correct.
LEMMA QueueStep ==
  ASSUME IInv, [Next]_vars
  PROVE  QueueInv'
<1>1. QueueInv /\ TypeOK /\ WaitInv
  BY IInvParts
<1>2. ASSUME UNCHANGED <<tasks_, sched, level_, cpu>> PROVE QueueInv'
  BY <1>1, <1>2 DEF QueueInv, QueueTypes, QueuesExact, CpuIsCurrent, CurrentTask,
                    HigherLevelNoticed, IdleReady, sched
<1>3. ASSUME NEW awaited \in BOOLEAN, NewTask(awaited) PROVE QueueInv'
  <2> DEFINE new == latest_id_ + 1
  <2>1. /\ new \in Id \ tasks_ /\ tasks_' = tasks_ \cup {new}
        /\ UNCHANGED <<sched, level_, cpu>>
    BY <1>1, <1>3, TaskAssumption DEF TypeOK, NewTask, Id
  <2> HIDE DEF new
  <2>2. ~Running[new]
    BY <1>1, <2>1 DEF QueueInv, QueuesExact
  <2>3. QueuesExact'
    BY <1>1, <2>1, <2>2 DEF QueueInv, QueueTypes, QueuesExact, sched
  <2> QED BY <1>1, <2>1, <2>3 DEF QueueInv, QueueTypes, CpuIsCurrent, CurrentTask,
                                  HigherLevelNoticed, IdleReady, sched
<1>4. ASSUME NEW t \in Id, NEW level \in WakeLevels \cup {Keep}, Wakeup(t, level)
      PROVE  QueueInv'
  <2>1. level \in Level \cup {Keep}
    BY WakeAssumption
  <2> QED BY <1>1, <1>4, <2>1, AwakenStep DEF Wakeup
<1>5. ASSUME NEW t \in Id, NEW m \in Message, SendMessage(t, m) PROVE QueueInv'
  BY <1>1, <1>5, AwakenStep DEF SendMessage
<1>6. ASSUME ReceiveMessage PROVE QueueInv'
  BY <1>2, <1>6 DEF ReceiveMessage
<1>7. ASSUME SleepForMessage PROVE QueueInv'
  BY <1>1, <1>7, SleepMyselfStep DEF SleepForMessage, TaskActs
<1>8. ASSUME Resume PROVE QueueInv'
  BY <1>2, <1>8 DEF Resume
<1>9. ASSUME NEW t \in Id, SleepOther(t) PROVE QueueInv'
  BY <1>1, <1>9, SleepOtherStep
<1>10. ASSUME WaitFinish PROVE QueueInv'
  <2>1. CASE child[cpu] \in DOMAIN finish_tasks_
    BY <1>2, <1>10, <2>1 DEF WaitFinish
  <2>2. CASE child[cpu] \notin DOMAIN finish_tasks_
    <3>1. cpu # Idle
      BY <1>1, <1>10 DEF WaitFinish, TaskActs, WaitInv, Bookkeeping
    <3> QED BY <1>1, <1>10, <2>2, <3>1, SleepMyselfStep DEF WaitFinish
  <2> QED BY <2>1, <2>2
<1>11. ASSUME NEW code \in ExitCode, Finish(code) PROVE QueueInv'
  <2>1. WakesWaiter(cpu) => finish_waiter_[cpu] \in tasks_ \ {cpu}
    BY <1>1, <1>11 DEF WakesWaiter, WaitInv, WaiterAlive, Finish, TaskActs, InterruptsOn
  <2> QED BY <1>1, <1>11, <2>1, FinishStep
<1>12. ASSUME SwitchTask PROVE QueueInv'
  BY <1>1, <1>12, SwitchTaskStep
<1>13. ASSUME UNCHANGED vars PROVE QueueInv'
  BY <1>2, <1>13 DEF vars, sched
<1> QED
  BY <1>3, <1>4, <1>5, <1>6, <1>7, <1>8, <1>9, <1>10, <1>11, <1>12, <1>13 DEF Next

\* Every step keeps the types.
LEMMA TypeStep ==
  ASSUME TypeOK, WaitInv, [Next]_vars, QueueTypes'
  PROVE  TypeOK'
<1> USE DEF TypeOK, QueueTypes
<1>1. MaxTasks \in Nat /\ MaxTasks >= 2 /\ cpu \in Id
  BY TaskAssumption
<1>3. ASSUME NEW awaited \in BOOLEAN, NewTask(awaited) PROVE TypeOK'
  <2>1. latest_id_ + 1 \in 2 .. MaxTasks /\ latest_id_ + 1 \in Id
    BY <1>1, <1>3 DEF NewTask, Id
  <2>2. tasks_' \subseteq 1 .. latest_id_'
    BY <1>3, <2>1 DEF NewTask
  <2> QED BY <1>3, <2>1, <2>2 DEF NewTask, exits
<1>4. ASSUME NEW t \in Id, NEW level, Wakeup(t, level) PROVE TypeOK'
  BY <1>4 DEF Wakeup, exits
<1>5. ASSUME NEW t \in Id, NEW m \in Message, SendMessage(t, m) PROVE TypeOK'
  <2>1. msgs_' \in [Id -> Seq(Message)]
    BY <1>5 DEF SendMessage
  <2> QED BY <1>5, <2>1 DEF SendMessage, exits
<1>6. ASSUME ReceiveMessage PROVE TypeOK'
  <2>1. msgs_' \in [Id -> Seq(Message)]
    <3>1. msgs_[cpu] \in Seq(Message) /\ msgs_[cpu] # << >>
      BY <1>1, <1>6 DEF ReceiveMessage
    <3>2. Tail(msgs_[cpu]) \in Seq(Message)
      BY <3>1
    <3> QED BY <1>6, <3>2 DEF ReceiveMessage
  <2> QED BY <1>6, <2>1 DEF ReceiveMessage, exits
<1>7. ASSUME SleepForMessage PROVE TypeOK'
  BY <1>1, <1>7 DEF SleepForMessage, SleepMyself, exits
<1>8. ASSUME Resume PROVE TypeOK'
  BY <1>1, <1>8 DEF Resume, exits
<1>9. ASSUME NEW t \in Id, SleepOther(t) PROVE TypeOK'
  BY <1>9 DEF SleepOther, exits
<1>10. ASSUME WaitFinish PROVE TypeOK'
  <2>1. CASE child[cpu] \in DOMAIN finish_tasks_
    <3>1. /\ finish_tasks_' = Drop(finish_tasks_, child[cpu])
          /\ child' = [child EXCEPT ![cpu] = NoTask]
          /\ pc' = [pc EXCEPT ![cpu] = "run"]
          /\ UNCHANGED <<finish_waiter_, tasks_, latest_id_, level_, msgs_>>
      BY <1>10, <2>1 DEF WaitFinish
    <3>2. /\ DOMAIN finish_tasks_' \subseteq Id
          /\ \A id \in DOMAIN finish_tasks_' : finish_tasks_'[id] \in ExitCode
      BY <3>1 DEF Drop
    <3> QED BY <1>1, <3>1, <3>2
  <2>2. CASE child[cpu] \notin DOMAIN finish_tasks_
    <3>1. /\ finish_waiter_' = Put(finish_waiter_, child[cpu], cpu)
          /\ pc' = [pc EXCEPT ![cpu] = "wait"]
          /\ UNCHANGED <<finish_tasks_, child, tasks_, latest_id_, level_, msgs_>>
      BY <1>10, <2>2 DEF WaitFinish, SleepMyself
    <3>2. child[cpu] \in Id
      BY <1>1, <1>10, <2>2 DEF WaitFinish, WaitInv, Bookkeeping
    <3>3. /\ DOMAIN finish_waiter_' \subseteq Id
          /\ \A id \in DOMAIN finish_waiter_' : finish_waiter_'[id] \in Id
      BY <1>1, <3>1, <3>2 DEF Put
    <3> QED BY <1>1, <3>1, <3>3
  <2> QED BY <2>1, <2>2
<1>11. ASSUME NEW code \in ExitCode, Finish(code) PROVE TypeOK'
  <2>1. msgs_' \in [Id -> Seq(Message)] /\ child' \in [Id -> Id \cup {NoTask}]
    BY <1>1, <1>11 DEF Finish
  <2>2. /\ DOMAIN finish_tasks_' \subseteq Id
        /\ \A id \in DOMAIN finish_tasks_' : finish_tasks_'[id] \in ExitCode
    BY <1>1, <1>11 DEF Finish, Recorded, Put
  <2>3. /\ DOMAIN finish_waiter_' \subseteq Id
        /\ \A id \in DOMAIN finish_waiter_' : finish_waiter_'[id] \in Id
    BY <1>1, <1>11 DEF Finish, Drop
  <2> QED BY <1>11, <2>1, <2>2, <2>3 DEF Finish
<1>12. ASSUME SwitchTask PROVE TypeOK'
  BY <1>12 DEF SwitchTask, exits
<1>13. ASSUME UNCHANGED vars PROVE TypeOK'
  BY <1>13 DEF vars
<1> QED
  BY <1>3, <1>4, <1>5, <1>6, <1>7, <1>8, <1>9, <1>10, <1>11, <1>12, <1>13 DEF Next

\* Every step keeps the bookkeeping of WaitFinish and Finish.
LEMMA WaitStep ==
  ASSUME IInv, [Next]_vars
  PROVE  WaitInv'
<1>1. TypeOK /\ QueueInv /\ Bookkeeping /\ WaiterAlive /\ ExitCodeKept
  BY IInvParts DEF WaitInv
<1>2. cpu \in tasks_ /\ cpu \in Id
  BY <1>1, CpuLive
<1>3. /\ tasks_ \subseteq Id /\ latest_id_ \in Nat /\ tasks_ \subseteq 1 .. latest_id_
      /\ child \in [Id -> Id \cup {NoTask}]
      /\ pc \in [Id -> {"run", "slept", "wait"}]
      /\ NoTask \notin Id /\ Idle \in Id
  BY <1>1, TaskAssumption DEF TypeOK, Id, NoTask, Idle
<1>4. ASSUME UNCHANGED <<tasks_, latest_id_, exits, pc, child>> PROVE WaitInv'
  BY <1>1, <1>4 DEF WaitInv, Bookkeeping, WaiterAlive, ExitCodeKept, exits
<1>5. ASSUME NEW awaited \in BOOLEAN, NewTask(awaited) PROVE WaitInv'
  <2> DEFINE new == latest_id_ + 1
  <2>1. /\ tasks_' = tasks_ \cup {new} /\ latest_id_' = new
        /\ child' = IF awaited THEN [child EXCEPT ![cpu] = new] ELSE child
        /\ awaited => child[cpu] = NoTask
        /\ pc' = pc /\ finish_tasks_' = finish_tasks_ /\ finish_waiter_' = finish_waiter_
    BY <1>5 DEF NewTask, exits
  <2>2. /\ new \in Id /\ new # NoTask /\ new \notin 0 .. latest_id_
        /\ 0 .. latest_id_ \subseteq 0 .. new /\ new \in 0 .. new
        /\ 1 .. latest_id_ \subseteq 1 .. new
    BY <1>1, <1>3, <1>5, TaskAssumption DEF TypeOK, NewTask, Id, NoTask
  <2>3. /\ pc[cpu] # "wait"
        /\ \A t \in Id : child'[t] = IF awaited /\ t = cpu THEN new ELSE child[t]
    BY <1>2, <1>3, <1>5, <2>1 DEF NewTask, TaskActs, InterruptsOn
  <2> HIDE DEF new
  <2>4. Bookkeeping'
    <3>1. DOMAIN finish_tasks_' \subseteq (1 .. latest_id_') \ tasks_'
      <4>1. DOMAIN finish_tasks_ \subseteq (1 .. latest_id_) \ tasks_
        BY <1>1 DEF Bookkeeping
      <4>2. 1 .. latest_id_ \subseteq 0 .. latest_id_
        BY <1>3
      <4> QED BY <2>1, <2>2, <4>1, <4>2
    <3>2. \A t \in Id : child'[t] \in 0 .. latest_id_'
      BY <1>1, <2>1, <2>2, <2>3 DEF Bookkeeping
    <3>3. \A t \in Id \ tasks_' : pc'[t] = "run" /\ child'[t] = NoTask
      BY <1>1, <1>2, <2>1, <2>3 DEF Bookkeeping
    <3>4. \A t, u \in Id : child'[t] = child'[u] /\ child'[t] # NoTask => t = u
      BY <1>1, <2>1, <2>2, <2>3 DEF Bookkeeping
    <3>5. /\ \A t \in Id : pc'[t] = "wait" => child'[t] # NoTask
          /\ pc'[Idle] = "run"
      BY <1>1, <2>1, <2>2, <2>3 DEF Bookkeeping
    <3> QED BY <3>1, <3>2, <3>3, <3>4, <3>5 DEF Bookkeeping
  <2>5. WaiterAlive'
    BY <1>1, <1>3, <2>1, <2>2, <2>3 DEF WaiterAlive
  <2>6. ExitCodeKept'
    BY <1>1, <1>3, <2>1, <2>2, <2>3 DEF ExitCodeKept, Bookkeeping
  <2> QED BY <2>4, <2>5, <2>6 DEF WaitInv
<1>6. ASSUME NEW where \in {"run", "slept"}, pc' = [pc EXCEPT ![cpu] = where],
             pc[cpu] # "wait", cpu # Idle \/ where = "run",
             UNCHANGED <<tasks_, latest_id_, exits, child>>
      PROVE  WaitInv'
  <2>1. \A t \in Id : pc'[t] = IF t = cpu THEN where ELSE pc[t]
    BY <1>2, <1>3, <1>6
  <2>2. /\ tasks_' = tasks_ /\ latest_id_' = latest_id_ /\ child' = child
        /\ finish_tasks_' = finish_tasks_ /\ finish_waiter_' = finish_waiter_
    BY <1>6 DEF exits
  <2>3. Bookkeeping'
    BY <1>1, <1>2, <1>3, <1>6, <2>1, <2>2 DEF Bookkeeping
  <2>4. WaiterAlive' /\ ExitCodeKept'
    BY <1>1, <1>2, <1>3, <1>6, <2>1, <2>2 DEF WaiterAlive, ExitCodeKept
  <2> QED BY <2>3, <2>4 DEF WaitInv
<1>7. ASSUME WaitFinish, child[cpu] \in DOMAIN finish_tasks_ PROVE WaitInv'
  <2> DEFINE c == child[cpu]
  <2>1. /\ finish_tasks_' = Drop(finish_tasks_, c)
        /\ child' = [child EXCEPT ![cpu] = NoTask]
        /\ pc' = [pc EXCEPT ![cpu] = "run"]
        /\ finish_waiter_' = finish_waiter_ /\ tasks_' = tasks_ /\ latest_id_' = latest_id_
    BY <1>7 DEF WaitFinish
  <2>2. c \notin tasks_ /\ c # NoTask
    BY <1>1, <1>7 DEF Bookkeeping, NoTask
  <2>3. DOMAIN finish_tasks_' = DOMAIN finish_tasks_ \ {c}
    BY <2>1 DEF Drop
  <2>4. \A t \in Id : /\ child'[t] = IF t = cpu THEN NoTask ELSE child[t]
                      /\ pc'[t] = IF t = cpu THEN "run" ELSE pc[t]
    BY <1>2, <1>3, <2>1
  <2>5. \A t \in Id : t # cpu => child[t] # c
    BY <1>1, <1>2, <2>2 DEF Bookkeeping
  <2>6. Bookkeeping'
    <3>1. NoTask \in 0 .. latest_id_
      BY <1>3 DEF NoTask
    <3> QED BY <1>1, <2>1, <2>3, <2>4, <3>1 DEF Bookkeeping
  <2>7. WaiterAlive'
    BY <1>1, <1>3, <2>1, <2>2, <2>4 DEF WaiterAlive
  <2>8. ExitCodeKept'
    BY <1>1, <1>3, <2>1, <2>3, <2>4, <2>5 DEF ExitCodeKept
  <2> QED BY <2>6, <2>7, <2>8 DEF WaitInv
<1>8. ASSUME WaitFinish, child[cpu] \notin DOMAIN finish_tasks_ PROVE WaitInv'
  <2> DEFINE c == child[cpu]
  <2>1. /\ finish_waiter_' = Put(finish_waiter_, c, cpu)
        /\ pc' = [pc EXCEPT ![cpu] = "wait"]
        /\ finish_tasks_' = finish_tasks_ /\ child' = child
        /\ tasks_' = tasks_ /\ latest_id_' = latest_id_
    BY <1>8 DEF WaitFinish, SleepMyself
  <2>2. c # NoTask /\ cpu # Idle
    BY <1>1, <1>2, <1>8 DEF WaitFinish, TaskActs, Bookkeeping
  <2>3. c \in tasks_
    BY <1>1, <1>2, <1>8, <2>2 DEF ExitCodeKept
  <2>4. /\ DOMAIN finish_waiter_' = DOMAIN finish_waiter_ \cup {c}
        /\ \A id \in DOMAIN finish_waiter_' :
             finish_waiter_'[id] = IF id = c THEN cpu ELSE finish_waiter_[id]
    BY <2>1 DEF Put
  <2>5. \A t \in Id : pc'[t] = IF t = cpu THEN "wait" ELSE pc[t]
    BY <1>2, <1>3, <2>1
  <2>6. Bookkeeping'
    BY <1>1, <1>2, <2>1, <2>2, <2>5, <1>3 DEF Bookkeeping
  <2>7. WaiterAlive'
    BY <1>1, <1>2, <1>3, <2>1, <2>3, <2>4, <2>5 DEF WaiterAlive
  <2>8. ExitCodeKept'
    BY <1>1, <2>1 DEF ExitCodeKept
  <2> QED BY <2>6, <2>7, <2>8 DEF WaitInv
<1>9. ASSUME NEW code \in ExitCode, Finish(code) PROVE WaitInv'
  <2>1. /\ tasks_' = tasks_ \ {cpu} /\ child' = [child EXCEPT ![cpu] = NoTask]
        /\ finish_tasks_' = Put(finish_tasks_, cpu, code)
        /\ finish_waiter_' = Drop(finish_waiter_, cpu)
        /\ latest_id_' = latest_id_ /\ pc' = pc /\ pc[cpu] = "run"
    BY <1>9 DEF Finish, Recorded, TaskActs, InterruptsOn
  <2>2. \A t \in Id : child'[t] = IF t = cpu THEN NoTask ELSE child[t]
    BY <1>2, <1>3, <2>1
  <2>3. DOMAIN finish_tasks_' = DOMAIN finish_tasks_ \cup {cpu}
    BY <2>1 DEF Put
  <2>4. /\ DOMAIN finish_waiter_' = DOMAIN finish_waiter_ \ {cpu}
        /\ \A id \in DOMAIN finish_waiter_' : finish_waiter_'[id] = finish_waiter_[id]
    BY <2>1 DEF Drop
  <2>5. Bookkeeping'
    <3>1. NoTask \in 0 .. latest_id_
      BY <1>3 DEF NoTask
    <3> QED BY <1>1, <1>2, <1>3, <2>1, <2>2, <2>3, <3>1 DEF Bookkeeping
  <2>6. WaiterAlive'
    BY <1>1, <1>2, <1>3, <2>1, <2>2, <2>4 DEF WaiterAlive
  <2>7. ExitCodeKept'
    BY <1>1, <1>2, <1>3, <2>1, <2>2, <2>3 DEF ExitCodeKept
  <2> QED BY <2>5, <2>6, <2>7 DEF WaitInv
<1>10. ASSUME NEW t \in Id, NEW level, Wakeup(t, level) PROVE WaitInv'
  BY <1>4, <1>10 DEF Wakeup
<1>11. ASSUME NEW t \in Id, NEW m, SendMessage(t, m) PROVE WaitInv'
  BY <1>4, <1>11 DEF SendMessage
<1>12. ASSUME ReceiveMessage PROVE WaitInv'
  BY <1>4, <1>12 DEF ReceiveMessage
<1>13. ASSUME SleepForMessage PROVE WaitInv'
  BY <1>6, <1>13 DEF SleepForMessage, SleepMyself, TaskActs, InterruptsOn
<1>14. ASSUME Resume PROVE WaitInv'
  BY <1>6, <1>14 DEF Resume
<1>15. ASSUME NEW t \in Id, SleepOther(t) PROVE WaitInv'
  BY <1>4, <1>15 DEF SleepOther
<1>16. ASSUME SwitchTask PROVE WaitInv'
  BY <1>4, <1>16 DEF SwitchTask
<1>17. ASSUME UNCHANGED vars PROVE WaitInv'
  BY <1>4, <1>17 DEF vars, exits
<1> QED
  BY <1>5, <1>7, <1>8, <1>9, <1>10, <1>11, <1>12, <1>13, <1>14, <1>15, <1>16, <1>17 DEF Next

\* The constructor of TaskManager establishes the inductive invariant.
LEMMA InitIInv == Init => IInv
<1> SUFFICES ASSUME Init PROVE IInv
  OBVIOUS
<1> USE DEF Init
<1>1. /\ 0 \in Level /\ kMaxLevel \in Level /\ kMaxLevel # 0 /\ kDefaultLevel \in Level
      /\ Main \in Id /\ Idle \in Id /\ Main # Idle /\ NoTask \notin Id
  BY LevelAssumption, TaskAssumption DEF Level, Id, Main, Idle, NoTask
<1>2. TypeOK
  <2>1. /\ latest_id_ \in 2 .. MaxTasks /\ tasks_ \subseteq 1 .. latest_id_
    BY TaskAssumption DEF Main, Idle
  <2>2. level_ \in [Id -> Level] /\ running_ \in [Level -> Seq(Id)]
    BY <1>1
  <2>3. DOMAIN finish_tasks_ = {} /\ DOMAIN finish_waiter_ = {}
    OBVIOUS
  <2>4. Running \in [Id -> BOOLEAN] /\ level_changed_ \in BOOLEAN
    <3>1. \A t \in Id : (t \in {Main, Idle}) \in BOOLEAN
      OBVIOUS
    <3> QED BY <3>1, Zenon
  <2>5. msgs_ \in [Id -> Seq(Message)] /\ pc \in [Id -> {"run", "slept", "wait"}]
    OBVIOUS
  <2>6. child \in [Id -> Id \cup {NoTask}] /\ cpu \in Id /\ current_level_ \in Level
    BY <1>1
  <2> QED BY <2>1, <2>2, <2>3, <2>4, <2>5, <2>6, Zenon DEF TypeOK
<1>3. QueuesExact
  <2>1. ASSUME NEW l \in Level
        PROVE  /\ NoDuplicates(running_[l])
               /\ Elems(running_[l]) = {t \in tasks_ : Running[t] /\ level_[t] = l}
    <3>1. Elems(<< >>) = {} /\ Elems(<<Main>>) = {Main} /\ Elems(<<Idle>>) = {Idle}
      BY ShortElems
    <3>2. NoDuplicates(<< >>) /\ NoDuplicates(<<Main>>) /\ NoDuplicates(<<Idle>>)
      BY ShortElems
    <3>3. Running[Main] /\ Running[Idle] /\ level_[Main] = kMaxLevel /\ level_[Idle] = 0
      BY <1>1
    <3> QED BY <1>1, <3>1, <3>2, <3>3
  <2>2. \A t \in Id \ tasks_ : ~Running[t]
    OBVIOUS
  <2> QED BY <2>1, <2>2 DEF QueuesExact
<1>4. CpuIsCurrent
  BY <1>1 DEF CpuIsCurrent, CurrentTask
<1>5. HigherLevelNoticed
  BY <1>1, LevelAssumption DEF HigherLevelNoticed, Level
<1>6. IdleReady
  BY <1>1 DEF IdleReady
<1>7. WaitInv
  <2>1. DOMAIN finish_tasks_ = {} /\ DOMAIN finish_waiter_ = {}
    OBVIOUS
  <2>2. Bookkeeping
    BY <1>1, <2>1 DEF Bookkeeping, NoTask, Idle
  <2>3. WaiterAlive /\ ExitCodeKept
    BY <1>1, <2>1 DEF WaiterAlive, ExitCodeKept
  <2> QED BY <2>2, <2>3 DEF WaitInv
<1> QED BY <1>2, <1>3, <1>4, <1>5, <1>6, <1>7 DEF IInv, SchedInv

\* Every step keeps the inductive invariant.
LEMMA NextIInv == IInv /\ [Next]_vars => IInv'
<1> SUFFICES ASSUME IInv, [Next]_vars PROVE IInv'
  OBVIOUS
<1>1. QueueInv'
  BY QueueStep
<1>2. TypeOK'
  BY <1>1, IInvParts, TypeStep DEF QueueInv
<1>3. WaitInv'
  BY WaitStep
<1> QED BY <1>1, <1>2, <1>3 DEF IInv, SchedInv, QueueInv

\* The run queues, the executing task and the bookkeeping of finished tasks
\* are consistent after every operation of TaskManager, for any number of tasks
\* and levels.
THEOREM InductiveInvariant == Spec => []IInv
BY InitIInv, NextIInv, PTL DEF Spec

\* Every variable keeps its type and its bound.
THEOREM TypeCorrect == Spec => []TypeOK
<1>1. IInv => TypeOK
  BY DEF IInv, SchedInv
<1> QED BY <1>1, InductiveInvariant, PTL

\* A ready task is in the queue of its level exactly once, CurrentTask() is
\* the task that executes, and a rotation that skips the scan overlooks nobody.
THEOREM RunQueuesCorrect == Spec => []RunQueuesAgree
<1>1. IInv => RunQueuesAgree
  BY DEF IInv, SchedInv, RunQueuesAgree
<1> QED BY <1>1, InductiveInvariant, PTL

\* finish_waiter_ never holds a dangling pointer, and the exit code of an
\* awaited task is kept until WaitFinish takes it.
THEOREM WaitersCorrect == Spec => [](WaiterAlive /\ ExitCodeKept)
<1>1. IInv => WaiterAlive /\ ExitCodeKept
  BY DEF IInv, WaitInv
<1> QED BY <1>1, InductiveInvariant, PTL

\* The task at the front after a rotation is ready and of the highest level.
LEMMA RotationPicksTop ==
  ASSUME QueueInv, NEW b \in BOOLEAN, b => cpu # Idle
  PROVE  LET next == Head(RotatedQueues(b)[RotatedLevel(b)])
             left == IF b THEN Ready \ {cpu} ELSE Ready
         IN next \in left /\ \A u \in left : level_[u] <= level_[next]
<1> DEFINE q == RotatedQueues(b)
           n == RotatedLevel(b)
           left == IF b THEN Ready \ {cpu} ELSE Ready
           next == Head(q[n])
<1>1. /\ q \in [Level -> Seq(Id)]
      /\ \A l \in Level : Elems(q[l]) =
           IF b THEN Elems(running_[l]) \ {cpu} ELSE Elems(running_[l])
      /\ n \in Level /\ q[n] # << >>
      /\ \A l \in Level : l > n => q[l] = << >>
  BY RotationKeepsQueues
<1>2. /\ \A l \in Level : Elems(running_[l]) = {t \in tasks_ : Running[t] /\ level_[t] = l}
      /\ \A u \in Ready : u \in tasks_ /\ level_[u] \in Level
      /\ tasks_ \subseteq Id
  BY DEF QueueInv, QueuesExact, QueueTypes, Ready
<1> HIDE DEF q, n
<1>3. \A l \in Level : Elems(q[l]) = {t \in left : level_[t] = l}
  BY <1>1, <1>2 DEF Ready
<1>4. next \in Elems(q[n])
  <2>1. q[n] \in Seq(Id)
    BY <1>1
  <2> QED BY <1>1, <2>1, TailElems
<1>5. ASSUME NEW u \in left PROVE level_[u] <= n
  <2>1. level_[u] \in Level /\ u \in Elems(q[level_[u]])
    BY <1>2, <1>3
  <2>2. q[level_[u]] # << >>
    BY <2>1, ShortElems
  <2>3. ~(level_[u] > n)
    BY <1>1, <2>1, <2>2
  <2> QED BY <1>1, <2>1, <2>3, LevelAssumption DEF Level
<1>6. next \in left /\ level_[next] = n
  BY <1>1, <1>3, <1>4
<1> QED BY <1>5, <1>6 DEF q, n

\* The waiter that Finish queues does not change whom it switches to.
LEMMA FinishPicksTop ==
  ASSUME IInv, NEW code, Finish(code)
  PROVE  /\ cpu # Idle
         /\ cpu' = Head(RotatedQueues(TRUE)[RotatedLevel(TRUE)])
<1> DEFINE q == RotatedQueues(TRUE)
           n == RotatedLevel(TRUE)
           w == finish_waiter_[cpu]
<1>1. cpu # Idle
  BY DEF Finish, TaskActs
<1>2. /\ q \in [Level -> Seq(Id)] /\ n \in Level /\ q[n] # << >>
  BY <1>1, IInvParts, RotationKeepsQueues
<1>3. /\ cpu' = Head(running_'[n])
      /\ running_' = IF WakesWaiter(cpu) THEN [q EXCEPT ![level_[w]] = Append(@, w)] ELSE q
  BY DEF Finish, RestoreContext, CurrentTask
<1>4. WakesWaiter(cpu) => w \in Id
  BY IInvParts DEF WakesWaiter, TypeOK
<1> HIDE DEF q, n, w
<1>5. Head(running_'[n]) = Head(q[n])
  <2>1. CASE WakesWaiter(cpu) /\ level_[w] = n
    <3>1. running_'[n] = Append(q[n], w) /\ q[n] \in Seq(Id)
      BY <1>2, <1>3, <2>1
    <3> QED BY <1>2, <1>4, <2>1, <3>1, AppendElems
  <2>2. CASE ~(WakesWaiter(cpu) /\ level_[w] = n)
    BY <1>2, <1>3, <2>2
  <2> QED BY <2>1, <2>2
<1> QED BY <1>1, <1>3, <1>5 DEF q, n

\* After Sleep of the executing task the others are ready as before.
LEMMA ReadyAfterSleep ==
  ASSUME QueueInv, NEW where, SleepMyself(where)
  PROVE  /\ Ready' = Ready \ {cpu}
         /\ cpu' = Head(RotatedQueues(TRUE)[RotatedLevel(TRUE)])
  BY DEF QueueInv, QueueTypes, SleepMyself, Ready, RotateCurrentRunQueue,
         RestoreContext, CurrentTask

\* Sleep and the task timer always switch to a ready task of the highest level.
THEOREM DispatchesHighestHolds == Spec => DispatchesHighest
<1> DEFINE A == (cpu' # cpu /\ cpu \in tasks_') => (cpu' \in Ready' /\ NobodyAbove(cpu)')
<1>1. ASSUME IInv, [Next]_vars PROVE [A]_vars
  <2>1. QueueInv
    BY <1>1, IInvParts
  <2>2. CASE UNCHANGED cpu
    BY <2>2
  <2>3. ASSUME NEW where, SleepMyself(where), cpu # Idle, UNCHANGED level_ PROVE A
    BY <2>1, <2>3, ReadyAfterSleep, RotationPicksTop DEF NobodyAbove
  <2>4. ASSUME NEW code \in ExitCode, Finish(code) PROVE A
    BY <2>4 DEF Finish
  <2>5. ASSUME SwitchTask PROVE A
    <3>1. cpu' = Head(RotatedQueues(FALSE)[RotatedLevel(FALSE)])
      BY <2>1, <2>5 DEF QueueInv, CpuIsCurrent, SwitchTask, RotateCurrentRunQueue, CurrentTask
    <3>2. Ready' = Ready /\ level_' = level_
      BY <2>5 DEF SwitchTask, Ready
    <3> QED BY <2>1, <3>1, <3>2, RotationPicksTop DEF NobodyAbove
  <2>6. ASSUME SleepForMessage PROVE A
    BY <2>3, <2>6 DEF SleepForMessage, TaskActs
  <2>7. ASSUME WaitFinish PROVE A
    <3>1. cpu # Idle
      BY <1>1, <2>7, IInvParts DEF WaitFinish, TaskActs, WaitInv, Bookkeeping
    <3> QED BY <2>2, <2>3, <2>7, <3>1 DEF WaitFinish
  <2> QED
    BY <1>1, <2>2, <2>4, <2>5, <2>6, <2>7
    DEF Next, NewTask, Wakeup, SendMessage, ReceiveMessage, Resume, SleepOther, vars
<1> QED BY <1>1, InductiveInvariant, PTL DEF Spec, DispatchesHighest

\* The two properties with what makes them inductive: nobody writes to a task
\* that is not live.
NoLoss ==
  NoLostFinish /\ NoLostMessage /\ \A t \in Id \ tasks_ : msgs_[t] = << >>

\* No step loses the wakeup of a waiting task or of an event loop.
LEMMA NoLossStep ==
  ASSUME ~ForeignSleep, IInv, NoLoss, [Next]_vars
  PROVE  NoLoss'
<1> USE DEF NoLoss
<1>1. QueueInv /\ TypeOK /\ Bookkeeping /\ WaiterAlive /\ ExitCodeKept
  BY IInvParts DEF WaitInv
<1>2. cpu \in tasks_ /\ cpu \in Id /\ Running[cpu]
  BY <1>1, CpuLive
<1>3. /\ tasks_ \subseteq Id /\ Running \in [Id -> BOOLEAN]
      /\ pc \in [Id -> {"run", "slept", "wait"}] /\ msgs_ \in [Id -> Seq(Message)]
      /\ child \in [Id -> Id \cup {NoTask}]
  BY <1>1 DEF TypeOK, QueueInv, QueueTypes
\* Steps that put nobody to sleep, register nobody and touch no other task's
\* messages, except those of a task that is ready afterwards.
<1>4. ASSUME UNCHANGED <<tasks_, finish_waiter_, child>>,
             \A t \in tasks_ : Running[t] => Running'[t],
             \A t \in tasks_ : t = cpu \/ pc'[t] = pc[t],
             \A t \in tasks_ : Running'[t] \/ msgs_'[t] = msgs_[t],
             \A t \in Id \ tasks_ : msgs_'[t] = msgs_[t]
      PROVE  NoLoss'
  BY <1>2, <1>4 DEF NoLostFinish, NoLostMessage
<1>5. ASSUME NEW awaited \in BOOLEAN, NewTask(awaited) PROVE NoLoss'
  <2> DEFINE new == latest_id_ + 1
  <2>1. /\ new \in Id \ tasks_ /\ tasks_' = tasks_ \cup {new}
        /\ Running' = Running /\ pc' = pc /\ msgs_' = msgs_
        /\ finish_waiter_' = finish_waiter_
        /\ \A t \in tasks_ : t # cpu => child'[t] = child[t]
    BY <1>1, <1>5, TaskAssumption DEF TypeOK, NewTask, Id, sched, exits
  <2> HIDE DEF new
  <2>2. pc[new] = "run" /\ msgs_[new] = << >>
    BY <1>1, <2>1 DEF Bookkeeping
  <2> QED BY <1>2, <2>1, <2>2 DEF NoLostFinish, NoLostMessage
<1>6. ASSUME NEW t \in Id, NEW level \in WakeLevels \cup {Keep}, Awaken(t, level)
      PROVE  /\ \A u \in tasks_ : Running[u] => Running'[u]
             /\ Running'[t]
  BY <1>3, <1>6 DEF Awaken
<1>7. ASSUME NEW t \in Id, NEW level \in WakeLevels \cup {Keep}, Wakeup(t, level)
      PROVE  NoLoss'
  BY <1>4, <1>6, <1>7 DEF Wakeup, exits
<1>8. ASSUME NEW t \in Id, NEW m \in Message, SendMessage(t, m) PROVE NoLoss'
  <2>1. \A u \in Id : u # t => msgs_'[u] = msgs_[u]
    BY <1>3, <1>8 DEF SendMessage
  <2>2. t \in tasks_
    BY <1>8 DEF SendMessage
  <2>3. (\A u \in tasks_ : Running[u] => Running'[u]) /\ Running'[t]
    BY <1>6, <1>8 DEF SendMessage
  <2>4. UNCHANGED <<tasks_, finish_waiter_, child, pc>>
    BY <1>8 DEF SendMessage, exits
  <2> QED BY <1>3, <1>4, <2>1, <2>2, <2>3, <2>4
<1>9. ASSUME ReceiveMessage PROVE NoLoss'
  BY <1>2, <1>3, <1>4, <1>9 DEF ReceiveMessage, sched, exits
<1>10. ASSUME NEW where, SleepMyself(where)
       PROVE  /\ \A t \in Id : Running'[t] = (t # cpu /\ Running[t])
              /\ \A t \in Id : t # cpu => pc'[t] = pc[t]
              /\ pc'[cpu] = where
  BY <1>2, <1>3, <1>10 DEF SleepMyself
<1>11. ASSUME SleepForMessage PROVE NoLoss'
  <2>1. /\ UNCHANGED <<tasks_, finish_waiter_, child, msgs_>> /\ msgs_[cpu] = << >>
        /\ SleepMyself("slept")
    BY <1>11 DEF SleepForMessage, exits
  <2>2. /\ \A t \in Id : Running'[t] = (t # cpu /\ Running[t])
        /\ \A t \in Id : t # cpu => pc'[t] = pc[t]
        /\ pc'[cpu] = "slept"
    BY <1>10, <2>1
  <2>3. NoLostFinish'
    BY <1>2, <1>3, <2>1, <2>2 DEF NoLostFinish
  <2>4. NoLostMessage'
    BY <1>2, <1>3, <2>1, <2>2 DEF NoLostMessage
  <2> QED BY <2>1, <2>3, <2>4
<1>12. ASSUME Resume PROVE NoLoss'
  <2>1. /\ UNCHANGED <<tasks_, finish_waiter_, child, msgs_, Running>>
        /\ \A t \in Id : t # cpu => pc'[t] = pc[t]
    BY <1>3, <1>12 DEF Resume, exits, sched
  <2> QED BY <1>3, <1>4, <2>1
<1>13. ASSUME NEW t \in Id, SleepOther(t) PROVE NoLoss'
  BY <1>13 DEF SleepOther
<1>14. ASSUME WaitFinish, child[cpu] \in DOMAIN finish_tasks_ PROVE NoLoss'
  <2>1. /\ UNCHANGED <<tasks_, finish_waiter_, msgs_, Running>>
        /\ \A t \in Id : t # cpu => pc'[t] = pc[t] /\ child'[t] = child[t]
    BY <1>3, <1>14 DEF WaitFinish, sched
  <2> QED BY <1>2, <1>3, <2>1 DEF NoLostFinish, NoLostMessage
<1>15. ASSUME WaitFinish, child[cpu] \notin DOMAIN finish_tasks_ PROVE NoLoss'
  <2> DEFINE c == child[cpu]
  <2>1. /\ UNCHANGED <<tasks_, child, msgs_>> /\ SleepMyself("wait")
        /\ finish_waiter_' = Put(finish_waiter_, c, cpu)
    BY <1>15 DEF WaitFinish
  <2>2. c # NoTask
    BY <1>1, <1>2, <1>15 DEF WaitFinish, TaskActs, Bookkeeping
  <2>3. c \in tasks_ /\ \A t \in Id : t # cpu => child[t] # c
    BY <1>1, <1>2, <1>15, <2>2 DEF ExitCodeKept, Bookkeeping
  <2>4. /\ DOMAIN finish_waiter_' = DOMAIN finish_waiter_ \cup {c}
        /\ \A id \in DOMAIN finish_waiter_' :
             finish_waiter_'[id] = IF id = c THEN cpu ELSE finish_waiter_[id]
    BY <2>1 DEF Put
  <2>5. /\ \A t \in Id : Running'[t] = (t # cpu /\ Running[t])
        /\ \A t \in Id : t # cpu => pc'[t] = pc[t]
        /\ pc'[cpu] = "wait"
    BY <1>10, <2>1
  <2>6. NoLostFinish'
    BY <1>2, <1>3, <2>1, <2>3, <2>4, <2>5 DEF NoLostFinish
  <2>7. NoLostMessage'
    BY <1>2, <1>3, <2>1, <2>5 DEF NoLostMessage
  <2> QED BY <2>1, <2>6, <2>7
<1>16. ASSUME NEW code \in ExitCode, Finish(code) PROVE NoLoss'
  <2>1. /\ tasks_' = tasks_ \ {cpu} /\ pc' = pc
        /\ \A t \in Id : t # cpu => msgs_'[t] = msgs_[t] /\ child'[t] = child[t]
        /\ msgs_'[cpu] = << >>
        /\ finish_waiter_' = Drop(finish_waiter_, cpu)
        /\ \A t \in Id \ {cpu} :
             Running'[t] <=> (Running[t] \/ (WakesWaiter(cpu) /\ t = finish_waiter_[cpu]))
    BY <1>2, <1>3, <1>16 DEF Finish
  <2>2. /\ DOMAIN finish_waiter_' = DOMAIN finish_waiter_ \ {cpu}
        /\ \A id \in DOMAIN finish_waiter_' : finish_waiter_'[id] = finish_waiter_[id]
    BY <2>1 DEF Drop
  <2>3. NoLostFinish'
    BY <1>2, <1>3, <2>1, <2>2 DEF NoLostFinish, WakesWaiter
  <2>4. NoLostMessage'
    BY <1>3, <2>1 DEF NoLostMessage
  <2> QED BY <1>2, <2>1, <2>3, <2>4
<1>17. ASSUME SwitchTask PROVE NoLoss'
  BY <1>4, <1>17 DEF SwitchTask, exits
<1>18. ASSUME UNCHANGED vars PROVE NoLoss'
  BY <1>4, <1>18 DEF vars
<1> QED
  BY <1>5, <1>7, <1>8, <1>9, <1>11, <1>12, <1>13, <1>14, <1>15, <1>16, <1>17, <1>18 DEF Next

\* When tasks only put themselves to sleep, as everywhere in this kernel, a task
\* sleeping in WaitFinish is registered with a live task, and a task with a
\* message is ready or in WaitFinish.
THEOREM NothingLost ==
  ASSUME ~ForeignSleep PROVE Spec => [](NoLostFinish /\ NoLostMessage)
<1>1. Init => NoLoss
  <2> SUFFICES ASSUME Init PROVE NoLoss
    OBVIOUS
  <2>1. /\ tasks_ = {Main, Idle} /\ tasks_ \subseteq Id
        /\ \A t \in Id : pc[t] = "run" /\ msgs_[t] = << >>
    BY TaskAssumption DEF Init, Id, Main, Idle
  <2> QED BY <2>1 DEF NoLoss, NoLostFinish, NoLostMessage
<1>2. IInv /\ NoLoss /\ [Next]_vars => NoLoss'
  BY NoLossStep
<1>3. NoLoss => NoLostFinish /\ NoLostMessage
  BY DEF NoLoss
<1> QED BY <1>1, <1>2, <1>3, InductiveInvariant, PTL DEF Spec

\* As long as tasks put only themselves to sleep, every waiter is alive, is woken
\* by the finish of its subtask and finds the exit code.
THEOREM FinishesReachWaitersHolds ==
  ASSUME ~ForeignSleep PROVE Spec => []FinishesReachWaiters
<1>1. (WaiterAlive /\ ExitCodeKept) /\ (NoLostFinish /\ NoLostMessage) => FinishesReachWaiters
  BY DEF FinishesReachWaiters
<1> QED BY <1>1, WaitersCorrect, NothingLost, PTL

\* The constructor's state is an initial state of the priority scheduler.
LEMMA InitRefines == Init => Scheduler!Init
<1> SUFFICES ASSUME Init PROVE Scheduler!Init
  OBVIOUS
<1>1. Main \in Id /\ Idle \in Id /\ Main # Idle /\ kMaxLevel \in Nat
  BY LevelAssumption, TaskAssumption DEF Id, Main, Idle
<1>2. Ready = {Main, Idle}
  BY <1>1 DEF Init, Ready
<1>3. level_ \in [Id -> Level]
  BY InitIInv DEF IInv, SchedInv, TypeOK
<1>4. level_[Main] = kMaxLevel /\ level_[Idle] = 0
  BY <1>1 DEF Init
<1>5. cpu = Main
  BY DEF Init
<1> QED BY <1>1, <1>2, <1>3, <1>4, <1>5 DEF Scheduler!Init, Scheduler!Top

\* Every step of the task manager is a step of the priority scheduler or
\* leaves it alone.
LEMMA StepRefines ==
  ASSUME IInv, [Next]_vars
  PROVE  [Scheduler!Next]_(Scheduler!vars)
<1>1. QueueInv /\ TypeOK /\ WaitInv
  BY IInvParts
<1>2. /\ cpu \in Id /\ Running \in [Id -> BOOLEAN] /\ level_ \in [Id -> Level]
      /\ cpu \in Ready /\ Ready \subseteq Id
  BY <1>1, CpuLive DEF TypeOK, Ready
<1>3. CASE UNCHANGED <<Running, level_, cpu>>
  BY <1>3 DEF Scheduler!vars, Ready
<1>4. ASSUME NEW t \in Id \ {Idle}, NEW level \in Level \cup {Keep}, Awaken(t, level),
             UNCHANGED cpu
      PROVE  [Scheduler!Next]_(Scheduler!vars)
  <2>1. CASE Running[t] /\ UNCHANGED level_
    BY <1>3, <1>4, <2>1 DEF Awaken
  <2>2. CASE Running[t] /\ ~UNCHANGED level_
    <3>1. /\ level \in Level /\ level_' = [level_ EXCEPT ![t] = level]
          /\ Running' = Running /\ cpu' = cpu
      BY <1>4, <2>2 DEF Awaken, ChangeLevelRunning
    <3>2. Scheduler!Reprioritize(t, level)
      BY <1>4, <2>2, <3>1 DEF Scheduler!Reprioritize, Ready
    <3> QED BY <3>1, <3>2 DEF Scheduler!Next
  <2>3. CASE ~Running[t]
    <3> DEFINE l == IF level = Keep THEN level_[t] ELSE level
    <3>1. /\ l \in Level /\ level_' = [level_ EXCEPT ![t] = l]
          /\ Running' = [Running EXCEPT ![t] = TRUE] /\ cpu' = cpu
      BY <1>2, <1>4, <2>3 DEF Awaken
    <3> HIDE DEF l
    <3>2. Ready' = Ready \cup {t} /\ t \notin Ready
      BY <1>2, <2>3, <3>1 DEF Ready
    <3>3. Scheduler!Wake(t, l)
      BY <3>1, <3>2 DEF Scheduler!Wake
    <3> QED BY <3>1, <3>3 DEF Scheduler!Next
  <2> QED BY <2>1, <2>2, <2>3
<1>5. ASSUME NEW where, SleepMyself(where), cpu # Idle, UNCHANGED level_
      PROVE  [Scheduler!Next]_(Scheduler!vars)
  <2>1. /\ Ready' = (Ready \ {cpu}) \cup {}
        /\ cpu' \in Ready \ {cpu}
        /\ \A u \in Ready \ {cpu} : level_[u] <= level_[cpu']
    BY <1>1, <1>5, ReadyAfterSleep, RotationPicksTop
  <2>2. Scheduler!Block({})
    BY <1>5, <2>1 DEF Scheduler!Block, Scheduler!Top
  <2> QED BY <2>2 DEF Scheduler!Next
<1>6. ASSUME NEW awaited \in BOOLEAN, NewTask(awaited)
      PROVE  [Scheduler!Next]_(Scheduler!vars)
  BY <1>3, <1>6 DEF NewTask, sched
<1>7. ASSUME NEW t \in Id, NEW level \in WakeLevels \cup {Keep}, Wakeup(t, level)
      PROVE  [Scheduler!Next]_(Scheduler!vars)
  BY <1>4, <1>7, WakeAssumption DEF Wakeup
<1>8. ASSUME NEW t \in Id, NEW m \in Message, SendMessage(t, m)
      PROVE  [Scheduler!Next]_(Scheduler!vars)
  BY <1>4, <1>8 DEF SendMessage
<1>9. ASSUME ReceiveMessage \/ Resume PROVE [Scheduler!Next]_(Scheduler!vars)
  BY <1>3, <1>9 DEF ReceiveMessage, Resume, sched
<1>10. ASSUME SleepForMessage PROVE [Scheduler!Next]_(Scheduler!vars)
  BY <1>5, <1>10 DEF SleepForMessage, TaskActs
<1>11. ASSUME NEW t \in Id, SleepOther(t) PROVE [Scheduler!Next]_(Scheduler!vars)
  <2>1. /\ t \in Ready \ {cpu, Idle} /\ Ready' = Ready \ {t}
        /\ level_' = level_ /\ cpu' = cpu
    BY <1>2, <1>11 DEF SleepOther, Ready
  <2>2. Scheduler!Suspend(t)
    BY <2>1 DEF Scheduler!Suspend
  <2> QED BY <2>2 DEF Scheduler!Next
<1>12. ASSUME WaitFinish PROVE [Scheduler!Next]_(Scheduler!vars)
  <2>1. cpu # Idle
    BY <1>1, <1>12 DEF WaitFinish, TaskActs, WaitInv, Bookkeeping
  <2> QED BY <1>3, <1>5, <1>12, <2>1 DEF WaitFinish, sched
<1>13. ASSUME NEW code \in ExitCode, Finish(code) PROVE [Scheduler!Next]_(Scheduler!vars)
  <2> DEFINE wakes == IF WakesWaiter(cpu) THEN {finish_waiter_[cpu]} ELSE {}
  <2>1. /\ cpu # Idle
        /\ cpu' \in Ready \ {cpu}
        /\ \A u \in Ready \ {cpu} : level_[u] <= level_[cpu']
    BY <1>1, <1>13, FinishPicksTop, RotationPicksTop
  <2>2. /\ \A t \in Id : Running'[t] <=>
             (t # cpu /\ (Running[t] \/ (WakesWaiter(cpu) /\ t = finish_waiter_[cpu])))
        /\ level_' = level_
    BY <1>13 DEF Finish
  <2>3. WakesWaiter(cpu) =>
          /\ finish_waiter_[cpu] \in Id /\ finish_waiter_[cpu] # cpu
          /\ ~Running[finish_waiter_[cpu]]
    BY <1>1, <1>2 DEF WakesWaiter, TypeOK, Ready
  <2>4. wakes \subseteq Id /\ wakes \cap Ready = {} /\ Ready' = (Ready \ {cpu}) \cup wakes
    BY <2>2, <2>3 DEF Ready
  <2> HIDE DEF wakes
  <2>5. Scheduler!Block(wakes)
    BY <2>1, <2>2, <2>4 DEF Scheduler!Block, Scheduler!Top
  <2> QED BY <2>4, <2>5 DEF Scheduler!Next
<1>14. ASSUME SwitchTask PROVE [Scheduler!Next]_(Scheduler!vars)
  <2>1. cpu' = Head(RotatedQueues(FALSE)[RotatedLevel(FALSE)])
    BY <1>1, <1>14 DEF QueueInv, CpuIsCurrent, SwitchTask, RotateCurrentRunQueue, CurrentTask
  <2>2. Ready' = Ready /\ level_' = level_
    BY <1>14 DEF SwitchTask, Ready
  <2>3. Scheduler!Preempt
    BY <1>1, <2>1, <2>2, RotationPicksTop DEF Scheduler!Preempt, Scheduler!Top
  <2> QED BY <2>3 DEF Scheduler!Next
<1>15. ASSUME UNCHANGED vars PROVE [Scheduler!Next]_(Scheduler!vars)
  BY <1>3, <1>15 DEF vars
<1> QED
  BY <1>6, <1>7, <1>8, <1>9, <1>10, <1>11, <1>12, <1>13, <1>14, <1>15 DEF Next

\* The run queues with level_changed_ implement the priority scheduler.
THEOREM Refinement == Spec => ImplementsScheduler
BY InitRefines, StepRefines, InductiveInvariant, PTL
DEF Spec, ImplementsScheduler, Scheduler!Spec

(***************************************************************************)
(* Timer, for any periods, any number of applications, any requests and    *)
(* any bounds on ticks and calls.                                          *)
(***************************************************************************)
\* A new timer is a timer.
LEMMA NewTimerType ==
  ASSUME TimerTypeOK, NEW due \in Nat, NEW value \in {"task", "cursor", "app"}
  PROVE  /\ NewTimer(due, value) \in TimerType
         /\ NewTimer(due, value).timeout = due
         /\ NewTimer(due, value).value = value
         /\ NewTimer(due, value).armed = tick_
         /\ NewTimer(due, value).number = added
BY DEF NewTimer, TimerType, TimerTypeOK

\* What CreateTimer computes is a tick.
LEMMA DueType ==
  ASSUME TimerTypeOK, NEW mode, NEW ms \in Milliseconds
  PROVE  Due(mode, ms) \in Nat
<1>1. ms * kTimerFreq \in Nat
  BY RequestAssumption, PeriodAssumption
<1>2. Ticks(ms) \in Nat
  BY <1>1 DEF Ticks
<1> QED BY <1>2 DEF Due, TimerTypeOK

\* Every action keeps the types.
LEMMA TimerTypeStep == TimerTypeOK /\ [TimerNext]_timerVars => TimerTypeOK'
<1> SUFFICES ASSUME TimerTypeOK, [TimerNext]_timerVars PROVE TimerTypeOK'
  OBVIOUS
<1> USE PeriodAssumption, RequestAssumption
<1>1. CASE AddCursorTimer
  <2>1. NewTimer(kTimer05Sec, "cursor") \in TimerType
    BY NewTimerType
  <2> QED BY <1>1, <2>1 DEF AddCursorTimer, AddTimer, TimerTypeOK, create, main
<1>2. CASE InitializeTask
  <2>1. NewTimer(tick_ + kTaskTimerPeriod, "task") \in TimerType
    BY NewTimerType DEF TimerTypeOK
  <2> QED BY <1>2, <2>1 DEF InitializeTask, AddTimer, TimerTypeOK, create, main
<1>3. ASSUME NEW t \in App, NEW mode \in Modes, NEW ms \in Milliseconds,
             CreateTimer(t, mode, ms)
      PROVE  TimerTypeOK'
  <2>1. timeout' \in [App -> Nat]
    BY <1>3, DueType DEF CreateTimer, TimerTypeOK
  <2> QED BY <1>3, <2>1 DEF CreateTimer, TimerTypeOK, main
<1>4. ASSUME NEW t \in App, AddAppTimer(t) PROVE TimerTypeOK'
  <2>1. timeout[t] \in Nat
    BY DEF TimerTypeOK
  <2>2. NewTimer(timeout[t], "app") \in TimerType
    BY <2>1, NewTimerType
  <2> QED BY <1>4, <2>2 DEF AddAppTimer, AppValue, AddTimer, TimerTypeOK, main
<1>5. CASE ReceiveTimeout
  BY <1>5 DEF ReceiveTimeout, TimerTypeOK, create
<1>6. CASE RearmCursorTimer
  <2>1. CursorDue \in Nat
    BY <1>6 DEF RearmCursorTimer, CursorDue, TimerTypeOK
  <2>2. NewTimer(CursorDue, "cursor") \in TimerType
    BY <2>1, NewTimerType
  <2> QED BY <1>6, <2>2 DEF RearmCursorTimer, AddTimer, TimerTypeOK, create
<1>7. CASE Tick
  <2>1. tick_' \in Nat /\ in_tick' = TRUE /\ task_timer_timeout' = FALSE
    BY <1>7 DEF Tick, TimerTypeOK
  <2>2. UNCHANGED <<timers_, added, phase, create, main, rung, last_switch>>
    BY <1>7 DEF Tick
  <2> QED BY <2>1, <2>2 DEF TimerTypeOK, create, main
<1>8. ASSUME NEW t \in timers_, TaskTimerExpires(t) PROVE TimerTypeOK'
  <2>1. NewTimer(TaskTimerDue, "task") \in TimerType
    BY NewTimerType DEF TaskTimerDue, TimerTypeOK
  <2>2. rung' \in Seq(Ringing)
    BY <1>8 DEF TaskTimerExpires, Ring, Ringing, TimerTypeOK
  <2> QED BY <1>8, <2>1, <2>2 DEF TaskTimerExpires, Pop, TimerTypeOK, create, main
<1>9. ASSUME NEW t \in timers_, TimerExpires(t) PROVE TimerTypeOK'
  <2>1. rung' \in Seq(Ringing)
    BY <1>9 DEF TimerExpires, Ring, Ringing, TimerTypeOK
  <2>2. inbox' \in Seq(Nat)
    BY <1>9 DEF TimerExpires, TimerTypeOK, TimerType
  <2> QED BY <1>9, <2>1, <2>2 DEF TimerExpires, Pop, TimerTypeOK, create
<1>10. CASE TickReturns
  BY <1>10 DEF TickReturns, TimerTypeOK, create, main
<1>11. CASE UNCHANGED timerVars
  BY <1>11 DEF timerVars, TimerTypeOK, create, main
<1> QED BY <1>1, <1>2, <1>3, <1>4, <1>5, <1>6, <1>7, <1>8, <1>9, <1>10, <1>11 DEF TimerNext

\* What a step does to the queue.
LEMMA QueueEffect ==
  ASSUME TimerTypeOK, [TimerNext]_timerVars
  PROVE  \/ UNCHANGED <<tick_, in_tick, timers_, added, rung>>
         \/ /\ ~in_tick /\ UNCHANGED <<tick_, in_tick, rung>>
            /\ \E new \in TimerType :
                 /\ new.armed = tick_ /\ new.number = added /\ new.value # "sentinel"
                 /\ timers_' = timers_ \cup {new} /\ added' = added + 1
         \/ Tick
         \/ \E t \in timers_ : TaskTimerExpires(t) \/ TimerExpires(t)
         \/ TickReturns
<1> USE PeriodAssumption
<1>1. CASE AddCursorTimer
  <2> DEFINE new == NewTimer(kTimer05Sec, "cursor")
  <2>1. new \in TimerType /\ new.armed = tick_ /\ new.number = added /\ new.value = "cursor"
    BY NewTimerType
  <2> QED BY <1>1, <2>1 DEF AddCursorTimer, AddTimer
<1>2. CASE InitializeTask
  <2> DEFINE new == NewTimer(tick_ + kTaskTimerPeriod, "task")
  <2>1. new \in TimerType /\ new.armed = tick_ /\ new.number = added /\ new.value = "task"
    BY NewTimerType DEF TimerTypeOK
  <2> QED BY <1>2, <2>1 DEF InitializeTask, AddTimer
<1>3. ASSUME NEW t \in App, NEW mode \in Modes, NEW ms \in Milliseconds,
             CreateTimer(t, mode, ms)
      PROVE  UNCHANGED <<tick_, in_tick, timers_, added, rung>>
  BY <1>3 DEF CreateTimer
<1>4. ASSUME NEW t \in App, AddAppTimer(t)
      PROVE  /\ ~in_tick /\ UNCHANGED <<tick_, in_tick, rung>>
             /\ \E new \in TimerType :
                  /\ new.armed = tick_ /\ new.number = added /\ new.value # "sentinel"
                  /\ timers_' = timers_ \cup {new} /\ added' = added + 1
  <2> DEFINE new == NewTimer(timeout[t], AppValue)
  <2>1. timeout[t] \in Nat
    BY DEF TimerTypeOK
  <2>2. new \in TimerType /\ new.armed = tick_ /\ new.number = added /\ new.value = "app"
    BY <2>1, NewTimerType DEF AppValue
  <2> QED BY <1>4, <2>2 DEF AddAppTimer, AddTimer
<1>5. CASE ReceiveTimeout
  BY <1>5 DEF ReceiveTimeout
<1>6. CASE RearmCursorTimer
  <2> DEFINE new == NewTimer(CursorDue, "cursor")
  <2>1. CursorDue \in Nat
    BY <1>6 DEF RearmCursorTimer, CursorDue, TimerTypeOK
  <2>2. new \in TimerType /\ new.armed = tick_ /\ new.number = added /\ new.value = "cursor"
    BY <2>1, NewTimerType
  <2> QED BY <1>6, <2>2 DEF RearmCursorTimer, AddTimer
<1> QED BY <1>1, <1>2, <1>3, <1>4, <1>5, <1>6 DEF TimerNext, timerVars

\* One iteration of Tick takes the timer with the shortest timeout out of the queue,
\* and at most puts the next task timer in.
LEMMA ExpiryEffect ==
  ASSUME TimerTypeOK, NEW t \in timers_, TaskTimerExpires(t) \/ TimerExpires(t)
  PROVE  /\ in_tick /\ UNCHANGED <<tick_, in_tick>>
         /\ t \in TimerType /\ t.timeout <= tick_
         /\ \A u \in timers_ : t.timeout <= u.timeout
         /\ rung' = Append(rung, [timer |-> t, at |-> tick_])
         /\ \A u \in timers_' : \/ u \in timers_
                                 \/ /\ u \in TimerType /\ u.armed = tick_
                                    /\ u.timeout = tick_ + kTaskTimerPeriod
         /\ \/ /\ t.value # "task"
               /\ timers_' = timers_ \ {t} /\ added' = added
            \/ /\ t.value = "task"
               /\ \E new \in TimerType :
                    /\ new.timeout = tick_ + kTaskTimerPeriod /\ new.value = "task"
                    /\ new.armed = tick_ /\ new.number = added
                    /\ timers_' = (timers_ \ {t}) \cup {new} /\ added' = added + 1
<1>1. t \in TimerType
  BY DEF TimerTypeOK
<1>2. CASE TimerExpires(t)
  BY <1>1, <1>2 DEF TimerExpires, Top, Expired, Ring, Pop
<1>3. CASE TaskTimerExpires(t)
  <2> DEFINE new == NewTimer(TaskTimerDue, "task")
  <2>1. /\ new \in TimerType /\ new.timeout = tick_ + kTaskTimerPeriod /\ new.value = "task"
        /\ new.armed = tick_ /\ new.number = added
    BY PeriodAssumption, NewTimerType DEF TaskTimerDue, TimerTypeOK
  <2> QED BY <1>1, <1>3, <2>1 DEF TaskTimerExpires, Top, Expired, Ring, Pop
<1> QED BY <1>2, <1>3

\* Appending to the history.
LEMMA RungAppend ==
  ASSUME TimerTypeOK, NEW t \in TimerType, rung' = Append(rung, [timer |-> t, at |-> tick_])
  PROVE  /\ Len(rung') = Len(rung) + 1 /\ Len(rung) \in Nat
         /\ rung'[Len(rung) + 1].timer = t /\ rung'[Len(rung) + 1].at = tick_
         /\ \A k \in 1 .. Len(rung) : rung'[k] = rung[k] /\ k \in 1 .. Len(rung')
         /\ \A k \in 1 .. Len(rung') : k \in 1 .. Len(rung) \/ k = Len(rung) + 1
BY DEF TimerTypeOK

\* What the histories hold.
LEMMA RungType ==
  ASSUME TimerTypeOK, NEW k \in 1 .. Len(rung)
  PROVE  /\ rung[k].at \in Nat /\ rung[k].timer \in TimerType
         /\ rung[k].timer.timeout \in Nat /\ rung[k].timer.number \in Nat
<1>0. rung \in Seq(Ringing)
  BY DEF TimerTypeOK
<1>1. rung[k] \in Ringing
  BY <1>0
<1> QED BY <1>1 DEF Ringing, TimerType

\* Timers ring when they are due.
LEMMA TimeStep == TimerTypeOK /\ TimeInv /\ [TimerNext]_timerVars => TimeInv'
<1> SUFFICES ASSUME TimerTypeOK, TimeInv, [TimerNext]_timerVars PROVE TimeInv'
  OBVIOUS
<1>0. /\ tick_ \in Nat /\ kTaskTimerPeriod \in Nat \ {0}
      /\ \A t \in timers_ : t.timeout \in Nat /\ t.armed \in Nat
  BY PeriodAssumption DEF TimerTypeOK, TimerType
<1>1. CASE UNCHANGED <<tick_, in_tick, timers_, added, rung>>
  BY <1>1 DEF TimeInv, RingsOnTime
<1>2. ASSUME ~in_tick, UNCHANGED <<tick_, in_tick, rung>>,
             NEW new \in TimerType, new.armed = tick_, timers_' = timers_ \cup {new}
      PROVE  TimeInv'
  BY <1>0, <1>2 DEF TimeInv, RingsOnTime
<1>3. CASE Tick
  BY <1>0, <1>3 DEF Tick, TimeInv, RingsOnTime
<1>4. ASSUME NEW t \in timers_, TaskTimerExpires(t) \/ TimerExpires(t) PROVE TimeInv'
  <2>1. /\ in_tick /\ UNCHANGED <<tick_, in_tick>> /\ t \in TimerType /\ t.timeout <= tick_
        /\ rung' = Append(rung, [timer |-> t, at |-> tick_])
    BY <1>4, ExpiryEffect
  <2>2. \A u \in timers_' : \/ u \in timers_
                            \/ u \in TimerType /\ u.armed = tick_ /\ u.timeout > tick_
    <3>1. \A u \in timers_' : \/ u \in timers_
                              \/ /\ u \in TimerType /\ u.armed = tick_
                                 /\ u.timeout = tick_ + kTaskTimerPeriod
      BY <1>4, ExpiryEffect
    <3> QED BY <1>0, <3>1
  <2>3. tick_ = Later(t.timeout, t.armed + 1)
    BY <1>0, <2>1 DEF TimeInv, Later
  <2>4. RingsOnTime'
    BY <2>1, <2>3, RungAppend DEF TimeInv, RingsOnTime
  <2>5. \A u \in timers_' :
          /\ u.armed <= tick_
          /\ u.timeout <= tick_ => /\ u.armed < tick_
                                   /\ u.timeout < tick_ => u.armed = tick_ - 1
    <3> SUFFICES ASSUME NEW u \in timers_'
                 PROVE  /\ u.armed <= tick_
                        /\ u.timeout <= tick_ => /\ u.armed < tick_
                                                 /\ u.timeout < tick_ => u.armed = tick_ - 1
      OBVIOUS
    <3>1. CASE u \in timers_
      BY <2>1, <3>1 DEF TimeInv
    <3>2. CASE u \in TimerType /\ u.armed = tick_ /\ u.timeout > tick_
      <4>1. u.timeout \in Nat
        BY <3>2 DEF TimerType
      <4> QED BY <1>0, <3>2, <4>1
    <3> QED BY <2>2, <3>1, <3>2
  <2> QED BY <2>1, <2>4, <2>5 DEF TimeInv
<1>5. CASE TickReturns
  <2>1. /\ \A t \in timers_ : t.timeout > tick_
        /\ UNCHANGED <<tick_, timers_, rung>>
    BY <1>0, <1>5 DEF TickReturns, Top, Expired
  <2> QED BY <1>0, <2>1 DEF TimeInv, RingsOnTime
<1> QED BY <1>1, <1>2, <1>3, <1>4, <1>5, QueueEffect

\* ... and in the order of their timeouts.
LEMMA OrderStep == TimerTypeOK /\ TimeInv /\ OrderInv /\ [TimerNext]_timerVars => OrderInv'
<1> SUFFICES ASSUME TimerTypeOK, TimeInv, OrderInv, [TimerNext]_timerVars PROVE OrderInv'
  OBVIOUS
<1>0. /\ tick_ \in Nat /\ kTaskTimerPeriod \in Nat \ {0}
      /\ \A t \in timers_ : t.timeout \in Nat /\ t.armed \in Nat
      /\ \A k \in 1 .. Len(rung) : rung[k].at \in Nat /\ rung[k].timer.timeout \in Nat
  BY PeriodAssumption, RungType DEF TimerTypeOK, TimerType
<1>1. CASE UNCHANGED <<tick_, in_tick, timers_, added, rung>>
  BY <1>1 DEF OrderInv, RingsInOrder
<1>2. CASE ~in_tick /\ UNCHANGED <<tick_, in_tick, rung>>
  BY <1>2 DEF OrderInv, RingsInOrder
<1>3. CASE Tick
  BY <1>0, <1>3 DEF Tick, OrderInv, RingsInOrder
<1>4. ASSUME NEW t \in timers_, TaskTimerExpires(t) \/ TimerExpires(t) PROVE OrderInv'
  <2>1. /\ in_tick /\ UNCHANGED <<tick_, in_tick>> /\ t \in TimerType /\ t.timeout <= tick_
        /\ rung' = Append(rung, [timer |-> t, at |-> tick_])
        /\ \A u \in timers_ : t.timeout <= u.timeout
    BY <1>4, ExpiryEffect
  <2>2. \A u \in timers_' : t.timeout <= u.timeout /\ u.timeout \in Nat
    <3>1. \A u \in timers_' : u \in timers_ \/ u.timeout = tick_ + kTaskTimerPeriod
      BY <1>4, ExpiryEffect
    <3>2. t.timeout \in Nat
      BY <1>0
    <3> QED BY <1>0, <2>1, <3>1, <3>2
  <2>3. \A k \in 1 .. Len(rung') : rung'[k].at <= tick_
    BY <1>0, <2>1, RungAppend DEF OrderInv
  <2>4. ASSUME NEW k \in 1 .. Len(rung'), rung'[k].at = tick_, NEW u \in timers_'
        PROVE  rung'[k].timer.timeout <= u.timeout
    <3>1. CASE k \in 1 .. Len(rung)
      <4>1. rung'[k] = rung[k] /\ rung[k].timer.timeout <= t.timeout
        BY <2>1, <2>4, <3>1, RungAppend DEF OrderInv
      <4>2. rung[k].timer.timeout \in Nat /\ t.timeout \in Nat
        BY <1>0, <3>1
      <4> QED BY <2>2, <4>1, <4>2
    <3>2. CASE k = Len(rung) + 1
      <4>1. rung'[k].timer = t
        BY <2>1, <3>2, RungAppend
      <4> QED BY <2>2, <4>1
    <3> QED BY <2>1, <3>1, <3>2, RungAppend
  <2>5. RingsInOrder'
    <3> SUFFICES ASSUME NEW j \in 1 .. Len(rung'), NEW k \in 1 .. Len(rung'), j < k
                 PROVE  \/ rung'[j].at < rung'[k].at
                        \/ /\ rung'[j].at = rung'[k].at
                           /\ rung'[j].timer.timeout <= rung'[k].timer.timeout
      BY DEF RingsInOrder
    <3>1. j \in 1 .. Len(rung) /\ rung'[j] = rung[j]
      BY <2>1, RungAppend
    <3>2. CASE k \in 1 .. Len(rung)
      BY <2>1, <3>1, <3>2, RungAppend DEF OrderInv, RingsInOrder
    <3>3. CASE k = Len(rung) + 1
      <4>1. rung'[k].timer = t /\ rung'[k].at = tick_
        BY <2>1, <3>3, RungAppend
      <4>2. rung[j].at <= tick_ /\ (rung[j].at = tick_ => rung[j].timer.timeout <= t.timeout)
        BY <2>1, <3>1 DEF OrderInv
      <4> QED BY <1>0, <3>1, <4>1, <4>2
    <3> QED BY <2>1, <3>2, <3>3, RungAppend
  <2> QED BY <2>1, <2>3, <2>4, <2>5 DEF OrderInv
<1>5. CASE TickReturns
  BY <1>5 DEF TickReturns, OrderInv, RingsInOrder
<1> QED BY <1>1, <1>2, <1>3, <1>4, <1>5, QueueEffect

\* No timer is lost, and none rings twice.
LEMMA NumberStep == TimerTypeOK /\ NumberInv /\ [TimerNext]_timerVars => NumberInv'
<1> SUFFICES ASSUME TimerTypeOK, NumberInv, [TimerNext]_timerVars PROVE NumberInv'
  OBVIOUS
<1>0. /\ added \in Nat
      /\ \A t \in timers_ : t.number \in Nat
      /\ \A t \in timers_ : t.number < added
      /\ \A k \in 1 .. Len(rung) : rung[k].timer.number < added
  <2>1. added \in Nat /\ \A t \in timers_ : t.number \in Nat
    BY DEF TimerTypeOK, TimerType
  <2>2. \A n \in Pending \cup Rung : n < added
    BY <2>1 DEF NumberInv, RingsOnce
  <2> QED BY <2>1, <2>2 DEF Pending, Rung
<1>1. ASSUME UNCHANGED <<timers_, added, rung>> PROVE NumberInv'
  <2>1. Pending' = Pending /\ Rung' = Rung
    BY <1>1 DEF Pending, Rung
  <2> QED BY <1>1, <2>1 DEF NumberInv, RingsOnce
<1>2. ASSUME UNCHANGED <<tick_, in_tick, rung>>, NEW new \in TimerType,
             new.number = added, timers_' = timers_ \cup {new}, added' = added + 1
      PROVE  NumberInv'
  <2>1. Pending' = Pending \cup {added} /\ Rung' = Rung
    BY <1>2 DEF Pending, Rung
  <2>2. added \notin Rung
    BY <1>0 DEF Rung
  <2>3. (Pending \cup Rung)' = 0 .. added' - 1
    BY <1>0, <1>2, <2>1 DEF NumberInv, RingsOnce
  <2> QED BY <1>0, <1>2, <2>1, <2>2, <2>3 DEF NumberInv, RingsOnce
<1>3. CASE Tick \/ TickReturns
  BY <1>1, <1>3 DEF Tick, TickReturns
<1>4. ASSUME NEW t \in timers_, TaskTimerExpires(t) \/ TimerExpires(t) PROVE NumberInv'
  <2>1. t \in TimerType /\ rung' = Append(rung, [timer |-> t, at |-> tick_])
    BY <1>4, ExpiryEffect
  <2>2. Rung' = Rung \cup {t.number}
    BY <2>1, RungAppend DEF Rung
  <2>3. t.number \in Pending /\ t.number \notin Rung
    BY DEF NumberInv, RingsOnce, Pending
  <2>4. ASSUME NEW j \in 1 .. Len(rung'), NEW k \in 1 .. Len(rung'),
               rung'[j].timer.number = rung'[k].timer.number
        PROVE  j = k
    <3>1. \A l \in 1 .. Len(rung) : rung'[l] = rung[l] /\ rung[l].timer.number # t.number
      BY <2>1, <2>3, RungAppend DEF Rung
    <3>2. CASE j \in 1 .. Len(rung) /\ k \in 1 .. Len(rung)
      BY <2>4, <3>1, <3>2 DEF NumberInv, RingsOnce
    <3> QED BY <2>1, <2>4, <3>1, <3>2, RungAppend
  <2>5. \A u \in timers_ \ {t} : u.number # t.number
    BY DEF NumberInv
  <2>6. {u.number : u \in timers_ \ {t}} = Pending \ {t.number}
    BY <2>5 DEF Pending
  <2>7. CASE timers_' = timers_ \ {t} /\ added' = added
    <3>1. Pending' = Pending \ {t.number}
      BY <2>6, <2>7 DEF Pending
    <3> QED BY <2>2, <2>3, <2>4, <2>7, <3>1 DEF NumberInv, RingsOnce
  <2>8. ASSUME NEW new \in TimerType, new.number = added, added' = added + 1,
               timers_' = (timers_ \ {t}) \cup {new}
        PROVE  NumberInv'
    <3>1. Pending' = (Pending \ {t.number}) \cup {added}
      BY <2>6, <2>8 DEF Pending
    <3>2. added \notin Rung \cup {t.number}
      BY <1>0 DEF Rung
    <3>3. (Pending \cup Rung)' = 0 .. added' - 1
      BY <1>0, <2>2, <2>3, <2>8, <3>1 DEF NumberInv, RingsOnce
    <3>4. (Pending \cap Rung)' = {}
      BY <2>2, <3>1, <3>2 DEF NumberInv, RingsOnce
    <3>5. \A u, v \in timers_' : u.number = v.number => u = v
      BY <1>0, <2>8 DEF NumberInv
    <3> QED BY <2>4, <3>3, <3>4, <3>5 DEF NumberInv, RingsOnce
  <2> QED BY <1>4, <2>7, <2>8, ExpiryEffect
<1> QED BY <1>1, <1>2, <1>3, <1>4, QueueEffect

\* What the actions that do not touch the task timer leave of TaskTimerInv.
LEMMA TaskTimersKept ==
  ASSUME TaskTimerInv, TaskTimers' = TaskTimers,
         UNCHANGED <<tick_, in_tick, task_timer_timeout, last_switch>>,
         (phase' = "run") <=> (phase = "run")
  PROVE  TaskTimerInv'
BY DEF TaskTimerInv

\* The task timer is there, and SwitchTask is on time.
LEMMA TaskTimerStep == TimerTypeOK /\ TaskTimerInv /\ [TimerNext]_timerVars => TaskTimerInv'
<1> SUFFICES ASSUME TimerTypeOK, TaskTimerInv, [TimerNext]_timerVars PROVE TaskTimerInv'
  OBVIOUS
<1>0. /\ tick_ \in Nat /\ last_switch \in Nat /\ kTaskTimerPeriod \in Nat \ {0}
      /\ kTimer05Sec \in Nat
      /\ \A t \in timers_ : t.timeout \in Nat
  BY PeriodAssumption DEF TimerTypeOK, TimerType
<1>1. CASE AddCursorTimer
  <2>1. NewTimer(kTimer05Sec, "cursor").value # "task"
    BY <1>0, NewTimerType
  <2>2. TaskTimers' = TaskTimers
    BY <1>1, <2>1 DEF AddCursorTimer, AddTimer, TaskTimers
  <2> QED BY <1>1, <2>2, TaskTimersKept DEF AddCursorTimer
<1>2. CASE InitializeTask
  <2> DEFINE new == NewTimer(tick_ + kTaskTimerPeriod, "task")
  <2>1. new.timeout = tick_ + kTaskTimerPeriod /\ new.value = "task"
    BY <1>0, NewTimerType
  <2>2. TaskTimers = {}
    BY <1>2 DEF InitializeTask, TaskTimerInv
  <2>3. timers_' = timers_ \cup {new}
    BY <1>2 DEF InitializeTask, AddTimer
  <2> HIDE DEF new
  <2>4. TaskTimers' = {new}
    BY <2>1, <2>2, <2>3 DEF TaskTimers
  <2>5. /\ ~in_tick' /\ phase' = "run" /\ tick_' = tick_ /\ last_switch' = tick_
    BY <1>2 DEF InitializeTask
  <2> QED BY <1>0, <2>1, <2>4, <2>5 DEF TaskTimerInv
<1>3. ASSUME NEW t \in App, NEW mode \in Modes, NEW ms \in Milliseconds,
             CreateTimer(t, mode, ms)
      PROVE  TaskTimerInv'
  BY <1>3, TaskTimersKept DEF CreateTimer, TaskTimers
<1>4. ASSUME NEW t \in App, AddAppTimer(t) PROVE TaskTimerInv'
  <2>1. timeout[t] \in Nat
    BY DEF TimerTypeOK
  <2>2. NewTimer(timeout[t], AppValue).value # "task"
    BY <2>1, NewTimerType DEF AppValue
  <2>3. TaskTimers' = TaskTimers
    BY <1>4, <2>2 DEF AddAppTimer, AddTimer, TaskTimers
  <2> QED BY <1>4, <2>3, TaskTimersKept DEF AddAppTimer
<1>5. CASE ReceiveTimeout
  BY <1>5, TaskTimersKept DEF ReceiveTimeout, TaskTimers
<1>6. CASE RearmCursorTimer
  <2>1. CursorDue \in Nat
    BY <1>0, <1>6 DEF RearmCursorTimer, CursorDue, TimerTypeOK
  <2>2. NewTimer(CursorDue, "cursor").value # "task"
    BY <2>1, NewTimerType
  <2>3. TaskTimers' = TaskTimers
    BY <1>6, <2>2 DEF RearmCursorTimer, AddTimer, TaskTimers
  <2> QED BY <1>6, <2>3, TaskTimersKept DEF RearmCursorTimer
<1>7. CASE Tick
  <2>1. /\ TaskTimers' = TaskTimers /\ phase' = phase /\ last_switch' = last_switch
        /\ ~in_tick /\ in_tick' /\ ~task_timer_timeout' /\ tick_' = tick_ + 1
    BY <1>7 DEF Tick, TaskTimers
  <2>2. ASSUME phase = "run"
        PROVE  \E t \in TaskTimers : /\ t.timeout = last_switch + kTaskTimerPeriod
                                     /\ tick_ + 1 <= t.timeout
    BY <1>0, <2>1, <2>2 DEF TaskTimerInv, TaskTimers
  <2> QED BY <2>1, <2>2 DEF TaskTimerInv
<1>8. ASSUME NEW t \in timers_, TaskTimerExpires(t) PROVE TaskTimerInv'
  <2> DEFINE new == NewTimer(TaskTimerDue, "task")
  <2>1. new.timeout = tick_ + kTaskTimerPeriod /\ new.value = "task"
    BY <1>0, NewTimerType DEF TaskTimerDue
  <2>2. t \in TaskTimers /\ \A u \in TaskTimers : u = t
    BY <1>8 DEF TaskTimerExpires, TaskTimers, TaskTimerInv
  <2>3. timers_' = (timers_ \ {t}) \cup {new}
    BY <1>8 DEF TaskTimerExpires, Pop
  <2> HIDE DEF new
  <2>4. TaskTimers' = {new}
    BY <2>1, <2>2, <2>3 DEF TaskTimers
  <2>5. /\ in_tick' /\ task_timer_timeout' /\ phase' = phase /\ tick_' = tick_
    BY <1>8 DEF TaskTimerExpires
  <2>6. phase = "run"
    BY <2>2 DEF TaskTimerInv
  <2> QED BY <2>1, <2>4, <2>5, <2>6 DEF TaskTimerInv
<1>9. ASSUME NEW t \in timers_, TimerExpires(t) PROVE TaskTimerInv'
  <2>1. TaskTimers' = TaskTimers
    BY <1>9 DEF TimerExpires, Pop, TaskTimers
  <2> QED BY <1>9, <2>1, TaskTimersKept DEF TimerExpires
<1>10. CASE TickReturns
  <2>1. /\ \A t \in timers_ : t.timeout > tick_
        /\ in_tick /\ ~in_tick' /\ UNCHANGED <<tick_, phase>>
        /\ last_switch' = IF task_timer_timeout THEN tick_ ELSE last_switch
    BY <1>0, <1>10 DEF TickReturns, Top, Expired
  <2>2. TaskTimers' = TaskTimers
    BY <1>10 DEF TickReturns, TaskTimers
  <2>3. ASSUME phase = "run"
        PROVE  \E t \in TaskTimers : /\ t.timeout = last_switch' + kTaskTimerPeriod
                                     /\ tick_ < t.timeout
    <3>1. PICK t \in TaskTimers :
            IF task_timer_timeout THEN t.timeout = tick_ + kTaskTimerPeriod
            ELSE t.timeout = last_switch + kTaskTimerPeriod
      BY <2>1, <2>3 DEF TaskTimerInv
    <3>2. t.timeout > tick_
      BY <2>1 DEF TaskTimers
    <3> QED BY <1>0, <2>1, <3>1, <3>2
  <2> QED BY <1>0, <2>1, <2>2, <2>3 DEF TaskTimerInv, TaskTimers
<1>11. CASE UNCHANGED timerVars
  BY <1>11, TaskTimersKept DEF timerVars, TaskTimers
<1> QED BY <1>1, <1>2, <1>3, <1>4, <1>5, <1>6, <1>7, <1>8, <1>9, <1>10, <1>11 DEF TimerNext

\* Half a second after a multiple of half a second is one.
LEMMA NextHalfSecond ==
  ASSUME NEW n \in Nat, HalfSeconds(n)
  PROVE  HalfSeconds(n + kTimer05Sec)
<1>1. kTimer05Sec \in Nat \ {0}
  BY PeriodAssumption
<1>2. PICK k \in 0 .. n : n = k * kTimer05Sec
  BY DEF HalfSeconds
<1>3. k + 1 \in 0 .. n + kTimer05Sec
  BY <1>1
<1>4. n + kTimer05Sec = (k + 1) * kTimer05Sec
  BY <1>1, <1>2
<1> QED BY <1>3, <1>4 DEF HalfSeconds

\* The first timeout of the cursor.
LEMMA FirstHalfSecond == HalfSeconds(kTimer05Sec)
<1>1. kTimer05Sec \in Nat \ {0}
  BY PeriodAssumption
<1>2. 1 \in 0 .. kTimer05Sec /\ kTimer05Sec = 1 * kTimer05Sec
  BY <1>1
<1> QED BY <1>2 DEF HalfSeconds

\* The cursor's timer is in one place.
LEMMA CursorStep == TimerTypeOK /\ CursorInv /\ [TimerNext]_timerVars => CursorInv'
<1> SUFFICES ASSUME TimerTypeOK, CursorInv, [TimerNext]_timerVars PROVE CursorInv'
  OBVIOUS
<1>0. /\ tick_ \in Nat /\ kTaskTimerPeriod \in Nat /\ kTimer05Sec \in Nat
      /\ \A t \in timers_ : t.timeout \in Nat
      /\ inbox \in Seq(Nat) /\ handling \in Seq(Nat)
  BY PeriodAssumption DEF TimerTypeOK, TimerType
<1>a. ASSUME Cursors' = Cursors, UNCHANGED main, (phase' = "boot") <=> (phase = "boot")
      PROVE  CursorInv'
  BY <1>a DEF CursorInv, CursorKeepsBlinking, main
<1>1. CASE AddCursorTimer
  <2> DEFINE new == NewTimer(kTimer05Sec, "cursor")
  <2>1. new.timeout = kTimer05Sec /\ new.value = "cursor"
    BY <1>0, NewTimerType
  <2>2. Cursors = {} /\ inbox = <<>> /\ handling = <<>>
    BY <1>1 DEF AddCursorTimer, CursorInv
  <2>3. timers_' = timers_ \cup {new} /\ UNCHANGED main /\ phase' = "cursor"
    BY <1>1 DEF AddCursorTimer, AddTimer
  <2> HIDE DEF new
  <2>4. Cursors' = {new}
    BY <2>1, <2>2, <2>3 DEF Cursors
  <2> QED BY <2>1, <2>2, <2>3, <2>4, FirstHalfSecond
          DEF CursorInv, CursorKeepsBlinking, main
<1>2. CASE InitializeTask
  <2>1. NewTimer(tick_ + kTaskTimerPeriod, "task").value # "cursor"
    BY <1>0, NewTimerType
  <2>2. Cursors' = Cursors
    BY <1>2, <2>1 DEF InitializeTask, AddTimer, Cursors
  <2> QED BY <1>2, <1>a, <2>2 DEF InitializeTask
<1>3. ASSUME NEW t \in App, NEW mode \in Modes, NEW ms \in Milliseconds,
             CreateTimer(t, mode, ms)
      PROVE  CursorInv'
  BY <1>3, <1>a DEF CreateTimer, Cursors
<1>4. ASSUME NEW t \in App, AddAppTimer(t) PROVE CursorInv'
  <2>1. timeout[t] \in Nat
    BY DEF TimerTypeOK
  <2>2. NewTimer(timeout[t], AppValue).value # "cursor"
    BY <2>1, NewTimerType DEF AppValue
  <2>3. Cursors' = Cursors
    BY <1>4, <2>2 DEF AddAppTimer, AddTimer, Cursors
  <2> QED BY <1>4, <1>a, <2>3 DEF AddAppTimer
<1>5. CASE ReceiveTimeout
  <2>1. /\ handling = <<>> /\ inbox # <<>> /\ handling' = <<Head(inbox)>>
        /\ inbox' = Tail(inbox) /\ Cursors' = Cursors /\ phase' = phase
    BY <1>5 DEF ReceiveTimeout, Cursors
  <2>2. /\ Len(handling) = 0 /\ Len(handling') = 1 /\ Len(inbox') = Len(inbox) - 1
        /\ Head(inbox) = inbox[1] /\ 1 \in 1 .. Len(inbox)
        /\ \A k \in 1 .. Len(inbox') : inbox'[k] = inbox[k + 1] /\ k + 1 \in 1 .. Len(inbox)
        /\ \A k \in 1 .. Len(handling') : handling'[k] = inbox[1]
    BY <1>0, <2>1
  <2>3. CursorKeepsBlinking' \/ phase = "boot"
    BY <1>0, <2>1, <2>2 DEF CursorInv, CursorKeepsBlinking
  <2> QED BY <2>1, <2>3 DEF CursorInv
<1>6. CASE RearmCursorTimer
  <2> DEFINE new == NewTimer(CursorDue, "cursor")
  <2>1. handling # <<>> /\ CursorDue = handling[1] + kTimer05Sec /\ handling[1] \in Nat
    BY <1>0, <1>6 DEF RearmCursorTimer, CursorDue
  <2>2. CursorDue \in Nat
    BY <1>0, <2>1
  <2>3. new.timeout = CursorDue /\ new.value = "cursor"
    BY <2>2, NewTimerType
  <2>4. 1 \in 1 .. Len(handling) /\ Len(inbox) \in Nat /\ Len(handling) \in Nat
    BY <1>0, <2>1
  <2>5. phase # "boot" /\ HalfSeconds(handling[1])
    BY <2>1, <2>4 DEF CursorInv, CursorKeepsBlinking
  <2>6. Cursors = {} /\ Len(inbox) = 0
    BY <2>4, <2>5 DEF CursorInv, CursorKeepsBlinking
  <2>7. /\ timers_' = timers_ \cup {new} /\ handling' = <<>> /\ inbox' = inbox
        /\ phase' = phase
    BY <1>6 DEF RearmCursorTimer, AddTimer
  <2>8. HalfSeconds(CursorDue)
    BY <2>1, <2>5, NextHalfSecond
  <2> HIDE DEF new
  <2>9. Cursors' = {new}
    BY <2>3, <2>6, <2>7 DEF Cursors
  <2> QED BY <2>3, <2>5, <2>6, <2>7, <2>8, <2>9 DEF CursorInv, CursorKeepsBlinking
<1>7. CASE Tick
  BY <1>7, <1>a DEF Tick, Cursors
<1>8. ASSUME NEW t \in timers_, TaskTimerExpires(t) PROVE CursorInv'
  <2>1. NewTimer(TaskTimerDue, "task").value # "cursor"
    BY <1>0, NewTimerType DEF TaskTimerDue
  <2>2. Cursors' = Cursors
    BY <1>8, <2>1 DEF TaskTimerExpires, Pop, Cursors
  <2> QED BY <1>8, <1>a, <2>2 DEF TaskTimerExpires
<1>9. ASSUME NEW t \in timers_, TimerExpires(t) PROVE CursorInv'
  <2>1. /\ timers_' = timers_ \ {t} /\ UNCHANGED <<phase, handling>>
        /\ inbox' = IF t.value = "cursor" THEN Append(inbox, t.timeout) ELSE inbox
    BY <1>9 DEF TimerExpires, Pop
  <2>2. CASE t.value # "cursor"
    <3>1. Cursors' = Cursors
      BY <2>1, <2>2 DEF Cursors
    <3> QED BY <1>a, <2>1, <2>2, <3>1 DEF main
  <2>3. CASE t.value = "cursor"
    <3>1. t \in Cursors
      BY <2>3 DEF Cursors
    <3>2. phase # "boot" /\ HalfSeconds(t.timeout) /\ Cursors' = {}
      BY <2>1, <3>1 DEF CursorInv, CursorKeepsBlinking, Cursors
    <3>3. Len(inbox) = 0 /\ Len(handling) = 0
      BY <1>0, <3>1, <3>2 DEF CursorInv, CursorKeepsBlinking
    <3>4. Len(inbox') = 1 /\ inbox'[1] = t.timeout
      BY <1>0, <2>1, <2>3, <3>3
    <3> QED BY <2>1, <3>2, <3>3, <3>4 DEF CursorInv, CursorKeepsBlinking
  <2> QED BY <2>2, <2>3
<1>10. CASE TickReturns
  BY <1>10, <1>a DEF TickReturns, Cursors
<1>11. CASE UNCHANGED timerVars
  BY <1>11, <1>a DEF timerVars, Cursors
<1> QED BY <1>1, <1>2, <1>3, <1>4, <1>5, <1>6, <1>7, <1>8, <1>9, <1>10, <1>11 DEF TimerNext

\* The constructor leaves the sentinel and nothing else.
LEMMA InitTimerInv == TimerInit => TimerInv
<1> SUFFICES ASSUME TimerInit PROVE TimerInv
  OBVIOUS
<1> DEFINE sentinel == [timeout |-> Forever, value |-> "sentinel", armed |-> 0,
                        number |-> 0]
<1>1. timers_ = {sentinel} /\ rung = <<>> /\ inbox = <<>> /\ handling = <<>>
  BY DEF TimerInit
<1>2. Forever \in Nat /\ Forever > 0
  BY BoundAssumption DEF Forever
<1>3. sentinel \in TimerType
  BY <1>2 DEF TimerType
<1>4. TimerTypeOK
  <2>1. /\ creating \in [App -> {"idle", "add"}]
        /\ timeout \in [App -> Nat]
    BY DEF TimerInit
  <2>2. /\ inbox \in Seq(Nat) /\ handling \in Seq(Nat) /\ rung \in Seq(Ringing)
    BY <1>1
  <2>3. /\ tick_ \in Nat /\ added \in Nat /\ last_switch \in Nat
        /\ timers_ \subseteq TimerType /\ phase = "boot"
        /\ in_tick = FALSE /\ task_timer_timeout = FALSE
    BY <1>1, <1>3 DEF TimerInit
  <2> QED BY <2>1, <2>2, <2>3 DEF TimerTypeOK
<1>5. TimeInv /\ OrderInv
  BY <1>1, <1>2 DEF TimerInit, TimeInv, OrderInv, RingsOnTime, RingsInOrder
<1>6. NumberInv
  <2>1. Pending = {0} /\ Rung = {}
    BY <1>1 DEF Pending, Rung
  <2> QED BY <1>1, <2>1 DEF TimerInit, NumberInv, RingsOnce
<1>7. TaskTimerInv /\ CursorInv
  BY <1>1 DEF TimerInit, TaskTimerInv, TaskTimers, CursorInv, CursorKeepsBlinking, Cursors
<1> QED BY <1>4, <1>5, <1>6, <1>7 DEF TimerInv

-----------------------------------------------------------------------------
\* The inductive invariant.
THEOREM TimerInvariant == TimerSpec => []TimerInv
<1>1. TimerInv /\ [TimerNext]_timerVars => TimerInv'
  BY TimerTypeStep, TimeStep, OrderStep, NumberStep, TaskTimerStep, CursorStep DEF TimerInv
<1> QED BY InitTimerInv, <1>1, PTL DEF TimerSpec

\* Every reachable state is well typed.
THEOREM TimerTypeCorrect == TimerSpec => []TimerTypeOK
<1>1. TimerInv => TimerTypeOK
  BY DEF TimerInv
<1> QED BY TimerInvariant, <1>1, PTL

\* No timer rings early, and no tick leaves one behind, whatever the periods, the
\* number of applications and what they ask for.
THEOREM RingsOnTimeHolds == TimerSpec => []RingsOnTime
<1>1. TimerInv => RingsOnTime
  BY DEF TimerInv, TimeInv
<1> QED BY TimerInvariant, <1>1, PTL

\* Timers ring in the order of their timeouts.
THEOREM RingsInOrderHolds == TimerSpec => []RingsInOrder
<1>1. TimerInv => RingsInOrder
  BY DEF TimerInv, OrderInv
<1> QED BY TimerInvariant, <1>1, PTL

\* No timer is lost and none rings twice.
THEOREM RingsOnceHolds == TimerSpec => []RingsOnce
<1>1. TimerInv => RingsOnce
  BY DEF TimerInv, NumberInv
<1> QED BY TimerInvariant, <1>1, PTL

\* SwitchTask is called every kTaskTimerPeriod ticks: round robin, and the fairness
\* assumed of it in TaskManager, rest on this.
THEOREM PreemptsEveryPeriodHolds == TimerSpec => []PreemptsEveryPeriod
<1>1. TimerInv => PreemptsEveryPeriod
  <2> SUFFICES ASSUME TimerInv, phase = "run", ~in_tick
               PROVE  /\ \E t \in timers_ :
                           t.value = "task" /\ t.timeout = last_switch + kTaskTimerPeriod
                      /\ \A t, u \in timers_ : t.value = "task" /\ u.value = "task" => t = u
                      /\ tick_ < last_switch + kTaskTimerPeriod
    BY DEF PreemptsEveryPeriod
  <2>1. PICK t \in TaskTimers : t.timeout = last_switch + kTaskTimerPeriod /\ tick_ < t.timeout
    BY DEF TimerInv, TaskTimerInv
  <2>2. \A u, v \in TaskTimers : u = v
    BY DEF TimerInv, TaskTimerInv
  <2> QED BY <2>1, <2>2 DEF TaskTimers
<1> QED BY TimerInvariant, <1>1, PTL

\* The cursor keeps blinking without drift.
THEOREM CursorKeepsBlinkingHolds == TimerSpec => []CursorKeepsBlinking
<1>1. TimerInv => CursorKeepsBlinking
  BY DEF TimerInv, CursorInv
<1> QED BY TimerInvariant, <1>1, PTL

\* Every timer rings, once, in its tick and in order, whatever applications create.
THEOREM RingsRightHolds == TimerSpec => []RingsRight
<1>1. RingsOnTime /\ RingsInOrder /\ RingsOnce => RingsRight
  BY DEF RingsRight
<1> QED BY <1>1, RingsOnTimeHolds, RingsInOrderHolds, RingsOnceHolds, PTL

\* Preemption and the cursor keep their periods.
THEOREM PeriodsKeptHolds == TimerSpec => []PeriodsKept
<1>1. PreemptsEveryPeriod /\ CursorKeepsBlinking => PeriodsKept
  BY DEF PeriodsKept
<1> QED BY <1>1, PreemptsEveryPeriodHolds, CursorKeepsBlinkingHolds, PTL

\* Every step sets an alarm, is a tick of the clock that rings all that are due, or
\* is internal to Tick.
LEMMA TimerStepRefines ==
  ASSUME TimerInv, [TimerNext]_timerVars
  PROVE  [Clock!Next]_(Clock!vars)
<1> USE DEF TimerInv
<1>0. /\ tick_ \in Nat /\ added \in Nat /\ kTaskTimerPeriod \in Nat \ {0}
      /\ \A t \in timers_ : t.timeout \in Nat
  BY PeriodAssumption DEF TimerTypeOK, TimerType
<1>a. ASSUME Waiting' = Waiting, UNCHANGED <<tick_, added>>
      PROVE  UNCHANGED Clock!vars
  <2>1. Alarms' = Alarms
    BY <1>a DEF Alarms, Alarm
  <2> QED BY <1>a, <2>1 DEF Clock!vars
<1>b. ASSUME NEW new \in TimerType, new.number = added, Waiting' = Waiting \cup {new},
             added' = added + 1, tick_' = tick_
      PROVE  Clock!Set
  <2>1. Alarms' = Alarms \cup {Alarm(new)} /\ Alarm(new) \in Alarms'
    BY <1>b DEF Alarms, Alarm
  <2>2. Alarm(new).number = added - 1 /\ added' - 1 = (added - 1) + 1
    BY <1>0, <1>b DEF Alarm
  <2> QED BY <1>b, <2>1, <2>2 DEF Clock!Set
<1>1. CASE UNCHANGED <<tick_, in_tick, timers_, added, rung>>
  <2>1. Waiting' = Waiting
    BY <1>1 DEF Waiting
  <2> QED BY <1>1, <1>a, <2>1
<1>2. ASSUME ~in_tick, UNCHANGED <<tick_, in_tick>>, NEW new \in TimerType,
             new.number = added, new.value # "sentinel",
             timers_' = timers_ \cup {new}, added' = added + 1
      PROVE  Clock!Set
  <2>1. Waiting' = Waiting \cup {new}
    BY <1>2 DEF Waiting
  <2> QED BY <1>2, <1>b, <2>1
<1>3. CASE Tick
  <2>1. /\ ~in_tick /\ in_tick' /\ tick_' = tick_ + 1 /\ UNCHANGED <<timers_, added>>
    BY <1>3 DEF Tick
  <2>2. Waiting' = {t \in Waiting : t.timeout > tick_'}
    BY <2>1 DEF Waiting
  <2>3. Alarms' = {a \in Alarms : a.due > tick_'}
    BY <2>2 DEF Alarms, Alarm
  <2> QED BY <2>1, <2>3 DEF Clock!Tick, Clock!Next
<1>4. ASSUME NEW t \in timers_, TaskTimerExpires(t) \/ TimerExpires(t)
      PROVE  [Clock!Next]_(Clock!vars)
  <2>1. in_tick /\ in_tick' = in_tick /\ tick_' = tick_ /\ t.timeout <= tick_
    BY <1>4, ExpiryEffect
  <2>2. t \notin Waiting
    BY <1>0, <2>1 DEF Waiting
  <2>3. CASE timers_' = timers_ \ {t} /\ added' = added
    <3>1. Waiting' = Waiting
      BY <2>1, <2>2, <2>3 DEF Waiting
    <3> QED BY <1>a, <2>1, <2>3, <3>1
  <2>4. ASSUME NEW new \in TimerType, new.number = added, new.value = "task",
               new.timeout = tick_ + kTaskTimerPeriod,
               timers_' = (timers_ \ {t}) \cup {new}, added' = added + 1
        PROVE  Clock!Set
    <3>1. new.timeout > tick_
      BY <1>0, <2>4
    <3>2. Waiting' = Waiting \cup {new}
      BY <2>1, <2>2, <2>4, <3>1 DEF Waiting
    <3> QED BY <1>b, <2>1, <2>4, <3>2
  <2> QED BY <1>4, <2>3, <2>4, ExpiryEffect DEF Clock!Next
<1>5. CASE TickReturns
  <2>1. /\ \A t \in timers_ : t.timeout > tick_
        /\ UNCHANGED <<tick_, timers_, added>>
    BY <1>0, <1>5 DEF TickReturns, Top, Expired
  <2>2. Waiting' = Waiting
    BY <2>1 DEF Waiting
  <2> QED BY <1>a, <2>1, <2>2
<1> QED BY <1>1, <1>2, <1>3, <1>4, <1>5, QueueEffect DEF Clock!Next

\* The priority queue and the loop of Tick implement the alarm clock.
THEOREM TimerRefinement == TimerSpec => ImplementsAlarmClock
<1>1. TimerInit => Clock!Init
  BY DEF TimerInit, Clock!Init, Alarms, Waiting
<1> QED BY <1>1, TimerStepRefines, TimerInvariant, PTL
        DEF TimerSpec, ImplementsAlarmClock, Clock!Spec
=============================================================================
