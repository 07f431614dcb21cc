----------------------------- MODULE FatProofs -----------------------------
(***************************************************************************)
(* Proofs about Fat for any volume, any number of tasks, any paths and     *)
(* data, and whatever Misuse allows: calls of several tasks at a time too. *)
(***************************************************************************)
EXTENDS Fat, WellFoundedInduction, TLAPS

(***************************************************************************)
(* The search for a free cluster.                                          *)
(***************************************************************************)
\* A set of natural numbers that is not empty has a least element.
LEMMA Least ==
  ASSUME NEW S, S \subseteq Nat, S # {}
  PROVE  FE!Min(S) \in S /\ \A y \in S : FE!Min(S) <= y
<1>1. PICK x \in S : \A y \in S : <<y, x>> \notin OpToRel(<, Nat)
  BY WFMin, NatLessThanWellFounded
<1>2. ASSUME NEW y \in S PROVE x <= y
  <2>1. <<y, x>> \notin {ss \in Nat \X Nat : ss[1] < ss[2]}
    BY <1>1 DEF OpToRel
  <2>2. x \in Nat /\ y \in Nat /\ ~(y < x)
    BY <2>1
  <2> QED BY <2>2
<1> QED BY <1>2 DEF FE!Min

Table == {0, EOC} \cup Cluster

\* The allocation table is that of the volume.
TableInv == "fat" \in DOMAIN vol /\ vol.fat \in [Cluster -> Table]

\* A call that is extending a chain remembers where it has searched.
CallInv ==
  /\ DOMAIN call = Task
  /\ \A u \in Task :
       /\ "at" \in DOMAIN call[u]
       /\ call[u].at = "link" =>
            /\ {"current", "candidate", "left"} \subseteq DOMAIN call[u]
            /\ call[u].candidate \in Nat /\ call[u].candidate >= 2

Taken(c) == vol.fat[c] # 0 \/ c \in LinkedLast

\* What a call has searched is taken: no cluster ever becomes free again.
SearchInv ==
  \A u \in Task : call[u].at = "link" =>
    \A c \in Cluster : c < call[u].candidate => Taken(c)

IInv == TableInv /\ CallInv /\ SearchInv /\ OverrunOnlyWhenFull

\* The first free cluster, and what lies before it.
LEMMA FirstFree ==
  ASSUME NEW from \in Nat, from >= 2, FreeFrom(vol, from) # {},
         NEW m, m = FE!Min(FreeFrom(vol, from))
  PROVE  /\ m \in Cluster /\ from <= m
         /\ \A c \in Cluster : from <= c /\ c < m => vol.fat[c] # 0
<1>0. Last \in Nat
  BY VolumeAssumption
<1>1. \A f : f \in FreeFrom(vol, from) <=> f \in from .. Last /\ vol.fat[f] = 0
  BY DEF FreeFrom
<1>2. FreeFrom(vol, from) \subseteq Nat
  BY <1>0, <1>1
<1>3. m \in FreeFrom(vol, from) /\ \A y \in FreeFrom(vol, from) : m <= y
  BY <1>2, Least
<1>4. m \in from .. Last
  BY <1>1, <1>3
<1>5. ASSUME NEW c \in Cluster, from <= c, c < m PROVE vol.fat[c] # 0
  <2>1. c \in from .. Last /\ ~(m <= c)
    BY <1>0, <1>4, <1>5 DEF Cluster
  <2> QED BY <1>1, <1>3, <2>1
<1> QED BY <1>0, <1>4, <1>5 DEF Cluster

(***************************************************************************)
(* The steps.                                                              *)
(***************************************************************************)
\* A step that changes no table and lets no call begin or go on extending.
LEMMA QuietStep ==
  ASSUME IInv, vol'.fat = vol.fat, "fat" \in DOMAIN vol', DOMAIN call' = Task, UNCHANGED overrun,
         \A u \in Task : \/ call'[u] = call[u]
                         \/ /\ "at" \in DOMAIN call'[u] /\ call'[u].at # "link"
                            /\ call[u].at # "link"
  PROVE  IInv'
<1>1. LinkedLast' = LinkedLast
  BY DEF LinkedLast, Active, Idle, IInv
<1>2. \A c : Taken(c)' <=> Taken(c)
  BY <1>1 DEF Taken
<1>3. TableInv'
  BY DEF IInv, TableInv
<1>4. CallInv'
  BY DEF IInv, CallInv
<1>5. SearchInv'
  BY <1>2 DEF IInv, SearchInv
<1>6. OverrunOnlyWhenFull'
  BY <1>2 DEF IInv, OverrunOnlyWhenFull, Taken
<1> QED BY <1>3, <1>4, <1>5, <1>6 DEF IInv

\* A step of t's call, which goes on as x: no cluster becomes free, and one that
\* the call had linked last is linked on or ends a chain.
LEMMA CallStep ==
  ASSUME IInv, ~overrun, UNCHANGED overrun, NEW t \in Task, NEW x,
         TableInv', \A f \in Cluster : vol.fat[f] # 0 => vol'.fat[f] # 0,
         call' = [call EXCEPT ![t] = x], "at" \in DOMAIN x,
         call[t].at = "link" =>
           \A f \in Cluster : f = call[t].current => vol'.fat[f] # 0,
         x.at = "link" =>
           /\ {"current", "candidate", "left"} \subseteq DOMAIN x
           /\ x.candidate \in Nat /\ x.candidate >= 2
           /\ \A f \in Cluster :
                f < x.candidate => f = x.current \/ vol'.fat[f] # 0 \/ Taken(f)
  PROVE  IInv'
<1>2. CallInv'
  BY DEF IInv, CallInv
<1>3. \A u \in Task : call'[u] = IF u = t THEN x ELSE call[u]
  BY DEF IInv, CallInv
<1>5. \A f : f \in LinkedLast =>
        \E u \in Task : call[u].at = "link" /\ call[u].current = f
  BY DEF LinkedLast, Active
<1>6. \A f, u : u \in Task /\ call'[u].at = "link" /\ call'[u].current = f => f \in LinkedLast'
  BY DEF LinkedLast, Active, Idle
<1>7. ASSUME NEW f \in Cluster, Taken(f) PROVE Taken(f)'
  <2>1. CASE vol.fat[f] # 0
    BY <2>1 DEF Taken
  <2>2. CASE f \in LinkedLast
    <3>1. PICK u \in Task : call[u].at = "link" /\ call[u].current = f
      BY <2>2, <1>5
    <3>2. CASE u = t
      BY <3>1, <3>2 DEF Taken
    <3>3. CASE u # t
      BY <3>1, <3>3, <1>3, <1>6 DEF Taken
    <3> QED BY <3>2, <3>3
  <2> QED BY <1>7, <2>1, <2>2 DEF Taken
<1>8. SearchInv'
  <2> SUFFICES ASSUME NEW u \in Task, call'[u].at = "link", NEW f \in Cluster,
                      f < call'[u].candidate
               PROVE  Taken(f)'
    BY DEF SearchInv
  <2>1. CASE u = t
    <3>1. f = x.current \/ vol'.fat[f] # 0 \/ Taken(f)
      BY <2>1, <1>3
    <3>2. x.current \in LinkedLast'
      BY <2>1, <1>3, <1>6
    <3> QED BY <3>1, <3>2, <1>7 DEF Taken
  <2>2. CASE u # t
    BY <2>2, <1>3, <1>7 DEF IInv, SearchInv
  <2> QED BY <2>1, <2>2
<1>9. OverrunOnlyWhenFull'
  BY DEF OverrunOnlyWhenFull
<1> QED BY <1>2, <1>8, <1>9 DEF IInv

\* ... and one that begins to extend a chain, or goes on with the call.
LEMMA BeginStep ==
  ASSUME IInv, ~overrun, UNCHANGED overrun, NEW t \in Task, NEW x,
         TableInv', \A f \in Cluster : vol.fat[f] # 0 => vol'.fat[f] # 0,
         call' = [call EXCEPT ![t] = x], "at" \in DOMAIN x,
         call[t].at # "link",
         x.at # "link" \/ ({"current", "candidate", "left"} \subseteq DOMAIN x /\ x.candidate = 2)
  PROVE  IInv'
<1>1. x.at = "link" =>
        /\ {"current", "candidate", "left"} \subseteq DOMAIN x
        /\ x.candidate \in Nat /\ x.candidate >= 2
        /\ \A f \in Cluster : ~(f < x.candidate)
  BY VolumeAssumption DEF Cluster
<1> QED BY <1>1, CallStep

\* Linking a cluster changes one entry of the table, to one that is not free.
LEMMA LinkedEffect ==
  ASSUME TableInv, NEW c, NEW n \in Table \ {0}
  PROVE  /\ "fat" \in DOMAIN Linked(c, n)
         /\ Linked(c, n).fat \in [Cluster -> Table]
         /\ \A f \in Cluster : Linked(c, n).fat[f] = IF f = c THEN n ELSE vol.fat[f]
<1>1. Linked(c, n).fat = [vol.fat EXCEPT ![c] = n] /\ DOMAIN Linked(c, n) = DOMAIN vol
  BY DEF TableInv, Linked
<1> QED BY <1>1 DEF TableInv

\* Entering where a file starts leaves the table alone.
LEMMA StartedEffect ==
  ASSUME NEW v, "fat" \in DOMAIN v, NEW s, NEW c
  PROVE  "fat" \in DOMAIN Started(v, s, c) /\ Started(v, s, c).fat = v.fat
BY DEF Started

\* A search that leaves the table has passed every cluster.
LEMMA LeaveStep ==
  ASSUME IInv, LeaveTable, \A c \in Cluster : Taken(c)
  PROVE  IInv'
<1>1. LinkedLast' = LinkedLast
  BY DEF LeaveTable, LinkedLast, Active
<1>2. \A c : Taken(c)' <=> Taken(c)
  BY <1>1 DEF LeaveTable, Taken
<1>3. TableInv' /\ CallInv'
  BY DEF IInv, TableInv, CallInv, LeaveTable
<1>4. SearchInv'
  BY <1>2 DEF IInv, SearchInv, LeaveTable
<1>5. OverrunOnlyWhenFull'
  BY <1>2 DEF OverrunOnlyWhenFull, Taken
<1> QED BY <1>3, <1>4, <1>5 DEF IInv

\* OpenFile, Close, Read and Load.
LEMMA ReadingStep ==
  ASSUME IInv, UNCHANGED <<vol, call, overrun>>
  PROVE  IInv'
<1>1. "fat" \in DOMAIN vol' /\ DOMAIN call' = Task
  BY DEF IInv, TableInv, CallInv
<1> QED BY <1>1, QuietStep

\* A cluster is never numbered 0, and the end of a chain is not either.
LEMMA NotFree == EOC \in Table \ {0} /\ \A c \in Cluster : c \in Table \ {0}
BY VolumeAssumption DEF Table, EOC, Cluster

\* CreateFile: a free slot is filled, or the directory begins to be extended.
LEMMA CreateStep ==
  ASSUME IInv, NEW t \in Task, NEW p, CreateFile(t, p) PROVE IInv'
<1>1. ~overrun /\ call[t] = Idle /\ UNCHANGED overrun
  BY DEF CreateFile, MayOpen, Begins
<1>2. PICK c, free :
        \/ /\ vol' = [vol EXCEPT !.dir[free[1][1]][free[1][2]] = NewEntry(@, p)]
           /\ UNCHANGED call
        \/ /\ call' = [call EXCEPT ![t] =
                [at |-> "link", for |-> "dir", path |-> p,
                 current |-> End(vol, c), candidate |-> 2, left |-> 1]]
           /\ UNCHANGED vol
  BY DEF CreateFile
<1>3. CASE vol' = [vol EXCEPT !.dir[free[1][1]][free[1][2]] = NewEntry(@, p)] /\ UNCHANGED call
  <2>1. vol'.fat = vol.fat /\ "fat" \in DOMAIN vol' /\ DOMAIN call' = Task
    BY <1>3 DEF IInv, TableInv, CallInv
  <2> QED BY <2>1, <1>1, <1>3, QuietStep
<1> DEFINE x == [at |-> "link", for |-> "dir", path |-> p,
                 current |-> End(vol, c), candidate |-> 2, left |-> 1]
<1>4. CASE UNCHANGED vol /\ call' = [call EXCEPT ![t] = x]
  <2>1. TableInv' /\ \A f \in Cluster : vol.fat[f] # 0 => vol'.fat[f] # 0
    BY <1>4 DEF IInv, TableInv
  <2>2. "at" \in DOMAIN x /\ {"current", "candidate", "left"} \subseteq DOMAIN x /\ x.candidate = 2
    OBVIOUS
  <2>3. call[t].at # "link"
    BY <1>1 DEF Idle
  <2> HIDE DEF x
  <2> QED BY <2>1, <2>2, <2>3, <1>1, <1>4, BeginStep
<1> QED BY <1>2, <1>3, <1>4

\* Write begins.
LEMMA WriteStep ==
  ASSUME IInv, NEW t \in Task, NEW data, Write(t, data) PROVE IInv'
<1>1. call[t] = Idle /\ UNCHANGED <<vol, overrun>>
  BY DEF Write, Begins
<1>2. \E x : "at" \in DOMAIN x /\ x.at # "link" /\ call' = [call EXCEPT ![t] = x]
  <2>1. "at" \in DOMAIN Copying(t, data) /\ Copying(t, data).at = "copy"
    BY DEF Copying
  <2>2. /\ "at" \in DOMAIN [Copying(t, data) EXCEPT !.at = "first"]
        /\ [Copying(t, data) EXCEPT !.at = "first"].at = "first"
    BY DEF Copying
  <2> QED BY <2>1, <2>2 DEF Write
<1>3. PICK x : "at" \in DOMAIN x /\ x.at # "link" /\ call' = [call EXCEPT ![t] = x]
  BY <1>2
<1>4. call[t].at # "link"
  BY <1>1 DEF Idle
<1>5. /\ DOMAIN call' = Task
      /\ \A u \in Task : call'[u] = IF u = t THEN x ELSE call[u]
  BY <1>3 DEF IInv, CallInv
<1>6. "fat" \in DOMAIN vol'
  BY <1>1 DEF IInv, TableInv
<1> QED BY <1>1, <1>3, <1>4, <1>5, <1>6, QuietStep

\* The clusters that an unsuccessful search has passed.
LEMMA NoneFree ==
  ASSUME NEW from \in Nat, FreeFrom(vol, from) = {}, NEW c \in Cluster, from <= c
  PROVE  vol.fat[c] # 0
<1>1. c \in from .. Last
  BY VolumeAssumption DEF Cluster
<1> QED BY <1>1 DEF FreeFrom

\* AllocateClusterChain takes its first cluster.
LEMMA AllocateStep ==
  ASSUME IInv, NEW t \in Task, AllocateFirst(t) PROVE IInv'
<1>1. call[t].at = "first" /\ ~overrun
  BY DEF AllocateFirst
<1>2. \A f \in Cluster : 2 <= f
  BY VolumeAssumption DEF Cluster
<1>3. CASE FreeFrom(vol, 2) = {} /\ LeaveTable
  <2>1. \A c \in Cluster : Taken(c)
    BY <1>2, <1>3, NoneFree DEF Taken
  <2> QED BY <1>3, <2>1, LeaveStep
<1>4. CASE FreeFrom(vol, 2) # {} /\ ~LeaveTable
  <2> DEFINE c == FE!Min(FreeFrom(vol, 2))
             more == NumCluster(Len(call[t].data)) - 1
             first == Extending(t, c, c, more, "first")
  <2>1. /\ \/ /\ vol' = Linked(c, EOC)
              /\ call' = [call EXCEPT ![t] = first]
           \/ /\ vol' = Started(Linked(c, EOC), fd[t].entry, c)
              /\ call' = [call EXCEPT ![t] = Resumed(t)]
        /\ UNCHANGED overrun
    BY <1>4 DEF AllocateFirst
  <2>2. c \in Cluster
    BY <1>4, FirstFree
  <2>3. /\ "fat" \in DOMAIN Linked(c, EOC)
        /\ Linked(c, EOC).fat \in [Cluster -> Table]
        /\ \A f \in Cluster : Linked(c, EOC).fat[f] = IF f = c THEN EOC ELSE vol.fat[f]
    BY NotFree, LinkedEffect DEF IInv
  <2>4. vol'.fat = Linked(c, EOC).fat /\ "fat" \in DOMAIN vol'
    BY <2>1, <2>3, StartedEffect
  <2>5. TableInv' /\ \A f \in Cluster : vol.fat[f] # 0 => vol'.fat[f] # 0
    BY <2>3, <2>4, NotFree DEF TableInv
  <2>6. /\ "at" \in DOMAIN first /\ {"current", "candidate", "left"} \subseteq DOMAIN first
        /\ first.candidate = 2
    BY DEF Extending
  <2>7. "at" \in DOMAIN Resumed(t) /\ Resumed(t).at = "copy"
    BY DEF Resumed
  <2> HIDE DEF first
  <2>9. CASE call' = [call EXCEPT ![t] = first]
    BY <1>1, <2>1, <2>5, <2>6, <2>9, BeginStep
  <2>10. CASE call' = [call EXCEPT ![t] = Resumed(t)]
    BY <1>1, <2>1, <2>5, <2>7, <2>10, BeginStep
  <2> QED BY <2>1, <2>9, <2>10
<1>5. CASE LeaveTable /\ FreeFrom(vol, 2) # {}
  <2>1. FALSE
    BY <1>1, <1>5 DEF AllocateFirst, LeaveTable
  <2> QED BY <2>1
<1> QED BY <1>3, <1>4, <1>5 DEF AllocateFirst

\* ExtendCluster links one cluster: what lies between the candidate and it is in use.
LEMMA ExtendStep ==
  ASSUME IInv, NEW t \in Task, Link(t) PROVE IInv'
<1> DEFINE from == call[t].candidate
<1>1. call[t].at = "link" /\ ~overrun
  BY DEF Link
<1>2. /\ {"at", "current", "candidate", "left"} \subseteq DOMAIN call[t]
      /\ from \in Nat /\ from >= 2
      /\ \A f \in Cluster : f < from => Taken(f)
  BY <1>1 DEF IInv, CallInv, SearchInv
<1>3. CASE FreeFrom(vol, from) = {} /\ LeaveTable
  <2>1. ASSUME NEW f \in Cluster PROVE Taken(f)
    <3>1. CASE f < from
      BY <1>2, <3>1
    <3>2. CASE from <= f
      BY <1>2, <1>3, <3>2, NoneFree DEF Taken
    <3>3. f \in Nat
      BY VolumeAssumption DEF Cluster
    <3> QED BY <1>2, <3>1, <3>2, <3>3
  <2> QED BY <1>3, <2>1, LeaveStep
<1>4. CASE FreeFrom(vol, from) # {} /\ ~LeaveTable
  <2> DEFINE c == FE!Min(FreeFrom(vol, from))
             x == [call[t] EXCEPT !.current = c, !.candidate = c + 1, !.left = @ - 1]
  <2>1. /\ vol' = Linked(call[t].current, c)
        /\ call' = [call EXCEPT ![t] = x]
        /\ UNCHANGED overrun
    BY <1>4 DEF Link
  <2>2. c \in Cluster /\ from <= c /\ \A f \in Cluster : from <= f /\ f < c => vol.fat[f] # 0
    BY <1>2, <1>4, FirstFree
  <2>3. /\ "fat" \in DOMAIN vol' /\ vol'.fat \in [Cluster -> Table]
        /\ \A f \in Cluster :
             vol'.fat[f] = IF f = call[t].current THEN c ELSE vol.fat[f]
    BY <2>1, <2>2, NotFree, LinkedEffect DEF IInv
  <2>4. /\ TableInv' /\ c # 0
        /\ \A f \in Cluster : vol.fat[f] # 0 => vol'.fat[f] # 0
        /\ \A f \in Cluster : f = call[t].current => vol'.fat[f] # 0
    BY <2>2, <2>3, NotFree DEF TableInv
  <2>5. /\ "at" \in DOMAIN x /\ {"current", "candidate", "left"} \subseteq DOMAIN x
        /\ x.current = c /\ x.candidate = c + 1
    BY <1>2
  <2>6. x.candidate \in Nat /\ x.candidate >= 2
    BY <2>2, <2>5, VolumeAssumption DEF Cluster
  <2>7. ASSUME NEW f \in Cluster, f < x.candidate
        PROVE  f = x.current \/ vol'.fat[f] # 0 \/ Taken(f)
    <3>1. f \in Nat /\ c \in Nat
      BY <2>2, VolumeAssumption DEF Cluster
    <3>2. f = c \/ f < from \/ (from <= f /\ f < c)
      BY <1>2, <2>5, <2>7, <3>1
    <3> QED BY <1>2, <2>2, <2>5, <3>2 DEF Taken
  <2> HIDE DEF x
  <2> QED BY <1>1, <2>1, <2>4, <2>5, <2>6, <2>7, CallStep
<1>5. ~(LeaveTable /\ FreeFrom(vol, from) # {})
  BY <1>1 DEF Link, LeaveTable
<1> QED BY <1>3, <1>4, <1>5 DEF Link

\* ExtendCluster ends the chain with the cluster linked last.
LEMMA SealStep ==
  ASSUME IInv, NEW t \in Task, Seal(t) PROVE IInv'
<1> DEFINE end == call[t].current
           v == Linked(end, EOC)
<1>1. call[t].at = "link" /\ ~overrun /\ UNCHANGED overrun
  BY DEF Seal
<1>2. /\ "fat" \in DOMAIN v /\ v.fat \in [Cluster -> Table]
      /\ \A f \in Cluster : v.fat[f] = IF f = end THEN EOC ELSE vol.fat[f]
  BY NotFree, LinkedEffect DEF IInv
<1>3. "fat" \in DOMAIN vol' /\ vol'.fat = v.fat
  <2>1. \/ vol' = Started(v, fd[t].entry, call[t].head)
        \/ vol' = v
        \/ vol' = [v EXCEPT !.dir[end] = [EmptyCluster EXCEPT ![1] = NewEntry(@, call[t].path)]]
    BY DEF Seal
  <2>2. CASE vol' = Started(v, fd[t].entry, call[t].head)
    BY <1>2, <2>2, StartedEffect
  <2> HIDE DEF v
  <2>3. CASE vol' = [v EXCEPT !.dir[end] =
                       [EmptyCluster EXCEPT ![1] = NewEntry(@, call[t].path)]]
    BY <1>2, <2>3
  <2> QED BY <1>2, <2>1, <2>2, <2>3
<1>4. PICK x : "at" \in DOMAIN x /\ x.at # "link" /\ call' = [call EXCEPT ![t] = x]
  <2>1. "at" \in DOMAIN Idle /\ Idle.at = "idle"
    BY DEF Idle
  <2>2. "at" \in DOMAIN Resumed(t) /\ Resumed(t).at = "copy"
    BY DEF Resumed
  <2>3. call' = [call EXCEPT ![t] = Idle] \/ call' = [call EXCEPT ![t] = Resumed(t)]
    BY DEF Seal
  <2> QED BY <2>1, <2>2, <2>3
<1>5. /\ TableInv'
      /\ \A f \in Cluster : vol.fat[f] # 0 => vol'.fat[f] # 0
      /\ \A f \in Cluster : f = end => vol'.fat[f] # 0
  BY <1>2, <1>3, NotFree DEF TableInv
<1> QED BY <1>1, <1>4, <1>5, CallStep

\* Write goes on to the next cluster, or begins to extend the chain.
LEMMA NextSectorStep ==
  ASSUME IInv, NEW t \in Task, NextSector(t) PROVE IInv'
<1>1. call[t].at # "link" /\ ~overrun /\ UNCHANGED <<vol, overrun>>
  BY DEF NextSector, AtCopy
<1>2. TableInv' /\ \A f \in Cluster : vol.fat[f] # 0 => vol'.fat[f] # 0
  BY <1>1 DEF IInv, TableInv
<1> DEFINE x == Extending(t, fd[t].wr_cluster, End(vol, fd[t].wr_cluster),
                          NumCluster(Len(call[t].data) - call[t].total), "more")
<1>3. CASE call' = [call EXCEPT ![t] = x]
  <2>1. /\ "at" \in DOMAIN x /\ {"current", "candidate", "left"} \subseteq DOMAIN x
        /\ x.candidate = 2
    BY DEF Extending
  <2> HIDE DEF x
  <2> QED BY <1>1, <1>2, <1>3, <2>1, BeginStep
<1>4. CASE UNCHANGED call
  BY <1>1, <1>4, ReadingStep
<1> QED BY <1>3, <1>4 DEF NextSector

\* Write copies to one cluster.
LEMMA CopyStep ==
  ASSUME IInv, NEW t \in Task, Copy(t) PROVE IInv'
<1>1. call[t].at = "copy" /\ UNCHANGED overrun
  BY DEF Copy, AtCopy
<1>2. PICK n : call' = [call EXCEPT ![t].total = @ + n]
  BY DEF Copy
<1>3. /\ DOMAIN call' = Task
      /\ \A u \in Task : IF u = t THEN "at" \in DOMAIN call'[u] /\ call'[u].at = "copy"
                                  ELSE call'[u] = call[u]
  BY <1>1, <1>2 DEF IInv, CallInv
<1>4. \E b : vol' = [vol EXCEPT !.sector[fd[t].wr_cluster] = b]
  BY DEF Copy
<1>5. vol'.fat = vol.fat /\ "fat" \in DOMAIN vol'
  BY <1>4 DEF IInv, TableInv
<1> QED BY <1>1, <1>3, <1>5, QuietStep

\* Write returns.
LEMMA ReturnStep ==
  ASSUME IInv, NEW t \in Task, WriteReturns(t) PROVE IInv'
<1>1. call[t].at = "copy" /\ UNCHANGED overrun /\ call' = [call EXCEPT ![t] = Idle]
  BY DEF WriteReturns
<1>2. /\ DOMAIN call' = Task
      /\ \A u \in Task : IF u = t THEN "at" \in DOMAIN call'[u] /\ call'[u].at = "idle"
                                  ELSE call'[u] = call[u]
  BY <1>1 DEF IInv, CallInv, Idle
<1>3. PICK size : vol' = [vol EXCEPT !.dir[fd[t].entry[1]][fd[t].entry[2]].size = size]
  BY DEF WriteReturns
<1>4. vol'.fat = vol.fat /\ "fat" \in DOMAIN vol'
  BY <1>3 DEF IInv, TableInv
<1> QED BY <1>1, <1>2, <1>4, QuietStep

(***************************************************************************)
(* The theorems.                                                           *)
(***************************************************************************)
\* At the beginning no call has searched anything.
LEMMA InitIInv == Init => IInv
<1> SUFFICES ASSUME Init PROVE IInv
  OBVIOUS
<1>1. TableInv
  BY VolumeAssumption DEF Init, TableInv, Table
<1>2. CallInv /\ SearchInv
  BY DEF Init, CallInv, SearchInv, Idle
<1>3. OverrunOnlyWhenFull
  BY DEF Init, OverrunOnlyWhenFull
<1> QED BY <1>1, <1>2, <1>3 DEF IInv

\* Every step keeps the invariant.
LEMMA NextIInv == IInv /\ [Next]_vars => IInv'
<1> SUFFICES ASSUME IInv, [Next]_vars PROVE IInv'
  OBVIOUS
<1>1. CASE UNCHANGED vars
  BY <1>1, ReadingStep DEF vars
<1>2. ASSUME NEW t \in Task, NEW p, OpenFile(t, p) PROVE IInv'
  BY <1>2, ReadingStep DEF OpenFile
<1>3. ASSUME NEW t \in Task, NEW p, CreateFile(t, p) PROVE IInv'
  BY <1>3, CreateStep
<1>4. ASSUME NEW t \in Task, Close(t) PROVE IInv'
  BY <1>4, ReadingStep DEF Close
<1>5. ASSUME NEW t \in Task, NEW n, Read(t, n) \/ Load(t, n) PROVE IInv'
  BY <1>5, ReadingStep DEF Read, Load
<1>6. ASSUME NEW t \in Task, NEW data, Write(t, data) PROVE IInv'
  BY <1>6, WriteStep
<1>7. ASSUME NEW t \in Task,
             AllocateFirst(t) \/ Link(t) \/ Seal(t) \/ NextSector(t) \/ Copy(t) \/ WriteReturns(t)
      PROVE  IInv'
  BY <1>7, AllocateStep, ExtendStep, SealStep, NextSectorStep, CopyStep, ReturnStep
<1> QED BY <1>1, <1>2, <1>3, <1>4, <1>5, <1>6, <1>7 DEF Next

\* A search for a free cluster runs off the allocation table only when no
\* cluster is free, but those that calls have linked last and not yet marked as
\* the end of their chains (ExtendCluster, AllocateClusterChain).
THEOREM OverrunOnlyWhenFullHolds == Spec => []OverrunOnlyWhenFull
<1>1. IInv => OverrunOnlyWhenFull
  BY DEF IInv
<1> QED BY <1>1, InitIInv, NextIInv, PTL DEF Spec
=============================================================================
