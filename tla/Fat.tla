-------------------------------- MODULE Fat --------------------------------
(***************************************************************************)
(* The FAT32 volume in memory (kernel/fat.cpp, fat.hpp), as the system     *)
(* calls (syscall.cpp) and the terminal (terminal.cpp) use it: finding,    *)
(* creating and listing files, reading, loading and writing them.          *)
(*                                                                         *)
(* Nothing protects the volume: a task can be preempted inside Write or    *)
(* CreateFile.  Finding the next free cluster and linking it, ending the   *)
(* chain, and copying to one cluster are steps; every other call is one.   *)
(* Cluster numbers are those of the volume, 2 .. Last, 0 marks a free one  *)
(* and EOC is the end of a chain.                                          *)
(***************************************************************************)
EXTENDS Integers, Sequences, FiniteSets

SE == INSTANCE SequencesExt
FE == INSTANCE FiniteSetsExt

CONSTANTS
  Task,
  Last,                \* the last cluster of the volume
  bytes_per_cluster, kSlots,   \* bytes and directory entries of a cluster
  kBase, kExt,         \* letters of a name and of its extension (8 and 3)
  Upper,               \* toupper
  Volume,              \* the initial [fat, dir, sector, text], see below
  root_cluster,
  Path,                \* [names, slash]: the names and whether a slash follows
  Data, Lengths,       \* what is written, and how much is read
  Misuse,              \* what tasks do although it is not supported, see below
  MaxOpens, MaxSize    \* bounds: descriptors ever opened, bytes of a file

Cluster == 2 .. Last
EOC == Last + 1
Blank == " "
Junk == "?"
Unused == <<>>         \* name[0] = 0x00
Deleted == <<Junk>>    \* name[0] = 0xe5
None == <<0, 0>>
Closed == [path |-> None]
Idle == [at |-> "idle"]

(***************************************************************************)
(* Three things that the code does not support, and that Misuse may allow: *)
(*   "crossing"  writing past the end of a cluster, except in whole        *)
(*               clusters                                                  *)
(*   "overlap"   calls of two tasks at the same time, one of which changes *)
(*               what the other uses                                       *)
(*   "stale"     reading or writing on from an offset beyond the end of a  *)
(*               file that was written shorter, or that was the end of the *)
(*               last cluster before the file grew                         *)
(***************************************************************************)
ASSUME MisuseAssumption == Misuse \subseteq {"crossing", "overlap", "stale"}
ASSUME VolumeAssumption ==
  /\ Last \in Nat /\ bytes_per_cluster \in Nat \ {0} /\ kSlots \in Nat \ {0}
  /\ kBase \in Nat /\ kExt \in Nat /\ MaxOpens \in Nat /\ MaxSize \in Nat
  /\ Volume.fat \in [Cluster -> {0, EOC} \cup Cluster]
  /\ root_cluster \in Cluster

VARIABLES
  text,     \* history: the bytes each path leads to, see TextOf
  vol,      \* the volume: its allocation table (fat), and its clusters read as
            \* directory entries [name, directory, first, size] (dir) and as bytes
            \* (sector)
  fd,       \* each task's FileDescriptor, or Closed
  call,     \* where in Write or CreateFile each task is, with its locals
  got,      \* what the last Read or Load returned
  overrun,  \* has a search for a free cluster left the table?
  opened    \* descriptors opened so far

vars == <<text, vol, fd, call, got, overrun, opened>>

(***************************************************************************)
(* Chains and directories.                                                 *)
(***************************************************************************)
NextCluster(v, c) == IF c \in Cluster THEN v.fat[c] ELSE EOC

\* The cluster n links on from c.
Follow(v, c, n) ==
  LET on[k \in 0 .. n] == IF k = 0 THEN c ELSE NextCluster(v, on[k - 1]) IN on[n]

\* The clusters from c to the end of the chain.
Chain(v, c) ==
  LET from[d \in 0 .. EOC, n \in 0 .. Last] ==
        IF d \notin Cluster THEN <<>>
        ELSE IF n = Last THEN <<d>> ELSE <<d>> \o from[NextCluster(v, d), n + 1]
  IN  from[c, 0]
End(v, c) == LET s == Chain(v, c) IN s[Len(s)]

Slots(v, c) ==
  SE!FoldLeft(LAMBDA s, d : s \o [k \in 1 .. kSlots |-> <<d, k>>], <<>>, Chain(v, c))
Entry(v, s) == v.dir[s[1]][s[2]]
EmptyCluster ==
  [i \in 1 .. kSlots |-> [name |-> Unused, directory |-> FALSE, first |-> 0, size |-> 0]]

(***************************************************************************)
(* Names are sequences of letters.  FindFile and CreateFile bring them     *)
(* into the form of an entry in two ways: NameIsEqual goes on after kBase  *)
(* letters, SetFileName stops there.                                       *)
(***************************************************************************)
Dots(n) == {p \in DOMAIN n : n[p] = "."}
Column(n, p) ==
  LET before == {q \in Dots(n) : q < p}
  IN  IF before = {} THEN p ELSE kBase + p - FE!Max(before)
NameIsEqual(entry, n) ==
  entry.name = [c \in 1 .. kBase + kExt |->
                  LET at == {p \in DOMAIN n \ Dots(n) : Column(n, p) = c}
                  IN  IF at = {} THEN Blank ELSE Upper[n[FE!Max(at)]]]
\* Mutant: the letters are stored as they were given.
SetFileNameAsGiven(n) ==
  LET dot == IF Dots(n) = {} THEN Len(n) + 1 ELSE FE!Max(Dots(n))
      letter(p, end) == IF p < end THEN n[p] ELSE Blank
  IN  [c \in 1 .. kBase + kExt |->
         IF c <= kBase THEN letter(c, dot) ELSE letter(dot + c - kBase, Len(n) + 1)]
SetFileName(n) ==
  LET dot == IF Dots(n) = {} THEN Len(n) + 1 ELSE FE!Max(Dots(n))
      letter(p, end) == IF p < end THEN Upper[n[p]] ELSE Blank
  IN  [c \in 1 .. kBase + kExt |->
         IF c <= kBase THEN letter(c, dot) ELSE letter(dot + c - kBase, Len(n) + 1)]
FormatName(entry) ==
  LET part(from, to) == SelectSeq(SubSeq(entry.name, from, to), LAMBDA c : c # Blank)
      ext == part(kBase + 1, kBase + kExt)
  IN  part(1, kBase) \o (IF ext = <<>> THEN <<>> ELSE <<".">> \o ext)

\* The first entry of a directory that is unused or has the name.
Search(v, c, n) ==
  LET s == Slots(v, c)
      k == SE!SelectInSeq(s, LAMBDA e : Entry(v, e).name = Unused \/ NameIsEqual(Entry(v, e), n))
  IN  IF k = 0 \/ Entry(v, s[k]).name = Unused THEN None ELSE s[k]

FindFrom(v, names, cluster) ==
  LET find[k \in 1 .. Len(names), c \in 0 .. EOC] ==
        LET s == Search(v, IF c = 0 THEN root_cluster ELSE c, names[k])
        IN  IF s # None /\ Entry(v, s).directory /\ k < Len(names)
            THEN find[k + 1, Entry(v, s).first]
            ELSE [slot |-> s, post_slash |-> k < Len(names)]
  IN  find[1, cluster]
FindFile(v, p) == LET f == FindFrom(v, p.names, 0)
               IN  [f EXCEPT !.post_slash = @ \/ p.slash]

\* CreateFile's directory: the root, or that of all names but the last.
ParentDir(v, p) ==
  IF Len(p.names) = 1 THEN root_cluster
  ELSE LET s == FindFrom(v, SE!Front(p.names), 0).slot
       IN  IF s = None THEN EOC ELSE Entry(v, s).first
FreeSlots(v, c) == SelectSeq(Slots(v, c), LAMBDA s : Entry(v, s).name \in {Unused, Deleted})

\* What ls shows of a directory.
ListAllEntries(v, c) ==
  LET s   == Slots(v, c)
      k   == SE!SelectInSeq(s, LAMBDA e : Entry(v, e).name = Unused)
      all == IF k = 0 THEN s ELSE SubSeq(s, 1, k - 1)
  IN  SelectSeq(all, LAMBDA e : Entry(v, e).name # Deleted)

\* Mutant: the last cluster is forgotten.
FreeBelowLast(v, c) == {f \in c .. Last - 1 : v.fat[f] = 0}
FreeFrom(v, c) == {f \in c .. Last : v.fat[f] = 0}
NumCluster(bytes) == (bytes + bytes_per_cluster - 1) \div bytes_per_cluster

(***************************************************************************)
(* Which calls may begin.                                                  *)
(***************************************************************************)
Active == {u \in Task : call[u] # Idle}
UsedBy(u) == IF call[u].for = "dir" THEN {} ELSE {fd[u].entry}
Apart(t) == \/ "overlap" \in Misuse
            \/ fd[t] # Closed /\ \A u \in Active : fd[t].entry \notin UsedBy(u)
Alone == "overlap" \in Misuse \/ Active = {}
Settled == "overlap" \in Misuse \/ \A u \in Active : call[u].for # "dir"
Begins(t) == call[t] = Idle /\ ~overrun

Size(t) == Entry(vol, fd[t].entry).size
Fresh(t) ==
  \/ "stale" \in Misuse
  \/ /\ fd[t].rd_off <= Size(t)
     /\ fd[t].rd_cluster = EOC => fd[t].rd_off = Size(t)

(***************************************************************************)
(* What the volume holds: the bytes that each path leads to.  A file that  *)
(* is being written counts as it was before.                               *)
(***************************************************************************)
ByteAt(v, c, off) ==
  LET n == Follow(v, c, off \div bytes_per_cluster)
  IN  IF n \in Cluster THEN v.sector[n][(off % bytes_per_cluster) + 1] ELSE Junk
ReadBytes(v, c, off, n) == [i \in 1 .. n |-> ByteAt(v, c, off + i - 1)]
\* The bytes of a file.
Content(v, s) == ReadBytes(v, Entry(v, s).first, 0, Entry(v, s).size)

NoFile == <<"no file">>
UpperCase(p) == [i \in DOMAIN p.names |-> [k \in DOMAIN p.names[i] |-> Upper[p.names[i][k]]]]
FilePaths == {UpperCase(p) : p \in {q \in Path : ~q.slash}}
PathTo(f) == [names |-> f, slash |-> FALSE]
Writing == {[entry |-> fd[u].entry, before |-> call[u].before] :
              u \in {w \in Active : call[w].for # "dir"}}
TextOf(v, writing, f) ==
  LET s == FindFile(v, PathTo(f)).slot
      w == {x \in writing : x.entry = s}
  IN  IF s = None THEN NoFile
      ELSE IF w # {} THEN (CHOOSE x \in w : TRUE).before ELSE Content(v, s)

View == \E v \in {vol'}, w \in {Writing'} : text' = [f \in FilePaths |-> TextOf(v, w, f)]

(***************************************************************************)
(* OpenFile and the redirection of a command's output.                     *)
(***************************************************************************)
Descriptor(s, p) ==
  [entry |-> s, path |-> p, rd_off |-> 0, rd_cluster |-> 0, rd_cluster_off |-> 0,
   wr_off |-> 0, wr_cluster |-> 0, wr_cluster_off |-> 0]

Opened(t, s, p) == fd' = [fd EXCEPT ![t] = Descriptor(s, p)]

\* A new entry: the attribute and the first cluster are left as they are.
NewEntry(entry, p) ==
  [entry EXCEPT !.name = SetFileName(SE!Last(p.names)), !.size = 0]

MayOpen(t) == Begins(t) /\ fd[t] = Closed /\ opened < MaxOpens /\ opened' = opened + 1

OpenFile(t, p) ==
  /\ MayOpen(t) /\ Settled
  /\ \E f \in {FindFile(vol, p)} :
       /\ f.slot # None
       /\ ~Entry(vol, f.slot).directory /\ ~f.post_slash
       /\ Opened(t, f.slot, p)
  /\ UNCHANGED <<text, vol, call, got, overrun>>

CreateFile(t, p) ==
  /\ MayOpen(t) /\ Alone
  /\ FindFile(vol, p).slot = None
  /\ ~p.slash
  /\ \E c \in {ParentDir(vol, p)} : c # EOC /\ \E free \in {FreeSlots(vol, c)} :
       \/ /\ free # <<>>
          /\ vol' = [vol EXCEPT !.dir[free[1][1]][free[1][2]] = NewEntry(@, p)]
          /\ Opened(t, free[1], p)
          /\ UNCHANGED call
       \/ /\ free = <<>>
          /\ call' = [call EXCEPT ![t] =
               [at |-> "link", for |-> "dir", path |-> p,
                current |-> End(vol, c), candidate |-> 2, left |-> 1]]
          /\ UNCHANGED <<vol, fd>>
  /\ UNCHANGED <<got, overrun>>
  /\ View

\* The files of an application that has ended, or of a redirected command.
Close(t) ==
  /\ Begins(t) /\ fd[t] # Closed
  /\ fd' = [fd EXCEPT ![t] = Closed]
  /\ UNCHANGED <<text, vol, call, got, overrun, opened>>

(***************************************************************************)
(* FileDescriptor::Read and Load.                                          *)
(***************************************************************************)
\* Mutant: the length is limited by the size of the file.
ReadableOfWhole(t, off, n) == IF n < Size(t) THEN n ELSE Size(t)
\* len = min(len, file_size - rd_off_), of unsigned numbers.
Readable(t, off, n) ==
  LET rest == Size(t) - off IN IF rest < 0 \/ n < rest THEN n ELSE rest

Read(t, n) ==
  /\ Begins(t) /\ fd[t] # Closed /\ Apart(t) /\ Fresh(t)
  /\ \E len \in {Readable(t, fd[t].rd_off, n)} :
     \E c \in {IF fd[t].rd_cluster = 0 THEN Entry(vol, fd[t].entry).first ELSE fd[t].rd_cluster} :
     \E end \in {fd[t].rd_cluster_off + len} :
       /\ got' = ReadBytes(vol, c, fd[t].rd_cluster_off, len)
       /\ fd' = [fd EXCEPT ![t].rd_off = @ + len,
                           ![t].rd_cluster = Follow(vol, c, end \div bytes_per_cluster),
                           ![t].rd_cluster_off = end % bytes_per_cluster]
  /\ UNCHANGED <<text, vol, call, overrun, opened>>

\* PreparePageCache loads from pages that begin within the file.
Load(t, n) ==
  /\ Begins(t) /\ fd[t] # Closed /\ Apart(t)
  /\ \E off \in 0 .. Size(t) - 1 :
       got' = ReadBytes(vol, Entry(vol, fd[t].entry).first, off, Readable(t, off, n))
  /\ UNCHANGED <<text, vol, fd, call, overrun, opened>>

(***************************************************************************)
(* FileDescriptor::Write.                                                  *)
(***************************************************************************)
Room(d) == bytes_per_cluster - (d.wr_cluster_off % bytes_per_cluster)
Fits(t, data) ==
  \/ "crossing" \in Misuse
  \/ Len(data) <= Room(fd[t])
  \/ Room(fd[t]) = bytes_per_cluster /\ Len(data) % bytes_per_cluster = 0

Copying(t, data) ==
  [at |-> "copy", for |-> "write", data |-> data, total |-> 0, before |-> Content(vol, fd[t].entry)]

Write(t, data) ==
  /\ Begins(t) /\ fd[t] # Closed /\ Alone /\ Fits(t, data)
  /\ "stale" \in Misuse \/ fd[t].wr_off <= Size(t)
  /\ fd[t].wr_off + Len(data) <= MaxSize
  /\ \E first \in {Entry(vol, fd[t].entry).first} :
       \/ /\ fd[t].wr_cluster = 0 /\ first = 0
          /\ call' = [call EXCEPT ![t] = [Copying(t, data) EXCEPT !.at = "first"]]
          /\ UNCHANGED fd
       \/ /\ fd[t].wr_cluster # 0 \/ first # 0
          /\ call' = [call EXCEPT ![t] = Copying(t, data)]
          /\ fd' = [fd EXCEPT ![t].wr_cluster = IF @ = 0 THEN first ELSE @]
  /\ UNCHANGED <<vol, got, overrun, opened>>
  /\ View

\* ExtendCluster(c, n): the call it is part of is kept.
Extending(t, c, end, n, why) ==
  [at |-> "link", for |-> why, current |-> end, candidate |-> 2, left |-> n,
   head |-> c, data |-> call[t].data, total |-> call[t].total, before |-> call[t].before]
Resumed(t) ==
  [at |-> "copy", for |-> "write", data |-> call[t].data, total |-> call[t].total,
   before |-> call[t].before]

\* The volume with cluster c followed by n, or with the file at s starting at c.
Linked(c, n) == [vol EXCEPT !.fat[c] = n]
\* Mutant: the entry is not told where its file starts.
NotStarted(v, s, c) == v
Started(v, s, c) == [v EXCEPT !.dir[s[1]][s[2]].first = c]

LeaveTable == overrun' = TRUE /\ UNCHANGED <<text, vol, fd, call, got, opened>>

\* AllocateClusterChain: the first cluster; ExtendCluster adds the others.
AllocateFirst(t) ==
  /\ call[t].at = "first" /\ ~overrun
  /\ \E free \in {FreeFrom(vol, 2)} :
       \/ free = {} /\ LeaveTable
       \/ /\ free # {}
          /\ \E c \in {FE!Min(free)} :
             \E more \in {NumCluster(Len(call[t].data)) - 1} :
               \/ /\ more > 0
                  /\ vol' = Linked(c, EOC)
                  /\ call' = [call EXCEPT ![t] = Extending(t, c, c, more, "first")]
                  /\ UNCHANGED fd
               \/ /\ more <= 0
                  /\ vol' = Started(Linked(c, EOC), fd[t].entry, c)
                  /\ call' = [call EXCEPT ![t] = Resumed(t)]
                  /\ fd' = [fd EXCEPT ![t].wr_cluster = c]
          /\ UNCHANGED <<got, overrun, opened>>
          /\ View

\* One turn of ExtendCluster's loop that finds a free cluster.
Link(t) ==
  /\ call[t].at = "link" /\ call[t].left > 0 /\ ~overrun
  /\ \E free \in {FreeFrom(vol, call[t].candidate)} :
       \/ free = {} /\ LeaveTable
       \/ /\ free # {}
          /\ \E c \in {FE!Min(free)} :
               /\ vol' = Linked(call[t].current, c)
               /\ call' = [call EXCEPT ![t].current = c, ![t].candidate = c + 1,
                                       ![t].left = @ - 1]
          /\ UNCHANGED <<fd, got, overrun, opened>>
          /\ View

\* ExtendCluster ends the chain and returns.
Seal(t) ==
  /\ call[t].at = "link" /\ call[t].left = 0 /\ ~overrun
  /\ \E end \in {call[t].current} : \E v \in {Linked(end, EOC)} :
       \/ /\ call[t].for = "first"
          /\ vol' = Started(v, fd[t].entry, call[t].head)
          /\ fd' = [fd EXCEPT ![t].wr_cluster = call[t].head]
          /\ call' = [call EXCEPT ![t] = Resumed(t)]
       \/ /\ call[t].for = "more"
          /\ vol' = v
          /\ fd' = [fd EXCEPT ![t].wr_cluster = NextCluster(v, @), ![t].wr_cluster_off = 0]
          /\ call' = [call EXCEPT ![t] = Resumed(t)]
       \/ /\ call[t].for = "dir"
          /\ vol' = [v EXCEPT !.dir[end] =
                       [EmptyCluster EXCEPT ![1] = NewEntry(@, call[t].path)]]
          /\ Opened(t, <<end, 1>>, call[t].path)
          /\ call' = [call EXCEPT ![t] = Idle]
  /\ UNCHANGED <<got, overrun, opened>>
  /\ View

AtCopy(t) == call[t].at = "copy" /\ call[t].total < Len(call[t].data) /\ ~overrun

NextSector(t) ==
  /\ AtCopy(t)
  /\ fd[t].wr_cluster_off = bytes_per_cluster
  /\ \E next \in {NextCluster(vol, fd[t].wr_cluster)} :
       \/ /\ next = EOC
          /\ call' = [call EXCEPT ![t] =
               Extending(t, fd[t].wr_cluster, End(vol, fd[t].wr_cluster),
                         NumCluster(Len(call[t].data) - call[t].total), "more")]
          /\ UNCHANGED fd
       \/ /\ next # EOC
          /\ fd' = [fd EXCEPT ![t].wr_cluster = next, ![t].wr_cluster_off = 0]
          /\ UNCHANGED call
  /\ UNCHANGED <<vol, got, overrun, opened>>
  /\ View

\* min(len, ...), not what is left of len.
CopyLength(len, total, room) == IF len < room THEN len ELSE room

Copy(t) ==
  /\ AtCopy(t)
  /\ fd[t].wr_cluster_off < bytes_per_cluster
  /\ \E off \in {fd[t].wr_cluster_off}, from \in {call[t].total} :
     \E n \in {CopyLength(Len(call[t].data), from, bytes_per_cluster - off)} :
       /\ vol' = [vol EXCEPT !.sector[fd[t].wr_cluster] =
            [i \in DOMAIN @ |->
               IF i \notin off + 1 .. off + n THEN @[i]
               ELSE IF from + i - off \in DOMAIN call[t].data THEN call[t].data[from + i - off]
               ELSE Junk]]
       /\ call' = [call EXCEPT ![t].total = @ + n]
       /\ fd' = [fd EXCEPT ![t].wr_cluster_off = @ + n]
  /\ UNCHANGED <<got, overrun, opened>>
  /\ View

WriteReturns(t) ==
  /\ call[t].at = "copy" /\ call[t].total >= Len(call[t].data) /\ ~overrun
  /\ \E size \in {fd[t].wr_off + call[t].total} :
       /\ fd' = [fd EXCEPT ![t].wr_off = size]
       /\ vol' = [vol EXCEPT !.dir[fd[t].entry[1]][fd[t].entry[2]].size = size]
  /\ call' = [call EXCEPT ![t] = Idle]
  /\ UNCHANGED <<got, overrun, opened>>
  /\ View

Init ==
  /\ text = Volume.text
  /\ vol = [fat |-> Volume.fat, dir |-> Volume.dir, sector |-> Volume.sector]
  /\ fd = [t \in Task |-> Closed]
  /\ call = [t \in Task |-> Idle]
  /\ got = <<>>
  /\ overrun = FALSE /\ opened = 0

Next == \E t \in Task :
  \/ \E p \in Path : OpenFile(t, p) \/ CreateFile(t, p)
  \/ Close(t)
  \/ \E n \in Lengths : Read(t, n) \/ Load(t, n)
  \/ \E data \in Data : Write(t, data)
  \/ AllocateFirst(t) \/ Link(t) \/ Seal(t)
  \/ NextSector(t) \/ Copy(t) \/ WriteReturns(t)

Spec == Init /\ [][Next]_vars

(***************************************************************************)
(* Properties.                                                             *)
(***************************************************************************)
Letter == {Upper[c] : c \in DOMAIN Upper} \cup {Blank, Junk}
DirectoryEntry ==
  [name : Seq(Letter), directory : BOOLEAN, first : {0, EOC} \cup Cluster, size : Nat]
FileDescriptor ==
  [entry : Cluster \X (1 .. kSlots), path : Path,
   rd_off : Nat, rd_cluster : {0, EOC} \cup Cluster, rd_cluster_off : 0 .. bytes_per_cluster - 1,
   wr_off : Nat, wr_cluster : {0} \cup Cluster, wr_cluster_off : 0 .. bytes_per_cluster]
TypeOK ==
  /\ vol.fat \in [Cluster -> {0, EOC} \cup Cluster]
  /\ \A c \in Cluster : Len(vol.sector[c]) = bytes_per_cluster
                        /\ \A k \in 1 .. kSlots : vol.dir[c][k] \in DirectoryEntry
  /\ \A t \in Task : fd[t] \in FileDescriptor \cup {Closed}

Entries(v, c) == SE!ToSet(ListAllEntries(v, c))
\* The first clusters of all directories.
Directories ==
  LET below[k \in 0 .. Last] ==
        IF k = 0 THEN {root_cluster}
        ELSE UNION {{c} \cup {Entry(vol, s).first : s \in {e \in Entries(vol, c) : Entry(vol, e).directory}} :
                    c \in below[k - 1]}
  IN  below[Last]
DirLinked == \E u \in Active : call[u].for = "dir"

\* What has clusters: the root, an entry, or a call that has allocated some
\* and not yet entered them (AllocateClusterChain).
Owned ==
  {[by |-> None, head |-> root_cluster]} \cup
  {[by |-> s, head |-> Entry(vol, s).first] :
     s \in {e \in UNION {Entries(vol, c) : c \in Directories} : Entry(vol, e).first # 0}} \cup
  {[by |-> fd[u].entry, head |-> call[u].head] :
     u \in {v \in Active : call[v].at = "link" /\ call[v].for = "first"}}
Clusters(v, o) == SE!ToSet(Chain(v, o.head))

\* Every cluster that is not free belongs to one file or directory and comes
\* once in its chain, whatever calls are half done (ExtendCluster,
\* AllocateClusterChain, AllocateEntry).
ChainsIntact ==
  ~DirLinked =>
    \E owned \in {Owned} :
      /\ \A o, p \in owned : o # p => Clusters(vol, o) \cap Clusters(vol, p) = {}
      /\ \A c \in Cluster : vol.fat[c] # 0 => \E o \in owned : c \in Clusters(vol, o)
      /\ \A o \in owned : o.head \in Cluster /\ Cardinality(Clusters(vol, o)) = Len(Chain(vol, o.head))

\* What ls lists is found by the name ls shows, and is that very entry
\* (ListAllEntries, FormatName, NameIsEqual, SetFileName, AllocateEntry).
ListedIsFound ==
  ~DirLinked =>
    \A c \in Directories : \A s \in Entries(vol, c) :
      FindFrom(vol, <<FormatName(Entry(vol, s))>>, c).slot = s

\* Between its calls a descriptor's clusters are those of its file where its
\* offsets are; the one it writes to may be full (FileDescriptor::Read, Write).
PositionsRight ==
  \A t \in Task : fd[t] # Closed /\ call[t] = Idle =>
    \E d \in {fd[t]}, first \in {Entry(vol, fd[t].entry).first} :
      /\ d.rd_cluster_off = d.rd_off % bytes_per_cluster
      /\ d.rd_cluster \in Cluster => d.rd_cluster = Follow(vol, first, d.rd_off \div bytes_per_cluster)
      /\ (d.wr_off - d.wr_cluster_off) % bytes_per_cluster = 0
      /\ d.wr_cluster # 0 =>
           d.wr_cluster = Follow(vol, first, (d.wr_off - d.wr_cluster_off) \div bytes_per_cluster)

\* Whatever is created, extended and interrupted, the volume stays one that
\* FindFile, NextCluster, ls and open descriptors can rely on.
VolumeIsSound == TypeOK /\ ChainsIntact /\ ListedIsFound /\ PositionsRight

\* The clusters that a call has linked last and not yet marked as the end: the
\* table still shows them as free.
LinkedLast == {call[u].current : u \in {w \in Active : call[w].at = "link"}}

\* A search for a free cluster runs off the table only if there is none but the
\* one the call has itself linked last (ExtendCluster and AllocateClusterChain
\* have no upper bound).
OverrunOnlyWhenFull == overrun => \A c \in Cluster : vol.fat[c] # 0 \/ c \in LinkedLast

(***************************************************************************)
(* Files are what Files promises, whole calls being its steps.             *)
(***************************************************************************)
FilesImpl == INSTANCE Files WITH
  NoFile  <- NoFile,
  Closed  <- Closed,
  Initial <- Volume.text,
  open    <- [t \in Task |-> IF fd[t] = Closed THEN Closed
                             ELSE [file |-> UpperCase(fd[t].path),
                                   rd |-> fd[t].rd_off, wr |-> fd[t].wr_off]]
\* Every call does to the files what Files says (file.hpp, and the comments
\* of fat.hpp on FindFile and CreateFile).
ImplementsFiles == FilesImpl!FSpec
=============================================================================
